-------------------------- MODULE StreamedEventProofs --------------------------
(***************************************************************************)
(* Proofs about StreamedEvent, for every configuration, head of the chain  *)
(* and behaviour of the provider: an inductive invariant, and from it that *)
(* the blocks come out in order, each once, that a stream without an error *)
(* is complete, that an error is the last item, and that the stream        *)
(* implements OrderedQuery; then what all chunks of a stream share, the    *)
(* send slots while the provider rate limits and the size of the chunks.   *)
(***************************************************************************)
EXTENDS StreamedEvent, SequenceTheorems, FiniteSetTheorems, WellFoundedInduction, TLAPS

\* The larger and the smaller of two numbers.
LEMMA Arithmetic ==
  /\ \A a, b \in Int : AtLeast(a, b) \in Int /\ AtLeast(a, b) >= a /\ AtLeast(a, b) >= b
  /\ \A a, b \in Nat : AtLeast(a, b) \in Nat /\ AtMost(a, b) \in Nat
  /\ \A a, b \in Int : AtMost(a, b) \in Int /\ AtMost(a, b) <= a /\ AtMost(a, b) <= b
  BY DEF AtLeast, AtMost

\* At least one request may be in flight, and the stagger is a duration.
LEMMA StaggerType == Concurrency \in Nat \ {0} /\ Stagger \in Nat
<1>1. Concurrency \in Nat \ {0}
  BY ConfigAssumption DEF Concurrency, AtLeast
<1>2. QED BY <1>1, ConfigAssumption DEF Stagger

\* The order of the natural numbers is well-founded.
NatLess == {p \in Nat \X Nat : p[1] < p[2]}
LEMMA NatLessWF == IsWellFoundedOn(NatLess, Nat)
<1>1. OpToRel(<, Nat) = NatLess
  BY DEF OpToRel, NatLess
<1> QED BY <1>1, NatLessThanWellFounded

\* A set of natural numbers has a least element.
LEMMA LeastNat ==
  ASSUME NEW T \in SUBSET Nat, T # {}
  PROVE  \E n \in T : \A m \in T : n <= m
<1>1. \E n \in T : \A m \in T : ~ (<<m, n>> \in NatLess)
  <2> HIDE DEF NatLess
  <2> QED BY NatLessWF, WFMin
<1>2. PICK n \in T : \A m \in T : ~ (<<m, n>> \in NatLess)
  BY <1>1
<1>3. ASSUME NEW m \in T PROVE n <= m
  <2>1. <<m, n>> \notin NatLess
    BY <1>2
  <2>2. m < n => <<m, n>> \in NatLess
    BY DEF NatLess
  <2>3. QED BY <2>1, <2>2
<1>4. QED BY <1>3

\* A half-open range a..b holds b - a blocks, in order from a.
LEMMA BlocksType ==
  ASSUME NEW a \in Nat, NEW b \in Nat, a <= b
  PROVE  /\ Blocks(a, b) \in Seq(Nat)
         /\ Len(Blocks(a, b)) = b - a
         /\ \A k \in 1..(b - a) : Blocks(a, b)[k] = a + k - 1
<1> DEFINE n == b - a
<1>1. n \in Nat /\ \A k \in 1..n : a + k - 1 \in Nat
  OBVIOUS
<1>2. Blocks(a, b) = [k \in 1..n |-> a + k - 1]
  <2>1. n = IF a < b THEN b - a ELSE 0
    OBVIOUS
  <2>2. QED BY <2>1 DEF Blocks
<1>3. [k \in 1..n |-> a + k - 1] \in [1..n -> Nat]
  BY <1>1
<1> HIDE DEF n
<1>4. Blocks(a, b) \in Seq(Nat)
  BY <1>1, <1>2, <1>3, SeqDef
<1>5. Len(Blocks(a, b)) = n
  BY <1>1, <1>2, <1>4, LenProperties
<1>6. QED BY <1>1, <1>2, <1>4, <1>5 DEF n

\* An empty range has no blocks.
LEMMA BlocksEmpty == \A a \in Nat : Blocks(a, a) = <<>>
<1> SUFFICES ASSUME NEW a \in Nat PROVE Blocks(a, a) = <<>>
  OBVIOUS
<1>1. Blocks(a, a) \in Seq(Nat) /\ Len(Blocks(a, a)) = a - a
  <2>1. a <= a
    OBVIOUS
  <2>2. QED BY <2>1, BlocksType
<1>2. QED BY <1>1, EmptySeq

\* The blocks of two ranges that meet make up those of the whole: what a chunk
\* collects range by range, and the consumer chunk by chunk.
LEMMA BlocksConcat ==
  ASSUME NEW a \in Nat, NEW b \in Nat, NEW c \in Nat, a <= b, b <= c
  PROVE  Blocks(a, b) \o Blocks(b, c) = Blocks(a, c)
<1> DEFINE s == Blocks(a, b)  t == Blocks(b, c)  u == Blocks(a, c)
<1>s. s \in Seq(Nat) /\ Len(s) = b - a /\ \A k \in 1..(b - a) : s[k] = a + k - 1
  BY BlocksType
<1>t. t \in Seq(Nat) /\ Len(t) = c - b /\ \A k \in 1..(c - b) : t[k] = b + k - 1
  BY BlocksType
<1>u. u \in Seq(Nat) /\ Len(u) = c - a /\ \A k \in 1..(c - a) : u[k] = a + k - 1
  BY BlocksType
<1> HIDE DEF s, t, u
<1>1. /\ s \o t \in Seq(Nat)
      /\ Len(s \o t) = Len(s) + Len(t)
      /\ \A k \in 1..(Len(s) + Len(t)) :
           (s \o t)[k] = IF k <= Len(s) THEN s[k] ELSE t[k - Len(s)]
  BY <1>s, <1>t, ConcatProperties
<1>2. \A k \in 1..Len(u) : (s \o t)[k] = u[k]
  <2> SUFFICES ASSUME NEW k \in 1..Len(u) PROVE (s \o t)[k] = u[k]
    OBVIOUS
  <2>1. k \in 1..(c - a) /\ k \in 1..(Len(s) + Len(t)) /\ u[k] = a + k - 1
    BY <1>s, <1>t, <1>u
  <2>2. CASE k <= Len(s)
    <3>1. k \in 1..(b - a) /\ s[k] = a + k - 1
      BY <1>s, <2>1, <2>2
    <3>2. QED BY <1>1, <2>1, <2>2, <3>1
  <2>3. CASE ~ (k <= Len(s))
    <3>1. k - Len(s) \in 1..(c - b) /\ t[k - Len(s)] = b + (k - Len(s)) - 1
      BY <1>s, <1>t, <2>1, <2>3
    <3>2. t[k - Len(s)] = a + k - 1
      BY <1>s, <2>1, <3>1
    <3>3. QED BY <1>1, <2>1, <2>3, <3>2
  <2>4. QED BY <2>2, <2>3
<1>3. Len(s \o t) = Len(u)
  BY <1>s, <1>t, <1>u, <1>1
<1>4. s \o t = u
  BY <1>u, <1>1, <1>2, <1>3, SeqEqual
<1>5. QED BY <1>4 DEF s, t, u

\* Preparing a request (pop, then claim_slot) leaves a well-formed chunk and pause.
LEMMA RequestingType ==
  ASSUME NEW c \in ChunkType, NEW r \in SpanType, NEW rest \in Seq(SpanType),
         NEW tries \in 0..MaxRetries, NEW p \in Nat \cup {NoPause}
  PROVE  /\ Requesting(c, r, rest, tries, p) \in ChunkType
         /\ AfterClaim(p) \in Nat \cup {NoPause}
<1> DEFINE ph == IF p > 0 THEN "sleeping" ELSE "requested"
<1>1. Requesting(c, r, rest, tries, p) \in ChunkType
  <2>1. SlotWait(p) \in Nat
    BY DEF SlotWait, AtLeast, NoPause
  <2>2. ph \in {"new", "sleeping", "requested", "ready", "error"}
    OBVIOUS
  <2>3. Requesting(c, r, rest, tries, p) =
          [c EXCEPT !.range = r, !.pending = rest, !.retries = tries,
                    !.wait = SlotWait(p), !.phase = ph]
    BY DEF Requesting
  <2> HIDE DEF ph
  <2>4. QED BY <2>1, <2>2, <2>3 DEF ChunkType
<1>2. AfterClaim(p) \in Nat \cup {NoPause}
  BY StaggerType DEF AfterClaim, NoPause
<1>3. QED BY <1>1, <1>2

-----------------------------------------------------------------------------
\* A range in front of a chain: it ends where the chain starts.
LEMMA ChainedCons ==
  ASSUME NEW r \in SpanType, NEW p \in Seq(SpanType), NEW e \in Nat
  PROVE  Chained(<<r>> \o p, e) <=>
           /\ r.start < r.end
           /\ r.end = IF p = <<>> THEN e ELSE p[1].start
           /\ Chained(p, e)
<1> DEFINE s == <<r>> \o p
<1>0. <<r>> \in Seq(SpanType) /\ Len(<<r>>) = 1 /\ <<r>>[1] = r
  OBVIOUS
<1>1. /\ s \in Seq(SpanType)
      /\ Len(s) = Len(p) + 1
      /\ s[1] = r
      /\ \A k \in 1..Len(p) : s[k + 1] = p[k]
  <2>1. /\ s \in Seq(SpanType)
        /\ Len(s) = 1 + Len(p)
        /\ \A k \in 1..(1 + Len(p)) : s[k] = IF k <= 1 THEN <<r>>[k] ELSE p[k - 1]
    BY <1>0, ConcatProperties
  <2>2. Len(p) \in Nat
    OBVIOUS
  <2> HIDE DEF s
  <2>3. s[1] = r
    BY <1>0, <2>1, <2>2
  <2>4. ASSUME NEW k \in 1..Len(p) PROVE s[k + 1] = p[k]
    BY <2>1, <2>2
  <2>5. QED BY <2>1, <2>2, <2>3, <2>4
<1>2. Len(p) \in Nat /\ (p = <<>> <=> Len(p) = 0)
  BY EmptySeq
<1> HIDE DEF s
<1>3. DOMAIN s = 1..(Len(p) + 1) /\ DOMAIN p = 1..Len(p)
  BY <1>1, LenProperties
<1>4. Chained(s, e) <=>
        \A k \in 1..(Len(p) + 1) :
          /\ s[k].start < s[k].end
          /\ s[k].end = IF k = Len(p) + 1 THEN e ELSE s[k + 1].start
  BY <1>1, <1>3 DEF Chained
<1>5. Chained(p, e) <=>
        \A k \in 1..Len(p) :
          /\ p[k].start < p[k].end
          /\ p[k].end = IF k = Len(p) THEN e ELSE p[k + 1].start
  BY <1>3 DEF Chained
<1>6. ASSUME Chained(s, e)
      PROVE  /\ r.start < r.end
             /\ r.end = IF p = <<>> THEN e ELSE p[1].start
             /\ Chained(p, e)
  <2>1. r.start < r.end /\ r.end = IF p = <<>> THEN e ELSE p[1].start
    BY <1>1, <1>2, <1>4, <1>6
  <2>2. ASSUME NEW k \in 1..Len(p)
        PROVE  /\ p[k].start < p[k].end
               /\ p[k].end = IF k = Len(p) THEN e ELSE p[k + 1].start
    BY <1>1, <1>2, <1>4, <1>6
  <2>3. QED BY <1>5, <2>1, <2>2
<1>7. ASSUME r.start < r.end,
             r.end = IF p = <<>> THEN e ELSE p[1].start,
             Chained(p, e)
      PROVE  Chained(s, e)
  <2>1. ASSUME NEW k \in 1..(Len(p) + 1)
        PROVE  /\ s[k].start < s[k].end
               /\ s[k].end = IF k = Len(p) + 1 THEN e ELSE s[k + 1].start
    <3>1. CASE k = 1
      BY <1>1, <1>2, <1>7, <3>1
    <3>2. CASE k # 1
      <4>1. k - 1 \in 1..Len(p) /\ s[k] = p[k - 1]
        BY <1>1, <1>2, <3>2
      <4>2. k # Len(p) + 1 => k \in 1..Len(p) /\ s[k + 1] = p[k]
        BY <1>1, <1>2, <3>2
      <4>3. QED BY <1>2, <1>5, <1>7, <4>1, <4>2
    <3>3. QED BY <3>1, <3>2
  <2>2. QED BY <1>4, <2>1
<1>8. QED BY <1>6, <1>7 DEF s

\* A stack that is not empty is its top on the rest of it.
LEMMA ConsHeadTail ==
  ASSUME NEW p \in Seq(SpanType), p # <<>>
  PROVE  /\ Head(p) \in SpanType
         /\ Tail(p) \in Seq(SpanType)
         /\ p = <<Head(p)>> \o Tail(p)
<1>1. /\ Head(p) \in SpanType /\ Head(p) = p[1]
      /\ Tail(p) \in Seq(SpanType)
      /\ Len(Tail(p)) = Len(p) - 1
      /\ \A k \in 1..Len(Tail(p)) : Tail(p)[k] = p[k + 1]
      /\ Len(p) \in Nat \ {0}
  BY HeadTailProperties, EmptySeq
<1> DEFINE h == <<Head(p)>>  t == Tail(p)  s == h \o t
<1>2. h \in Seq(SpanType) /\ Len(h) = 1 /\ h[1] = p[1]
  BY <1>1
<1>3. t \in Seq(SpanType) /\ Len(t) = Len(p) - 1 /\ \A k \in 1..Len(t) : t[k] = p[k + 1]
  BY <1>1
<1> HIDE DEF h, t
<1>4. /\ s \in Seq(SpanType)
      /\ Len(s) = 1 + Len(t)
      /\ \A k \in 1..(1 + Len(t)) : s[k] = IF k <= 1 THEN h[k] ELSE t[k - 1]
  <2>1. /\ h \o t \in Seq(SpanType)
        /\ Len(h \o t) = Len(h) + Len(t)
        /\ \A k \in 1..(Len(h) + Len(t)) :
             (h \o t)[k] = IF k <= Len(h) THEN h[k] ELSE t[k - Len(h)]
    <3> HIDE DEF s
    <3>1. h \in Seq(SpanType) /\ t \in Seq(SpanType)
      BY <1>2, <1>3
    <3>2. QED BY <3>1, ConcatProperties
  <2>2. QED BY <1>2, <2>1
<1> HIDE DEF s
<1>5. Len(s) = Len(p)
  BY <1>1, <1>3, <1>4
<1>6. ASSUME NEW k \in 1..Len(p) PROVE s[k] = p[k]
  <2>1. CASE k = 1
    BY <1>1, <1>2, <1>3, <1>4, <2>1
  <2>2. CASE k # 1
    <3>1. k - 1 \in 1..Len(t) /\ t[k - 1] = p[(k - 1) + 1] /\ s[k] = t[k - 1]
      BY <1>1, <1>3, <1>4, <2>2
    <3>2. (k - 1) + 1 = k
      BY <1>1
    <3>3. QED BY <3>1, <3>2
  <2>3. QED BY <2>1, <2>2
<1>7. s = p
  BY <1>4, <1>5, <1>6, SeqEqual
<1>8. QED BY <1>1, <1>7 DEF s, h, t

\* Being a chain depends on where the chunks start and end alone.
LEMMA ChainedSame ==
  ASSUME NEW cs \in Seq(ChunkType), NEW ds \in Seq(ChunkType), NEW n \in Nat,
         Len(ds) = Len(cs),
         \A k \in 1..Len(cs) : ds[k].start = cs[k].start /\ ds[k].end = cs[k].end,
         Chained(cs, n)
  PROVE  Chained(ds, n)
<1>1. DOMAIN cs = 1..Len(cs) /\ DOMAIN ds = 1..Len(cs) /\ Len(cs) \in Nat
  BY LenProperties
<1>2. QED BY <1>1 DEF Chained

\* A chain without its first range is a chain (Deliver).
LEMMA ChainedTail ==
  ASSUME NEW cs \in Seq(ChunkType), NEW n \in Nat, cs # <<>>, Chained(cs, n)
  PROVE  /\ cs[1].start < cs[1].end
         /\ cs[1].end = IF Tail(cs) = <<>> THEN n ELSE Tail(cs)[1].start
         /\ Chained(Tail(cs), n)
<1> DEFINE t == Tail(cs)
<1>1. /\ t \in Seq(ChunkType)
      /\ Len(t) = Len(cs) - 1
      /\ \A k \in 1..Len(t) : t[k] = cs[k + 1]
      /\ Len(cs) \in Nat \ {0}
  <2>1. Len(cs) \in Nat \ {0}
    BY EmptySeq, LenProperties
  <2>2. cs \in Seq(ChunkType) /\ cs # <<>>
    OBVIOUS
  <2>3. t \in Seq(ChunkType) /\ Len(t) = Len(cs) - 1 /\ \A k \in 1..Len(t) : t[k] = cs[k + 1]
    BY ONLY <2>2, HeadTailProperties
  <2>4. QED BY <2>1, <2>3
<1> HIDE DEF t
<1>2. DOMAIN cs = 1..Len(cs) /\ DOMAIN t = 1..Len(t) /\ (t = <<>> <=> Len(t) = 0)
  BY <1>1, LenProperties, EmptySeq
<1>3. cs[1].start < cs[1].end /\ cs[1].end = IF t = <<>> THEN n ELSE t[1].start
  BY <1>1, <1>2 DEF Chained
<1>4. ASSUME NEW k \in 1..Len(t)
      PROVE  /\ t[k].start < t[k].end
             /\ t[k].end = IF k = Len(t) THEN n ELSE t[k + 1].start
  <2>1. k + 1 \in 1..Len(cs) /\ (k = Len(t) <=> k + 1 = Len(cs))
        /\ (k # Len(t) => k + 1 \in 1..Len(t))
    <3>1. k \in 1..Len(t) /\ Len(t) = Len(cs) - 1 /\ Len(cs) \in Nat \ {0}
      BY <1>1, Zenon
    <3>2. QED BY ONLY <3>1
  <2>2. t[k] = cs[k + 1] /\ (k # Len(t) => t[k + 1] = cs[(k + 1) + 1])
    BY <1>1, <2>1, Zenon
  <2>3. k + 1 \in DOMAIN cs
    BY <1>2, <2>1, Zenon
  <2>4. /\ cs[k + 1].start < cs[k + 1].end
        /\ cs[k + 1].end = IF k + 1 = Len(cs) THEN n ELSE cs[(k + 1) + 1].start
    BY <2>3, Zenon DEF Chained
  <2>5. QED BY ONLY <2>1, <2>2, <2>4
<1>5. Chained(t, n)
  BY <1>2, <1>4, ZenonT(60) DEF Chained
<1>6. QED BY <1>3, <1>5 DEF t

\* A chain and a range that starts where it stops are a chain (StartChunk).
LEMMA ChainedAppend ==
  ASSUME NEW cs \in Seq(ChunkType), NEW c \in ChunkType,
         c.start < c.end, Chained(cs, c.start)
  PROVE  Chained(Append(cs, c), c.end)
<1> DEFINE s == Append(cs, c)
<1>1. /\ s \in Seq(ChunkType)
      /\ Len(s) = Len(cs) + 1
      /\ \A k \in 1..Len(cs) : s[k] = cs[k]
      /\ s[Len(cs) + 1] = c
  BY AppendProperties
<1>0. s[Len(cs) + 1] = c
  OBVIOUS
<1> HIDE DEF s
<1>2. DOMAIN cs = 1..Len(cs) /\ DOMAIN s = 1..(Len(cs) + 1) /\ Len(cs) \in Nat
  BY <1>1, LenProperties
<1>3. ASSUME NEW k \in 1..(Len(cs) + 1)
      PROVE  /\ s[k].start < s[k].end
             /\ s[k].end = IF k = Len(cs) + 1 THEN c.end ELSE s[k + 1].start
  <2>1. CASE k = Len(cs) + 1
    <3>1. s[k] = c
      BY ONLY <1>0, <2>1
    <3>2. QED BY <2>1, <3>1, Zenon
  <2>2. CASE k = Len(cs)
    <3>1. k \in 1..Len(cs) /\ s[k] = cs[k] /\ s[k + 1] = c
      BY <1>1, <1>2, <2>2
    <3>2. QED BY <1>2, <2>2, <3>1, ZenonT(60) DEF Chained
  <2>3. CASE k < Len(cs)
    <3>1. k \in 1..Len(cs) /\ s[k] = cs[k] /\ s[k + 1] = cs[k + 1]
      BY <1>1, <1>2, <2>3
    <3>2. QED BY <1>2, <2>3, <3>1 DEF Chained
  <2>4. k = Len(cs) + 1 \/ k = Len(cs) \/ k < Len(cs)
    <3>1. Len(cs) \in Nat
      BY <1>2
    <3> QED BY <3>1
  <2>5. QED BY <2>1, <2>2, <2>3, <2>4
<1>4. Chained(s, c.end)
  BY <1>1, <1>2, <1>3 DEF Chained
<1>5. QED BY <1>4 DEF s

-----------------------------------------------------------------------------
\* The cursor never leaves the range, unless the range was empty from the start.
CursorInRange ==
  status \in {"streaming", "done"} =>
    first <= cursor /\ (cursor <= end \/ cursor = first)

\* Nothing has been fetched while the bounds are resolved.
Resolving ==
  status \in {"resolve_from", "resolve_to"} =>
    chunks = <<>> /\ out = <<>> /\ cursor = first

\* No chunk reaches past the range.
ChunksInRange == \A i \in DOMAIN chunks : chunks[i].end <= end

\* The inductive invariant.  DeliveredPrefix alone is not inductive: that the
\* next delivery continues it needs the chunks to lie end to end and each
\* chunk's logs, range and stack to make up the chunk.
IInv ==
  /\ TypeOK
  /\ Resolving
  /\ CursorInRange
  /\ ChunksTile
  /\ ChunksInRange
  /\ chunks # <<>> => first <= chunks[1].start
  /\ WorkPartition
  /\ DeliveredPrefix
  /\ status = "done" => chunks = <<>> /\ cursor >= end

\* A step that replaces one chunk by another with the same bounds, whose work
\* fits those bounds, keeps the invariant: every step of query_chunk is of this kind.
LEMMA ChunkUpdate ==
  ASSUME IInv, NEW i \in DOMAIN chunks, NEW c \in ChunkType,
         c.start = chunks[i].start, c.end = chunks[i].end, WorkOf(c),
         chunks' = [chunks EXCEPT ![i] = c],
         UNCHANGED <<first, end, out, status, cursor>>,
         size' \in Nat \ {0}, delay' \in Nat, paused' \in Nat \cup {NoPause}
  PROVE  IInv'
<1>1. /\ chunks \in Seq(ChunkType)
      /\ DOMAIN chunks = 1..Len(chunks)
      /\ Len(chunks) \in Nat
      /\ cursor \in Nat
  BY LenProperties DEF IInv, TypeOK
<1>2. /\ chunks' \in Seq(ChunkType)
      /\ Len(chunks') = Len(chunks)
      /\ \A k \in 1..Len(chunks) :
           chunks'[k] = IF k = i THEN c ELSE chunks[k]
  BY <1>1, ExceptSeq
<1>3. TypeOK'
  BY <1>2 DEF IInv, TypeOK
<1>4. DOMAIN chunks' = 1..Len(chunks) /\ (chunks = <<>> <=> chunks' = <<>>)
  BY <1>1, <1>2, LenProperties, EmptySeq
<1>5. \A k \in 1..Len(chunks) :
        chunks'[k].start = chunks[k].start /\ chunks'[k].end = chunks[k].end
  BY <1>1, <1>2
<1>6. ChunksTile'
  <2>1. Chained(chunks', cursor)
    BY <1>1, <1>2, <1>5, ChainedSame DEF IInv, ChunksTile
  <2>2. QED BY <2>1 DEF ChunksTile
<1>7. WorkPartition'
  BY <1>1, <1>2, <1>4 DEF IInv, WorkPartition
<1>8. chunks # <<>> => 1 \in 1..Len(chunks)
  BY <1>1, EmptySeq
<1>9. Oldest' = Oldest /\ (chunks' # <<>> => chunks'[1].start = chunks[1].start)
  BY <1>4, <1>5, <1>8 DEF Oldest
<1>10. (DeliveredPrefix)'
  BY <1>9 DEF IInv, DeliveredPrefix
<1>11. ChunksInRange'
  BY <1>1, <1>4, <1>5 DEF IInv, ChunksInRange
<1>12. QED
  BY <1>3, <1>4, <1>6, <1>7, <1>9, <1>10, <1>11 DEF IInv, Resolving, CursorInRange

\* Preparing a request changes neither the bounds nor the logs of the chunk.
LEMMA RequestingFields ==
  ASSUME NEW c \in ChunkType, NEW r, NEW rest, NEW tries, NEW p
  PROVE  LET d == Requesting(c, r, rest, tries, p)
         IN  /\ d.start = c.start /\ d.end = c.end
             /\ d.range = r /\ d.pending = rest /\ d.logs = c.logs
             /\ d.phase \in {"sleeping", "requested"}
BY DEF Requesting, ChunkType

\* What the invariant says of one chunk.
LEMMA ChunkAt ==
  ASSUME IInv, NEW i \in DOMAIN chunks
  PROVE  chunks[i] \in ChunkType /\ WorkOf(chunks[i])
<1>1. chunks \in Seq(ChunkType)
  BY DEF IInv, TypeOK
<1>2. chunks[i] \in ChunkType
  BY <1>1, ElementOfSeq, LenProperties
<1>3. QED BY <1>2 DEF IInv, WorkPartition

\* The first poll of a chunk keeps the invariant.
LEMMA BeginStep ==
  ASSUME IInv, NEW i \in DOMAIN chunks, Begin(i)
  PROVE  IInv'
<1> DEFINE c == chunks[i]
           d == Requesting(c, c.range, c.pending, 0, paused)
<1>1. c \in ChunkType /\ paused \in Nat \cup {NoPause} /\ WorkOf(c) /\ c.phase = "new"
  BY ChunkAt DEF IInv, TypeOK, Begin, Polled
<1> HIDE DEF c
<1>2. c.range \in SpanType /\ c.pending \in Seq(SpanType) /\ 0 \in 0..MaxRetries
  BY <1>1, ConfigAssumption DEF ChunkType
<1>3. d \in ChunkType /\ AfterClaim(paused) \in Nat \cup {NoPause}
  BY <1>1, <1>2, RequestingType
<1>4. /\ d.start = c.start /\ d.end = c.end
      /\ d.range = c.range /\ d.pending = c.pending /\ d.logs = c.logs
      /\ d.phase \in {"sleeping", "requested"}
  BY <1>1, RequestingFields
<1>5. chunks' = [chunks EXCEPT ![i] = d]
  BY DEF Begin, c
<1> HIDE DEF d
<1>6. WorkOf(d)
  BY <1>1, <1>4 DEF WorkOf, WorkLeft
<1>7. QED
  BY <1>1, <1>3, <1>4, <1>5, <1>6, ChunkUpdate DEF Begin, rangeVars, IInv, TypeOK, c

\* Sending a request after its pause keeps the invariant.
LEMMA WakeStep ==
  ASSUME IInv, NEW i \in DOMAIN chunks, Wake(i)
  PROVE  IInv'
<1> DEFINE c == chunks[i]
           d == [c EXCEPT !.phase = "requested"]
<1>1. c \in ChunkType /\ WorkOf(c) /\ c.phase = "sleeping"
  BY ChunkAt DEF Wake, Polled
<1>2. chunks' = [chunks EXCEPT ![i] = d]
  BY DEF Wake
<1> HIDE DEF c
<1>3. d \in ChunkType /\ d.start = c.start /\ d.end = c.end
  BY <1>1 DEF ChunkType
<1>4. WorkOf(d)
  BY <1>1 DEF WorkOf, WorkLeft, ChunkType
<1> HIDE DEF d
<1>5. QED
  BY <1>2, <1>3, <1>4, ChunkUpdate DEF Wake, rangeVars, sharedVars, IInv, TypeOK, c

\* A chunk that gives up keeps the invariant.
LEMMA AbandonStep ==
  ASSUME IInv, NEW i \in DOMAIN chunks, Abandon(i)
  PROVE  IInv'
<1> DEFINE c == chunks[i]
           d == [c EXCEPT !.phase = "error"]
<1>1. c \in ChunkType /\ WorkOf(c) /\ c.phase = "requested"
  BY ChunkAt DEF Abandon, Polled
<1>2. chunks' = [chunks EXCEPT ![i] = d]
  BY DEF Abandon
<1> HIDE DEF c
<1>3. d \in ChunkType /\ d.start = c.start /\ d.end = c.end
  BY <1>1 DEF ChunkType
<1>4. WorkOf(d)
  BY <1>1 DEF WorkOf, WorkLeft, ChunkType
<1> HIDE DEF d
<1>5. QED
  BY <1>2, <1>3, <1>4, ChunkUpdate DEF Abandon, rangeVars, sharedVars, IInv, TypeOK, c

\* A rate limit, which asks for the same range again, keeps the invariant.
LEMMA RateLimitedStep ==
  ASSUME IInv, NEW i \in DOMAIN chunks, RateLimited(i)
  PROVE  IInv'
<1> DEFINE c == chunks[i]
<1>1. c \in ChunkType /\ WorkOf(c) /\ c.phase = "requested"
  BY ChunkAt DEF RateLimited, Polled
<1>2. PICK hint \in Hints :
        /\ chunks' = [chunks EXCEPT ![i] =
             Requesting(c, c.range, c.pending, c.retries + 1, PauseFor(hint))]
        /\ paused' = AfterClaim(PauseFor(hint))
  BY DEF RateLimited
<1> DEFINE p == PauseFor(hint)
           d == Requesting(c, c.range, c.pending, c.retries + 1, p)
<1>3. p \in Nat \cup {NoPause}
  BY ProviderAssumption DEF IInv, TypeOK, PauseFor, AtLeast, NoPause
<1>4. delay' \in Nat
  BY ConfigAssumption DEF RateLimited, NextDelay, AtMost, IInv, TypeOK
<1>5. c.retries < MaxRetries
  BY DEF RateLimited, WithinBudget
<1>6. /\ chunks' = [chunks EXCEPT ![i] = d]
      /\ paused' = AfterClaim(p)
  BY <1>2
<1> HIDE DEF c, p
<1>7. c.range \in SpanType /\ c.pending \in Seq(SpanType) /\ c.retries + 1 \in 0..MaxRetries
  BY <1>1, <1>5, ConfigAssumption DEF ChunkType
<1>8. d \in ChunkType /\ AfterClaim(p) \in Nat \cup {NoPause}
  BY <1>1, <1>3, <1>7, RequestingType
<1>9. /\ d.start = c.start /\ d.end = c.end
      /\ d.range = c.range /\ d.pending = c.pending /\ d.logs = c.logs
      /\ d.phase \in {"sleeping", "requested"}
  BY <1>1, RequestingFields
<1> HIDE DEF d
<1>10. WorkOf(d)
  BY <1>1, <1>9 DEF WorkOf, WorkLeft
<1>11. QED
  BY <1>4, <1>6, <1>8, <1>9, <1>10, ChunkUpdate
     DEF RateLimited, rangeVars, IInv, TypeOK, c

\* An answer moves the asked range to the logs and the top of the stack to the
\* asked range, which keeps the invariant.
LEMMA SucceedStep ==
  ASSUME IInv, NEW i \in DOMAIN chunks, Succeed(i)
  PROVE  IInv'
<1> DEFINE b == chunks[i]
           c == Collected(b)
<1>1. b \in ChunkType /\ WorkOf(b) /\ b.phase = "requested"
  BY ChunkAt DEF Succeed, Polled
<1>2. /\ delay' \in Nat
      /\ \/ /\ c.pending = <<>>
            /\ chunks' = [chunks EXCEPT ![i] = [c EXCEPT !.phase = "ready"]]
            /\ UNCHANGED paused
         \/ /\ c.pending # <<>>
            /\ chunks' = [chunks EXCEPT ![i] =
                 Requesting(c, Head(c.pending), Tail(c.pending), 0, paused)]
            /\ paused' = AfterClaim(paused)
  BY ConfigAssumption DEF Succeed, IInv, TypeOK
<1>3. b.start = chunks[i].start /\ b.end = chunks[i].end
  OBVIOUS
<1> HIDE DEF b
<1>4. /\ WorkLeft(b)
      /\ b.range \in SpanType /\ b.pending \in Seq(SpanType)
      /\ b.start \in Nat /\ b.end \in Nat /\ b.logs \in Seq(Nat)
  BY <1>1 DEF WorkOf, ChunkType
<1>5. b.range.start \in Nat /\ b.range.end \in Nat
  BY <1>4 DEF SpanType
<1>6. /\ b.range.start < b.range.end
      /\ b.range.end = IF b.pending = <<>> THEN b.end ELSE b.pending[1].start
      /\ Chained(b.pending, b.end)
  BY <1>4, ChainedCons DEF WorkLeft
<1>7. b.logs \o Blocks(b.range.start, b.range.end) = Blocks(b.start, b.range.end)
  <2>1. b.logs = Blocks(b.start, b.range.start) /\ b.start <= b.range.start
    BY <1>4 DEF WorkLeft
  <2>2. b.range.start <= b.range.end
    BY <1>5, <1>6
  <2>3. b.start \in Nat
    BY <1>4
  <2>4. Blocks(b.start, b.range.start) \o Blocks(b.range.start, b.range.end)
          = Blocks(b.start, b.range.end)
    BY <1>5, <2>1, <2>2, <2>3, BlocksConcat
  <2>5. QED BY <2>1, <2>4
<1>8. Blocks(b.start, b.range.end) \in Seq(Nat)
  <2>1. b.start <= b.range.end
    BY <1>4, <1>5, <1>6 DEF WorkLeft
  <2>2. QED BY <1>4, <1>5, <2>1, BlocksType
<1>9. /\ c \in ChunkType
      /\ c.start = b.start /\ c.end = b.end /\ c.pending = b.pending
      /\ c.logs = Blocks(b.start, b.range.end)
  BY <1>1, <1>7, <1>8 DEF Collected, ChunkType
<1> HIDE DEF c
<1>10. CASE c.pending = <<>>
  <2> DEFINE d == [c EXCEPT !.phase = "ready"]
  <2>1. chunks' = [chunks EXCEPT ![i] = d] /\ paused' = paused
    BY <1>2, <1>10
  <2>2. d \in ChunkType /\ d.start = c.start /\ d.end = c.end /\ d.logs = c.logs
        /\ d.phase = "ready"
    BY <1>9 DEF ChunkType
  <2> HIDE DEF d
  <2>3. WorkOf(d)
    BY <1>6, <1>9, <1>10, <2>2 DEF WorkOf
  <2>4. QED
    BY <1>2, <1>3, <1>9, <2>1, <2>2, <2>3, ChunkUpdate
       DEF Succeed, rangeVars, IInv, TypeOK
<1>11. CASE c.pending # <<>>
  <2> DEFINE r == Head(c.pending)
             t == Tail(c.pending)
             d == Requesting(c, r, t, 0, paused)
  <2>1. chunks' = [chunks EXCEPT ![i] = d] /\ paused' = AfterClaim(paused)
    BY <1>2, <1>11
  <2>2. /\ r \in SpanType /\ t \in Seq(SpanType) /\ c.pending = <<r>> \o t
        /\ r = c.pending[1]
    BY <1>4, <1>9, <1>11, ConsHeadTail
  <2>3. paused \in Nat \cup {NoPause} /\ 0 \in 0..MaxRetries
    BY ConfigAssumption DEF IInv, TypeOK
  <2> HIDE DEF r, t
  <2>4. d \in ChunkType /\ AfterClaim(paused) \in Nat \cup {NoPause}
    BY <1>9, <2>2, <2>3, RequestingType
  <2>5. /\ d.start = c.start /\ d.end = c.end
        /\ d.range = r /\ d.pending = t /\ d.logs = c.logs
        /\ d.phase \in {"sleeping", "requested"}
    BY <1>9, RequestingFields
  <2> HIDE DEF d
  <2>6. WorkLeft(d)
    <3>1. r.start = b.range.end
      BY <1>6, <1>9, <1>11, <2>2
    <3>2. d.start <= d.range.start
      BY <1>4, <1>5, <1>6, <1>9, <2>5, <3>1 DEF WorkLeft
    <3>3. Chained(<<d.range>> \o d.pending, d.end)
      BY <1>6, <1>9, <2>2, <2>5
    <3>4. QED BY <1>9, <2>5, <3>1, <3>2, <3>3 DEF WorkLeft
  <2>7. WorkOf(d)
    BY <2>5, <2>6 DEF WorkOf
  <2>8. QED
    BY <1>2, <1>3, <1>9, <2>1, <2>4, <2>5, <2>7, ChunkUpdate
       DEF Succeed, rangeVars, IInv, TypeOK
<1>12. QED BY <1>10, <1>11

\* Halving the asked range keeps the invariant: the halves meet in the middle.
LEMMA SplitStep ==
  ASSUME IInv, NEW i \in DOMAIN chunks, Split(i)
  PROVE  IInv'
<1> DEFINE c == chunks[i]
           r == c.range
           mid == Middle(r)
           left == Halves(r)[1]
           right == Halves(r)[2]
           rest == <<right>> \o c.pending
           d == Requesting(c, left, rest, 0, paused)
<1>1. c \in ChunkType /\ WorkOf(c) /\ c.phase = "requested"
  BY ChunkAt DEF Split, Polled
<1>2. /\ chunks' = [chunks EXCEPT ![i] = d]
      /\ size' = Shrunk(mid - r.start)
      /\ paused' = AfterClaim(paused)
      /\ Width(r) > 1
      /\ UNCHANGED <<first, end, out, status, cursor, delay>>
  BY DEF Split, rangeVars
<1>3. c.start = chunks[i].start /\ c.end = chunks[i].end
  OBVIOUS
<1> HIDE DEF c
<1>4. /\ WorkLeft(c)
      /\ r \in SpanType /\ c.pending \in Seq(SpanType)
      /\ c.start \in Nat /\ c.end \in Nat
  BY <1>1 DEF WorkOf, ChunkType
<1>5. r.start \in Nat /\ r.end \in Nat
  BY <1>4 DEF SpanType
<1>6. /\ mid \in Nat /\ r.start < mid /\ mid < r.end
  BY <1>2, <1>5 DEF Width, Middle
<1>m. left = Span(r.start, mid) /\ right = Span(mid, r.end)
  BY DEF Halves
<1> HIDE DEF mid, left, right
<1>7. left \in SpanType /\ right \in SpanType
  BY <1>5, <1>6, <1>m DEF Span, SpanType
<1>8. /\ left.start = r.start /\ left.end = mid
      /\ right.start = mid /\ right.end = r.end
  BY <1>m DEF Span
<1>9. /\ r.end = IF c.pending = <<>> THEN c.end ELSE c.pending[1].start
      /\ Chained(c.pending, c.end)
  BY <1>4, ChainedCons DEF WorkLeft
<1>10. c.start <= r.start /\ c.logs = Blocks(c.start, r.start)
  BY <1>4 DEF WorkLeft
<1> HIDE DEF r
<1>11. Chained(rest, c.end)
  BY <1>4, <1>6, <1>7, <1>8, <1>9, ChainedCons
<1>12. rest \in Seq(SpanType) /\ rest # <<>> /\ rest[1] = right
  <2>1. <<right>> \in Seq(SpanType) /\ Len(<<right>>) = 1 /\ <<right>>[1] = right
    BY <1>7
  <2>2. Len(c.pending) \in Nat
    BY <1>4
  <2>3. /\ rest \in Seq(SpanType)
        /\ Len(rest) = Len(<<right>>) + Len(c.pending)
        /\ \A k \in 1..(Len(<<right>>) + Len(c.pending)) :
             rest[k] = IF k <= Len(<<right>>) THEN <<right>>[k]
                       ELSE c.pending[k - Len(<<right>>)]
    BY <1>4, <2>1, ConcatProperties
  <2> HIDE DEF rest
  <2>4. Len(rest) = 1 + Len(c.pending) /\ rest[1] = right
    BY <2>1, <2>2, <2>3
  <2>5. QED BY <2>2, <2>3, <2>4, EmptySeq
<1> HIDE DEF rest
<1>13. Chained(<<left>> \o rest, c.end)
  BY <1>4, <1>6, <1>7, <1>8, <1>11, <1>12, ChainedCons
<1>14. paused \in Nat \cup {NoPause} /\ 0 \in 0..MaxRetries
  BY ConfigAssumption DEF IInv, TypeOK
<1>15. d \in ChunkType /\ AfterClaim(paused) \in Nat \cup {NoPause}
  BY <1>1, <1>7, <1>12, <1>14, RequestingType
<1>16. /\ d.start = c.start /\ d.end = c.end
       /\ d.range = left /\ d.pending = rest /\ d.logs = c.logs
       /\ d.phase \in {"sleeping", "requested"}
  BY <1>1, RequestingFields
<1> HIDE DEF d
<1>17. WorkOf(d)
  BY <1>8, <1>10, <1>13, <1>16 DEF WorkOf, WorkLeft
<1>18. size' \in Nat \ {0}
  BY <1>2, <1>5, <1>6 DEF Shrunk, AtLeast, AtMost, IInv, TypeOK
<1>19. QED
  BY <1>2, <1>3, <1>15, <1>16, <1>17, <1>18, ChunkUpdate DEF IInv, TypeOK

\* A chunk started at the cursor continues the chain of chunks.
LEMMA StartChunkStep ==
  ASSUME IInv, StartChunk
  PROVE  IInv'
<1> DEFINE stop == AtMost(cursor + size, end)
           c == NewChunk(cursor, stop)
<1>1. /\ chunks \in Seq(ChunkType) /\ cursor \in Nat /\ end \in Nat /\ first \in Nat
      /\ size \in Nat \ {0}
  BY DEF IInv, TypeOK
<1>2. cursor < end /\ status = "streaming"
  BY <1>1 DEF StartChunk, Filled, Exhausted
<1>3. stop \in Nat /\ cursor < stop /\ stop <= end
  BY <1>1, <1>2 DEF AtMost
<1>4. chunks' = Append(chunks, c) /\ cursor' = stop
      /\ UNCHANGED <<first, end, out, status, size, delay, paused>>
  BY DEF StartChunk, rangeVars, sharedVars
<1> HIDE DEF stop
<1>5. Span(cursor, stop) \in SpanType
  BY <1>1, <1>3 DEF Span, SpanType
<1>6. /\ c \in ChunkType
      /\ c.start = cursor /\ c.end = stop /\ c.range = Span(cursor, stop)
      /\ c.pending = <<>> /\ c.logs = <<>> /\ c.phase = "new"
  BY <1>1, <1>3, <1>5, ConfigAssumption, EmptySeq DEF NewChunk, ChunkType
<1> HIDE DEF c
<1>7. WorkOf(c)
  <2>1. c.range.start = cursor /\ c.range.end = stop
    BY <1>6 DEF Span
  <2>2. Blocks(cursor, cursor) = <<>>
    BY <1>1, BlocksEmpty
  <2>3. Chained(c.pending, stop)
    BY <1>6 DEF Chained
  <2>4. Chained(<<c.range>> \o c.pending, c.end)
    <3>1. c.range \in SpanType /\ c.pending \in Seq(SpanType)
      BY <1>5, <1>6, EmptySeq
    <3>2. /\ c.range.start < c.range.end
          /\ c.range.end = IF c.pending = <<>> THEN stop ELSE c.pending[1].start
      BY <1>3, <1>6, <2>1
    <3>3. Chained(<<c.range>> \o c.pending, stop)
      BY <1>3, <2>3, <3>1, <3>2, ChainedCons
    <3>4. QED BY <1>6, <3>3
  <2>5. QED BY <1>1, <1>6, <2>1, <2>2, <2>4 DEF WorkOf, WorkLeft
<1>8. /\ chunks' \in Seq(ChunkType)
      /\ chunks' # <<>>
      /\ Len(chunks') = Len(chunks) + 1
      /\ \A k \in 1..Len(chunks) : chunks'[k] = chunks[k]
      /\ chunks'[Len(chunks) + 1] = c
      /\ Len(chunks) \in Nat
      /\ DOMAIN chunks = 1..Len(chunks)
      /\ DOMAIN chunks' = 1..(Len(chunks) + 1)
  BY <1>1, <1>4, <1>6, AppendProperties, LenProperties
<1>9. TypeOK'
  BY <1>3, <1>4, <1>8 DEF IInv, TypeOK
<1>10. ChunksTile'
  <2>1. Chained(Append(chunks, c), c.end)
    BY <1>1, <1>3, <1>6, ChainedAppend DEF IInv, ChunksTile
  <2>2. QED BY <1>4, <1>6, <2>1 DEF ChunksTile
<1>11. WorkPartition'
  <2>1. ASSUME NEW k \in 1..(Len(chunks) + 1) PROVE WorkOf(chunks'[k])
    <3>1. CASE k = Len(chunks) + 1
      BY <1>7, <1>8, <3>1
    <3>2. CASE k # Len(chunks) + 1
      <4>1. k \in 1..Len(chunks)
        BY <1>8, <3>2
      <4>2. QED BY <1>8, <4>1 DEF IInv, WorkPartition
    <3>3. QED BY <3>1, <3>2
  <2>2. QED BY <1>8, <2>1 DEF WorkPartition
<1>12. chunks'[1].start = Oldest
  <2>1. CASE chunks = <<>>
    BY <1>6, <1>8, <2>1 DEF Oldest
  <2>2. CASE chunks # <<>>
    <3>1. 1 \in 1..Len(chunks)
      BY <1>1, <1>8, <2>2, EmptySeq
    <3>2. QED BY <1>8, <2>2, <3>1 DEF Oldest
  <2>3. QED BY <2>1, <2>2
<1>13. DeliveredPrefix'
  BY <1>2, <1>4, <1>8, <1>12 DEF IInv, DeliveredPrefix, Oldest
<1>14. first <= chunks'[1].start
  BY <1>2, <1>12 DEF IInv, CursorInRange, Oldest
<1>15. ChunksInRange'
  <2>1. ASSUME NEW k \in 1..(Len(chunks) + 1) PROVE chunks'[k].end <= end
    <3>1. CASE k = Len(chunks) + 1
      BY <1>3, <1>6, <1>8, <3>1
    <3>2. CASE k # Len(chunks) + 1
      <4>1. k \in 1..Len(chunks)
        BY <1>8, <3>2
      <4>2. QED BY <1>8, <4>1 DEF IInv, ChunksInRange
    <3>3. QED BY <3>1, <3>2
  <2>2. QED BY <1>4, <1>8, <2>1 DEF ChunksInRange
<1>16. QED
  BY <1>1, <1>2, <1>3, <1>4, <1>9, <1>10, <1>11, <1>13, <1>14, <1>15
     DEF IInv, Resolving, CursorInRange

\* Delivering the oldest chunk continues the consumer's blocks.
LEMMA DeliverStep ==
  ASSUME IInv, Deliver
  PROVE  IInv'
<1> DEFINE c == chunks[1]
<1>1. /\ chunks \in Seq(ChunkType) /\ chunks # <<>>
      /\ cursor \in Nat /\ first \in Nat
      /\ status = "streaming" /\ c.phase = "ready"
  BY DEF IInv, TypeOK, Deliver, Polled
<1>2. 1 \in DOMAIN chunks
  BY <1>1, EmptySeq, LenProperties
<1>3. c \in ChunkType /\ c.logs = Blocks(c.start, c.end)
  BY <1>1, <1>2, ChunkAt DEF WorkOf
<1>4. /\ out' = out \o c.logs
      /\ chunks' = Tail(chunks)
      /\ UNCHANGED <<first, end, status, cursor, size, delay, paused>>
  BY DEF Deliver, rangeVars, sharedVars
<1>5. /\ c.start < c.end
      /\ c.end = IF Tail(chunks) = <<>> THEN cursor ELSE Tail(chunks)[1].start
      /\ Chained(Tail(chunks), cursor)
  BY <1>1, ChainedTail DEF IInv, ChunksTile
<1>6. out = Blocks(first, c.start) /\ first <= c.start
  BY <1>1 DEF IInv, DeliveredPrefix, Oldest
<1> HIDE DEF c
<1>7. c.start \in Nat /\ c.end \in Nat
  BY <1>3 DEF ChunkType
<1>8. out' = Blocks(first, c.end)
  <2>1. c.start <= c.end
    BY <1>5, <1>7, SMTT(30)
  <2>2. Blocks(first, c.start) \o Blocks(c.start, c.end) = Blocks(first, c.end)
    BY <1>1, <1>6, <1>7, <2>1, BlocksConcat
  <2>3. QED BY <1>3, <1>4, <1>6, <2>2
<1>9. first <= c.end
  BY <1>1, <1>5, <1>6, <1>7
<1>10. c.end = Oldest'
  BY <1>4, <1>5 DEF Oldest
<1>11. /\ chunks' \in Seq(ChunkType)
       /\ Len(chunks') = Len(chunks) - 1
       /\ \A k \in 1..Len(chunks') : chunks'[k] = chunks[k + 1]
       /\ Len(chunks) \in Nat
  BY <1>1, <1>4, HeadTailProperties
<1>12. TypeOK'
  <2>1. out' \in Seq(Nat)
    BY <1>1, <1>7, <1>8, <1>9, BlocksType
  <2>2. QED BY <1>4, <1>11, <2>1 DEF IInv, TypeOK
<1>13. WorkPartition'
  <2>1. DOMAIN chunks' = 1..Len(chunks') /\ DOMAIN chunks = 1..Len(chunks)
    BY <1>1, <1>11, LenProperties
  <2>2. ASSUME NEW k \in DOMAIN chunks' PROVE WorkOf(chunks'[k])
    <3>1. k + 1 \in DOMAIN chunks /\ chunks'[k] = chunks[k + 1]
      BY <1>11, <2>1
    <3>2. QED BY <3>1 DEF IInv, WorkPartition
  <2>3. QED BY <2>2 DEF WorkPartition
<1>14. ChunksTile'
  BY <1>4, <1>5 DEF ChunksTile
<1>15. DeliveredPrefix'
  BY <1>8, <1>10, <1>4 DEF DeliveredPrefix
<1>16. chunks' # <<>> => first' <= chunks'[1].start
  BY <1>4, <1>9, <1>10 DEF Oldest
<1>17. ChunksInRange'
  <2>1. DOMAIN chunks' = 1..Len(chunks') /\ DOMAIN chunks = 1..Len(chunks)
    BY <1>1, <1>11, LenProperties
  <2>2. ASSUME NEW k \in DOMAIN chunks' PROVE chunks'[k].end <= end
    <3>1. k + 1 \in DOMAIN chunks /\ chunks'[k] = chunks[k + 1]
      BY <1>11, <2>1
    <3>2. QED BY <3>1 DEF IInv, ChunksInRange
  <2>3. QED BY <1>4, <2>2 DEF ChunksInRange
<1>18. QED
  BY <1>1, <1>4, <1>12, <1>13, <1>14, <1>15, <1>16, <1>17 DEF IInv, Resolving, CursorInRange

\* The passing of time keeps the invariant.
LEMMA TickStep ==
  ASSUME IInv, Tick
  PROVE  IInv'
<1>1. /\ chunks \in Seq(ChunkType)
      /\ DOMAIN chunks = 1..Len(chunks)
      /\ Len(chunks) \in Nat
      /\ cursor \in Nat
  BY LenProperties DEF IInv, TypeOK
<1> DEFINE e(k) == [chunks[k] EXCEPT !.wait = AtLeast(@ - 1, 0)]
<1>2. ASSUME NEW k \in DOMAIN chunks
      PROVE  /\ e(k) \in ChunkType
             /\ e(k).start = chunks[k].start /\ e(k).end = chunks[k].end
             /\ WorkOf(e(k))
  <2> DEFINE c == chunks[k]
             d == [c EXCEPT !.wait = AtLeast(@ - 1, 0)]
  <2>1. c \in ChunkType /\ WorkOf(c)
    BY ChunkAt
  <2> HIDE DEF c
  <2>2. d \in ChunkType
    <3>1. AtLeast(c.wait - 1, 0) \in Nat
      BY <2>1 DEF ChunkType, AtLeast
    <3>2. QED BY <2>1, <3>1 DEF ChunkType
  <2>3. d.start = c.start /\ d.end = c.end /\ WorkOf(d)
    BY <2>1 DEF ChunkType, WorkOf, WorkLeft
  <2>4. QED BY <2>2, <2>3 DEF c
<1>3. chunks' = [k \in 1..Len(chunks) |-> e(k)]
  BY <1>1 DEF Tick
<1> HIDE DEF e
<1>4. chunks' \in Seq(ChunkType) /\ Len(chunks') = Len(chunks)
  <2>1. chunks' \in [1..Len(chunks) -> ChunkType]
    BY <1>1, <1>2, <1>3
  <2>2. chunks' \in Seq(ChunkType)
    BY <1>1, <2>1, SeqDef
  <2>3. QED BY <1>1, <2>1, <2>2, LenProperties
<1>5. \A k \in 1..Len(chunks) :
        /\ chunks'[k].start = chunks[k].start /\ chunks'[k].end = chunks[k].end
        /\ WorkOf(chunks'[k])
  BY <1>1, <1>2, <1>3
<1>6. UNCHANGED <<first, end, out, status, cursor, size, delay>>
  BY DEF Tick, rangeVars
<1>7. TypeOK'
  <2>1. paused' \in Nat \cup {NoPause}
    BY DEF Tick, IInv, TypeOK, NoPause
  <2>2. QED BY <1>4, <1>6, <2>1 DEF IInv, TypeOK
<1>8. DOMAIN chunks' = 1..Len(chunks) /\ (chunks = <<>> <=> chunks' = <<>>)
  BY <1>1, <1>4, LenProperties, EmptySeq
<1>9. ChunksTile'
  <2>1. Chained(chunks', cursor)
    BY <1>1, <1>4, <1>5, ChainedSame DEF IInv, ChunksTile
  <2>2. QED BY <1>6, <2>1 DEF ChunksTile
<1>10. WorkPartition'
  BY <1>5, <1>8 DEF WorkPartition
<1>11. chunks # <<>> => 1 \in 1..Len(chunks)
  BY <1>1, EmptySeq
<1>12. Oldest' = Oldest /\ (chunks' # <<>> => chunks'[1].start = chunks[1].start)
  BY <1>5, <1>6, <1>8, <1>11 DEF Oldest
<1>13. DeliveredPrefix'
  BY <1>6, <1>12 DEF IInv, DeliveredPrefix
<1>14. ChunksInRange'
  BY <1>1, <1>5, <1>6, <1>8 DEF IInv, ChunksInRange
<1>15. QED
  BY <1>6, <1>7, <1>8, <1>9, <1>10, <1>12, <1>13, <1>14 DEF IInv, Resolving, CursorInRange

\* The invariant holds before the stream is polled.
LEMMA InitIInv == Init => IInv
<1> SUFFICES ASSUME Init PROVE IInv
  OBVIOUS
<1>1. TypeOK
  BY ConfigAssumption, EmptySeq DEF Init, InitialSize, TypeOK, AtLeast, NoPause
<1>2. Chained(<<>>, 0)
  BY DEF Chained
<1>3. QED
  BY <1>1, <1>2
     DEF Init, IInv, Resolving, CursorInRange, ChunksTile, ChunksInRange, WorkPartition,
         DeliveredPrefix

\* Resolving the bounds, or failing to, keeps the invariant.
LEMMA ResolveStep ==
  ASSUME IInv, ResolveFrom \/ ResolveTo \/ ResolveFail
  PROVE  IInv'
<1>0. chunks = <<>> /\ out = <<>> /\ cursor = first /\ chunks' = <<>> /\ out' = <<>>
  BY DEF IInv, Resolving, ResolveFrom, ResolveTo, ResolveFail
<1>1. Chained(<<>>, cursor')
  BY DEF Chained
<1>2. ChunksTile' /\ ChunksInRange' /\ WorkPartition'
  BY <1>0, <1>1 DEF ChunksTile, ChunksInRange, WorkPartition
<1>3. CASE ResolveFrom
  <2>1. first' \in Nat /\ cursor' = first'
    BY <1>3, ProviderAssumption DEF ResolveFrom, Resolved
  <2>2. TypeOK'
    BY <1>3, <2>1 DEF ResolveFrom, sharedVars, IInv, TypeOK
  <2>3. QED
    BY <1>0, <1>2, <1>3, <2>1, <2>2
       DEF ResolveFrom, IInv, Resolving, CursorInRange, DeliveredPrefix
<1>4. CASE ResolveTo
  <2>1. end' \in Nat
    BY <1>4, ProviderAssumption DEF ResolveTo, Resolved
  <2>2. TypeOK'
    BY <1>4, <2>1 DEF ResolveTo, sharedVars, IInv, TypeOK
  <2>3. cursor' = first' /\ first' \in Nat
    BY <1>0, <1>4 DEF ResolveTo, IInv, TypeOK
  <2>4. Blocks(first', first') = <<>>
    BY <2>3, BlocksEmpty
  <2>5. DeliveredPrefix'
    BY <1>0, <2>3, <2>4 DEF DeliveredPrefix, Oldest
  <2>6. QED
    BY <1>0, <1>2, <1>4, <2>2, <2>3, <2>5 DEF ResolveTo, IInv, Resolving, CursorInRange
<1>5. CASE ResolveFail
  <2>1. TypeOK'
    BY <1>5 DEF ResolveFail, rangeVars, sharedVars, IInv, TypeOK
  <2>2. QED
    BY <1>0, <1>2, <1>5, <2>1
       DEF ResolveFail, IInv, Resolving, CursorInRange, DeliveredPrefix
<1>6. QED BY <1>3, <1>4, <1>5

\* Both ends of the stream keep the invariant.
LEMMA EndStep ==
  ASSUME IInv, DeliverError \/ Finish
  PROVE  IInv'
<1>1. CASE DeliverError
  <2>1. TypeOK'
    BY <1>1, EmptySeq DEF DeliverError, rangeVars, sharedVars, IInv, TypeOK
  <2>2. Chained(<<>>, cursor')
    BY DEF Chained
  <2>3. QED
    BY <1>1, <2>1, <2>2
       DEF DeliverError, IInv, Resolving, CursorInRange, ChunksTile, ChunksInRange,
           WorkPartition, DeliveredPrefix
<1>2. CASE Finish
  BY <1>2
     DEF Finish, Exhausted, rangeVars, sharedVars, IInv, TypeOK, Resolving, CursorInRange,
         ChunksTile, ChunksInRange, WorkPartition, DeliveredPrefix, Oldest
<1>3. QED BY <1>1, <1>2

\* A step that changes nothing keeps the invariant.
LEMMA StutterStep ==
  ASSUME IInv, UNCHANGED vars
  PROVE  IInv'
BY DEF vars, IInv, TypeOK, Resolving, CursorInRange, ChunksTile, ChunksInRange,
       WorkPartition, DeliveredPrefix, Oldest

\* The inductive invariant: the chunks, what each has collected and what the
\* consumer has received fit together at every step of the stream.
THEOREM Invariance == Spec => []IInv
<1>1. IInv /\ [Next]_vars => IInv'
  <2> SUFFICES ASSUME IInv, [Next]_vars PROVE IInv'
    OBVIOUS
  <2>1. CASE ResolveFrom \/ ResolveTo \/ ResolveFail
    BY <2>1, ResolveStep
  <2>2. CASE StartChunk
    BY <2>2, StartChunkStep
  <2>3. ASSUME NEW i \in DOMAIN chunks, ChunkStep(i) PROVE IInv'
    BY <2>3, BeginStep, WakeStep, SucceedStep, RateLimitedStep, AbandonStep, SplitStep
       DEF ChunkStep
  <2>4. CASE Deliver
    BY <2>4, DeliverStep
  <2>5. CASE DeliverError \/ Finish
    BY <2>5, EndStep
  <2>6. CASE Tick
    BY <2>6, TickStep
  <2>7. CASE UNCHANGED vars
    BY <2>7, StutterStep
  <2>8. QED
    BY <2>1, <2>2, <2>3, <2>4, <2>5, <2>6, <2>7 DEF Next, Ended
<1>2. QED BY InitIInv, <1>1, PTL DEF Spec

\* The types.
THEOREM TypeCorrect == Spec => []TypeOK
<1>1. IInv => TypeOK
  BY DEF IInv
<1>2. QED BY Invariance, <1>1, PTL

\* The consumer's logs are a gap-free, duplicate-free, ordered prefix.
THEOREM DeliveredPrefixHolds == Spec => []DeliveredPrefix
<1>1. IInv => DeliveredPrefix
  BY DEF IInv
<1>2. QED BY Invariance, <1>1, PTL

\* Splitting and retrying lose no block of a chunk and fetch none twice.
THEOREM WorkPartitionHolds == Spec => [](ChunksTile /\ WorkPartition)
<1>1. IInv => ChunksTile /\ WorkPartition
  BY DEF IInv
<1>2. QED BY Invariance, <1>1, PTL

\* The blocks up to a cursor that has passed the end are those of the range.
LEMMA BlocksToCursor ==
  ASSUME NEW a \in Nat, NEW c \in Nat, NEW e \in Nat,
         a <= c, c <= e \/ c = a, c >= e
  PROVE  Blocks(a, c) = Blocks(a, e)
<1>1. CASE c = e
  BY <1>1
<1>2. CASE c # e
  <2>1. c = a /\ e < a
    BY <1>2
  <2>2. QED BY <2>1 DEF Blocks
<1>3. QED BY <1>1, <1>2

\* A stream that ends without an error has delivered the whole range.
THEOREM Completeness == Spec => []CompleteWhenDone
<1>1. IInv => CompleteWhenDone
  BY BlocksToCursor
     DEF CompleteWhenDone, IInv, TypeOK, CursorInRange, DeliveredPrefix, Oldest
<1>2. QED BY Invariance, <1>1, PTL
-----------------------------------------------------------------------------
\* Nothing happens to a stream that has failed.
LEMMA EndedStaysEnded ==
  ASSUME [Next]_vars, status = "failed"
  PROVE  UNCHANGED <<out, status, chunks>>
BY DEF Next, vars, ResolveFrom, ResolveTo, ResolveFail, StartChunk, ChunkStep, Begin, Wake,
       Succeed, RateLimited, Abandon, Split, Deliver, DeliverError, Finish, Tick, Ended,
       Polled

\* A stream that has started fails by delivering a chunk's error.
LEMMA FailsByDeliverError ==
  ASSUME [Next]_vars, status = "streaming", status' = "failed"
  PROVE  DeliverError
BY DEF Next, vars, ResolveFrom, ResolveTo, ResolveFail, StartChunk, ChunkStep, Begin, Wake,
       Succeed, RateLimited, Abandon, Split, Deliver, DeliverError, Finish, Tick, Ended,
       Polled

\* The error is the stream's last item and comes after every earlier block.
THEOREM ErrorIsLast == Spec => ErrorEndsStream
<1> DEFINE A == /\ status = "failed" => UNCHANGED <<out, status, chunks>>
                /\ status = "streaming" /\ status' = "failed" =>
                     /\ out' = Blocks(first, chunks[1].start)
                     /\ chunks[1].phase = "error"
                     /\ chunks' = <<>>
<1>1. IInv /\ [Next]_vars => [A]_vars
  <2> SUFFICES ASSUME IInv, [Next]_vars PROVE A
    OBVIOUS
  <2>1. ASSUME status = "streaming", status' = "failed"
        PROVE  /\ out' = Blocks(first, chunks[1].start)
               /\ chunks[1].phase = "error"
               /\ chunks' = <<>>
    BY <2>1, FailsByDeliverError DEF DeliverError, Polled, IInv, DeliveredPrefix, Oldest
  <2>2. QED BY <2>1, EndedStaysEnded
<1>2. QED BY Invariance, <1>1, PTL DEF Spec, ErrorEndsStream
-----------------------------------------------------------------------------
\* Both modules mean the same by the blocks of a range.
LEMMA SameBlocks == \A a, b : Query!Blocks(a, b) = Blocks(a, b)
BY DEF Query!Blocks, Blocks

\* The stream implements the ordered query: every step is a step of it or
\* changes nothing it can see.
THEOREM Refinement == Spec => ImplementsOrderedQuery
<1>1. Init => Query!Init
  BY DEF Init, Query!Init
<1>2. IInv /\ IInv' /\ [Next]_vars => [Query!Next]_(Query!vars)
  <2> SUFFICES ASSUME IInv, IInv', [Next]_vars
               PROVE  Query!Next \/ UNCHANGED <<first, end, out, status>>
    BY DEF Query!vars
  <2>1. CASE ResolveFrom
    BY <2>1 DEF ResolveFrom, Query!Next, Query!ResolveFrom, IInv, TypeOK
  <2>2. CASE ResolveTo
    BY <2>2 DEF ResolveTo, Query!Next, Query!ResolveTo, IInv, TypeOK
  <2>3. CASE ResolveFail
    BY <2>3 DEF ResolveFail, rangeVars, Query!Next, Query!Fail
  <2>4. CASE StartChunk
    BY <2>4 DEF StartChunk, rangeVars
  <2>5. ASSUME NEW i \in DOMAIN chunks, ChunkStep(i)
        PROVE  UNCHANGED <<first, end, out, status>>
    BY <2>5 DEF ChunkStep, Begin, Wake, Succeed, RateLimited, Abandon, Split, rangeVars
  <2>6. CASE Deliver
    <3> DEFINE c == chunks[1]
    <3>1. /\ chunks \in Seq(ChunkType) /\ chunks # <<>> /\ status = "streaming"
          /\ first \in Nat /\ end \in Nat /\ cursor \in Nat
          /\ UNCHANGED <<first, end, status>>
      BY <2>6 DEF IInv, TypeOK, Deliver, Polled, rangeVars
    <3>2. 1 \in DOMAIN chunks
      BY <3>1, EmptySeq, LenProperties
    <3>3. c \in ChunkType /\ c.end <= end
      BY <3>2, ChunkAt DEF IInv, ChunksInRange
    <3>4. c.start < c.end /\ c.end = Oldest'
      BY <2>6, <3>1, ChainedTail DEF IInv, ChunksTile, Deliver, Oldest
    <3>5. out = Blocks(first, c.start) /\ first <= c.start
      BY <3>1 DEF IInv, DeliveredPrefix, Oldest
    <3>6. out' = Blocks(first, c.end)
      BY <3>1, <3>4 DEF IInv, DeliveredPrefix
    <3> HIDE DEF c
    <3>7. c.start \in Nat /\ c.end \in Nat
      BY <3>3 DEF ChunkType
    <3>8. Len(out) = c.start - first
      BY <3>1, <3>5, <3>7, BlocksType
    <3>9. c.end \in (first + Len(out) + 1)..end
      BY <3>1, <3>3, <3>4, <3>5, <3>7, <3>8
    <3>10. QED
      BY <3>1, <3>6, <3>9, SameBlocks DEF Query!Next, Query!Emit
  <2>7. CASE DeliverError
    BY <2>7 DEF DeliverError, Polled, rangeVars, Query!Next, Query!Fail
  <2>8. CASE Finish
    <3>1. out = Blocks(first, end) /\ UNCHANGED <<first, end, out>>
      BY <2>8, BlocksToCursor
         DEF Finish, Exhausted, rangeVars, IInv, TypeOK, CursorInRange, DeliveredPrefix, Oldest
    <3>2. QED
      BY <2>8, <3>1, SameBlocks DEF Finish, Query!Next, Query!Finish
  <2>9. CASE Tick
    BY <2>9 DEF Tick, rangeVars
  <2>10. CASE UNCHANGED vars
    BY <2>10 DEF vars
  <2>11. QED
    BY <2>1, <2>2, <2>3, <2>4, <2>5, <2>6, <2>7, <2>8, <2>9, <2>10 DEF Next, Ended
<1>3. QED
  BY Invariance, <1>1, <1>2, PTL DEF Spec, ImplementsOrderedQuery, Query!Spec
-----------------------------------------------------------------------------
\* What one step of the chunk at i does to its slot, the pause and the sizes: it
\* keeps them, or claims a slot of the pause as it stands or as a rate limit set it.
Keeps(b, c) ==
  /\ c.wait = b.wait
  /\ b.phase = "sleeping" => c.wait = 0
  /\ UNCHANGED paused
Claims(c, p) ==
  /\ p \in Nat \cup {NoPause}
  /\ p >= paused
  /\ p = paused \/ \E hint \in Hints : p = PauseFor(hint)
  /\ c.wait = SlotWait(p)
  /\ p > 0 => c.phase = "sleeping"
  /\ paused' = AfterClaim(p)

Replaces(i, c) ==
  /\ status = "streaming"
  /\ c \in ChunkType
  /\ c.start = chunks[i].start
  /\ c.end = chunks[i].end
  /\ chunks' = [chunks EXCEPT ![i] = c]
  /\ size' <= size
  /\ delay' \in {delay, BaseDelay, NextDelay}
  /\ UNCHANGED <<cursor, end>>
  /\ \/ Keeps(chunks[i], c)
     \/ /\ chunks[i].phase # "sleeping"
        /\ \E p \in Nat \cup {NoPause} : Claims(c, p)

\* A request about to be made waits as claim_slot says.
LEMMA RequestingClaims ==
  ASSUME NEW c \in ChunkType, NEW r, NEW rest, NEW tries, NEW p
  PROVE  /\ Requesting(c, r, rest, tries, p).wait = SlotWait(p)
         /\ p > 0 => Requesting(c, r, rest, tries, p).phase = "sleeping"
BY DEF Requesting, ChunkType

\* Replacing a chunk by one with the same bounds, which has kept its wait or
\* claimed a slot, is a replacement in the sense of this module.
LEMMA UpdateReplaces ==
  ASSUME IInv, IInv', NEW i \in DOMAIN chunks, NEW c,
         status = "streaming",
         chunks' = [chunks EXCEPT ![i] = c],
         c.start = chunks[i].start, c.end = chunks[i].end,
         size' <= size, delay' \in {delay, BaseDelay, NextDelay},
         UNCHANGED <<cursor, end>>,
         \/ Keeps(chunks[i], c)
         \/ /\ chunks[i].phase # "sleeping"
            /\ \E p \in Nat \cup {NoPause} : Claims(c, p)
  PROVE  Replaces(i, c)
<1>1. /\ chunks \in Seq(ChunkType) /\ chunks' \in Seq(ChunkType)
      /\ DOMAIN chunks' = DOMAIN chunks
  BY DEF IInv, TypeOK
<1>2. chunks'[i] \in ChunkType /\ chunks'[i] = c
  BY <1>1, ElementOfSeq, LenProperties
<1>3. QED BY <1>2 DEF Replaces

\* Every step of a chunk future is such a replacement.
LEMMA ChunkStepReplaces ==
  ASSUME IInv, IInv', NEW i \in DOMAIN chunks, ChunkStep(i)
  PROVE  \E c \in ChunkType : Replaces(i, c)
<1> DEFINE b == chunks[i]
<1>1. /\ b \in ChunkType /\ paused \in Nat \cup {NoPause} /\ size \in Nat \ {0}
      /\ paused >= paused /\ size <= size
  BY ChunkAt DEF IInv, TypeOK, NoPause
<1>0. status = "streaming"
  BY DEF ChunkStep, Begin, Wake, Succeed, RateLimited, Abandon, Split, Polled
<1>2. CASE Begin(i)
  <2> DEFINE c == Requesting(b, b.range, b.pending, 0, paused)
  <2>1. /\ c.start = b.start /\ c.end = b.end /\ c.wait = SlotWait(paused)
        /\ paused > 0 => c.phase = "sleeping"
    BY <1>1, RequestingFields, RequestingClaims
  <2>2. /\ chunks' = [chunks EXCEPT ![i] = c] /\ paused' = AfterClaim(paused)
        /\ UNCHANGED <<cursor, end, size, delay>> /\ b.phase = "new"
    BY <1>2 DEF Begin, rangeVars, Polled
  <2> HIDE DEF c
  <2>3. Claims(c, paused)
    BY <1>1, <2>1, <2>2 DEF Claims
  <2>4. QED BY <1>0, <1>1, <2>1, <2>2, <2>3, UpdateReplaces DEF Replaces
<1>3. CASE Wake(i)
  <2> DEFINE c == [b EXCEPT !.phase = "requested"]
  <2>1. c.start = b.start /\ c.end = b.end /\ c.wait = b.wait
    BY <1>1 DEF ChunkType
  <2>2. /\ chunks' = [chunks EXCEPT ![i] = c] /\ b.wait = 0
        /\ UNCHANGED <<cursor, end, size, delay, paused>>
    BY <1>3 DEF Wake, rangeVars, sharedVars
  <2> HIDE DEF c
  <2>3. Keeps(b, c)
    BY <2>1, <2>2 DEF Keeps
  <2>4. QED BY <1>0, <1>1, <2>1, <2>2, <2>3, UpdateReplaces DEF Replaces
<1>4. CASE Abandon(i)
  <2> DEFINE c == [b EXCEPT !.phase = "error"]
  <2>1. c.start = b.start /\ c.end = b.end /\ c.wait = b.wait
    BY <1>1 DEF ChunkType
  <2>2. /\ chunks' = [chunks EXCEPT ![i] = c] /\ b.phase = "requested"
        /\ UNCHANGED <<cursor, end, size, delay, paused>>
    BY <1>4 DEF Abandon, rangeVars, sharedVars, Polled
  <2> HIDE DEF c
  <2>3. Keeps(b, c)
    BY <2>1, <2>2 DEF Keeps
  <2>4. QED BY <1>0, <1>1, <2>1, <2>2, <2>3, UpdateReplaces DEF Replaces
<1>5. CASE RateLimited(i)
  <2>1. PICK hint \in Hints :
          /\ chunks' = [chunks EXCEPT ![i] =
               Requesting(b, b.range, b.pending, b.retries + 1, PauseFor(hint))]
          /\ paused' = AfterClaim(PauseFor(hint))
    BY <1>5 DEF RateLimited
  <2> DEFINE p == PauseFor(hint)
             c == Requesting(b, b.range, b.pending, b.retries + 1, p)
  <2>2. /\ c.start = b.start /\ c.end = b.end /\ c.wait = SlotWait(p)
        /\ p > 0 => c.phase = "sleeping"
    BY <1>1, RequestingFields, RequestingClaims
  <2>3. chunks' = [chunks EXCEPT ![i] = c] /\ paused' = AfterClaim(p)
    BY <2>1
  <2>4. UNCHANGED <<cursor, end, size>> /\ delay' = NextDelay /\ b.phase = "requested"
    BY <1>5 DEF RateLimited, rangeVars, Polled
  <2> HIDE DEF c
  <2>5. p \in Nat \cup {NoPause} /\ p >= paused
    BY ProviderAssumption DEF IInv, TypeOK, PauseFor, AtLeast, NoPause
  <2>6. Claims(c, p)
    BY <2>2, <2>3, <2>5 DEF Claims
  <2>7. QED BY <1>0, <1>1, <2>2, <2>3, <2>4, <2>5, <2>6, UpdateReplaces DEF Replaces
<1>6. CASE Split(i)
  <2>1. PICK l, rest :
          /\ chunks' = [chunks EXCEPT ![i] = Requesting(b, l, rest, 0, paused)]
          /\ paused' = AfterClaim(paused)
          /\ UNCHANGED <<cursor, end, delay>>
          /\ b.phase = "requested"
    BY <1>6 DEF Split, rangeVars, Polled
  <2> DEFINE c == Requesting(b, l, rest, 0, paused)
  <2>2. /\ c.start = b.start /\ c.end = b.end /\ c.wait = SlotWait(paused)
        /\ paused > 0 => c.phase = "sleeping"
    BY <1>1, RequestingFields, RequestingClaims
  <2>3. chunks' = [chunks EXCEPT ![i] = c]
    BY <2>1
  <2> HIDE DEF c
  <2>4. Claims(c, paused)
    BY <1>1, <2>1, <2>2 DEF Claims
  <2>5. size' <= size
    <3>1. b.range.start \in Nat /\ b.range.end \in Nat
      BY <1>1 DEF ChunkType, SpanType
    <3>2. PICK n \in Int : size' = Shrunk(n)
      BY <1>6, <3>1 DEF Split, Width, Middle
    <3>3. QED BY <1>1, <3>2 DEF Shrunk, AtLeast, AtMost
  <2>6. QED BY <1>0, <1>1, <2>1, <2>2, <2>3, <2>4, <2>5, UpdateReplaces DEF Replaces
<1>7. CASE Succeed(i)
  <2>1. UNCHANGED <<cursor, end, size>> /\ delay' \in {delay, BaseDelay} /\ b.phase = "requested"
    BY <1>7 DEF Succeed, rangeVars, Polled
  <2> DEFINE s == Collected(b)
  <2>2. s.start = b.start /\ s.end = b.end /\ s.wait = b.wait
    BY <1>1 DEF Collected, ChunkType
  <2>3. \/ /\ chunks' = [chunks EXCEPT ![i] = [s EXCEPT !.phase = "ready"]]
           /\ UNCHANGED paused
        \/ /\ chunks' = [chunks EXCEPT ![i] =
                Requesting(s, Head(s.pending), Tail(s.pending), 0, paused)]
           /\ paused' = AfterClaim(paused)
    BY <1>7 DEF Succeed
  <2>4. CASE /\ chunks' = [chunks EXCEPT ![i] = [s EXCEPT !.phase = "ready"]]
             /\ UNCHANGED paused
    <3> DEFINE c == [s EXCEPT !.phase = "ready"]
    <3>1. c.start = b.start /\ c.end = b.end /\ c.wait = b.wait
      BY <1>1 DEF ChunkType, Collected
    <3>2. chunks' = [chunks EXCEPT ![i] = c]
      BY <2>4
    <3> HIDE DEF c
    <3>3. Keeps(b, c)
      BY <2>1, <2>4, <3>1 DEF Keeps
    <3>4. QED BY <1>0, <1>1, <2>1, <2>4, <3>1, <3>2, <3>3, UpdateReplaces DEF Replaces
  <2>5. CASE /\ chunks' = [chunks EXCEPT ![i] =
                  Requesting(s, Head(s.pending), Tail(s.pending), 0, paused)]
             /\ paused' = AfterClaim(paused)
    <3> DEFINE c == Requesting(s, Head(s.pending), Tail(s.pending), 0, paused)
    <3>1. /\ c.start = s.start /\ c.end = s.end /\ c.wait = SlotWait(paused)
          /\ paused > 0 => c.phase = "sleeping"
      BY <1>1 DEF Requesting, ChunkType, Collected
    <3>2. chunks' = [chunks EXCEPT ![i] = c]
      BY <2>5
    <3> HIDE DEF c
    <3>3. Claims(c, paused)
      BY <1>1, <2>5, <3>1 DEF Claims
    <3>4. QED BY <1>0, <1>1, <2>1, <2>2, <3>1, <3>2, <3>3, UpdateReplaces DEF Replaces
  <2>6. QED BY <2>3, <2>4, <2>5
<1>8. QED
  BY <1>2, <1>3, <1>4, <1>5, <1>6, <1>7 DEF ChunkStep
-----------------------------------------------------------------------------
\* A claimed slot is a stagger behind every slot claimed before it.
LEMMA SlotReplaced ==
  ASSUME IInv, SlotsSpaced, NEW i \in DOMAIN chunks, NEW c \in ChunkType, Replaces(i, c)
  PROVE  SlotsSpaced'
<1>1. /\ chunks \in Seq(ChunkType) /\ paused \in Nat \cup {NoPause}
      /\ DOMAIN chunks' = DOMAIN chunks
      /\ \A j \in DOMAIN chunks : chunks'[j] = IF j = i THEN c ELSE chunks[j]
      /\ \A j \in DOMAIN chunks : chunks[j].wait \in Nat
  <2>1. chunks \in Seq(ChunkType) /\ paused \in Nat \cup {NoPause}
    BY DEF IInv, TypeOK
  <2>2. \A j \in DOMAIN chunks : chunks[j].wait \in Nat
    BY ChunkAt DEF ChunkType
  <2>3. chunks' = [chunks EXCEPT ![i] = c]
    BY DEF Replaces
  <2>4. QED BY <2>1, <2>2, <2>3
<1>2. c.wait \in Nat /\ Stagger \in Nat
  BY StaggerType DEF ChunkType
<1>3. CASE c.wait = chunks[i].wait /\ paused' = paused
  BY <1>1, <1>3 DEF SlotsSpaced
<1>4. CASE \E p \in Nat \cup {NoPause} : Claims(c, p)
  <2>1. PICK p \in Nat \cup {NoPause} : Claims(c, p)
    BY <1>4
  <2>2. CASE p > 0
    <3>1. c.wait = p /\ paused' = p + Stagger /\ p >= paused
      BY <2>1, <2>2 DEF Claims, SlotWait, AtLeast, AfterClaim
    <3>2. ASSUME NEW j \in DOMAIN chunks, chunks[j].wait > 0
          PROVE  chunks[j].wait + Stagger <= p
      <4>1. chunks[j].wait + Stagger <= paused
        BY <3>2 DEF SlotsSpaced
      <4>2. QED BY <1>1, <1>2, <3>1, <4>1 DEF NoPause
    <3>3. SUFFICES ASSUME NEW j \in DOMAIN chunks, chunks'[j].wait > 0
                   PROVE  /\ chunks'[j].wait + Stagger <= paused'
                          /\ \A k \in DOMAIN chunks \ {j} :
                               \/ chunks'[k].wait = 0
                               \/ chunks'[k].wait >= chunks'[j].wait + Stagger
                               \/ chunks'[j].wait >= chunks'[k].wait + Stagger
      BY <1>1 DEF SlotsSpaced
    <3>4. chunks'[i].wait = p
      BY <1>1, <3>1
    <3>5. \A k \in DOMAIN chunks \ {i} :
            /\ chunks'[k].wait = chunks[k].wait
            /\ chunks[k].wait \in Nat
            /\ chunks[k].wait = 0 \/ chunks[k].wait + Stagger <= p
      BY <1>1, <3>2
    <3>6. CASE j = i
      BY <1>2, <2>2, <3>1, <3>4, <3>5, <3>6
    <3>7. CASE j # i
      <4>1. chunks'[j].wait + Stagger <= paused'
        BY <1>2, <2>2, <3>1, <3>3, <3>5, <3>7
      <4>2. ASSUME NEW k \in DOMAIN chunks \ {j}
            PROVE  \/ chunks'[k].wait = 0
                   \/ chunks'[k].wait >= chunks'[j].wait + Stagger
                   \/ chunks'[j].wait >= chunks'[k].wait + Stagger
        <5>1. CASE k = i
          BY <1>2, <3>3, <3>4, <3>5, <3>7, <5>1
        <5>2. CASE k # i
          BY <3>3, <3>5, <3>7, <5>2 DEF SlotsSpaced
        <5>3. QED BY <5>1, <5>2
      <4>3. QED BY <4>1, <4>2
    <3>8. QED BY <3>6, <3>7
  <2>3. CASE ~ (p > 0)
    <3>1. c.wait = 0 /\ paused <= 0
      BY <1>1, <2>1, <2>3 DEF Claims, SlotWait, AtLeast, NoPause
    <3>2. \A j \in DOMAIN chunks : chunks[j].wait = 0
      BY <1>1, <1>2, <3>1 DEF SlotsSpaced, NoPause
    <3>3. QED BY <1>1, <3>1, <3>2 DEF SlotsSpaced
  <2>4. QED BY <2>2, <2>3
<1>5. QED BY <1>3, <1>4 DEF Replaces, Keeps

\* The slots of the chunks left after a delivery are still spaced.
LEMMA SlotsFewer ==
  ASSUME SlotsSpaced, paused' = paused,
         chunks' = Tail(chunks), chunks # <<>>, chunks \in Seq(ChunkType)
  PROVE  SlotsSpaced'
<1>1. /\ DOMAIN chunks = 1..Len(chunks) /\ Len(chunks) \in Nat
      /\ DOMAIN chunks' = 1..(Len(chunks) - 1)
      /\ \A k \in 1..(Len(chunks) - 1) : chunks'[k] = chunks[k + 1]
  BY HeadTailProperties, LenProperties
<1>2. SUFFICES ASSUME NEW k \in 1..(Len(chunks) - 1), chunks'[k].wait > 0
               PROVE  /\ chunks'[k].wait + Stagger <= paused
                      /\ \A j \in 1..(Len(chunks) - 1) \ {k} :
                           \/ chunks'[j].wait = 0
                           \/ chunks'[j].wait >= chunks'[k].wait + Stagger
                           \/ chunks'[k].wait >= chunks'[j].wait + Stagger
  BY <1>1 DEF SlotsSpaced
<1>3. k + 1 \in DOMAIN chunks /\ chunks'[k] = chunks[k + 1]
  BY <1>1
<1>4. ASSUME NEW j \in 1..(Len(chunks) - 1) \ {k}
      PROVE  j + 1 \in DOMAIN chunks \ {k + 1} /\ chunks'[j] = chunks[j + 1]
  BY <1>1
<1>5. QED BY <1>2, <1>3, <1>4 DEF SlotsSpaced

\* Slots stay spaced as time passes: all of them come closer together.
LEMMA SlotsTick ==
  ASSUME IInv, SlotsSpaced, Tick
  PROVE  SlotsSpaced'
<1>1. /\ paused \in Nat \cup {NoPause} /\ Stagger \in Nat
      /\ paused' = IF paused > 0 THEN paused - 1 ELSE paused
      /\ DOMAIN chunks' = DOMAIN chunks
  BY StaggerType DEF IInv, TypeOK, Tick
<1>2. ASSUME NEW j \in DOMAIN chunks
      PROVE  /\ chunks[j].wait \in Nat
             /\ chunks'[j].wait = IF chunks[j].wait > 0 THEN chunks[j].wait - 1 ELSE 0
  <2>1. chunks[j] \in ChunkType
    BY ChunkAt
  <2>2. chunks'[j] = [chunks[j] EXCEPT !.wait = AtLeast(@ - 1, 0)]
    BY DEF Tick
  <2>3. chunks[j].wait \in Nat /\ chunks'[j].wait = AtLeast(chunks[j].wait - 1, 0)
    BY <2>1, <2>2 DEF ChunkType
  <2>4. QED BY <2>3 DEF AtLeast
<1>3. SUFFICES ASSUME NEW i \in DOMAIN chunks, chunks'[i].wait > 0
               PROVE  /\ chunks'[i].wait + Stagger <= paused'
                      /\ \A j \in DOMAIN chunks \ {i} :
                           \/ chunks'[j].wait = 0
                           \/ chunks'[j].wait >= chunks'[i].wait + Stagger
                           \/ chunks'[i].wait >= chunks'[j].wait + Stagger
  BY <1>1 DEF SlotsSpaced
<1>4. chunks[i].wait > 0 /\ chunks'[i].wait = chunks[i].wait - 1
  BY <1>2, <1>3
<1>5. chunks[i].wait + Stagger <= paused
  BY <1>4 DEF SlotsSpaced
<1>6. chunks'[i].wait + Stagger <= paused'
  BY <1>1, <1>2, <1>4, <1>5 DEF NoPause
<1>7. ASSUME NEW j \in DOMAIN chunks \ {i}
      PROVE  \/ chunks'[j].wait = 0
             \/ chunks'[j].wait >= chunks'[i].wait + Stagger
             \/ chunks'[i].wait >= chunks'[j].wait + Stagger
  <2>1. \/ chunks[j].wait = 0
        \/ chunks[j].wait >= chunks[i].wait + Stagger
        \/ chunks[i].wait >= chunks[j].wait + Stagger
    BY <1>4 DEF SlotsSpaced
  <2>2. QED BY <1>1, <1>2, <1>4, <2>1
<1>8. QED BY <1>6, <1>7

\* Requests waiting out a pause go out at least a stagger apart.
THEOREM SlotsSpacedHolds == Spec => []SlotsSpaced
<1>1. Init => SlotsSpaced
  BY DEF Init, SlotsSpaced
<1>2. IInv /\ IInv' /\ SlotsSpaced /\ [Next]_vars => SlotsSpaced'
  <2> SUFFICES ASSUME IInv, IInv', SlotsSpaced, [Next]_vars PROVE SlotsSpaced'
    OBVIOUS
  <2>1. CASE UNCHANGED <<chunks, paused>>
    BY <2>1 DEF SlotsSpaced
  <2>2. CASE StartChunk
    <3> DEFINE c == NewChunk(cursor, AtMost(cursor + size, end))
    <3>1. chunks' = Append(chunks, c) /\ paused' = paused /\ c.wait = 0
      BY <2>2 DEF StartChunk, sharedVars, NewChunk
    <3> HIDE DEF c
    <3>2. /\ chunks \in Seq(ChunkType) /\ Len(chunks) \in Nat
          /\ DOMAIN chunks = 1..Len(chunks)
      BY LenProperties DEF IInv, TypeOK
    <3>3. chunks' \in Seq(ChunkType)
      BY DEF IInv, TypeOK
    <3>4. /\ DOMAIN chunks' = 1..(Len(chunks) + 1)
          /\ \A j \in 1..Len(chunks) : chunks'[j] = chunks[j]
          /\ chunks'[Len(chunks) + 1].wait = 0
      BY <3>1, <3>2, <3>3
    <3>5. QED BY <3>1, <3>2, <3>4 DEF SlotsSpaced
  <2>3. ASSUME NEW i \in DOMAIN chunks, ChunkStep(i) PROVE SlotsSpaced'
    BY <2>3, ChunkStepReplaces, SlotReplaced
  <2>4. CASE Deliver
    BY <2>4, SlotsFewer DEF Deliver, sharedVars, IInv, TypeOK
  <2>5. CASE DeliverError
    BY <2>5 DEF DeliverError, SlotsSpaced
  <2>6. CASE Tick
    BY <2>6, SlotsTick
  <2>7. QED
    BY <2>1, <2>2, <2>3, <2>4, <2>5, <2>6
       DEF Next, ResolveFrom, ResolveTo, ResolveFail, Finish, Ended, vars, sharedVars
<1>3. QED BY Invariance, <1>1, <1>2, PTL DEF Spec
-----------------------------------------------------------------------------
\* While chunks remain to be started, every chunk in flight is at least as
\* long as they will be.
SizesFall ==
  /\ ChunksNeverGrow
  /\ cursor < end => \A i \in DOMAIN chunks : Width(chunks[i]) >= size

\* A chunk step changes no chunk's length and never raises the size of the next.
LEMMA SizesReplaced ==
  ASSUME IInv, SizesFall, NEW i \in DOMAIN chunks, NEW c \in ChunkType, Replaces(i, c),
         size' \in Nat
  PROVE  SizesFall'
<1>1. /\ DOMAIN chunks' = DOMAIN chunks
      /\ \A j \in DOMAIN chunks : chunks'[j] = IF j = i THEN c ELSE chunks[j]
  BY DEF Replaces, IInv, TypeOK
<1>2. \A j \in DOMAIN chunks :
        chunks'[j].start = chunks[j].start /\ chunks'[j].end = chunks[j].end
  BY <1>1 DEF Replaces
<1>3. \A j \in DOMAIN chunks : chunks[j].start \in Nat /\ chunks[j].end \in Nat
  BY ChunkAt DEF ChunkType
<1>4. size \in Nat /\ size' <= size /\ cursor' = cursor /\ end' = end
  BY DEF Replaces, IInv, TypeOK
<1>5. \A j \in DOMAIN chunks : Width(chunks[j]) \in Int /\ Width(chunks'[j]) = Width(chunks[j])
  BY <1>2, <1>3 DEF Width
<1>6. QED BY <1>1, <1>4, <1>5 DEF SizesFall, ChunksNeverGrow

\* A chunk is never longer than one started before it.
THEOREM ChunksNeverGrowHolds == Spec => []ChunksNeverGrow
<1>1. Init => SizesFall
  BY DEF Init, SizesFall, ChunksNeverGrow
<1>2. IInv /\ IInv' /\ SizesFall /\ [Next]_vars => SizesFall'
  <2> SUFFICES ASSUME IInv, IInv', SizesFall, [Next]_vars PROVE SizesFall'
    OBVIOUS
  <2>0. /\ chunks \in Seq(ChunkType) /\ Len(chunks) \in Nat
        /\ DOMAIN chunks = 1..Len(chunks)
        /\ chunks' \in Seq(ChunkType) /\ Len(chunks') \in Nat
        /\ DOMAIN chunks' = 1..Len(chunks')
        /\ cursor \in Nat /\ end \in Nat /\ size \in Nat \ {0} /\ size' \in Nat
        /\ \A j \in DOMAIN chunks : Width(chunks[j]) \in Int
    <3>1. \A j \in DOMAIN chunks : Width(chunks[j]) \in Int
      BY ChunkAt DEF ChunkType, Width
    <3>2. QED BY <3>1, LenProperties DEF IInv, TypeOK
  <2>1. CASE UNCHANGED <<chunks, cursor, end, size>>
    BY <2>1 DEF SizesFall, ChunksNeverGrow
  <2>2. CASE chunks' = <<>>
    BY <2>2 DEF SizesFall, ChunksNeverGrow
  <2>3. CASE StartChunk
    <3> DEFINE stop == AtMost(cursor + size, end)
               c == NewChunk(cursor, stop)
    <3>1. /\ chunks' = Append(chunks, c) /\ cursor' = stop
          /\ size' = size /\ end' = end /\ cursor < end
      BY <2>0, <2>3 DEF StartChunk, sharedVars, rangeVars, Filled, Exhausted
    <3>2. Width(c) = stop - cursor
      BY DEF NewChunk, Width
    <3> HIDE DEF c
    <3>3. /\ Len(chunks') = Len(chunks) + 1
          /\ \A j \in 1..Len(chunks) : chunks'[j] = chunks[j]
          /\ chunks'[Len(chunks) + 1] = c
      BY <2>0, <3>1
    <3>4. /\ stop \in Nat /\ stop - cursor <= size
          /\ stop < end => stop - cursor = size
      BY <2>0, <3>1 DEF AtMost
    <3> HIDE DEF stop
    <3>5. \A j \in 1..Len(chunks) : Width(chunks[j]) >= size
      BY <2>0, <3>1 DEF SizesFall
    <3>6. ChunksNeverGrow'
      <4> SUFFICES ASSUME NEW i \in 1..(Len(chunks) + 1), NEW j \in 1..(Len(chunks) + 1),
                          i < j
                   PROVE  Width(chunks'[i]) >= Width(chunks'[j])
        BY <2>0, <3>3 DEF ChunksNeverGrow
      <4>1. i \in 1..Len(chunks) /\ chunks'[i] = chunks[i]
        BY <2>0, <3>3
      <4>2. CASE j = Len(chunks) + 1
        BY <2>0, <3>2, <3>3, <3>4, <3>5, <4>1, <4>2
      <4>3. CASE j # Len(chunks) + 1
        <5>1. j \in 1..Len(chunks) /\ chunks'[j] = chunks[j]
          BY <2>0, <3>3, <4>3
        <5>2. QED BY <2>0, <4>1, <5>1 DEF SizesFall, ChunksNeverGrow
      <4>4. QED BY <4>2, <4>3
    <3>7. cursor' < end' => \A i \in DOMAIN chunks' : Width(chunks'[i]) >= size'
      BY <2>0, <3>1, <3>2, <3>3, <3>4, <3>5
    <3>8. QED BY <3>6, <3>7 DEF SizesFall
  <2>4. ASSUME NEW i \in DOMAIN chunks, ChunkStep(i) PROVE SizesFall'
    BY <2>0, <2>4, ChunkStepReplaces, SizesReplaced
  <2>5. CASE Deliver
    <3>1. chunks' = Tail(chunks) /\ chunks # <<>> /\ UNCHANGED <<cursor, end, size>>
      BY <2>5 DEF Deliver, rangeVars, sharedVars
    <3>2. /\ Len(chunks') = Len(chunks) - 1
          /\ \A k \in 1..Len(chunks') : chunks'[k] = chunks[k + 1]
      BY <2>0, <3>1, HeadTailProperties
    <3>3. \A k \in 1..Len(chunks') : k + 1 \in 1..Len(chunks)
      BY <2>0, <3>2
    <3>4. ASSUME NEW i \in 1..Len(chunks'), NEW j \in 1..Len(chunks'), i < j
          PROVE  Width(chunks'[i]) >= Width(chunks'[j])
      <4>1. /\ i + 1 \in 1..Len(chunks) /\ j + 1 \in 1..Len(chunks) /\ i + 1 < j + 1
            /\ chunks'[i] = chunks[i + 1] /\ chunks'[j] = chunks[j + 1]
        BY <2>0, <3>2, <3>3, <3>4
      <4>2. QED BY <2>0, <4>1 DEF SizesFall, ChunksNeverGrow
    <3>5. QED BY <2>0, <3>1, <3>2, <3>3, <3>4 DEF SizesFall, ChunksNeverGrow
  <2>6. CASE Tick
    <3>1. /\ DOMAIN chunks' = DOMAIN chunks /\ UNCHANGED <<cursor, end, size>>
      BY <2>6 DEF Tick, rangeVars
    <3>2. ASSUME NEW j \in DOMAIN chunks PROVE Width(chunks'[j]) = Width(chunks[j])
      <4>1. chunks[j] \in ChunkType
        BY ChunkAt
      <4>2. chunks'[j] = [chunks[j] EXCEPT !.wait = AtLeast(@ - 1, 0)]
        BY <2>6 DEF Tick
      <4>3. QED BY <4>1, <4>2 DEF ChunkType, Width
    <3>3. QED BY <2>0, <3>1, <3>2 DEF SizesFall, ChunksNeverGrow
  <2>7. CASE ResolveFrom \/ ResolveTo
    BY <2>2, <2>7 DEF ResolveFrom, ResolveTo, IInv, Resolving
  <2>8. QED
    BY <2>1, <2>2, <2>3, <2>4, <2>5, <2>6, <2>7
       DEF Next, ResolveFail, DeliverError, Finish, Ended, vars, sharedVars, rangeVars
<1>3. SizesFall => ChunksNeverGrow
  BY DEF SizesFall
<1>4. QED BY Invariance, <1>1, <1>2, <1>3, PTL DEF Spec
-----------------------------------------------------------------------------
\* The delays that rate limits name are bounded (they are durations of 64 bits).
HintsBounded == \E most \in Nat : \A hint \in Hints \ {NoHint} : hint <= most

\* Bounded delays have a longest one.
LEMMA LongestPauseIs ==
  ASSUME HintsBounded
  PROVE  /\ LongestPause \in Nat
         /\ BaseDelay <= LongestPause /\ MaxDelay <= LongestPause
         /\ \A hint \in Hints \ {NoHint} : hint <= LongestPause
<1> DEFINE D == {BaseDelay, MaxDelay} \cup (Hints \ {NoHint})
           U == {u \in Nat : \A d \in D : d <= u}
<1>1. D \in SUBSET Nat /\ BaseDelay \in D
  BY ConfigAssumption, ProviderAssumption
<1>2. U # {}
  <2>1. PICK most \in Nat : \A hint \in Hints \ {NoHint} : hint <= most
    BY DEF HintsBounded
  <2>2. most + BaseDelay + MaxDelay \in U
    BY <1>1, <2>1, ConfigAssumption
  <2>3. QED BY <2>2
<1>3. U \in SUBSET Nat
  OBVIOUS
<1>4. PICK m \in U : \A u \in U : m <= u
  <2> HIDE DEF U
  <2>1. QED BY <1>2, <1>3, LeastNat
<1>5. m \in D
  <2>1. SUFFICES ASSUME m \notin D PROVE FALSE
    OBVIOUS
  <2>2. m \in Nat /\ \A d \in D : d \in Nat /\ d <= m /\ d # m
    BY <1>1, <1>4, <2>1
  <2>3. m - 1 \in Nat /\ \A d \in D : d <= m - 1
    <3> HIDE DEF D
    <3>1. QED BY <1>1, <2>2
  <2>4. m - 1 \in U
    BY <2>3
  <2>5. QED BY <1>4, <2>2, <2>4
<1>6. \A d \in D : d <= m
  BY <1>4
<1> HIDE DEF U
<1>7. LongestPause = CHOOSE d \in D : \A e \in D : e <= d
  BY DEF LongestPause
<1>8. LongestPause \in D /\ \A e \in D : e <= LongestPause
  <2> HIDE DEF D
  <2>1. QED BY <1>5, <1>6, <1>7
<1>9. QED BY <1>1, <1>8

\* A wait, or the pause, is a pause some rate limit applied, or a stagger behind a
\* request that is still waiting.
Linked(cs, x) ==
  \/ x <= LongestPause
  \/ /\ Stagger > 0
     /\ \E j \in DOMAIN cs : cs[j].wait > 0 /\ x = cs[j].wait + Stagger

\* What bounds the waits: each claims a slot behind another request that waits,
\* down to a pause some rate limit applied, and only so many requests wait.
PaceInv ==
  /\ Len(chunks) <= Concurrency
  /\ delay <= LongestPause
  /\ \A i \in DOMAIN chunks : chunks[i].wait > 0 => chunks[i].phase = "sleeping"
  /\ \A i \in DOMAIN chunks : Linked(chunks, chunks[i].wait)
  /\ status # "failed" => Linked(chunks, paused)

\* A chunk step keeps every wait linked: the chunk that claims a slot was not waiting.
LEMMA PaceReplaced ==
  ASSUME HintsBounded, IInv, IInv', PaceInv,
         NEW i \in DOMAIN chunks, NEW c \in ChunkType, Replaces(i, c)
  PROVE  PaceInv'
<1> DEFINE L == LongestPause
<1>1. /\ chunks \in Seq(ChunkType) /\ paused \in Nat \cup {NoPause}
      /\ DOMAIN chunks' = DOMAIN chunks /\ Len(chunks') = Len(chunks)
      /\ \A j \in DOMAIN chunks : chunks'[j] = IF j = i THEN c ELSE chunks[j]
      /\ \A j \in DOMAIN chunks : chunks[j].wait \in Nat
      /\ c.wait \in Nat /\ delay \in Nat
  <2>1. chunks \in Seq(ChunkType) /\ paused \in Nat \cup {NoPause} /\ delay \in Nat
    BY DEF IInv, TypeOK
  <2>2. \A j \in DOMAIN chunks : chunks[j].wait \in Nat
    BY ChunkAt DEF ChunkType
  <2>3. chunks' = [chunks EXCEPT ![i] = c]
    BY DEF Replaces
  <2>4. c.wait \in Nat
    BY DEF ChunkType
  <2>5. QED BY <2>1, <2>2, <2>3, <2>4, ExceptSeq
<1>2. /\ L \in Nat /\ Stagger \in Nat /\ Stagger <= L
      /\ BaseDelay <= L /\ MaxDelay <= L /\ BaseDelay \in Nat /\ MaxDelay \in Nat
  <2>1. Stagger <= BaseDelay
    BY StaggerType, ConfigAssumption DEF Stagger
  <2>2. QED BY <2>1, LongestPauseIs, StaggerType, ConfigAssumption
<1>3. status = "streaming"
  BY DEF Replaces
<1>4. delay' <= L
  BY <1>1, <1>2 DEF Replaces, PaceInv, NextDelay, AtMost
<1>5. Len(chunks') <= Concurrency
  BY <1>1 DEF PaceInv
<1>6. CASE Keeps(chunks[i], c)
  <2>1. c.wait = chunks[i].wait /\ c.wait = 0 /\ paused' = paused
    BY <1>1, <1>6 DEF Keeps, PaceInv
  <2>2. ASSUME NEW j \in DOMAIN chunks
        PROVE  chunks'[j].wait = chunks[j].wait /\ (chunks'[j].wait > 0 => chunks'[j] = chunks[j])
    <3>1. CASE j = i
      <4>1. chunks'[j] = c
        BY <1>1, <3>1
      <4>2. chunks'[j].wait = 0 /\ chunks[j].wait = 0
        BY <2>1, <3>1, <4>1
      <4>3. QED BY <4>2
    <3>2. CASE j # i
      BY <1>1, <3>2
    <3>3. QED BY <3>1, <3>2
  <2>3. \A x : Linked(chunks, x) => Linked(chunks', x)
    BY <1>1, <2>2 DEF Linked
  <2>4. \A j \in DOMAIN chunks' : Linked(chunks', chunks'[j].wait)
    BY <1>1, <2>2, <2>3 DEF PaceInv
  <2>5. \A j \in DOMAIN chunks' : chunks'[j].wait > 0 => chunks'[j].phase = "sleeping"
    BY <1>1, <2>2 DEF PaceInv
  <2>6. Linked(chunks', paused')
    BY <1>3, <2>1, <2>3 DEF PaceInv
  <2>7. QED BY <1>4, <1>5, <2>4, <2>5, <2>6 DEF PaceInv
<1>7. CASE /\ chunks[i].phase # "sleeping"
           /\ \E p \in Nat \cup {NoPause} : Claims(c, p)
  <2>1. PICK p \in Nat \cup {NoPause} : Claims(c, p)
    BY <1>7
  <2>2. chunks[i].wait = 0
    BY <1>1, <1>7 DEF PaceInv
  <2>3. Linked(chunks, p)
    <3>1. CASE p = paused
      BY <1>3, <3>1 DEF PaceInv
    <3>2. CASE \E hint \in Hints : p = PauseFor(hint)
      <4>1. PICK hint \in Hints : p = PauseFor(hint)
        BY <3>2
      <4>2. p = paused \/ p = delay \/ (hint # NoHint /\ p = hint)
        BY <4>1 DEF PauseFor, AtLeast
      <4>3. hint # NoHint => hint <= L
        BY LongestPauseIs
      <4>4. QED BY <1>3, <4>2, <4>3 DEF PaceInv, Linked
    <3>3. QED BY <2>1, <3>1, <3>2 DEF Claims
  <2>4. ASSUME NEW j \in DOMAIN chunks
        PROVE  /\ j # i => chunks'[j] = chunks[j]
               /\ j = i => chunks'[j] = c
               /\ chunks[j].wait > 0 => chunks'[j].wait = chunks[j].wait
    <3>1. CASE j = i
      BY <1>1, <2>2, <3>1
    <3>2. CASE j # i
      BY <1>1, <3>2
    <3>3. QED BY <3>1, <3>2
  <2>5. \A x : Linked(chunks, x) => Linked(chunks', x)
    BY <1>1, <2>4 DEF Linked
  <2>6. c.wait = IF p > 0 THEN p ELSE 0
    BY <2>1 DEF Claims, SlotWait, AtLeast, NoPause
  <2>7. \A j \in DOMAIN chunks' : chunks'[j].wait > 0 => chunks'[j].phase = "sleeping"
    BY <1>1, <2>1, <2>4, <2>6 DEF PaceInv, Claims
  <2>8. Linked(chunks', c.wait)
    BY <1>2, <2>3, <2>5, <2>6 DEF Linked
  <2>9. \A j \in DOMAIN chunks' : Linked(chunks', chunks'[j].wait)
    <3>1. SUFFICES ASSUME NEW j \in DOMAIN chunks PROVE Linked(chunks', chunks'[j].wait)
      BY <1>1
    <3>2. CASE j = i
      BY <2>4, <2>8, <3>2
    <3>3. CASE j # i
      BY <2>4, <2>5, <3>3 DEF PaceInv
    <3>4. QED BY <3>2, <3>3
  <2>10. Linked(chunks', paused')
    <3>1. CASE p > 0
      <4>1. paused' = p + Stagger /\ c.wait = p /\ p \in Nat
        BY <2>1, <2>6, <3>1 DEF Claims, AfterClaim, NoPause
      <4>2. CASE Stagger > 0
        <5>1. i \in DOMAIN chunks' /\ chunks'[i].wait > 0 /\ paused' = chunks'[i].wait + Stagger
          BY <1>1, <2>4, <3>1, <4>1
        <5>2. QED BY <4>2, <5>1 DEF Linked
      <4>3. CASE ~ (Stagger > 0)
        <5>1. Stagger = 0
          BY <1>2, <4>3
        <5>2. p <= L
          BY <2>3, <4>3 DEF Linked
        <5>3. paused' <= L
          BY <4>1, <5>1, <5>2
        <5>4. QED BY <5>3 DEF Linked
      <4>4. QED BY <4>2, <4>3
    <3>2. CASE ~ (p > 0)
      <4>1. paused' = NoPause
        BY <2>1, <3>2 DEF Claims, AfterClaim
      <4>2. QED BY <1>2, <4>1 DEF Linked, NoPause
    <3>3. QED BY <3>1, <3>2
  <2>11. QED BY <1>4, <1>5, <2>7, <2>9, <2>10 DEF PaceInv
<1>8. QED BY <1>6, <1>7 DEF Replaces

\* Time brings the waits down together; the one that reaches its slot is no
\* longer than a stagger behind, which is no longer than the first pause.
LEMMA PaceTick ==
  ASSUME HintsBounded, IInv, IInv', PaceInv, Tick
  PROVE  PaceInv'
<1> DEFINE L == LongestPause
<1>1. /\ L \in Nat /\ Stagger \in Nat /\ Stagger <= L
  <2>1. Stagger <= BaseDelay
    BY StaggerType, ConfigAssumption DEF Stagger
  <2>2. QED BY <2>1, LongestPauseIs, StaggerType, ConfigAssumption
<1>2. /\ chunks \in Seq(ChunkType) /\ chunks' \in Seq(ChunkType)
      /\ DOMAIN chunks' = DOMAIN chunks /\ Len(chunks') = Len(chunks)
      /\ paused \in Nat \cup {NoPause}
  <2>1. /\ chunks \in Seq(ChunkType) /\ chunks' \in Seq(ChunkType)
        /\ DOMAIN chunks' = DOMAIN chunks /\ paused \in Nat \cup {NoPause}
    BY DEF IInv, TypeOK, Tick
  <2>2. DOMAIN chunks = 1..Len(chunks) /\ DOMAIN chunks' = 1..Len(chunks')
    BY <2>1, LenProperties
  <2>3. Len(chunks) \in Nat /\ Len(chunks') \in Nat
    BY <2>1, LenProperties
  <2>4. QED BY <2>1, <2>2, <2>3
<1>3. ASSUME NEW j \in DOMAIN chunks
      PROVE  /\ chunks[j].wait \in Nat
             /\ chunks'[j].wait = IF chunks[j].wait > 0 THEN chunks[j].wait - 1 ELSE 0
             /\ chunks'[j].phase = chunks[j].phase
  <2>1. chunks[j] \in ChunkType
    BY ChunkAt
  <2>2. chunks'[j] = [chunks[j] EXCEPT !.wait = AtLeast(@ - 1, 0)]
    BY DEF Tick
  <2>3. /\ chunks[j].wait \in Nat /\ chunks'[j].wait = AtLeast(chunks[j].wait - 1, 0)
        /\ chunks'[j].phase = chunks[j].phase
    BY <2>1, <2>2 DEF ChunkType
  <2>4. QED BY <2>3 DEF AtLeast
<1>4. ASSUME NEW x \in Nat \ {0}, Linked(chunks, x) PROVE Linked(chunks', x - 1)
  <2>1. CASE x <= L
    BY <1>1, <2>1 DEF Linked
  <2>2. CASE /\ Stagger > 0
             /\ \E j \in DOMAIN chunks : chunks[j].wait > 0 /\ x = chunks[j].wait + Stagger
    <3>1. PICK j \in DOMAIN chunks : chunks[j].wait > 0 /\ x = chunks[j].wait + Stagger
      BY <2>2
    <3>2. chunks[j].wait \in Nat /\ chunks'[j].wait = chunks[j].wait - 1
      BY <1>3, <3>1
    <3>3. CASE chunks[j].wait = 1
      <4>1. x - 1 = Stagger
        BY <1>1, <3>1, <3>3
      <4>2. QED BY <1>1, <4>1 DEF Linked
    <3>4. CASE chunks[j].wait # 1
      <4>1. /\ j \in DOMAIN chunks' /\ chunks'[j].wait > 0
            /\ x - 1 = chunks'[j].wait + Stagger
        BY <1>1, <1>2, <3>1, <3>2, <3>4
      <4>2. QED BY <2>2, <4>1 DEF Linked
    <3>5. QED BY <3>3, <3>4
  <2>3. QED BY <1>4, <2>1, <2>2 DEF Linked
<1>5. \A j \in DOMAIN chunks' : Linked(chunks', chunks'[j].wait)
  <2>1. SUFFICES ASSUME NEW j \in DOMAIN chunks PROVE Linked(chunks', chunks'[j].wait)
    BY <1>2
  <2>2. CASE chunks[j].wait > 0
    <3>1. Linked(chunks, chunks[j].wait) /\ chunks[j].wait \in Nat \ {0}
      BY <1>3, <2>2 DEF PaceInv
    <3>2. Linked(chunks', chunks[j].wait - 1)
      BY <1>4, <3>1
    <3>3. QED BY <1>3, <2>2, <3>2
  <2>3. CASE ~ (chunks[j].wait > 0)
    BY <1>1, <1>3, <2>3 DEF Linked
  <2>4. QED BY <2>2, <2>3
<1>6. Linked(chunks', paused')
  <2>1. Linked(chunks, paused) /\ paused' = IF paused > 0 THEN paused - 1 ELSE paused
    BY DEF PaceInv, Tick
  <2>2. CASE paused > 0
    <3>1. paused \in Nat \ {0}
      BY <1>2, <2>2 DEF NoPause
    <3>2. QED BY <1>4, <2>1, <2>2, <3>1
  <2>3. CASE ~ (paused > 0)
    BY <1>1, <1>2, <2>1, <2>3 DEF Linked, NoPause
  <2>4. QED BY <2>2, <2>3
<1>7. \A j \in DOMAIN chunks' : chunks'[j].wait > 0 => chunks'[j].phase = "sleeping"
  BY <1>2, <1>3 DEF PaceInv
<1>8. delay' = delay
  BY DEF Tick
<1>9. QED BY <1>2, <1>5, <1>6, <1>7, <1>8 DEF PaceInv

\* Delivering a chunk takes away none that waits.
LEMMA PaceDeliver ==
  ASSUME IInv, IInv', PaceInv, Deliver
  PROVE  PaceInv'
<1>1. /\ chunks \in Seq(ChunkType) /\ chunks' = Tail(chunks) /\ chunks # <<>>
      /\ UNCHANGED <<status, delay, paused>> /\ chunks[1].phase = "ready"
  BY DEF IInv, TypeOK, Deliver, sharedVars, Polled
<1>2. /\ DOMAIN chunks = 1..Len(chunks) /\ Len(chunks) \in Nat /\ Len(chunks) # 0
      /\ Len(chunks') = Len(chunks) - 1
      /\ DOMAIN chunks' = 1..(Len(chunks) - 1)
      /\ \A k \in 1..(Len(chunks) - 1) : chunks'[k] = chunks[k + 1]
  BY <1>1, HeadTailProperties, LenProperties, EmptySeq
<1>3. Concurrency \in Nat
  BY StaggerType
<1>4. Len(chunks') <= Concurrency
  BY <1>2, <1>3 DEF PaceInv
<1>5. ~ (chunks[1].wait > 0)
  BY <1>1, <1>2 DEF PaceInv
<1>6. ASSUME NEW j \in DOMAIN chunks, chunks[j].wait > 0
      PROVE  j - 1 \in DOMAIN chunks' /\ chunks'[j - 1] = chunks[j]
  <2>1. j # 1
    BY <1>5, <1>6
  <2>2. j - 1 \in 1..(Len(chunks) - 1) /\ (j - 1) + 1 = j
    BY <1>2, <2>1
  <2>3. QED BY <1>2, <2>2
<1>7. \A x : Linked(chunks, x) => Linked(chunks', x)
  BY <1>6 DEF Linked
<1>8. \A k \in DOMAIN chunks' : k + 1 \in DOMAIN chunks /\ chunks'[k] = chunks[k + 1]
  BY <1>2
<1>9. /\ \A k \in DOMAIN chunks' : Linked(chunks', chunks'[k].wait)
      /\ \A k \in DOMAIN chunks' : chunks'[k].wait > 0 => chunks'[k].phase = "sleeping"
  BY <1>7, <1>8 DEF PaceInv
<1>10. QED BY <1>1, <1>4, <1>7, <1>9 DEF PaceInv

\* A chunk just taken in waits for nothing, and there was room for it.
LEMMA PaceStart ==
  ASSUME HintsBounded, IInv, IInv', PaceInv, StartChunk
  PROVE  PaceInv'
<1> DEFINE c == NewChunk(cursor, AtMost(cursor + size, end))
<1>1. /\ chunks' = Append(chunks, c) /\ c.wait = 0
      /\ UNCHANGED <<status, delay, paused>>
      /\ ~ (Len(chunks) >= Concurrency)
  BY DEF StartChunk, sharedVars, NewChunk, Filled
<1> HIDE DEF c
<1>2. /\ chunks \in Seq(ChunkType) /\ Len(chunks) \in Nat
      /\ DOMAIN chunks = 1..Len(chunks) /\ chunks' \in Seq(ChunkType)
  BY LenProperties DEF IInv, TypeOK
<1>3. /\ DOMAIN chunks' = 1..(Len(chunks) + 1) /\ Len(chunks') = Len(chunks) + 1
      /\ \A j \in 1..Len(chunks) : chunks'[j] = chunks[j]
      /\ chunks'[Len(chunks) + 1].wait = 0
  BY <1>1, <1>2
<1>4. Concurrency \in Nat /\ LongestPause \in Nat
  BY StaggerType, LongestPauseIs
<1>5. Len(chunks') <= Concurrency
  BY <1>1, <1>2, <1>3, <1>4
<1>6. \A x : Linked(chunks, x) => Linked(chunks', x)
  BY <1>2, <1>3 DEF Linked
<1>7. ASSUME NEW k \in DOMAIN chunks'
      PROVE  /\ Linked(chunks', chunks'[k].wait)
             /\ chunks'[k].wait > 0 => chunks'[k].phase = "sleeping"
  <2>1. CASE k = Len(chunks) + 1
    BY <1>3, <1>4, <2>1 DEF Linked
  <2>2. CASE k # Len(chunks) + 1
    <3>1. k \in DOMAIN chunks /\ chunks'[k] = chunks[k]
      BY <1>2, <1>3, <2>2
    <3>2. QED BY <1>6, <3>1 DEF PaceInv
  <2>3. QED BY <2>1, <2>2
<1>8. QED BY <1>1, <1>5, <1>6, <1>7 DEF PaceInv

\* As many requests as may be in flight cannot all wait behind one another and
\* one more: the waits a stagger apart would belong to different chunks.
LEMMA PaceBounds ==
  ASSUME HintsBounded, IInv, PaceInv
  PROVE  PauseBounded
<1> DEFINE L == LongestPause  S == Stagger  C == Concurrency
<1>1. /\ L \in Nat /\ S \in Nat /\ C \in Nat \ {0}
      /\ chunks \in Seq(ChunkType) /\ Len(chunks) \in Nat /\ DOMAIN chunks = 1..Len(chunks)
      /\ \A j \in DOMAIN chunks : chunks[j].wait \in Nat
  <2>1. \A j \in DOMAIN chunks : chunks[j].wait \in Nat
    BY ChunkAt DEF ChunkType
  <2>2. QED BY <2>1, LongestPauseIs, StaggerType, LenProperties DEF IInv, TypeOK
<1>2. SUFFICES ASSUME NEW i \in DOMAIN chunks, ~ (chunks[i].wait <= L + (C - 1) * S)
               PROVE  FALSE
  BY DEF PauseBounded
<1> DEFINE w == chunks[i].wait
           At(k, j) == chunks[j].wait = w - k * S
           T == {k \in 0..C : ~ \E j \in DOMAIN chunks : At(k, j)}
<1>3. w \in Nat /\ w > L + (C - 1) * S /\ (C - 1) * S \in Nat
  BY <1>1, <1>2
<1>4. S > 0
  <2>1. ~ (w <= L)
    BY <1>1, <1>3
  <2>2. QED BY <2>1 DEF PaceInv, Linked
<1>5. T = {}
  <2>1. SUFFICES ASSUME T # {} PROVE FALSE
    OBVIOUS
  <2>2. PICK k \in T : \A m \in T : k <= m
    <3>1. T \in SUBSET Nat
      OBVIOUS
    <3> HIDE DEF T
    <3>2. QED BY <2>1, <3>1, LeastNat
  <2>3. k \in 0..C /\ ~ \E j \in DOMAIN chunks : At(k, j)
    OBVIOUS
  <2>4. k # 0
    <3>1. w - 0 * S = w
      BY <1>1, <1>3
    <3>2. QED BY <2>3, <3>1
  <2>5. k - 1 \in 0..C /\ k - 1 \notin T
    <3> HIDE DEF T
    <3>1. QED BY <1>1, <2>2, <2>3, <2>4
  <2>6. PICK j \in DOMAIN chunks : At(k - 1, j)
    BY <2>5
  <2>7. k * S = (k - 1) * S + S /\ (k - 1) * S \in Nat /\ (k - 1) * S <= (C - 1) * S
    <3>1. k - 1 \in Nat /\ C - 1 \in Nat /\ k - 1 <= C - 1
      BY <1>1, <2>3, <2>4
    <3>2. \A a, b, s \in Nat : a <= b => a * s \in Nat /\ a * s <= b * s /\ (a + 1) * s = a * s + s
      OBVIOUS
    <3>3. k = (k - 1) + 1
      BY <2>3
    <3> QED BY <1>1, <3>1, <3>2, <3>3
  <2>8. chunks[j].wait > L
    <3> DEFINE a == (k - 1) * S  b == (C - 1) * S
    <3>1. /\ chunks[j].wait = w - a /\ a \in Nat /\ b \in Nat /\ a <= b
          /\ w > L + b /\ w \in Nat /\ L \in Nat
      BY <1>1, <1>3, <2>6, <2>7
    <3> HIDE DEF a, b, w, L
    <3>2. QED BY <3>1
  <2>9. PICK j2 \in DOMAIN chunks : chunks[j].wait = chunks[j2].wait + S
    BY <1>1, <2>8 DEF PaceInv, Linked
  <2>10. At(k, j2)
    <3> DEFINE a == (k - 1) * S  b == k * S  y == chunks[j2].wait
    <3>1. /\ w \in Nat /\ S \in Nat /\ a \in Nat /\ y \in Nat /\ b = a + S
          /\ y + S = w - a
      BY <1>1, <1>3, <2>6, <2>7, <2>9
    <3> HIDE DEF a, b, y, w, S
    <3>2. y = w - b
      BY ONLY <3>1
    <3>3. QED BY <3>2 DEF y, b
  <2>11. QED BY <2>3, <2>10
<1>6. PICK f \in [0..C -> DOMAIN chunks] : \A k \in 0..C : At(k, f[k])
  <2>1. \A k \in 0..C : \E j \in DOMAIN chunks : At(k, j)
    BY <1>5
  <2> HIDE DEF At
  <2> DEFINE g == [k \in 0..C |-> CHOOSE j \in DOMAIN chunks : At(k, j)]
  <2>2. \A k \in 0..C : g[k] \in DOMAIN chunks /\ At(k, g[k])
    BY <2>1
  <2>3. g \in [0..C -> DOMAIN chunks]
    BY <2>2
  <2> HIDE DEF g
  <2>4. QED BY <2>2, <2>3
<1>7. \E x, y \in 0..C : x # y /\ f[x] = f[y]
  <2>1. IsFiniteSet(0..C) /\ Cardinality(0..C) = C + 1
    BY <1>1, FS_Interval
  <2>2. IsFiniteSet(DOMAIN chunks) /\ Cardinality(DOMAIN chunks) = Len(chunks)
    <3>1. /\ IsFiniteSet(1..Len(chunks))
          /\ Cardinality(1..Len(chunks)) = IF 1 > Len(chunks) THEN 0 ELSE Len(chunks) - 1 + 1
      BY <1>1, FS_Interval
    <3>2. QED BY <1>1, <3>1
  <2>3. Cardinality(DOMAIN chunks) < Cardinality(0..C)
    BY <1>1, <2>1, <2>2 DEF PaceInv
  <2> HIDE DEF C
  <2>4. QED BY <2>1, <2>2, <2>3, FS_PigeonHole
<1>8. PICK x, y \in 0..C : x # y /\ f[x] = f[y]
  BY <1>7
<1>9. x * S = y * S
  <2>1. At(x, f[x]) /\ At(y, f[y])
    BY <1>6
  <2>2. x * S \in Int /\ y * S \in Int
    BY <1>1
  <2>3. QED BY <1>3, <1>8, <2>1, <2>2
<1>10. \A a, b, s \in Nat : s > 0 /\ a < b => a * s < b * s
  OBVIOUS
<1>11. x \in Nat /\ y \in Nat /\ (x < y \/ y < x) /\ x * S \in Int /\ y * S \in Int
  BY <1>1, <1>8
<1>12. QED BY <1>1, <1>4, <1>9, <1>10, <1>11

\* However many rate limits hit while requests wait, none waits longer than the
\* longest pause and one stagger for each other request in flight.
THEOREM PauseBoundedHolds == ASSUME HintsBounded PROVE Spec => []PauseBounded
<1>1. Init => PaceInv
  <2>1. LongestPause \in Nat /\ BaseDelay <= LongestPause /\ Concurrency \in Nat
    BY LongestPauseIs, StaggerType
  <2>2. Len(<<>>) = 0 /\ DOMAIN <<>> = {}
    BY EmptySeq
  <2>3. QED BY <2>1, <2>2 DEF Init, PaceInv, Linked, NoPause
<1>2. IInv /\ IInv' /\ PaceInv /\ [Next]_vars => PaceInv'
  <2> SUFFICES ASSUME IInv, IInv', PaceInv, [Next]_vars PROVE PaceInv'
    OBVIOUS
  <2>1. CASE UNCHANGED <<chunks, delay, paused>> /\ (status = "failed" => status' = "failed")
    BY <2>1 DEF PaceInv, Linked
  <2>2. CASE StartChunk
    BY <2>2, PaceStart
  <2>3. ASSUME NEW i \in DOMAIN chunks, ChunkStep(i) PROVE PaceInv'
    BY <2>3, ChunkStepReplaces, PaceReplaced
  <2>4. CASE Deliver
    BY <2>4, PaceDeliver
  <2>5. CASE DeliverError
    <3>1. chunks' = <<>> /\ status' = "failed" /\ delay' = delay
      BY <2>5 DEF DeliverError, sharedVars
    <3>2. Len(<<>>) = 0 /\ DOMAIN <<>> = {}
      BY EmptySeq
    <3>3. Concurrency \in Nat
      BY StaggerType
    <3>4. QED BY <3>1, <3>2, <3>3 DEF PaceInv
  <2>6. CASE Tick
    BY <2>6, PaceTick
  <2>7. QED
    BY <2>1, <2>2, <2>3, <2>4, <2>5, <2>6
       DEF Next, ResolveFrom, ResolveTo, ResolveFail, Finish, Ended, vars, sharedVars
<1>3. IInv /\ PaceInv => PauseBounded
  BY PaceBounds
<1>4. QED BY Invariance, <1>1, <1>2, <1>3, PTL DEF Spec
===============================================================================
