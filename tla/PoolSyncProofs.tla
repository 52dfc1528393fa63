---------------------------- MODULE PoolSyncProofs ----------------------------
(***************************************************************************)
(* What holds of a syncing session for every chain, every cache and every  *)
(* manifest: its tree and its spent notes are the pool's, and unless a     *)
(* call has read a cache that was being published, it has everything of    *)
(* the blocks it has been answered for and no snapshot is refused.         *)
(*                                                                         *)
(* The first part is about selections from sequences (Within, OfKind,      *)
(* Decoded and Sealed are all Selected by some set), by induction on the   *)
(* sequence.  The second is about logs, splices and chunks, the third the  *)
(* inductive invariant SyncInv and its steps, each of which is a step of   *)
(* PoolSession or stutters there.                                          *)
(***************************************************************************)
EXTENDS PoolSync, SequenceTheorems, WellFoundedInduction, TLAPS

\* The order of the natural numbers is well-founded.
NatLess == {p \in Nat \X Nat : p[1] < p[2]}
LEMMA NatLessWF == IsWellFoundedOn(NatLess, Nat)
<1>1. OpToRel(<, Nat) = NatLess
  BY DEF OpToRel, NatLess
<1> QED BY <1>1, NatLessThanWellFounded

\* A set of natural numbers has a least element.
LEMMA LeastNat ==
  ASSUME NEW T \in SUBSET Nat, T # {}
  PROVE  \E n \in T : \A m \in T : n <= m
<1>1. \E n \in T : \A m \in T : ~ (<<m, n>> \in NatLess)
  <2> HIDE DEF NatLess
  <2> QED BY NatLessWF, WFMin
<1>2. PICK n \in T : \A m \in T : ~ (<<m, n>> \in NatLess)
  BY <1>1
<1>3. ASSUME NEW m \in T PROVE n <= m
  <2>1. <<m, n>> \notin NatLess
    BY <1>2
  <2>2. m < n => <<m, n>> \in NatLess
    BY DEF NatLess
  <2>3. QED BY <2>1, <2>2
<1>4. QED BY <1>3

\* A set that holds the empty sequence, and with a sequence each longer by one
\* element, holds every sequence.
LEMMA SeqInduct ==
  ASSUME NEW S, NEW G, <<>> \in G,
         \A s \in Seq(S) : \A x \in S : s \in G => Append(s, x) \in G
  PROVE  \A s \in Seq(S) : s \in G
<1> DEFINE T == {n \in Nat : \E s \in Seq(S) : Len(s) = n /\ s \notin G}
<1>1. SUFFICES ASSUME T # {} PROVE FALSE
  <2>1. SUFFICES ASSUME NEW s \in Seq(S), s \notin G PROVE T # {}
    OBVIOUS
  <2>2. Len(s) \in T
    BY <2>1, LenProperties
  <2>3. QED BY <2>2
<1>2. PICK n \in T : \A m \in T : n <= m
  <2>1. T \in SUBSET Nat
    OBVIOUS
  <2> HIDE DEF T
  <2>2. QED BY <1>1, <2>1, LeastNat
<1>3. PICK s \in Seq(S) : Len(s) = n /\ s \notin G
  OBVIOUS
<1>4. s # <<>>
  BY <1>3
<1>5. PICK t \in Seq(S), x \in S : s = Append(t, x)
  BY <1>4, SequenceEmptyOrAppend
<1>6. t \notin G
  BY <1>3, <1>5
<1>7. Len(t) \in Nat /\ Len(s) = Len(t) + 1
  BY <1>5, AppendProperties, LenProperties
<1>8. Len(t) \in T
  BY <1>6, <1>7
<1> HIDE DEF T
<1>9. Len(t) >= n
  BY <1>2, <1>8
<1>10. QED BY <1>3, <1>7, <1>9

-----------------------------------------------------------------------------
\* What Selected's recursion computes for each prefix.
SelStep(f, s, keep, n) ==
  IF n = 0 THEN <<>>
  ELSE IF s[n] \in keep THEN Append(f[n - 1], s[n])
  ELSE f[n - 1]
Selects(f, s, keep) == f = [n \in 0..Len(s) |-> SelStep(f, s, keep, n)]

\* What such a recursion's value is at each prefix.
LEMMA SelectsAt ==
  ASSUME NEW s, NEW keep, NEW f, Selects(f, s, keep)
  PROVE  \A n \in 0..Len(s) : f[n] = SelStep(f, s, keep, n)
<1> DEFINE g == [n \in 0..Len(s) |-> SelStep(f, s, keep, n)]
<1>1. f = g
  BY DEF Selects
<1>2. \A n \in 0..Len(s) : g[n] = SelStep(f, s, keep, n)
  OBVIOUS
<1> HIDE DEF g
<1>3. QED BY <1>1, <1>2

\* Every sequence has such a recursion.
LEMMA SelectsExists ==
  ASSUME NEW S, NEW keep
  PROVE  \A s \in Seq(S) : \E f : Selects(f, s, keep)
<1> DEFINE G == {s \in Seq(S) : \E f : Selects(f, s, keep)}
<1>1. <<>> \in G
  <2> DEFINE f == [n \in 0..0 |-> <<>>]
  <2>1. <<>> \in Seq(S) /\ Len(<<>>) = 0
    BY EmptySeq
  <2>2. \A n \in 0..0 : n = 0
    OBVIOUS
  <2>3. \A n \in 0..0 : SelStep(f, <<>>, keep, n) = <<>>
    BY <2>2 DEF SelStep
  <2>4. f = [n \in 0..0 |-> SelStep(f, <<>>, keep, n)]
    <3> HIDE DEF f
    <3>1. f = [n \in 0..0 |-> <<>>]
      BY DEF f
    <3>2. QED BY <2>3, <3>1
  <2> HIDE DEF f
  <2>5. Selects(f, <<>>, keep)
    BY <2>1, <2>4 DEF Selects
  <2>6. QED BY <2>1, <2>5
<1>2. ASSUME NEW s \in Seq(S), NEW x \in S, s \in G PROVE Append(s, x) \in G
  <2>1. PICK f : Selects(f, s, keep)
    BY <1>2
  <2> DEFINE t == Append(s, x)
             l == Len(s)
             h == [n \in 0..(l + 1) |->
                    IF n <= l THEN f[n] ELSE IF x \in keep THEN Append(f[l], x) ELSE f[l]]
  <2>2. t \in Seq(S) /\ Len(t) = l + 1 /\ t[l + 1] = x /\ (\A n \in 1..l : t[n] = s[n]) /\ l \in Nat
    BY AppendProperties, LenProperties
  <2>3. \A n \in 0..l : f[n] = SelStep(f, s, keep, n)
    BY <2>1, SelectsAt
  <2>4. \A n \in 0..(l + 1) :
          h[n] = IF n <= l THEN f[n] ELSE IF x \in keep THEN Append(f[l], x) ELSE f[l]
    OBVIOUS
  <2>5. DOMAIN h = 0..(l + 1) /\ h = [n \in 0..(l + 1) |-> h[n]]
    OBVIOUS
  <2> HIDE DEF h, t, l
  <2>6. ASSUME NEW n \in 0..(l + 1) PROVE h[n] = SelStep(h, t, keep, n)
    <3>1. CASE n = 0
      BY <2>2, <2>3, <2>4, <3>1 DEF SelStep
    <3>2. CASE n # 0 /\ n <= l
      <4>1. n \in 1..l /\ n \in 0..l /\ n - 1 \in 0..(l + 1) /\ n - 1 <= l
        BY <2>2, <3>2
      <4>2. h[n] = f[n] /\ h[n - 1] = f[n - 1] /\ t[n] = s[n]
        BY <2>2, <2>4, <4>1
      <4>3. f[n] = SelStep(f, s, keep, n)
        BY <2>3, <4>1
      <4>4. QED BY <3>2, <4>2, <4>3 DEF SelStep
    <3>3. CASE n = l + 1
      <4>1. n # 0 /\ n - 1 = l /\ ~ (n <= l) /\ l \in 0..(l + 1) /\ l <= l
        BY <2>2, <3>3
      <4>2. h[n - 1] = f[l] /\ t[n] = x
        BY <2>2, <2>4, <3>3, <4>1
      <4>3. QED BY <2>4, <4>1, <4>2 DEF SelStep
    <3>4. n = 0 \/ (n # 0 /\ n <= l) \/ n = l + 1
      BY <2>2
    <3>5. QED BY <3>1, <3>2, <3>3, <3>4
  <2>7. h = [n \in 0..(l + 1) |-> SelStep(h, t, keep, n)]
    <3>1. PICK hh : hh = h
      OBVIOUS
    <3>2. h = [n \in 0..(l + 1) |-> hh[n]]
      BY <2>5, <3>1
    <3>3. \A n \in 0..(l + 1) : hh[n] = SelStep(hh, t, keep, n)
      BY <2>6, <3>1
    <3>4. hh = [n \in 0..(l + 1) |-> SelStep(hh, t, keep, n)]
      BY <3>1, <3>2, <3>3
    <3>5. QED BY <3>1, <3>4
  <2>8. Selects(h, t, keep)
    BY <2>2, <2>7 DEF Selects
  <2>9. QED BY <2>2, <2>8 DEF t
<1>3. \A s \in Seq(S) : \A x \in S : s \in G => Append(s, x) \in G
  BY <1>2
<1>4. \A s \in Seq(S) : s \in G
  <2> HIDE DEF G
  <2> QED BY <1>1, <1>3, SeqInduct
<1>5. QED BY <1>4

\* Selected is the last value of such a recursion.
LEMMA SelectedIs ==
  ASSUME NEW S, NEW s \in Seq(S), NEW keep
  PROVE  \E f : Selects(f, s, keep) /\ Selected(s, keep) = f[Len(s)]
<1> DEFINE f == CHOOSE g : Selects(g, s, keep)
<1>1. \E g : Selects(g, s, keep)
  BY SelectsExists
<1>2. Selects(f, s, keep)
  <2> HIDE DEF Selects
  <2> QED BY <1>1
<1>3. Selected(s, keep) = f[Len(s)]
  BY DEF Selected, Selects, SelStep
<1> HIDE DEF f
<1>4. QED BY <1>2, <1>3

\* Two such recursions agree where the sequences do.
LEMMA SelectsAgree ==
  ASSUME NEW S, NEW s \in Seq(S), NEW t \in Seq(S), NEW keep, NEW f, NEW g,
         Selects(f, s, keep), Selects(g, t, keep),
         Len(s) <= Len(t), \A n \in 1..Len(s) : s[n] = t[n]
  PROVE  \A n \in 0..Len(s) : f[n] = g[n]
<1> DEFINE T == {n \in 0..Len(s) : f[n] # g[n]}
<1>0. Len(s) \in Nat /\ Len(t) \in Nat
  BY LenProperties
<1>1. SUFFICES ASSUME T # {} PROVE FALSE
  OBVIOUS
<1>2. PICK n \in T : \A m \in T : n <= m
  <2>1. T \in SUBSET Nat
    BY <1>0
  <2> HIDE DEF T
  <2>2. QED BY <1>1, <2>1, LeastNat
<1>3. n \in 0..Len(s) /\ n \in 0..Len(t) /\ f[n] # g[n]
  BY <1>0
<1>4. f[n] = SelStep(f, s, keep, n) /\ g[n] = SelStep(g, t, keep, n)
  BY <1>3, SelectsAt
<1>5. n # 0
  BY <1>3, <1>4 DEF SelStep
<1>6. n - 1 \notin T /\ n - 1 \in 0..Len(s)
  <2> HIDE DEF T
  <2>1. QED BY <1>2, <1>3, <1>5, <1>0
<1>7. f[n - 1] = g[n - 1] /\ s[n] = t[n]
  BY <1>3, <1>5, <1>6
<1>8. QED BY <1>3, <1>4, <1>7 DEF SelStep

\* Nothing is selected from nothing.
LEMMA SelEmpty == \A keep : Selected(<<>>, keep) = <<>>
<1> SUFFICES ASSUME NEW keep PROVE Selected(<<>>, keep) = <<>>
  OBVIOUS
<1>1. <<>> \in Seq({}) /\ Len(<<>>) = 0 /\ 0 \in 0..0
  BY EmptySeq
<1>2. PICK f : Selects(f, <<>>, keep) /\ Selected(<<>>, keep) = f[Len(<<>>)]
  BY <1>1, SelectedIs
<1>3. f[0] = SelStep(f, <<>>, keep, 0)
  <2>1. PICK s : s = <<>>
    OBVIOUS
  <2>2. Selects(f, s, keep) /\ 0 \in 0..Len(s)
    BY <1>1, <1>2, <2>1
  <2>3. f[0] = SelStep(f, s, keep, 0)
    BY ONLY <2>2, SelectsAt
  <2>4. QED BY <2>1, <2>3
<1>4. QED BY <1>1, <1>2, <1>3 DEF SelStep

\* A selection from a sequence one longer.
LEMMA SelAppend ==
  ASSUME NEW S, NEW s \in Seq(S), NEW x \in S, NEW keep
  PROVE  Selected(Append(s, x), keep) =
           IF x \in keep THEN Append(Selected(s, keep), x) ELSE Selected(s, keep)
<1> DEFINE t == Append(s, x)  l == Len(s)
<1>1. t \in Seq(S) /\ Len(t) = l + 1 /\ t[l + 1] = x /\ (\A n \in 1..l : t[n] = s[n]) /\ l \in Nat
  BY AppendProperties, LenProperties
<1>2. PICK f : Selects(f, s, keep) /\ Selected(s, keep) = f[Len(s)]
  BY SelectedIs
<1> HIDE DEF t
<1>3. PICK g : Selects(g, t, keep) /\ Selected(t, keep) = g[Len(t)]
  BY <1>1, SelectedIs
<1>4. \A n \in 0..l : f[n] = g[n]
  <2>1. l <= Len(t)
    BY <1>1
  <2>2. QED BY <1>1, <1>2, <1>3, <2>1, SelectsAgree
<1>5. g[l + 1] = SelStep(g, t, keep, l + 1)
  <2>1. l + 1 \in 0..Len(t)
    BY <1>1
  <2>2. QED BY <1>1, <1>3, <2>1, SelectsAt
<1>6. l + 1 # 0 /\ (l + 1) - 1 = l /\ l \in 0..l
  BY <1>1
<1>7. Selected(t, keep) = IF x \in keep THEN Append(f[l], x) ELSE f[l]
  BY <1>1, <1>3, <1>4, <1>5, <1>6 DEF SelStep
<1>8. QED BY <1>2, <1>7 DEF t

-----------------------------------------------------------------------------
\* A selection holds members of the sequence and of the set only.
LEMMA SelType ==
  ASSUME NEW S, NEW keep
  PROVE  \A s \in Seq(S) : Selected(s, keep) \in Seq(S \cap keep)
<1> DEFINE G == {s \in Seq(S) : Selected(s, keep) \in Seq(S \cap keep)}
<1>1. <<>> \in G
  BY SelEmpty, EmptySeq
<1>2. ASSUME NEW s \in Seq(S), NEW x \in S, s \in G PROVE Append(s, x) \in G
  <2>1. Append(s, x) \in Seq(S) /\ Selected(s, keep) \in Seq(S \cap keep)
    BY <1>2, AppendProperties
  <2>2. CASE x \in keep
    <3>1. x \in S \cap keep
      BY <2>2
    <3>2. Append(Selected(s, keep), x) \in Seq(S \cap keep)
      BY <2>1, <3>1, AppendProperties
    <3>3. QED BY <2>1, <2>2, <3>2, SelAppend
  <2>3. CASE x \notin keep
    BY <2>1, <2>3, SelAppend
  <2>4. QED BY <2>2, <2>3
<1>3. \A s \in Seq(S) : s \in G
  <2> HIDE DEF G
  <2> QED BY <1>1, <1>2, SeqInduct
<1>4. QED BY <1>3

\* A selection is a sequence of elements that are in the set.
LEMMA SelSeq ==
  ASSUME NEW S, NEW keep, NEW s \in Seq(S)
  PROVE  /\ Selected(s, keep) \in Seq(S)
         /\ Selected(s, keep) \in Seq(S \cap keep)
<1>1. Selected(s, keep) \in Seq(S \cap keep)
  BY SelType
<1>2. S \cap keep \subseteq S
  OBVIOUS
<1>3. QED BY <1>1, <1>2, SeqMonotonic

\* The elements of a sequence one longer.
LEMMA ToSetAppend ==
  ASSUME NEW S, NEW s \in Seq(S), NEW x \in S
  PROVE  ToSet(Append(s, x)) = ToSet(s) \cup {x}
<1>1. /\ Len(s) \in Nat /\ DOMAIN s = 1..Len(s)
      /\ DOMAIN Append(s, x) = 1..(Len(s) + 1)
      /\ \A k \in 1..Len(s) : Append(s, x)[k] = s[k]
      /\ Append(s, x)[Len(s) + 1] = x
  BY AppendProperties, LenProperties
<1>2. 1..(Len(s) + 1) = 1..Len(s) \cup {Len(s) + 1}
  BY <1>1
<1> DEFINE t == Append(s, x)
<1>3. PICK u : u = t
  OBVIOUS
<1>4. {u[k] : k \in 1..(Len(s) + 1)} = {s[k] : k \in 1..Len(s)} \cup {x}
  BY <1>1, <1>2, <1>3
<1>5. QED BY <1>1, <1>3, <1>4 DEF ToSet

\* A selection holds all of the sequence that is in the set.
LEMMA SelToSet ==
  ASSUME NEW S, NEW keep
  PROVE  \A s \in Seq(S) : ToSet(Selected(s, keep)) = ToSet(s) \cap keep
<1> DEFINE G == {s \in Seq(S) : ToSet(Selected(s, keep)) = ToSet(s) \cap keep}
<1>1. <<>> \in G
  <2>1. ToSet(<<>>) = {}
    BY DEF ToSet
  <2>2. QED BY <2>1, SelEmpty, EmptySeq
<1>2. ASSUME NEW s \in Seq(S), NEW x \in S, s \in G PROVE Append(s, x) \in G
  <2>1. Append(s, x) \in Seq(S) /\ Selected(s, keep) \in Seq(S)
    BY AppendProperties, SelSeq
  <2>2. ToSet(Append(s, x)) = ToSet(s) \cup {x}
    BY ToSetAppend
  <2>3. ToSet(Append(Selected(s, keep), x)) = ToSet(Selected(s, keep)) \cup {x}
    BY <2>1, ToSetAppend
  <2>4. ToSet(Selected(Append(s, x), keep)) = (ToSet(s) \cup {x}) \cap keep
    <3>0. ToSet(Selected(s, keep)) = ToSet(s) \cap keep
      BY <1>2
    <3>1. CASE x \in keep
      <4>1. Selected(Append(s, x), keep) = Append(Selected(s, keep), x)
        BY <3>1, SelAppend
      <4>2. ToSet(Selected(Append(s, x), keep)) = (ToSet(s) \cap keep) \cup {x}
        BY <2>3, <3>0, <4>1
      <4>3. QED BY <3>1, <4>2
    <3>2. CASE x \notin keep
      <4>1. Selected(Append(s, x), keep) = Selected(s, keep)
        BY <3>2, SelAppend
      <4>2. QED BY <3>0, <3>2, <4>1
    <3>3. QED BY <3>1, <3>2
  <2>5. QED BY <2>1, <2>2, <2>4
<1>3. \A s \in Seq(S) : s \in G
  <2> HIDE DEF G
  <2> QED BY <1>1, <1>2, SeqInduct
<1>4. QED BY <1>3

\* Appending to the second of two sequences appends to both in a row.
LEMMA AppendConcat ==
  ASSUME NEW S, NEW s \in Seq(S), NEW t \in Seq(S), NEW x \in S
  PROVE  s \o Append(t, x) = Append(s \o t, x)
<1>1. <<x>> \in Seq(S) /\ s \o t \in Seq(S)
  BY ConcatProperties
<1>2. Append(t, x) = t \o <<x>> /\ Append(s \o t, x) = (s \o t) \o <<x>>
  BY <1>1, AppendIsConcat
<1>3. QED BY <1>1, <1>2, ConcatAssociative

\* A selection from two sequences in a row is the two selections in a row.
LEMMA SelConcat ==
  ASSUME NEW S, NEW keep, NEW s \in Seq(S)
  PROVE  \A t \in Seq(S) : Selected(s \o t, keep) = Selected(s, keep) \o Selected(t, keep)
<1> DEFINE G == {t \in Seq(S) : Selected(s \o t, keep) = Selected(s, keep) \o Selected(t, keep)}
<1>0. Selected(s, keep) \in Seq(S)
  BY SelSeq
<1>1. <<>> \in G
  <2>1. s \o <<>> = s /\ Selected(s, keep) \o <<>> = Selected(s, keep)
    BY <1>0, ConcatEmptySeq
  <2>2. QED BY <2>1, SelEmpty, EmptySeq
<1>2. ASSUME NEW t \in Seq(S), NEW x \in S, t \in G PROVE Append(t, x) \in G
  <2> DEFINE a == Selected(s, keep)  b == Selected(t, keep)
  <2>1. Append(t, x) \in Seq(S) /\ a \in Seq(S) /\ b \in Seq(S) /\ s \o t \in Seq(S)
    BY AppendProperties, SelSeq, ConcatProperties
  <2>2. s \o Append(t, x) = Append(s \o t, x)
    BY AppendConcat
  <2>3. Selected(s \o t, keep) = a \o b
    BY <1>2
  <2>4. Selected(Append(s \o t, x), keep) = IF x \in keep THEN Append(a \o b, x) ELSE a \o b
    <3>1. PICK u : u = s \o t
      OBVIOUS
    <3>2. u \in Seq(S) /\ x \in S
      BY <2>1, <3>1
    <3>3. Selected(Append(u, x), keep) =
            IF x \in keep THEN Append(Selected(u, keep), x) ELSE Selected(u, keep)
      BY ONLY <3>2, SelAppend
    <3>4. Selected(u, keep) = a \o b
      BY <2>3, <3>1
    <3> HIDE DEF a, b
    <3>5. QED BY <3>1, <3>3, <3>4
  <2>5. Selected(Append(t, x), keep) = IF x \in keep THEN Append(b, x) ELSE b
    BY SelAppend
  <2> HIDE DEF a, b
  <2>6. a \o Append(b, x) = Append(a \o b, x)
    BY <2>1, AppendConcat
  <2>7. Selected(s \o Append(t, x), keep) = a \o Selected(Append(t, x), keep)
    BY <2>2, <2>4, <2>5, <2>6
  <2>8. QED BY <2>1, <2>7 DEF a
<1>3. \A t \in Seq(S) : t \in G
  <2> HIDE DEF G
  <2> QED BY <1>1, <1>2, SeqInduct
<1>4. QED BY <1>3

\* Selecting twice selects what is in both sets.
LEMMA SelCompose ==
  ASSUME NEW S, NEW A, NEW B
  PROVE  \A s \in Seq(S) : Selected(Selected(s, A), B) = Selected(s, A \cap B)
<1> DEFINE G == {s \in Seq(S) : Selected(Selected(s, A), B) = Selected(s, A \cap B)}
<1>1. <<>> \in G
  BY SelEmpty, EmptySeq
<1>2. ASSUME NEW s \in Seq(S), NEW x \in S, s \in G PROVE Append(s, x) \in G
  <2>1. Append(s, x) \in Seq(S) /\ Selected(s, A) \in Seq(S)
    BY AppendProperties, SelSeq
  <2>2. Selected(Append(s, x), A \cap B) =
          IF x \in A \cap B THEN Append(Selected(s, A \cap B), x) ELSE Selected(s, A \cap B)
    BY SelAppend
  <2>3. Selected(Append(s, x), A) = IF x \in A THEN Append(Selected(s, A), x) ELSE Selected(s, A)
    BY SelAppend
  <2>4. Selected(Append(Selected(s, A), x), B) =
          IF x \in B THEN Append(Selected(Selected(s, A), B), x) ELSE Selected(Selected(s, A), B)
    BY <2>1, SelAppend
  <2>5. Selected(Selected(Append(s, x), A), B) = Selected(Append(s, x), A \cap B)
    <3>1. CASE x \in A
      <4>1. x \in A \cap B <=> x \in B
        BY <3>1
      <4>2. Selected(Append(s, x), A) = Append(Selected(s, A), x)
        BY <2>3, <3>1
      <4>3. Selected(Selected(s, A), B) = Selected(s, A \cap B)
        BY <1>2
      <4> HIDE DEF G
      <4>4. QED BY <2>2, <2>4, <4>1, <4>2, <4>3
    <3>2. CASE x \notin A
      BY <1>2, <2>2, <2>3, <3>2
    <3>3. QED BY <3>1, <3>2
  <2>6. QED BY <2>1, <2>5
<1>3. \A s \in Seq(S) : s \in G
  <2> HIDE DEF G
  <2> QED BY <1>1, <1>2, SeqInduct
<1>4. QED BY <1>3

\* Sets that agree on the elements of a sequence select the same.
LEMMA SelAgree ==
  ASSUME NEW S, NEW A, NEW B, \A x \in S : x \in A <=> x \in B
  PROVE  \A s \in Seq(S) : Selected(s, A) = Selected(s, B)
<1> DEFINE G == {s \in Seq(S) : Selected(s, A) = Selected(s, B)}
<1>1. <<>> \in G
  BY SelEmpty, EmptySeq
<1>2. ASSUME NEW s \in Seq(S), NEW x \in S, s \in G PROVE Append(s, x) \in G
  BY <1>2, SelAppend, AppendProperties, SMTT(30)
<1>3. \A s \in Seq(S) : s \in G
  <2> HIDE DEF G
  <2> QED BY <1>1, <1>2, SeqInduct
<1>4. QED BY <1>3

\* A selection by a set that holds all elements is the sequence, and by a set
\* that holds none, empty.
LEMMA SelAll ==
  ASSUME NEW S, NEW A, S \subseteq A
  PROVE  \A s \in Seq(S) : Selected(s, A) = s
<1> DEFINE G == {s \in Seq(S) : Selected(s, A) = s}
<1>1. <<>> \in G
  BY SelEmpty, EmptySeq
<1>2. ASSUME NEW s \in Seq(S), NEW x \in S, s \in G PROVE Append(s, x) \in G
  BY <1>2, SelAppend, AppendProperties
<1>3. \A s \in Seq(S) : s \in G
  <2> HIDE DEF G
  <2> QED BY <1>1, <1>2, SeqInduct
<1>4. QED BY <1>3

\* A selection by a set that holds none of the elements.
LEMMA SelNone ==
  ASSUME NEW S, NEW A, S \cap A = {}
  PROVE  \A s \in Seq(S) : Selected(s, A) = <<>>
<1> DEFINE G == {s \in Seq(S) : Selected(s, A) = <<>>}
<1>1. <<>> \in G
  BY SelEmpty, EmptySeq
<1>2. ASSUME NEW s \in Seq(S), NEW x \in S, s \in G PROVE Append(s, x) \in G
  BY <1>2, SelAppend, AppendProperties
<1>3. \A s \in Seq(S) : s \in G
  <2> HIDE DEF G
  <2> QED BY <1>1, <1>2, SeqInduct
<1>4. QED BY <1>3

\* The same for the elements the sequence has.
LEMMA OwnElements ==
  ASSUME NEW S, NEW s \in Seq(S)
  PROVE  /\ s \in Seq(ToSet(s))
         /\ ToSet(s) \subseteq S
         /\ ToSet(s) = {s[k] : k \in 1..Len(s)}
         /\ \A k \in 1..Len(s) : s[k] \in ToSet(s)
         /\ Len(s) \in Nat
<1>1. DOMAIN s = 1..Len(s) /\ s \in [1..Len(s) -> S] /\ Len(s) \in Nat
  BY LenProperties
<1>2. ToSet(s) = {s[k] : k \in 1..Len(s)}
  BY <1>1 DEF ToSet
<1>3. s \in [1..Len(s) -> ToSet(s)] /\ ToSet(s) \subseteq S
  BY <1>1, <1>2
<1>4. s \in Seq(ToSet(s))
  BY <1>1, <1>3, SeqDef
<1>5. QED BY <1>1, <1>2, <1>3, <1>4

\* The same for the elements a sequence has.
LEMMA SelOwn ==
  ASSUME NEW S, NEW s \in Seq(S), NEW A
  PROVE  /\ ToSet(s) \subseteq A => Selected(s, A) = s
         /\ ToSet(s) \cap A = {} => Selected(s, A) = <<>>
BY OwnElements, SelAll, SelNone

-----------------------------------------------------------------------------
\* The sets that selections of logs are made by.
Between(a, b) == {e \in Event : a <= e.block /\ e.block < b}
Of(kind) == {e \in Event : e.kind = kind}
Known == {e \in Event : e.kind # "other"}

\* Each selection of the model is by one of these sets.
LEMMA Selections ==
  /\ \A s, a, b : Within(s, a, b) = Selected(s, Between(a, b))
  /\ \A s, kind : OfKind(s, kind) = Selected(s, Of(kind))
  /\ \A s : Decoded(s) = Selected(s, Known)
BY DEF Within, OfKind, Decoded, Between, Of, Known

\* Each is a sequence of logs.
LEMMA SelectionTypes ==
  ASSUME NEW s \in Seq(Event)
  PROVE  /\ \A a, b : Within(s, a, b) \in Seq(Event)
         /\ \A kind : OfKind(s, kind) \in Seq(Event)
         /\ Decoded(s) \in Seq(Event)
<1> USE Selections
<1>1. \A keep : Selected(s, keep) \in Seq(Event)
  BY SelSeq
<1>2. QED BY <1>1

\* The larger and the smaller of two numbers.
LEMMA AtLeastAtMost ==
  ASSUME NEW a \in Int, NEW b \in Int
  PROVE  /\ AtLeast(a, b) \in Int /\ AtLeast(a, b) >= a /\ AtLeast(a, b) >= b
         /\ AtLeast(a, b) \in {a, b}
         /\ AtMost(a, b) \in Int /\ AtMost(a, b) <= a /\ AtMost(a, b) <= b
         /\ AtMost(a, b) \in {a, b}
BY DEF AtLeast, AtMost

\* The logs of a range that are in another are those of both.
LEMMA WithinWithin ==
  ASSUME NEW s \in Seq(Event), NEW a \in Int, NEW b \in Int, NEW c \in Int, NEW d \in Int
  PROVE  Within(Within(s, a, b), c, d) = Within(s, AtLeast(a, c), AtMost(b, d))
<1> DEFINE A == Between(a, b)  B == Between(c, d)  C == Between(AtLeast(a, c), AtMost(b, d))
<1>1. \A e \in Event : e \in A \cap B <=> e \in C
  BY DEF Between, AtLeast, AtMost, Event
<1> HIDE DEF A, B, C
<1>2. Selected(Selected(s, A), B) = Selected(s, A \cap B)
  BY SelCompose
<1>3. Selected(s, A \cap B) = Selected(s, C)
  BY <1>1, SelAgree
<1>4. QED BY <1>2, <1>3, Selections DEF A, B, C

\* Selecting by kind and by block may be done in either order.
LEMMA KindWithin ==
  ASSUME NEW s \in Seq(Event), NEW a, NEW b, NEW kind
  PROVE  OfKind(Within(s, a, b), kind) = Within(OfKind(s, kind), a, b)
<1> DEFINE A == Between(a, b)  B == Of(kind)
<1> HIDE DEF A, B
<1>1. Selected(Selected(s, A), B) = Selected(s, A \cap B)
  BY SelCompose
<1>2. Selected(Selected(s, B), A) = Selected(s, B \cap A)
  BY SelCompose
<1>3. A \cap B = B \cap A
  OBVIOUS
<1>4. QED BY <1>1, <1>2, <1>3, Selections DEF A, B

\* Decoding keeps the deposits and the withdrawals.
LEMMA KindDecoded ==
  ASSUME NEW s \in Seq(Event), NEW kind \in {"deposit", "withdrawal"}
  PROVE  OfKind(Decoded(s), kind) = OfKind(s, kind)
<1> DEFINE A == Known  B == Of(kind)
<1>1. \A e \in Event : e \in A \cap B <=> e \in B
  BY DEF Known, Of
<1> HIDE DEF A, B
<1>2. Selected(Selected(s, A), B) = Selected(s, A \cap B)
  BY SelCompose
<1>3. Selected(s, A \cap B) = Selected(s, B)
  BY <1>1, SelAgree
<1>4. QED BY <1>2, <1>3, Selections DEF A, B

\* The logs of one kind among those of a kind: all of them, or none.
LEMMA KindKind ==
  ASSUME NEW s \in Seq(Event), NEW kind, NEW other
  PROVE  OfKind(OfKind(s, kind), other) = IF kind = other THEN OfKind(s, kind) ELSE <<>>
<1> DEFINE A == Of(kind)  B == Of(other)  C == IF kind = other THEN A ELSE {}
<1>1. \A e \in Event : e \in A \cap B <=> e \in C
  BY DEF Of
<1> HIDE DEF A, B
<1>2. Selected(Selected(s, A), B) = Selected(s, A \cap B)
  BY SelCompose
<1>3. Selected(s, A \cap B) = Selected(s, C)
  <2> HIDE DEF C
  <2> QED BY <1>1, SelAgree
<1>4. Selected(s, {}) = <<>>
  BY SelNone
<1>5. QED BY <1>2, <1>3, <1>4, Selections DEF A, B

\* Each selection from two sequences in a row is the two selections in a row.
LEMMA SelectionsConcat ==
  ASSUME NEW s \in Seq(Event), NEW t \in Seq(Event)
  PROVE  /\ \A a, b : Within(s \o t, a, b) = Within(s, a, b) \o Within(t, a, b)
         /\ \A kind : OfKind(s \o t, kind) = OfKind(s, kind) \o OfKind(t, kind)
         /\ Decoded(s \o t) = Decoded(s) \o Decoded(t)
<1>1. \A keep : Selected(s \o t, keep) = Selected(s, keep) \o Selected(t, keep)
  BY SelConcat
<1>2. QED BY <1>1, Selections

\* The logs of a chain are in the order of their blocks.
Ordered(s) == \A i, j \in 1..Len(s) : i < j => s[i].block <= s[j].block

\* The logs of a range are those of its first part, then those of its second.
LEMMA WithinSplit ==
  ASSUME NEW a \in Int, NEW b \in Int, NEW c \in Int, a <= b, b <= c
  PROVE  \A s \in Seq(Event) :
           Ordered(s) => Within(s, a, c) = Within(s, a, b) \o Within(s, b, c)
<1> DEFINE A == Between(a, b)  B == Between(b, c)  C == Between(a, c)
           G == {s \in Seq(Event) :
                   Ordered(s) => Selected(s, C) = Selected(s, A) \o Selected(s, B)}
<1>1. <<>> \in G
  <2>1. <<>> \o <<>> = <<>> /\ <<>> \in Seq(Event)
    BY EmptySeq, ConcatEmptySeq
  <2>2. Selected(<<>>, C) = Selected(<<>>, A) \o Selected(<<>>, B)
    BY <2>1, SelEmpty
  <2>3. QED BY <2>1, <2>2
<1>2. ASSUME NEW s \in Seq(Event), NEW x \in Event, s \in G PROVE Append(s, x) \in G
  <2>1. /\ Append(s, x) \in Seq(Event) /\ Len(Append(s, x)) = Len(s) + 1 /\ Len(s) \in Nat
        /\ \A k \in 1..Len(s) : Append(s, x)[k] = s[k]
        /\ Append(s, x)[Len(s) + 1] = x
    BY AppendProperties, LenProperties
  <2>2. SUFFICES ASSUME Ordered(Append(s, x))
                 PROVE  Selected(Append(s, x), C) =
                          Selected(Append(s, x), A) \o Selected(Append(s, x), B)
    BY <2>1
  <2>3. Ordered(s) /\ \A k \in 1..Len(s) : s[k].block <= x.block
    <3>1. \A k \in 1..Len(s) :
            k \in 1..(Len(s) + 1) /\ k < Len(s) + 1 /\ Len(s) + 1 \in 1..(Len(s) + 1)
      BY <2>1
    <3>2. \A k \in 1..Len(s) : s[k].block <= x.block
      BY <2>1, <2>2, <3>1 DEF Ordered
    <3>3. Ordered(s)
      BY <2>1, <2>2, <3>1 DEF Ordered
    <3>4. QED BY <3>2, <3>3
  <2> DEFINE sa == Selected(s, A)  sb == Selected(s, B)  sc == Selected(s, C)
  <2>4. sc = sa \o sb /\ sa \in Seq(Event) /\ sb \in Seq(Event)
    BY <1>2, <2>3, SelSeq
  <2>5. /\ Selected(Append(s, x), A) = IF x \in A THEN Append(sa, x) ELSE sa
        /\ Selected(Append(s, x), B) = IF x \in B THEN Append(sb, x) ELSE sb
        /\ Selected(Append(s, x), C) = IF x \in C THEN Append(sc, x) ELSE sc
    BY SelAppend
  <2>6. /\ x \in C <=> x \in A \/ x \in B
        /\ ~ (x \in A /\ x \in B)
        /\ x.block \in Nat
    BY DEF Between, Event
  <2>7. CASE x \in A
    <3>1. sb = <<>>
      <4>1. x.block < b /\ x.block \in Nat
        BY <2>6, <2>7 DEF Between
      <4>2. \A k \in 1..Len(s) : s[k].block \in Nat
        <5>1. \A k \in 1..Len(s) : s[k] \in Event
          BY ElementOfSeq
        <5>2. \A e \in Event : e.block \in Nat
          BY DEF Event
        <5>3. QED BY <5>1, <5>2
      <4>3. \A k \in 1..Len(s) : ~ (b <= s[k].block)
        BY <2>3, <4>1, <4>2
      <4>4. \A e \in ToSet(s) : e \notin B
        BY <4>3, OwnElements, SMTT(30) DEF Between
      <4>5. QED BY <4>4, SelOwn
    <3>2. sa \o <<>> = sa /\ Append(sa, x) \o <<>> = Append(sa, x)
      BY <2>4, AppendProperties, ConcatEmptySeq
    <3> HIDE DEF sa, sb, sc, A, B, C
    <3>3. QED BY <2>4, <2>5, <2>6, <2>7, <3>1, <3>2
  <2>8. CASE x \in B
    <3>1. sa \o Append(sb, x) = Append(sa \o sb, x)
      BY <2>4, AppendConcat, SMTT(30)
    <3> HIDE DEF sa, sb, sc, A, B, C
    <3>2. QED BY <2>4, <2>5, <2>6, <2>8, <3>1
  <2>9. CASE x \notin A /\ x \notin B
    <3> HIDE DEF sa, sb, sc, A, B, C
    <3>1. QED BY <2>4, <2>5, <2>6, <2>9
  <2>10. QED BY <2>7, <2>8, <2>9
<1>3. \A s \in Seq(Event) : s \in G
  <2> HIDE DEF G
  <2> QED BY <1>1, <1>2, SeqInduct
<1>4. QED BY <1>3, Selections

-----------------------------------------------------------------------------
\* The deposits of a log are numbered in order.
Placed(s) ==
  \A k \in 1..Len(OfKind(s, "deposit")) : OfKind(s, "deposit")[k].leaf = k - 1

\* The pool's logs up to block h: blocks after its creation, in order,
\* deposits numbered.
LogIs(h, s) ==
  /\ h \in Deployed..MaxHead
  /\ s \in Seq(Event)
  /\ \A e \in ToSet(s) : e.block \in (Deployed + 1)..h
  /\ Ordered(s)
  /\ Placed(s)
LogOK == LogIs(head, log)

\* The types of the chain's parts.
LEMMA LogType ==
  ASSUME LogOK
  PROVE  /\ head \in Nat /\ Deployed \in Nat /\ Deployed <= head
         /\ log \in Seq(Event)
         /\ \A a, b : Within(log, a, b) \in Seq(Event)
         /\ \A a, b, kind : OfKind(Within(log, a, b), kind) \in Seq(Event)
         /\ \A kind : OfKind(log, kind) \in Seq(Event)
<1>1. head \in Nat /\ Deployed \in Nat /\ Deployed <= head
  BY BoundsAssumption DEF LogOK, LogIs
<1>2. log \in Seq(Event)
  BY DEF LogOK, LogIs
<1>3. QED BY <1>1, <1>2, SelectionTypes

\* All logs are before the next block, and none is before the pool's creation.
LEMMA WithinAll ==
  ASSUME LogOK
  PROVE  /\ Within(log, 0, head + 1) = log
         /\ \A a \in Int : \A b \in 0..(Deployed + 1) : Within(log, a, b) = <<>>
         /\ \A a, b \in Int : b <= a => Within(log, a, b) = <<>>
<1>1. \A e \in ToSet(log) : e \in Event /\ e.block \in (Deployed + 1)..head
  BY LogType, OwnElements DEF LogOK, LogIs
<1>2. head \in Nat /\ Deployed \in Nat
  BY LogType
<1>3. ToSet(log) \subseteq Between(0, head + 1)
  BY <1>1, <1>2 DEF Between
<1>4. \A a \in Int : \A b \in 0..(Deployed + 1) : ToSet(log) \cap Between(a, b) = {}
  BY <1>1, <1>2 DEF Between
<1>5. \A a, b \in Int : b <= a => ToSet(log) \cap Between(a, b) = {}
  BY <1>1, <1>2 DEF Between
<1>6. QED BY <1>3, <1>4, <1>5, LogType, SelOwn, Selections

\* The deposits before a block, and those from there on.
LEMMA DepositsAdd ==
  ASSUME LogOK, NEW a \in Nat, NEW b \in Nat, a <= b, NEW kind
  PROVE  OfKind(Within(log, 0, b), kind) =
           OfKind(Within(log, 0, a), kind) \o OfKind(Within(log, a, b), kind)
<1>1. Within(log, 0, b) = Within(log, 0, a) \o Within(log, a, b)
  <2>1. 0 \in Int /\ a \in Int /\ b \in Int /\ 0 <= a
    OBVIOUS
  <2>2. log \in Seq(Event) /\ Ordered(log)
    BY DEF LogOK, LogIs
  <2>3. QED BY <2>1, <2>2, WithinSplit, ZenonT(60)
<1> DEFINE s == Within(log, 0, a)  t == Within(log, a, b)
<1>2. s \in Seq(Event) /\ t \in Seq(Event)
  BY LogType
<1>3. OfKind(s \o t, kind) = OfKind(s, kind) \o OfKind(t, kind)
  <2> HIDE DEF s, t
  <2> QED BY <1>2, SelectionsConcat
<1>4. QED BY <1>1, <1>3

\* The deposits of a range carry the numbers that follow those before it.
LEMMA DepositsNumbered ==
  ASSUME LogOK, NEW a \in Nat, NEW b \in Nat, a <= b, b <= head + 1
  PROVE  LET d == OfKind(Within(log, a, b), "deposit")
         IN  /\ Len(Deposits(a)) \in Nat /\ Len(d) \in Nat
             /\ Len(Deposits(b)) = Len(Deposits(a)) + Len(d)
             /\ Len(Deposits(b)) <= Len(OfKind(log, "deposit"))
             /\ \A k \in 1..Len(d) : d[k].leaf = Len(Deposits(a)) + k - 1
<1> DEFINE d == OfKind(Within(log, a, b), "deposit")
           p == Deposits(a)  q == Deposits(b)
           r == OfKind(Within(log, b, head + 1), "deposit")
           all == OfKind(log, "deposit")
<1>1. /\ d \in Seq(Event) /\ p \in Seq(Event) /\ q \in Seq(Event) /\ r \in Seq(Event)
      /\ all \in Seq(Event) /\ head \in Nat
  BY LogType DEF Deposits
<1>2. q = p \o d
  BY DepositsAdd, ZenonT(60) DEF Deposits
<1>3. all = q \o r
  <2>1. OfKind(Within(log, 0, head + 1), "deposit") = q \o r
    <3>1. PICK top : top = head + 1
      OBVIOUS
    <3>2. LogOK /\ b \in Nat /\ top \in Nat /\ b <= top
      BY <1>1, <3>1
    <3>3. \A kind : OfKind(Within(log, 0, top), kind) =
                      OfKind(Within(log, 0, b), kind) \o OfKind(Within(log, b, top), kind)
      BY ONLY <3>2, DepositsAdd, Zenon
    <3>4. QED BY <3>1, <3>3 DEF Deposits
  <2>2. Within(log, 0, head + 1) = log
    BY WithinAll
  <2> HIDE DEF q, r
  <2>3. QED BY <2>1, <2>2
<1>4. \A k \in 1..Len(all) : all[k].leaf = k - 1
  BY DEF LogOK, LogIs, Placed
<1> HIDE DEF d, p, q, r, all
<1>5. Len(d) \in Nat /\ Len(p) \in Nat /\ Len(q) \in Nat /\ Len(r) \in Nat
  BY <1>1, LenProperties
<1>6. /\ Len(q) = Len(p) + Len(d)
      /\ \A k \in 1..(Len(p) + Len(d)) : q[k] = IF k <= Len(p) THEN p[k] ELSE d[k - Len(p)]
  BY <1>1, <1>2, ConcatProperties
<1>7. /\ Len(all) = Len(q) + Len(r)
      /\ \A k \in 1..(Len(q) + Len(r)) : all[k] = IF k <= Len(q) THEN q[k] ELSE r[k - Len(q)]
  BY <1>1, <1>3, ConcatProperties
<1>8. ASSUME NEW k \in 1..Len(d) PROVE d[k].leaf = Len(p) + k - 1
  <2>1. /\ Len(p) + k \in 1..Len(q) /\ ~ (Len(p) + k <= Len(p)) /\ (Len(p) + k) - Len(p) = k
        /\ Len(p) + k \in 1..(Len(q) + Len(r)) /\ Len(p) + k \in 1..(Len(p) + Len(d))
    BY <1>5, <1>6
  <2>2. q[Len(p) + k] = d[k] /\ all[Len(p) + k] = q[Len(p) + k]
    BY <1>5, <1>6, <1>7, <2>1
  <2>3. all[Len(p) + k].leaf = Len(p) + k - 1
    BY <1>4, <1>7, <2>1
  <2>4. QED BY <2>2, <2>3
<1>9. Len(q) <= Len(all)
  BY <1>5, <1>7
<1>10. QED BY <1>5, <1>6, <1>8, <1>9 DEF d, p, q, all

\* A deposit's number is less than the number of deposits.
LEMMA LeafInLog ==
  ASSUME LogOK, NEW e \in ToSet(log), e.kind = "deposit"
  PROVE  e.leaf \in 0..(Len(OfKind(log, "deposit")) - 1)
<1> DEFINE d == OfKind(log, "deposit")
<1>1. e \in Event
  BY LogType, OwnElements
<1>2. e \in ToSet(log) \cap Of("deposit")
  BY <1>1 DEF Of
<1>3. ToSet(d) = ToSet(log) \cap Of("deposit")
  BY LogType, Selections, SelToSet
<1>4. d \in Seq(Event)
  BY LogType
<1>5. ToSet(d) = {d[k] : k \in 1..Len(d)} /\ Len(d) \in Nat
  <2> HIDE DEF d
  <2> QED BY <1>4, OwnElements
<1>6. PICK k \in 1..Len(d) : e = d[k]
  <2> HIDE DEF d
  <2> QED BY <1>2, <1>3, <1>5
<1>7. d[k].leaf = k - 1
  BY <1>6 DEF LogOK, LogIs, Placed
<1> HIDE DEF d
<1>8. k - 1 \in 0..(Len(d) - 1)
  BY <1>5
<1>9. e.leaf \in 0..(Len(d) - 1)
  BY <1>6, <1>7, <1>8
<1>10. QED BY <1>9 DEF d

\* The withdrawals before a block, and those from there on.
LEMMA NullifiersAre ==
  ASSUME NEW s \in Seq(Event)
  PROVE  Nullifiers(s) = {e.leaf : e \in {x \in ToSet(s) : x.kind = "withdrawal"}}
<1>1. ToSet(OfKind(s, "withdrawal")) = ToSet(s) \cap Of("withdrawal")
  BY Selections, SelToSet
<1>2. ToSet(s) \subseteq Event
  BY OwnElements
<1>3. ToSet(s) \cap Of("withdrawal") = {x \in ToSet(s) : x.kind = "withdrawal"}
  BY <1>2 DEF Of
<1>4. QED BY <1>1, <1>3 DEF Nullifiers

\* The withdrawals before a block are those before another and those between.
LEMMA WithdrawnAdd ==
  ASSUME LogOK, NEW a \in Nat, NEW b \in Nat, a <= b
  PROVE  Withdrawn(b) = Withdrawn(a) \cup Nullifiers(Within(log, a, b))
<1>1. /\ ToSet(Within(log, 0, a)) = ToSet(log) \cap Between(0, a)
      /\ ToSet(Within(log, 0, b)) = ToSet(log) \cap Between(0, b)
      /\ ToSet(Within(log, a, b)) = ToSet(log) \cap Between(a, b)
  BY LogType, Selections, SelToSet
<1>2. Between(0, b) = Between(0, a) \cup Between(a, b)
  BY DEF Between, Event
<1>3. ToSet(Within(log, 0, b)) = ToSet(Within(log, 0, a)) \cup ToSet(Within(log, a, b))
  BY <1>1, <1>2
<1>4. QED BY <1>3, LogType, NullifiersAre DEF Withdrawn

-----------------------------------------------------------------------------
\* The deposits of a snapshot, by their leaf indices.
LEMMA Indices ==
  ASSUME NEW events \in Seq(Event)
  PROVE  LET d == OfKind(events, "deposit")
         IN  /\ d \in Seq(Event) /\ Len(d) \in Nat
             /\ LeafIndices(events) = [k \in 1..Len(d) |-> d[k].leaf]
             /\ LeafIndices(events) \in Seq(Nat)
             /\ Len(LeafIndices(events)) = Len(d)
             /\ \A k \in 1..Len(d) : LeafIndices(events)[k] = d[k].leaf /\ d[k].leaf \in Nat
<1> DEFINE d == OfKind(events, "deposit")  ix == [k \in 1..Len(d) |-> d[k].leaf]
<1>1. d \in Seq(Event)
  BY SelectionTypes
<1>2. LeafIndices(events) = [k \in DOMAIN d |-> d[k].leaf]
  BY DEF LeafIndices
<1> HIDE DEF d
<1>3. Len(d) \in Nat /\ DOMAIN d = 1..Len(d)
  BY <1>1, LenProperties
<1>4. \A k \in 1..Len(d) : d[k].leaf \in Nat
  <2>1. \A k \in 1..Len(d) : d[k] \in Event
    BY <1>1, ElementOfSeq
  <2>2. \A e \in Event : e.leaf \in Nat
    BY DEF Event
  <2>3. QED BY <2>1, <2>2
<1>5. LeafIndices(events) = ix
  BY <1>2, <1>3
<1>6. ix \in [1..Len(d) -> Nat]
  BY <1>4
<1>7. ix \in Seq(Nat) /\ Len(ix) = Len(d)
  <2>1. ix \in Seq(Nat)
    BY <1>3, <1>6, SeqDef
  <2>2. DOMAIN ix = 1..Len(ix) /\ Len(ix) \in Nat /\ DOMAIN ix = 1..Len(d)
    <3>1. DOMAIN ix = 1..Len(d)
      OBVIOUS
    <3> HIDE DEF ix
    <3>2. QED BY <2>1, <3>1, LenProperties
  <2>3. QED BY <1>3, <2>1, <2>2
<1>8. \A k \in 1..Len(d) : ix[k] = d[k].leaf
  OBVIOUS
<1> HIDE DEF ix
<1>9. QED BY <1>1, <1>3, <1>4, <1>5, <1>7, <1>8 DEF d, ix

\* Consecutive numbers are the first one and how far they are from it.
LEMMA Consecutive ==
  ASSUME NEW ix \in Seq(Nat), \A k \in 2..Len(ix) : ix[k] = ix[k - 1] + 1
  PROVE  \A k \in 1..Len(ix) : ix[k] = ix[1] + k - 1
<1> DEFINE T == {k \in 1..Len(ix) : ix[k] # ix[1] + k - 1}
<1>0. Len(ix) \in Nat /\ \A k \in 1..Len(ix) : ix[k] \in Nat
  BY LenProperties, ElementOfSeq
<1>1. SUFFICES ASSUME T # {} PROVE FALSE
  OBVIOUS
<1>2. PICK k \in T : \A m \in T : k <= m
  <2>1. T \in SUBSET Nat
    BY <1>0
  <2> HIDE DEF T
  <2>2. QED BY <1>1, <2>1, LeastNat
<1>3. k \in 1..Len(ix) /\ ix[k] # ix[1] + k - 1
  OBVIOUS
<1>4. k # 1
  BY <1>0, <1>3
<1>5. k \in 2..Len(ix) /\ k - 1 \in 1..Len(ix)
  BY <1>0, <1>3, <1>4
<1>6. ~ (k - 1 \in T)
  BY <1>0, <1>2, <1>3
<1>7. ix[k - 1] = ix[1] + (k - 1) - 1
  BY <1>5, <1>6
<1>8. ix[k] = ix[k - 1] + 1
  BY <1>5
<1>9. 1 \in 1..Len(ix)
  BY <1>0, <1>3
<1> DEFINE x == ix[1]  y == ix[k - 1]  z == ix[k]
<1>10. /\ x \in Nat /\ y \in Nat /\ z \in Nat /\ k \in Nat
       /\ z # x + k - 1 /\ y = x + (k - 1) - 1 /\ z = y + 1
  <2>1. x \in Nat /\ y \in Nat /\ z \in Nat
    BY <1>0, <1>5, <1>9, <1>3
  <2>2. k \in Nat
    BY <1>0, <1>3
  <2>3. z # x + k - 1
    BY <1>3
  <2>4. y = x + (k - 1) - 1
    BY <1>7
  <2>5. z = y + 1
    BY <1>8
  <2>6. QED BY <2>1, <2>2, <2>3, <2>4, <2>5
<1> HIDE DEF x, y, z
<1>11. QED BY ONLY <1>10

\* The pool's first n leaves.
First(n) == [k \in 1..n |-> k - 1]

\* They are as many as they should be.
LEMMA FirstLen ==
  ASSUME NEW n \in Nat
  PROVE  First(n) \in Seq(Nat) /\ Len(First(n)) = n /\ DOMAIN First(n) = 1..n
<1> DEFINE f == [k \in 1..n |-> k - 1]
<1>1. f \in [1..n -> Nat] /\ DOMAIN f = 1..n
  OBVIOUS
<1> HIDE DEF f
<1>2. f \in Seq(Nat)
  BY <1>1, SeqDef
<1>3. DOMAIN f = 1..Len(f) /\ Len(f) \in Nat
  BY <1>2, LenProperties
<1>4. Len(f) = n
  BY <1>1, <1>3
<1>5. QED BY <1>1, <1>2, <1>4 DEF f, First

\* Deposits spliced where they belong, or on top of themselves.
LEMMA SpliceFirst ==
  ASSUME NEW n \in Nat, leaves = First(n), NEW i \in 0..n, NEW batch \in Seq(Nat),
         \A k \in 1..Len(batch) : batch[k] = i + k - 1
  PROVE  SplicedAt(i, batch) = First(AtLeast(i + Len(batch), n))
<1> DEFINE m == Len(batch)  top == AtLeast(i + m, n)
<1>1. m \in Nat
  BY LenProperties
<1>2. Len(leaves) = n /\ DOMAIN leaves = 1..n
  BY FirstLen
<1>3. \A k \in 1..n : leaves[k] = k - 1
  BY DEF First
<1> HIDE DEF m
<1>4. ASSUME NEW k \in 1..top
      PROVE  (IF k \in (i + 1)..(i + m) THEN batch[k - i]
              ELSE IF k \in 1..n THEN leaves[k] ELSE EmptyLeaf) = k - 1
  <2>1. top \in Nat /\ k \in Nat /\ (k <= i + m \/ k <= n)
    BY <1>1 DEF AtLeast
  <2>2. CASE k \in (i + 1)..(i + m)
    <3>1. k - i \in 1..m
      BY <1>1, <2>1, <2>2
    <3>2. batch[k - i] = i + (k - i) - 1
      BY <3>1 DEF m
    <3>3. QED BY <1>1, <2>1, <2>2, <3>2
  <2>3. CASE k \notin (i + 1)..(i + m)
    <3>1. k \in 1..n
      BY <1>1, <2>1, <2>3
    <3>2. QED BY <1>3, <2>3, <3>1
  <2>4. QED BY <2>2, <2>3
<1>5. SplicedAt(i, batch) =
        [k \in 1..top |-> IF k \in (i + 1)..(i + m) THEN batch[k - i]
                          ELSE IF k \in 1..n THEN leaves[k] ELSE EmptyLeaf]
  BY <1>2 DEF SplicedAt, m
<1>6. QED BY <1>4, <1>5 DEF First, m

-----------------------------------------------------------------------------
\* A view's leaves become no fewer.
Grows(old, new) ==
  \E m \in 0..Len(OfKind(log, "deposit")) : \E n \in 0..m : old = First(n) /\ new = First(m)

\* ViewSound, part by part.
View == \E n \in 0..Len(OfKind(log, "deposit")) : leaves = First(n)

\* ViewSound, by that name.
LEMMA ViewIs == ViewSound <=> View /\ spent \subseteq Withdrawn(head + 1)
BY DEF ViewSound, View, First

\* Whatever part of the pool's logs a snapshot holds, splicing it leaves the
\* pool's first deposits in their places: its indices are consecutive, the
\* first is not past the end, and the last is that of a deposit of the pool.
\* There are no fewer than before.
LEMMA AnswerKeepsView ==
  ASSUME LogOK, ViewSound, UNCHANGED chainVars,
         NEW events \in Seq(Event), ToSet(events) \subseteq ToSet(log),
         NEW from, NEW to, Answer(from, to, events)
  PROVE  ViewSound' /\ Grows(leaves, leaves')
<1> DEFINE d == OfKind(events, "deposit")  ix == LeafIndices(events)
           total == Len(OfKind(log, "deposit"))
<1>1. log' = log /\ head' = head /\ total \in Nat
  <2>1. OfKind(log, "deposit") \in Seq(Event)
    BY LogType
  <2> HIDE DEF total
  <2>2. QED BY <2>1, LenProperties DEF chainVars, total
<1>2. PICK n \in 0..total : leaves = First(n)
  BY ViewIs DEF View
<1>3. /\ d \in Seq(Event) /\ Len(d) \in Nat /\ ix \in Seq(Nat) /\ Len(ix) = Len(d)
      /\ \A k \in 1..Len(d) : ix[k] = d[k].leaf /\ d[k].leaf \in Nat
  <2> HIDE DEF d, ix
  <2>1. QED BY Indices DEF d, ix
<1>4. \E m \in 0..total : n <= m /\ leaves' = First(m)
  <2>1. CASE leaves' = leaves
    <3> HIDE DEF total
    <3> QED BY <1>1, <1>2, <2>1
  <2>2. CASE SnapshotValid(from, to, events) /\ Spliceable(events) /\ ix # <<>>
    <3>1. leaves' = SplicedAt(ix[1], ix)
      BY <2>2 DEF Answer, Spliced
    <3>2. \A k \in 1..Len(ix) : ix[k] = ix[1] + k - 1
      <4>1. \A k \in 2..Len(ix) : ix[k] = ix[k - 1] + 1
        BY <2>2 DEF SnapshotValid
      <4> HIDE DEF ix
      <4>2. QED BY <1>3, <4>1, Consecutive
    <3>3. Len(ix) >= 1
      <4> HIDE DEF ix
      <4>1. QED BY <1>3, <2>2, LenProperties, EmptySeq
    <3>4. ix[1] \in 0..n
      <4>1. ix[1] <= Len(leaves)
        BY <2>2 DEF Spliceable
      <4>2. Len(leaves) = n
        BY <1>1, <1>2, FirstLen
      <4> HIDE DEF ix
      <4>3. ix[1] \in Nat
        BY <1>3, <3>3
      <4>4. QED BY <1>1, <4>1, <4>2, <4>3
    <3>5. leaves' = First(AtLeast(ix[1] + Len(ix), n))
      <4> HIDE DEF ix, total
      <4>1. n \in Nat
        BY <1>1
      <4>2. QED BY <1>2, <1>3, <3>1, <3>2, <3>4, <4>1, SpliceFirst
    <3>6. ix[1] + Len(ix) <= total
      <4>1. d[Len(d)] \in ToSet(log) /\ d[Len(d)].kind = "deposit"
        <5>1. Len(d) \in 1..Len(d)
          <6> HIDE DEF d, ix
          <6> QED BY <1>3, <3>3
        <5>2. d[Len(d)] \in ToSet(d)
          <6> HIDE DEF d
          <6> QED BY <1>3, <5>1, OwnElements
        <5>3. ToSet(d) = ToSet(events) \cap Of("deposit")
          BY Selections, SelToSet
        <5>4. QED BY <5>2, <5>3 DEF Of
      <4>2. d[Len(d)].leaf \in 0..(total - 1)
        <5> HIDE DEF d
        <5> QED BY <4>1, LeafInLog DEF total
      <4> HIDE DEF d, ix, total
      <4>3. Len(d) \in 1..Len(d) /\ Len(d) \in 1..Len(ix) /\ 1 \in 1..Len(d)
        BY <1>3, <3>3
      <4>4. ix[Len(d)] = d[Len(d)].leaf /\ ix[Len(d)] = ix[1] + Len(d) - 1 /\ ix[1] \in Nat
        BY <1>3, <3>2, <4>3
      <4>5. QED BY <1>1, <1>3, <4>2, <4>4
    <3> HIDE DEF d, ix, total
    <3>7. AtLeast(ix[1] + Len(ix), n) \in 0..total /\ n <= AtLeast(ix[1] + Len(ix), n)
      <4>1. ix[1] \in Nat /\ Len(ix) \in Nat /\ n \in 0..total
        BY <1>1, <1>2, <1>3, <3>4
      <4>2. QED BY <1>1, <3>6, <4>1 DEF AtLeast
    <3>8. QED BY <3>5, <3>7
  <2>3. leaves' = leaves \/ (SnapshotValid(from, to, events) /\ Spliceable(events) /\ ix # <<>>)
    BY DEF Answer, Spliced
  <2>4. QED BY <2>1, <2>2, <2>3
<1>5. Nullifiers(events) \subseteq Withdrawn(head + 1)
  <2>1. Withdrawn(head + 1) = Nullifiers(log)
    BY WithinAll DEF Withdrawn
  <2>2. QED BY <2>1, LogType, NullifiersAre
<1>6. spent' \subseteq Withdrawn(head + 1)
  BY <1>5, ViewIs DEF Answer
<1>7. View'
  BY <1>1, <1>4 DEF View
<1>8. Withdrawn(head + 1)' = Withdrawn(head + 1)
  BY <1>1 DEF Withdrawn
<1>9. ViewSound' <=> View' /\ (spent \subseteq Withdrawn(head + 1))'
  BY DEF ViewSound, View, First
<1>10. Grows(leaves, leaves')
  <2>1. PICK m \in 0..total : n <= m /\ leaves' = First(m)
    BY <1>4
  <2> HIDE DEF total
  <2>2. n \in 0..m
    BY <1>1, <1>2, <2>1
  <2>3. leaves = First(n) /\ leaves' = First(m)
    BY <1>2, <2>1
  <2> QED BY <2>2, <2>3 DEF Grows, total
<1>11. QED BY <1>6, <1>7, <1>8, <1>9, <1>10

\* What a snapshot of the blocks from..to - 1 has to hold.
Fits(from, to, events) ==
  /\ events \in Seq(Event)
  /\ \A e \in ToSet(events) : from <= e.block /\ e.block < to
  /\ \A kind \in {"deposit", "withdrawal"} :
       OfKind(events, kind) = OfKind(Within(log, from, to), kind)

\* A snapshot of the whole range is spliced, and then the session covers it, and
\* knows nothing more than it and what it knew.
LEMMA AnswerCovers ==
  ASSUME LogOK, cursor \in 0..(head + 1), View, CursorCovered, UNCHANGED chainVars,
         NEW from, from = AtLeast(cursor, Deployed), NEW to \in from..(head + 1),
         NEW events, Fits(from, to, events), Answer(from, to, events)
  PROVE  /\ refused' = FALSE /\ cursor' = to /\ CursorCovered'
         /\ leaves' = First(AtLeast(Len(Deposits(to)), Len(leaves)))
         /\ spent' = spent \cup Withdrawn(to)
<1> DEFINE d == OfKind(Within(log, from, to), "deposit")  ix == LeafIndices(events)
           past == Len(Deposits(from))
<1>1. /\ log' = log /\ head' = head /\ head \in Nat /\ Deployed \in Nat /\ Deployed <= head
      /\ from \in Nat /\ to \in Nat /\ from <= to /\ to <= head + 1
      /\ cursor \in Nat
  BY LogType DEF chainVars, AtLeast
<1>2. PICK n \in Nat : leaves = First(n)
  BY DEF View
<1>3. Len(leaves) = n
  BY <1>2, FirstLen
<1>4. events \in Seq(Event) /\ OfKind(events, "deposit") = d
  BY DEF Fits
<1>5. past <= n /\ Withdrawn(from) \subseteq spent
  <2>1. CASE from = cursor
    BY <1>3, <2>1 DEF CursorCovered
  <2>2. CASE from = Deployed
    <3>1. Within(log, 0, Deployed) = <<>>
      BY <1>1, WithinAll
    <3>2. OfKind(<<>>, "deposit") = <<>> /\ OfKind(<<>>, "withdrawal") = <<>>
      BY Selections, SelEmpty
    <3>3. Len(<<>>) = 0 /\ DOMAIN <<>> = {}
      OBVIOUS
    <3>4. Deposits(Deployed) = <<>> /\ Withdrawn(Deployed) = {}
      BY <3>1, <3>2, <3>3 DEF Deposits, Withdrawn, Nullifiers, ToSet
    <3>5. QED BY <1>2, <2>2, <3>3, <3>4
  <2>3. QED BY <2>1, <2>2 DEF AtLeast
<1>6. /\ past \in Nat /\ Len(d) \in Nat
      /\ Len(Deposits(to)) = past + Len(d)
      /\ \A k \in 1..Len(d) : d[k].leaf = past + k - 1
  BY <1>1, DepositsNumbered
<1>7. /\ ix \in Seq(Nat) /\ Len(ix) = Len(d)
      /\ \A k \in 1..Len(d) : ix[k] = d[k].leaf
  <2> HIDE DEF d, ix
  <2>1. QED BY <1>4, Indices DEF ix
<1> HIDE DEF d, ix, past
<1>8. \A k \in 1..Len(ix) : ix[k] = past + k - 1
  BY <1>6, <1>7
<1>9. SnapshotValid(from, to, events)
  <2>1. \A k \in 2..Len(ix) : ix[k] = ix[k - 1] + 1
    <3>1. SUFFICES ASSUME NEW k \in 2..Len(ix) PROVE ix[k] = ix[k - 1] + 1
      OBVIOUS
    <3>2. k \in 1..Len(ix) /\ k - 1 \in 1..Len(ix) /\ k \in Int
      BY <1>6, <1>7
    <3>3. ix[k] = past + k - 1 /\ ix[k - 1] = past + (k - 1) - 1
      BY <1>8, <3>2
    <3>4. QED BY <1>6, <3>2, <3>3
  <2>2. QED BY <2>1 DEF Fits, SnapshotValid, ix
<1>10. ix # <<>> => ix[1] = past
  <2>1. ix # <<>> => 1 \in 1..Len(ix)
    BY <1>6, <1>7, LenProperties, EmptySeq
  <2>2. QED BY <1>6, <1>8, <2>1
<1>11. Spliceable(events)
  BY <1>3, <1>5, <1>10 DEF Spliceable, ix
<1>12. leaves' = First(AtLeast(Len(Deposits(to)), n))
  <2>1. CASE ix = <<>>
    <3>1. leaves' = leaves
      BY <1>9, <1>11, <2>1 DEF Answer, Spliced, ix
    <3>2. Len(d) = 0
      BY <1>7, <2>1, EmptySeq
    <3>3. AtLeast(Len(Deposits(to)), n) = n
      BY <1>5, <1>6, <3>2 DEF AtLeast
    <3>4. QED BY <1>2, <3>1, <3>3
  <2>2. CASE ix # <<>>
    <3>1. leaves' = SplicedAt(ix[1], ix)
      BY <1>9, <1>11, <2>2 DEF Answer, Spliced, ix
    <3>2. ix[1] \in 0..n /\ \A k \in 1..Len(ix) : ix[k] = ix[1] + k - 1
      BY <1>5, <1>6, <1>8, <1>10, <2>2
    <3>3. leaves' = First(AtLeast(ix[1] + Len(ix), n))
      BY <1>2, <1>7, <3>1, <3>2, SpliceFirst
    <3>4. ix[1] + Len(ix) = Len(Deposits(to))
      BY <1>6, <1>7, <1>10, <2>2
    <3>5. QED BY <3>3, <3>4
  <2>3. QED BY <2>1, <2>2
<1>13. spent' = spent \cup Withdrawn(to)
  <2>1. Withdrawn(to) = Withdrawn(from) \cup Nullifiers(Within(log, from, to))
    BY <1>1, WithdrawnAdd
  <2>2. Nullifiers(events) = Nullifiers(Within(log, from, to))
    BY DEF Fits, Nullifiers
  <2>3. spent' = spent \cup Nullifiers(events)
    BY <1>9, <1>11 DEF Answer
  <2>4. QED BY <1>5, <2>1, <2>2, <2>3
<1>14. cursor' = to /\ refused' = FALSE
  BY <1>9, <1>11 DEF Answer
<1>15. Deposits(to)' = Deposits(to) /\ Withdrawn(to)' = Withdrawn(to)
  BY <1>1 DEF Deposits, Withdrawn
<1>16. Len(leaves') >= Len(Deposits(to))
  <2> DEFINE m == AtLeast(Len(Deposits(to)), n)
  <2>1. m \in Nat /\ m >= Len(Deposits(to))
    BY <1>6 DEF AtLeast
  <2> HIDE DEF m
  <2>2. Len(First(m)) = m
    BY <2>1, FirstLen
  <2> QED BY <1>12, <2>1, <2>2 DEF m
<1>17. CursorCovered'
  BY <1>1, <1>13, <1>14, <1>15, <1>16 DEF CursorCovered, Deposits, Withdrawn
<1>18. QED BY <1>3, <1>12, <1>13, <1>14, <1>17

-----------------------------------------------------------------------------
\* A prefix that is one longer.
LEMMA Prefix ==
  ASSUME NEW S, NEW s \in Seq(S), NEW n \in 1..Len(s)
  PROVE  /\ SubSeq(s, 1, n - 1) \in Seq(S)
         /\ SubSeq(s, 1, n) = Append(SubSeq(s, 1, n - 1), s[n])
         /\ s[n] \in S
<1>1. Len(s) \in Nat /\ \A i \in 1..Len(s) : s[i] \in S
  BY LenProperties, ElementOfSeq
<1>2. n - 1 \in Int /\ 1 \in Int /\ \A i \in 1..(n - 1) : s[i] \in S
  BY <1>1
<1>3. SubSeq(s, 1, n - 1) \in Seq(S)
  BY <1>2, SubSeqProperties
<1>4. 1 \in 1..Len(s) /\ n \in 1..Len(s)
  BY <1>1
<1>5. SubSeq(s, 1, n) = SubSeq(s, 1, n - 1) \o <<s[n]>>
  BY <1>4, SubSeqRecursiveSecond
<1>6. QED BY <1>1, <1>3, <1>5, AppendIsConcat

\* How many logs of a kind come before the k-th of a new block.
Before(kinds, kind, k) ==
  Len(OfKind(log, kind)) + Len(Selected(SubSeq(kinds, 1, k - 1), {kind}))

\* What the logs of a new block are.
LEMMA NumberedIs ==
  ASSUME LogOK, NEW kinds \in Seq(Kinds)
  PROVE  /\ Numbered(kinds) \in Seq(Event)
         /\ Len(Numbered(kinds)) = Len(kinds)
         /\ \A k \in 1..Len(kinds) :
              /\ Numbered(kinds)[k].kind = kinds[k]
              /\ Numbered(kinds)[k].block = head + 1
              /\ Numbered(kinds)[k].leaf = Before(kinds, kinds[k], k)
<1> DEFINE r(k) == [kind |-> kinds[k], block |-> head + 1, leaf |-> Before(kinds, kinds[k], k)]
           N == [k \in 1..Len(kinds) |-> r(k)]
<1>1. /\ Len(kinds) \in Nat /\ DOMAIN kinds = 1..Len(kinds)
      /\ \A k \in 1..Len(kinds) : kinds[k] \in Kinds
  BY LenProperties, ElementOfSeq
<1>2. Numbered(kinds) = N
  BY <1>1 DEF Numbered, Before
<1>3. ASSUME NEW k \in 1..Len(kinds) PROVE r(k) \in Event
  <2>1. SubSeq(kinds, 1, k - 1) \in Seq(Kinds)
    BY Prefix
  <2>2. Selected(SubSeq(kinds, 1, k - 1), {kinds[k]}) \in Seq(Kinds)
    BY <2>1, SelSeq
  <2>3. OfKind(log, kinds[k]) \in Seq(Event)
    BY LogType
  <2>4. Before(kinds, kinds[k], k) \in Nat
    <3>1. Len(OfKind(log, kinds[k])) \in Nat
      BY <2>3, LenProperties
    <3>2. Len(Selected(SubSeq(kinds, 1, k - 1), {kinds[k]})) \in Nat
      BY <2>2, LenProperties
    <3>3. QED BY <3>1, <3>2 DEF Before
  <2>5. head + 1 \in Nat
    BY LogType
  <2>6. QED BY <1>1, <2>4, <2>5 DEF Event
<1>4. N \in Seq(Event) /\ Len(N) = Len(kinds)
  <2>1. N \in [1..Len(kinds) -> Event] /\ DOMAIN N = 1..Len(kinds)
    <3> HIDE DEF r
    <3> QED BY <1>3
  <2> HIDE DEF N
  <2>2. N \in Seq(Event)
    BY <1>1, <2>1, SeqDef
  <2>3. DOMAIN N = 1..Len(N) /\ Len(N) \in Nat
    BY <2>2, LenProperties
  <2>4. QED BY <1>1, <2>1, <2>2, <2>3
<1>5. \A k \in 1..Len(kinds) : N[k] = r(k)
  OBVIOUS
<1>6. \A k \in 1..Len(kinds) :
        r(k).kind = kinds[k] /\ r(k).block = head + 1 /\ r(k).leaf = Before(kinds, kinds[k], k)
  OBVIOUS
<1> HIDE DEF N, r
<1>7. QED BY <1>2, <1>4, <1>5, <1>6

\* A new block's deposits carry the numbers that follow those of the log: in
\* each prefix of the block there are as many as their kind occurs.
LEMMA NumberedPlaced ==
  ASSUME LogOK, NEW kinds \in Seq(Kinds)
  PROVE  LET d == OfKind(Numbered(kinds), "deposit")
         IN  d \in Seq(Event)
             /\ \A j \in 1..Len(d) : d[j].leaf = Len(OfKind(log, "deposit")) + j - 1
<1> DEFINE N == Numbered(kinds)
           c == Len(OfKind(log, "deposit"))
           K(n) == Selected(SubSeq(kinds, 1, n), {"deposit"})
           D(n) == OfKind(SubSeq(N, 1, n), "deposit")
           Good(n) == /\ D(n) \in Seq(Event) /\ Len(D(n)) = Len(K(n))
                      /\ \A j \in 1..Len(D(n)) : D(n)[j].leaf = c + j - 1
           T == {n \in 0..Len(kinds) : ~ Good(n)}
<1>1. /\ N \in Seq(Event) /\ Len(N) = Len(kinds) /\ Len(kinds) \in Nat
      /\ \A k \in 1..Len(kinds) :
           /\ N[k].kind = kinds[k]
           /\ N[k].leaf = Before(kinds, kinds[k], k)
  BY NumberedIs, LenProperties
<1>2. c \in Nat
  BY LogType, LenProperties
<1>3. Good(0)
  <2>1. SubSeq(kinds, 1, 0) = <<>> /\ SubSeq(N, 1, 0) = <<>>
    BY SubSeqEmpty
  <2>2. K(0) = <<>> /\ D(0) = <<>>
    BY <2>1, Selections, SelEmpty
  <2> DEFINE k0 == K(0)  d0 == D(0)
  <2>3. d0 \in Seq(Event) /\ Len(d0) = Len(k0) /\ \A j \in 1..Len(d0) : d0[j].leaf = c + j - 1
    <3>1. k0 = <<>> /\ d0 = <<>>
      BY <2>2
    <3>2. Len(<<>>) = 0 /\ <<>> \in Seq(Event) /\ 1..0 = {}
      BY EmptySeq
    <3> HIDE DEF k0, d0
    <3>3. QED BY <3>1, <3>2
  <2>4. QED BY <2>3
<1>4. ASSUME NEW n \in 1..Len(kinds), Good(n - 1) PROVE Good(n)
  <2> DEFINE pk == SubSeq(kinds, 1, n - 1)  pn == SubSeq(N, 1, n - 1)
  <2>1. pk \in Seq(Kinds) /\ SubSeq(kinds, 1, n) = Append(pk, kinds[n]) /\ kinds[n] \in Kinds
    BY Prefix
  <2>2. pn \in Seq(Event) /\ SubSeq(N, 1, n) = Append(pn, N[n]) /\ N[n] \in Event
    <3>1. n \in 1..Len(N)
      BY <1>1
    <3> HIDE DEF N
    <3>2. QED BY <1>1, <3>1, Prefix
  <2>3. K(n) = IF kinds[n] = "deposit" THEN Append(K(n - 1), kinds[n]) ELSE K(n - 1)
    <3> HIDE DEF pk
    <3>1. Selected(Append(pk, kinds[n]), {"deposit"}) =
            IF kinds[n] \in {"deposit"} THEN Append(Selected(pk, {"deposit"}), kinds[n])
            ELSE Selected(pk, {"deposit"})
      BY <2>1, SelAppend, ZenonT(60)
    <3>2. QED BY <2>1, <3>1 DEF pk
  <2>4. D(n) = IF kinds[n] = "deposit" THEN Append(D(n - 1), N[n]) ELSE D(n - 1)
    <3> HIDE DEF pn, N
    <3>1. Selected(Append(pn, N[n]), Of("deposit")) =
            IF N[n] \in Of("deposit") THEN Append(Selected(pn, Of("deposit")), N[n])
            ELSE Selected(pn, Of("deposit"))
      BY <2>2, SelAppend, ZenonT(60)
    <3>2. N[n] \in Of("deposit") <=> kinds[n] = "deposit"
      BY <1>1, <2>2 DEF Of
    <3>3. QED BY <2>2, <3>1, <3>2, Selections DEF pn
  <2>5. K(n - 1) \in Seq(Kinds)
    BY <2>1, SelSeq
  <2>6. N[n].leaf = Before(kinds, kinds[n], n)
    BY <1>1
  <2> DEFINE k0 == K(n - 1)  d0 == D(n - 1)  k1 == K(n)  d1 == D(n)
  <2>7. kinds[n] = "deposit" => N[n].leaf = c + Len(k0)
    BY <2>6 DEF Before
  <2>8. /\ k1 = (IF kinds[n] = "deposit" THEN Append(k0, kinds[n]) ELSE k0)
        /\ d1 = (IF kinds[n] = "deposit" THEN Append(d0, N[n]) ELSE d0)
        /\ k0 \in Seq(Kinds) /\ d0 \in Seq(Event) /\ Len(d0) = Len(k0)
        /\ \A j \in 1..Len(d0) : d0[j].leaf = c + j - 1
    BY <1>4, <2>3, <2>4, <2>5
  <2>9. d1 \in Seq(Event) /\ Len(d1) = Len(k1) /\ \A j \in 1..Len(d1) : d1[j].leaf = c + j - 1
    <3> HIDE DEF k0, d0, k1, d1, N, c
    <3>1. CASE kinds[n] # "deposit"
      BY <2>8, <3>1
    <3>2. CASE kinds[n] = "deposit"
      <4>1. /\ d1 \in Seq(Event) /\ Len(d1) = Len(d0) + 1 /\ Len(k1) = Len(k0) + 1
            /\ d1[Len(d0) + 1] = N[n] /\ Len(d0) \in Nat
            /\ \A j \in 1..Len(d0) : d1[j] = d0[j]
        BY <2>1, <2>2, <2>8, <3>2, AppendProperties, LenProperties
      <4>2. ASSUME NEW j \in 1..Len(d1) PROVE d1[j].leaf = c + j - 1
        <5>1. CASE j \in 1..Len(d0)
          BY <2>8, <4>1, <5>1
        <5>2. CASE j = Len(d0) + 1
          BY <1>2, <2>7, <2>8, <3>2, <4>1, <5>2
        <5>3. QED BY <4>1, <5>1, <5>2
      <4>3. QED BY <2>8, <4>1, <4>2
    <3>3. QED BY <3>1, <3>2
  <2>10. QED BY <2>9
<1>5. Good(Len(kinds))
  <2>1. SUFFICES ASSUME T # {} PROVE FALSE
    <3> HIDE DEF Good
    <3>1. Len(kinds) \in 0..Len(kinds)
      BY <1>1
    <3> QED BY <3>1
  <2>2. PICK n \in T : \A m \in T : n <= m
    <3>1. T \in SUBSET Nat
      BY <1>1
    <3> HIDE DEF T
    <3>2. QED BY <2>1, <3>1, LeastNat
  <2> HIDE DEF Good
  <2>3. n \in 0..Len(kinds) /\ ~ Good(n) /\ n # 0
    BY <1>3
  <2>4. n \in 1..Len(kinds) /\ n - 1 \in 0..Len(kinds) /\ ~ (n <= n - 1)
    BY <1>1, <2>3
  <2>5. n - 1 \notin T
    BY <2>2, <2>4
  <2>6. Good(n - 1)
    BY <2>4, <2>5
  <2>7. QED BY <1>4, <2>3, <2>4, <2>6
<1>6. SubSeq(N, 1, Len(kinds)) = N
  <2> HIDE DEF N
  <2> QED BY <1>1, SubSeqFull
<1>7. QED BY <1>5, <1>6

\* The elements of two sequences in a row.
LEMMA ToSetConcat ==
  ASSUME NEW S, NEW s \in Seq(S), NEW t \in Seq(S)
  PROVE  ToSet(s \o t) = ToSet(s) \cup ToSet(t)
<1>1. PICK u : u = s \o t
  OBVIOUS
<1>2. /\ u \in Seq(S) /\ Len(u) = Len(s) + Len(t) /\ Len(s) \in Nat /\ Len(t) \in Nat
      /\ \A i \in 1..(Len(s) + Len(t)) : u[i] = IF i <= Len(s) THEN s[i] ELSE t[i - Len(s)]
  BY <1>1, ConcatProperties, LenProperties
<1>3. /\ ToSet(u) = {u[k] : k \in 1..Len(u)}
      /\ ToSet(s) = {s[k] : k \in 1..Len(s)} /\ ToSet(t) = {t[k] : k \in 1..Len(t)}
  BY <1>2, OwnElements
<1>4. ASSUME NEW k \in 1..Len(u) PROVE u[k] \in ToSet(s) \cup ToSet(t)
  <2>1. CASE k <= Len(s)
    <3>1. k \in 1..Len(s) /\ u[k] = s[k]
      BY <1>2, <2>1
    <3>2. QED BY <1>3, <3>1
  <2>2. CASE ~ (k <= Len(s))
    <3>1. k - Len(s) \in 1..Len(t) /\ u[k] = t[k - Len(s)]
      BY <1>2, <2>2
    <3>2. QED BY <1>3, <3>1
  <2>3. QED BY <2>1, <2>2
<1>5. ASSUME NEW k \in 1..Len(s) PROVE s[k] \in ToSet(u)
  <2>1. k \in 1..Len(u) /\ u[k] = s[k]
    BY <1>2
  <2>2. QED BY <1>3, <2>1
<1>6. ASSUME NEW k \in 1..Len(t) PROVE t[k] \in ToSet(u)
  <2>1. k + Len(s) \in 1..Len(u) /\ ~ (k + Len(s) <= Len(s)) /\ (k + Len(s)) - Len(s) = k
    BY <1>2
  <2>2. u[k + Len(s)] = t[k]
    BY <1>2, <2>1
  <2>3. QED BY <1>3, <2>1, <2>2
<1>7. ToSet(u) \subseteq ToSet(s) \cup ToSet(t)
  BY <1>3, <1>4
<1>8. ToSet(s) \subseteq ToSet(u) /\ ToSet(t) \subseteq ToSet(u)
  BY <1>3, <1>5, <1>6
<1>9. QED BY <1>1, <1>7, <1>8

\* A log with a new block is one of the pool's, and leaves the logs of the
\* earlier blocks as they were.
LEMMA LogExtends ==
  ASSUME NEW h \in Nat, h < MaxHead, NEW s, LogIs(h, s),
         NEW extra \in Seq(Event), \A e \in ToSet(extra) : e.block = h + 1,
         LET d == OfKind(extra, "deposit")
         IN  \A j \in 1..Len(d) : d[j].leaf = Len(OfKind(s, "deposit")) + j - 1
  PROVE  /\ LogIs(h + 1, s \o extra)
         /\ \A x \in Int : \A y \in Int : y <= h + 1 => Within(s \o extra, x, y) = Within(s, x, y)
         /\ Len(OfKind(s \o extra, "deposit")) >= Len(OfKind(s, "deposit"))
         /\ Nullifiers(s) \subseteq Nullifiers(s \o extra)
<1>1. PICK t : t = s \o extra
  OBVIOUS
<1>2. s \in Seq(Event) /\ t \in Seq(Event) /\ ToSet(t) = ToSet(s) \cup ToSet(extra)
  BY <1>1, ConcatProperties, ToSetConcat DEF LogIs
<1>3. Deployed \in Nat /\ Deployed <= h /\ MaxHead \in Nat
  BY BoundsAssumption DEF LogIs
<1>4. \A e \in ToSet(t) : e.block \in (Deployed + 1)..(h + 1)
  BY <1>2, <1>3 DEF LogIs
<1>5. /\ Len(t) = Len(s) + Len(extra) /\ Len(s) \in Nat /\ Len(extra) \in Nat
      /\ \A i \in 1..(Len(s) + Len(extra)) : t[i] = IF i <= Len(s) THEN s[i] ELSE extra[i - Len(s)]
  BY <1>1, <1>2, ConcatProperties, LenProperties
<1>6. ASSUME NEW i \in 1..Len(t), NEW j \in 1..Len(t), i < j
      PROVE  t[i].block <= t[j].block
  <2>1. t[i].block \in Nat /\ t[i].block <= h + 1
    <3>1. t[i] \in ToSet(t)
      BY <1>2, OwnElements
    <3>2. QED BY <1>3, <1>4, <3>1
  <2>2. CASE j <= Len(s)
    <3>1. i \in 1..Len(s) /\ j \in 1..Len(s) /\ t[i] = s[i] /\ t[j] = s[j]
      BY <1>5, <1>6, <2>2
    <3>2. QED BY <1>6, <3>1 DEF LogIs, Ordered
  <2>3. CASE ~ (j <= Len(s))
    <3>1. j - Len(s) \in 1..Len(extra) /\ t[j] = extra[j - Len(s)]
      BY <1>5, <2>3
    <3>2. t[j].block = h + 1
      BY <3>1, OwnElements
    <3>3. QED BY <2>1, <3>2
  <2>4. QED BY <2>2, <2>3
<1> DEFINE p == OfKind(s, "deposit")  q == OfKind(extra, "deposit")  pq == OfKind(t, "deposit")
<1>7. pq = p \o q /\ p \in Seq(Event) /\ q \in Seq(Event)
  <2>1. OfKind(s \o extra, "deposit") = OfKind(s, "deposit") \o OfKind(extra, "deposit")
    BY <1>2, SelectionsConcat, ZenonT(60)
  <2>2. QED BY <1>1, <1>2, <2>1, SelectionTypes
<1>8. \A j \in 1..Len(q) : q[j].leaf = Len(p) + j - 1
  OBVIOUS
<1>9. \A k \in 1..Len(p) : p[k].leaf = k - 1
  BY DEF LogIs, Placed
<1>10. Len(pq) >= Len(p) /\ \A k \in 1..Len(pq) : pq[k].leaf = k - 1
  <2> HIDE DEF p, q, pq
  <2>1. /\ Len(p) \in Nat /\ Len(q) \in Nat /\ Len(pq) = Len(p) + Len(q)
        /\ \A k \in 1..(Len(p) + Len(q)) : pq[k] = IF k <= Len(p) THEN p[k] ELSE q[k - Len(p)]
    BY <1>7, ConcatProperties, LenProperties
  <2>2. ASSUME NEW k \in 1..Len(pq) PROVE pq[k].leaf = k - 1
    <3>1. CASE k <= Len(p)
      BY <1>9, <2>1, <3>1
    <3>2. CASE ~ (k <= Len(p))
      <4>1. k - Len(p) \in 1..Len(q) /\ pq[k] = q[k - Len(p)]
        BY <2>1, <3>2
      <4>2. q[k - Len(p)].leaf = Len(p) + (k - Len(p)) - 1
        BY <1>8, <4>1
      <4>3. QED BY <2>1, <4>1, <4>2
    <3>3. QED BY <3>1, <3>2
  <2>3. QED BY <2>1, <2>2
<1>11. LogIs(h + 1, t)
  <2>1. Placed(t)
    BY <1>10 DEF Placed
  <2>2. Ordered(t)
    BY <1>6 DEF Ordered
  <2>3. h + 1 \in Deployed..MaxHead
    BY <1>3
  <2>4. QED BY <1>2, <1>4, <2>1, <2>2, <2>3 DEF LogIs
<1>12. ASSUME NEW x \in Int, NEW y \in Int, y <= h + 1
       PROVE  Within(t, x, y) = Within(s, x, y)
  <2>1. Within(s \o extra, x, y) = Within(s, x, y) \o Within(extra, x, y)
    <3>1. s \in Seq(Event) /\ extra \in Seq(Event)
      BY <1>2
    <3>2. Selected(s \o extra, Between(x, y)) =
            Selected(s, Between(x, y)) \o Selected(extra, Between(x, y))
      BY <3>1, SelConcat
    <3>3. QED BY <3>2, Selections
  <2>2. ToSet(extra) \cap Between(x, y) = {}
    BY <1>12 DEF Between
  <2>3. Within(extra, x, y) = <<>>
    BY <2>2, SelOwn, Selections
  <2>4. Within(s, x, y) \o <<>> = Within(s, x, y)
    BY <1>2, SelectionTypes, ConcatEmptySeq
  <2>5. QED BY <1>1, <2>1, <2>3, <2>4
<1>13. Nullifiers(s) \subseteq Nullifiers(t)
  BY <1>2, NullifiersAre
<1>14. QED BY <1>1, <1>10, <1>11, <1>12, <1>13

\* A mined block extends the pool's logs in that way.
LEMMA MineKeeps ==
  ASSUME LogOK, NEW kinds \in BlockLogs, Mine(kinds)
  PROVE  /\ LogOK'
         /\ \A a \in Int : \A b \in Int : b <= head + 1 => Within(log', a, b) = Within(log, a, b)
         /\ Len(OfKind(log', "deposit")) >= Len(OfKind(log, "deposit"))
         /\ Withdrawn(head + 1) \subseteq Withdrawn(head + 1)'
         /\ head' = head + 1
<1> DEFINE N == Numbered(kinds)
<1>1. kinds \in Seq(Kinds)
  BY BoundsAssumption
<1>2. /\ head' = head + 1 /\ log' = log \o N /\ head < MaxHead
      /\ head \in Nat /\ LogIs(head, log)
  BY LogType DEF Mine, LogOK
<1>3. /\ N \in Seq(Event) /\ \A e \in ToSet(N) : e.block = head + 1
  <2>1. N \in Seq(Event) /\ \A k \in 1..Len(N) : N[k].block = head + 1
    BY <1>1, NumberedIs
  <2> HIDE DEF N
  <2>2. QED BY <2>1, OwnElements
<1>4. \A j \in 1..Len(OfKind(N, "deposit")) :
        OfKind(N, "deposit")[j].leaf = Len(OfKind(log, "deposit")) + j - 1
  BY <1>1, NumberedPlaced
<1> HIDE DEF N
<1>5. /\ LogIs(head + 1, log \o N)
      /\ \A x \in Int : \A y \in Int :
           y <= head + 1 => Within(log \o N, x, y) = Within(log, x, y)
      /\ Len(OfKind(log \o N, "deposit")) >= Len(OfKind(log, "deposit"))
      /\ Nullifiers(log) \subseteq Nullifiers(log \o N)
  BY <1>2, <1>3, <1>4, LogExtends
<1>6. LogOK'
  BY <1>2, <1>5 DEF LogOK
<1>7. Withdrawn(head + 1) = Nullifiers(log) /\ Withdrawn(head + 1)' = Nullifiers(log')
  <2>1. Within(log, 0, head + 1) = log
    BY WithinAll
  <2>2. (Within(log, 0, head + 1) = log)'
    BY <1>6, WithinAll, PTL
  <2>3. QED BY <2>1, <2>2 DEF Withdrawn, Nullifiers
<1>8. QED BY <1>2, <1>5, <1>6, <1>7

-----------------------------------------------------------------------------
\* Chunks that follow on from each other, from block a to block e - 1.
Joined(s) == \A k \in 1..(Len(s) - 1) : s[k].to = s[k + 1].from
Row(s, a, e) ==
  /\ Joined(s)
  /\ IF s = <<>> THEN e = a ELSE s[1].from = a /\ s[Len(s)].to = e

\* Chunks that follow on from each other, with one more.
LEMMA JoinedAppend ==
  ASSUME NEW s \in Seq(Ref), NEW x \in Ref
  PROVE  /\ Joined(Append(s, x)) <=> Joined(s) /\ (s # <<>> => s[Len(s)].to = x.from)
         /\ Append(s, x) # <<>> /\ Append(s, x)[Len(Append(s, x))] = x
         /\ Append(s, x)[1] = IF s = <<>> THEN x ELSE s[1]
<1>1. PICK t : t = Append(s, x)
  OBVIOUS
<1>2. /\ Len(s) \in Nat /\ Len(t) = Len(s) + 1 /\ t[Len(s) + 1] = x /\ t \in Seq(Ref)
      /\ \A k \in 1..Len(s) : t[k] = s[k]
      /\ s = <<>> <=> Len(s) = 0
      /\ t # <<>>
  BY <1>1, AppendProperties, LenProperties, EmptySeq
<1>3. t[1] = IF s = <<>> THEN x ELSE s[1]
  BY <1>2
<1>4. ASSUME Joined(t) PROVE Joined(s) /\ (s # <<>> => s[Len(s)].to = x.from)
  <2>1. ASSUME NEW k \in 1..(Len(s) - 1) PROVE s[k].to = s[k + 1].from
    <3>1. k \in 1..(Len(t) - 1) /\ k \in 1..Len(s) /\ k + 1 \in 1..Len(s)
      BY <1>2
    <3>2. t[k].to = t[k + 1].from
      BY <1>4, <3>1 DEF Joined
    <3>3. QED BY <1>2, <3>1, <3>2
  <2>2. ASSUME s # <<>> PROVE s[Len(s)].to = x.from
    <3>1. Len(s) \in 1..(Len(t) - 1) /\ Len(s) \in 1..Len(s)
      BY <1>2, <2>2
    <3>2. t[Len(s)].to = t[Len(s) + 1].from
      BY <1>4, <3>1 DEF Joined
    <3>3. QED BY <1>2, <3>1, <3>2
  <2>3. QED BY <2>1, <2>2 DEF Joined
<1>5. ASSUME Joined(s), s # <<>> => s[Len(s)].to = x.from PROVE Joined(t)
  <2>1. ASSUME NEW k \in 1..(Len(t) - 1) PROVE t[k].to = t[k + 1].from
    <3>1. k \in 1..Len(s) /\ t[k] = s[k] /\ s # <<>>
      BY <1>2
    <3>2. CASE k = Len(s)
      BY <1>2, <1>5, <3>1, <3>2
    <3>3. CASE k # Len(s)
      <4>1. k \in 1..(Len(s) - 1) /\ k + 1 \in 1..Len(s)
        BY <1>2, <3>1, <3>3
      <4>2. s[k].to = s[k + 1].from /\ t[k + 1] = s[k + 1]
        BY <1>2, <1>5, <4>1 DEF Joined
      <4>3. QED BY <3>1, <4>2
    <3>4. QED BY <3>2, <3>3
  <2>2. QED BY <2>1 DEF Joined
<1>6. QED BY <1>1, <1>2, <1>3, <1>4, <1>5

\* A row with one more chunk.
LEMMA RowAppend ==
  ASSUME NEW s \in Seq(Ref), NEW x \in Ref, NEW a, NEW e
  PROVE  Row(Append(s, x), a, e) <=> Row(s, a, x.from) /\ e = x.to
<1>1. /\ Joined(Append(s, x)) <=> Joined(s) /\ (s # <<>> => s[Len(s)].to = x.from)
      /\ Append(s, x) # <<>> /\ Append(s, x)[Len(Append(s, x))] = x
      /\ Append(s, x)[1] = IF s = <<>> THEN x ELSE s[1]
  BY JoinedAppend
<1> DEFINE t == Append(s, x)
<1> HIDE DEF t
<1>2. Row(t, a, e) <=> Joined(t) /\ t[1].from = a /\ t[Len(t)].to = e
  BY <1>1 DEF Row, t
<1>3. QED BY <1>1, <1>2 DEF Row, t

\* The chunks of a row that overlap a range are a row: they start at or before
\* the range, and end at or after it, or with the row.
Overlap(from, to) == {ref \in Ref : Overlapping(ref, from, to)}
Reaches(s, from, to, e) ==
  /\ Joined(s)
  /\ IF s = <<>> THEN e <= from \/ to <= from
     ELSE /\ s[1].from <= from /\ from < s[Len(s)].to /\ s[Len(s)].to <= e
          /\ s[Len(s)].to = e \/ to <= s[Len(s)].to

\* By induction on the row.
LEMMA OverlapsReach ==
  ASSUME NEW from \in Nat, NEW to \in Nat
  PROVE  \A s \in Seq(Ref) : \A a, e \in Nat :
           Row(s, a, e) /\ a <= from /\ (\A k \in 1..Len(s) : s[k].from < s[k].to) =>
             Reaches(Selected(s, Overlap(from, to)), from, to, e)
<1> DEFINE Proper(s) == \A k \in 1..Len(s) : s[k].from < s[k].to
           Sel(s) == Selected(s, Overlap(from, to))
           G == {s \in Seq(Ref) : \A a, e \in Nat :
                   Row(s, a, e) /\ a <= from /\ Proper(s) => Reaches(Sel(s), from, to, e)}
<1>1. <<>> \in G
  <2>1. Sel(<<>>) = <<>> /\ <<>> \in Seq(Ref) /\ Len(<<>>) = 0
    BY SelEmpty, EmptySeq
  <2>2. Joined(<<>>)
    BY <2>1 DEF Joined
  <2>3. QED BY <2>1, <2>2 DEF Row, Reaches
<1>2. ASSUME NEW s \in Seq(Ref), NEW x \in Ref, s \in G PROVE Append(s, x) \in G
  <2> DEFINE t == Append(s, x)
  <2>1. /\ Len(s) \in Nat /\ Len(t) = Len(s) + 1 /\ t[Len(s) + 1] = x /\ t \in Seq(Ref)
        /\ \A k \in 1..Len(s) : t[k] = s[k]
    BY AppendProperties, LenProperties
  <2>2. SUFFICES ASSUME NEW a \in Nat, NEW e \in Nat, Row(t, a, e), a <= from, Proper(t)
                 PROVE  Reaches(Sel(t), from, to, e)
    BY <2>1
  <2>3. Row(s, a, x.from) /\ e = x.to
    BY <2>2, RowAppend
  <2>4. x.from \in Nat /\ x.to \in Nat
    BY DEF Ref
  <2>5. x.from < x.to /\ Proper(s)
    <3>1. Len(s) + 1 \in 1..Len(t) /\ \A k \in 1..Len(s) : k \in 1..Len(t)
      BY <2>1
    <3>2. QED BY <2>1, <2>2, <3>1
  <2>6. Reaches(Sel(s), from, to, x.from)
    BY <1>2, <2>2, <2>3, <2>4, <2>5
  <2> DEFINE u == Sel(s)
  <2>7. u \in Seq(Ref)
    BY SelSeq
  <2>8. Sel(t) = IF x \in Overlap(from, to) THEN Append(u, x) ELSE u
    BY SelAppend
  <2>9. x \in Overlap(from, to) <=> x.from < to /\ from < x.to
    BY <2>4 DEF Overlap, Overlapping
  <2>10. CASE x \in Overlap(from, to)
    <3> DEFINE v == Append(u, x)
    <3>1. /\ Joined(v) <=> Joined(u) /\ (u # <<>> => u[Len(u)].to = x.from)
          /\ v # <<>> /\ v[Len(v)] = x /\ v[1] = IF u = <<>> THEN x ELSE u[1]
      <4> HIDE DEF u
      <4> QED BY <2>7, JoinedAppend
    <3>2. u # <<>> => u[Len(u)] \in Ref
      <4> HIDE DEF u
      <4>1. u # <<>> => Len(u) \in 1..Len(u)
        BY <2>7, LenProperties, EmptySeq
      <4>2. QED BY <2>7, <4>1, ElementOfSeq
    <3>3. u # <<>> => u[Len(u)].to \in Nat
      BY <3>2 DEF Ref
    <3>4. Sel(t) = v
      BY <2>8, <2>10
    <3> HIDE DEF u, v
    <3>5. Reaches(v, from, to, e)
      BY <2>3, <2>4, <2>5, <2>6, <2>9, <2>10, <3>1, <3>3 DEF Reaches, u
    <3>6. QED BY <3>4, <3>5
  <2>11. CASE x \notin Overlap(from, to)
    <3>1. u # <<>> => u[Len(u)] \in Ref
      <4> HIDE DEF u
      <4>1. u # <<>> => Len(u) \in 1..Len(u)
        BY <2>7, LenProperties, EmptySeq
      <4>2. QED BY <2>7, <4>1, ElementOfSeq
    <3>2. u # <<>> => u[Len(u)].to \in Nat
      BY <3>1 DEF Ref
    <3>3. Sel(t) = u
      BY <2>8, <2>11
    <3> HIDE DEF u
    <3>4. Reaches(u, from, to, e)
      BY <2>3, <2>4, <2>5, <2>6, <2>9, <2>11, <3>2 DEF Reaches, u
    <3>5. QED BY <3>3, <3>4
  <2>12. QED BY <2>10, <2>11
<1>3. \A s \in Seq(Ref) : s \in G
  <2> HIDE DEF G
  <2> QED BY <1>1, <1>2, SeqInduct
<1>4. QED BY <1>3

-----------------------------------------------------------------------------
(***************************************************************************)
(* The invariant that every step keeps: what the manifest lists is on the  *)
(* chain and without gaps, and what a call has received so far is what the *)
(* blocks it is for hold.                                                  *)
(***************************************************************************)
Listed(r) ==
  /\ r \in Ref
  /\ Deployed <= r.from /\ r.from < r.to /\ r.to <= head + 1
  /\ r.digest = Within(log, r.from, r.to)

ManifestOK ==
  /\ hot \in Deployed..(head + 1) /\ sealed \in Deployed..hot
  /\ manifest \in Seq(Ref)
  /\ \A k \in 1..Len(manifest) : Listed(manifest[k])
  /\ Row(Sealed(manifest), Deployed, sealed)
  /\ Row(manifest, Deployed, LastBlock)

\* The block before which a call has received all logs.
ReceivedTo(from, to, refs) == IF refs = <<>> THEN to ELSE AtLeast(from, refs[1].from)

ChunksOK(from, to, refs) ==
  /\ to \in from..(head + 1)
  /\ refs \in Seq(Ref)
  /\ Joined(refs)
  /\ \A k \in 1..Len(refs) : Listed(refs[k]) /\ Overlapping(refs[k], from, to)
  /\ refs # <<>> => to <= refs[Len(refs)].to

CallOK ==
  \/ call = Idle
  \/ /\ call.from = AtLeast(cursor, Deployed)
     /\ \/ \E phase \in {"rpc", "remote", "saga"}, to \in ToBlocks :
             call = [phase |-> phase, from |-> call.from, to |-> to]
        \/ \E to \in call.from..(head + 1) :
             call = [phase |-> "rpc_logs", from |-> call.from, to |-> to]
        \/ \E to \in ToBlocks, c \in 0..cached :
             call = [phase |-> "remote_withdrawals", from |-> call.from, to |-> to, cached |-> c,
                     deposits |-> OfKind(Within(log, 0, c + 1), "deposit")]
        \/ /\ ChunksOK(call.from, call.to, call.refs)
           /\ call = [phase |-> "saga_chunks", from |-> call.from, to |-> call.to,
                      refs |-> call.refs,
                      events |-> Decoded(Within(log, call.from,
                                   ReceivedTo(call.from, call.to, call.refs)))]

SessionOK ==
  /\ cursor \in 0..(head + 1)
  /\ refused \in BOOLEAN /\ torn \in BOOLEAN
  /\ ViewSound
  /\ CoveredUnlessTorn
  /\ RefusedOnlyIfTorn

SyncInv == LogOK /\ cached \in 0..head /\ ManifestOK /\ CallOK /\ SessionOK

\* What the invariant says of a call, by its phase.
LEMMA CallIs ==
  ASSUME LogOK, cursor \in 0..(head + 1), CallOK, call # Idle
  PROVE  /\ call.from = AtLeast(cursor, Deployed)
         /\ call.from \in Deployed..(head + 1)
         /\ call.phase \in {"rpc", "remote", "saga"} =>
              /\ call.to \in ToBlocks
              /\ call = [phase |-> call.phase, from |-> call.from, to |-> call.to]
         /\ call.phase = "rpc_logs" => call.to \in call.from..(head + 1)
         /\ call.phase = "remote_withdrawals" =>
              /\ call.to \in ToBlocks /\ call.cached \in 0..cached
              /\ call.deposits = OfKind(Within(log, 0, call.cached + 1), "deposit")
         /\ call.phase = "saga_chunks" =>
              /\ ChunksOK(call.from, call.to, call.refs)
              /\ call.events = Decoded(Within(log, call.from,
                                 ReceivedTo(call.from, call.to, call.refs)))
              /\ call = [phase |-> "saga_chunks", from |-> call.from, to |-> call.to,
                         refs |-> call.refs, events |-> call.events]
<1>1. call.from = AtLeast(cursor, Deployed)
  BY DEF CallOK
<1>2. call.from \in Deployed..(head + 1)
  BY <1>1, LogType DEF AtLeast
<1>3. CASE \E phase \in {"rpc", "remote", "saga"}, to \in ToBlocks :
             call = [phase |-> phase, from |-> call.from, to |-> to]
  BY <1>1, <1>2, <1>3
<1>4. CASE \E to \in call.from..(head + 1) :
             call = [phase |-> "rpc_logs", from |-> call.from, to |-> to]
  BY <1>1, <1>2, <1>4
<1>5. CASE \E to \in ToBlocks, c \in 0..cached :
             call = [phase |-> "remote_withdrawals", from |-> call.from, to |-> to, cached |-> c,
                     deposits |-> OfKind(Within(log, 0, c + 1), "deposit")]
  BY <1>1, <1>2, <1>5
<1>6. CASE /\ ChunksOK(call.from, call.to, call.refs)
           /\ call = [phase |-> "saga_chunks", from |-> call.from, to |-> call.to,
                      refs |-> call.refs,
                      events |-> Decoded(Within(log, call.from,
                                   ReceivedTo(call.from, call.to, call.refs)))]
  BY <1>1, <1>2, <1>6
<1>7. QED BY <1>3, <1>4, <1>5, <1>6 DEF CallOK

\* The logs of a range make the snapshot that fits it.
LEMMA LogsFit ==
  ASSUME LogOK, NEW from \in Nat, NEW to \in Nat
  PROVE  /\ Fits(from, to, Decoded(Within(log, from, to)))
         /\ ToSet(Decoded(Within(log, from, to))) \subseteq ToSet(log)
<1> DEFINE W == Within(log, from, to)  E == Decoded(W)
<1>1. W \in Seq(Event) /\ ToSet(W) = ToSet(log) \cap Between(from, to)
  BY LogType, Selections, SelToSet
<1> HIDE DEF W
<1>2. E \in Seq(Event) /\ ToSet(E) = ToSet(W) \cap Known
  BY <1>1, SelectionTypes, Selections, SelToSet
<1>3. \A kind \in {"deposit", "withdrawal"} : OfKind(E, kind) = OfKind(W, kind)
  BY <1>1, KindDecoded
<1> HIDE DEF E
<1>4. \A e \in ToSet(E) : from <= e.block /\ e.block < to
  BY <1>1, <1>2 DEF Between
<1>5. QED BY <1>1, <1>2, <1>3, <1>4 DEF Fits, W, E

\* An empty range is answered with nothing.
LEMMA NothingFits ==
  ASSUME LogOK, NEW from \in Nat
  PROVE  Fits(from, from, <<>>) /\ ToSet(<<>>) \subseteq ToSet(log)
<1>1. Within(log, from, from) = <<>>
  BY WithinAll
<1>2. <<>> \in Seq(Event) /\ ToSet(<<>>) = {}
  BY EmptySeq DEF ToSet
<1>3. QED BY <1>1, <1>2 DEF Fits

\* An answer leaves the session as it should be.
LEMMA AnswerKeepsSession ==
  ASSUME LogOK, SessionOK, UNCHANGED chainVars,
         NEW from, from = AtLeast(cursor, Deployed), NEW to \in from..(head + 1),
         NEW events \in Seq(Event), ToSet(events) \subseteq ToSet(log),
         Answer(from, to, events),
         torn' \in BOOLEAN, torn => torn', ~ torn' => Fits(from, to, events)
  PROVE  SessionOK' /\ CallOK'
<1>1. head \in Nat /\ head' = head /\ from \in Nat /\ to \in 0..(head + 1)
  BY LogType DEF SessionOK, chainVars, AtLeast
<1>2. cursor' \in 0..(head' + 1) /\ refused' \in BOOLEAN /\ call' = Idle
  BY <1>1 DEF Answer, SessionOK
<1>3. ViewSound'
  BY AnswerKeepsView DEF SessionOK
<1>4. ~ torn' => refused' = FALSE /\ CursorCovered'
  <2>1. SUFFICES ASSUME ~ torn' PROVE refused' = FALSE /\ CursorCovered'
    OBVIOUS
  <2>2. CursorCovered /\ View /\ cursor \in 0..(head + 1)
    BY <2>1, ViewIs DEF SessionOK, CoveredUnlessTorn
  <2>3. QED BY <2>1, <2>2, AnswerCovers
<1>5. QED BY <1>2, <1>3, <1>4 DEF SessionOK, CallOK, CoveredUnlessTorn, RefusedOnlyIfTorn

-----------------------------------------------------------------------------
\* A step of PoolSession, or one that it does not see.
SessionStep == Session!Next \/ UNCHANGED Session!vars

\* What was deposited and withdrawn before a block, as PoolSession says it.
LEMMA BeforeIs ==
  ASSUME LogOK, NEW to \in Nat, to <= head + 1
  PROVE  /\ Session!Before("deposit", to) = 0..(Len(Deposits(to)) - 1)
         /\ Session!Before("withdrawal", to) = Withdrawn(to)
<1> DEFINE W == Within(log, 0, to)  d == Deposits(to)
<1>1. W \in Seq(Event) /\ d \in Seq(Event) /\ log \in Seq(Event)
  BY LogType DEF Deposits
<1>2. Session!Range(log) = ToSet(log)
  BY DEF Session!Range, ToSet
<1>3. ToSet(W) = ToSet(log) \cap Between(0, to)
  BY <1>1, Selections, SelToSet
<1>4. ToSet(log) \subseteq Event
  BY <1>1, OwnElements
<1>5. ToSet(W) = {x \in ToSet(log) : x.block < to}
  <2>1. \A e \in Event : e.block \in Nat
    BY DEF Event
  <2> HIDE DEF W
  <2> QED BY <1>3, <1>4, <2>1 DEF Between
<1>6. \A kind : Session!Before(kind, to) = {e.leaf : e \in {x \in ToSet(W) : x.kind = kind}}
  <2>1. \A kind : {x \in ToSet(log) : x.kind = kind /\ x.block < to} = {x \in ToSet(W) : x.kind = kind}
    <3> HIDE DEF W
    <3> QED BY <1>5
  <2> HIDE DEF W
  <2> QED BY <1>2, <2>1 DEF Session!Before
<1>7. Session!Before("withdrawal", to) = Withdrawn(to)
  BY <1>1, <1>6, NullifiersAre DEF Withdrawn
<1>8. ToSet(d) = {x \in ToSet(W) : x.kind = "deposit"}
  <2>1. ToSet(d) = ToSet(W) \cap Of("deposit")
    BY <1>1, Selections, SelToSet DEF Deposits
  <2>2. ToSet(W) \subseteq Event
    BY <1>3, <1>4
  <2> HIDE DEF d, W
  <2> QED BY <2>1, <2>2 DEF Of
<1>9. Len(d) \in Nat /\ \A k \in 1..Len(d) : d[k].leaf = k - 1
  <2>1. 0 \in Nat /\ 0 <= to /\ Deposits(to) = OfKind(Within(log, 0, to), "deposit")
    BY DEF Deposits
  <2>2. Len(Deposits(0)) = 0
    <3>1. Within(log, 0, 0) = <<>>
      BY WithinAll
    <3>2. OfKind(<<>>, "deposit") = <<>>
      BY Selections, SelEmpty
    <3> QED BY <3>1, <3>2, EmptySeq DEF Deposits
  <2>3. Len(d) \in Nat /\ \A k \in 1..Len(d) : d[k].leaf = Len(Deposits(0)) + k - 1
    <3>1. LET e == OfKind(Within(log, 0, to), "deposit")
          IN  Len(e) \in Nat /\ \A k \in 1..Len(e) : e[k].leaf = Len(Deposits(0)) + k - 1
      BY <2>1, DepositsNumbered
    <3> QED BY <2>1, <3>1
  <2> HIDE DEF d
  <2> QED BY <2>2, <2>3
<1>10. ToSet(d) = {d[k] : k \in 1..Len(d)}
  <2> HIDE DEF d
  <2> QED BY <1>1, OwnElements
<1>11. Session!Before("deposit", to) = {d[k].leaf : k \in 1..Len(d)}
  <2> HIDE DEF d, W
  <2> QED BY <1>6, <1>8, <1>10
<1>12. {d[k].leaf : k \in 1..Len(d)} = 0..(Len(d) - 1)
  <2> HIDE DEF d
  <2>1. ASSUME NEW i \in 0..(Len(d) - 1) PROVE \E k \in 1..Len(d) : i = d[k].leaf
    <3>1. i + 1 \in 1..Len(d) /\ (i + 1) - 1 = i
      BY <1>9
    <3> QED BY <1>9, <3>1
  <2>2. ASSUME NEW k \in 1..Len(d) PROVE d[k].leaf \in 0..(Len(d) - 1)
    <3>1. k - 1 \in 0..(Len(d) - 1)
      BY <1>9
    <3> QED BY <1>9, <3>1
  <2>3. {d[k].leaf : k \in 1..Len(d)} \subseteq 0..(Len(d) - 1)
    BY <2>2
  <2>4. 0..(Len(d) - 1) \subseteq {d[k].leaf : k \in 1..Len(d)}
    BY <2>1
  <2> QED BY <2>3, <2>4
<1> HIDE DEF d
<1>13. Session!Before("deposit", to) = 0..(Len(d) - 1)
  BY <1>11, <1>12
<1> QED BY <1>7, <1>13 DEF d

\* The pool's first leaves are in their places.
LEMMA FirstInPlace ==
  ASSUME NEW n \in Nat
  PROVE  Session!InPlace(First(n)) /\ Session!Range(First(n)) = 0..(n - 1)
<1>1. Len(First(n)) = n /\ DOMAIN First(n) = 1..n
  BY FirstLen
<1>2. Session!InPlace(First(n))
  BY <1>1 DEF Session!InPlace, First
<1>3. \A k \in 1..n : First(n)[k] = k - 1
  BY DEF First
<1>4. \A i \in 0..(n - 1) : i + 1 \in 1..n /\ (i + 1) - 1 = i
  OBVIOUS
<1>5. Session!Range(First(n)) = {First(n)[k] : k \in 1..n}
  BY <1>1 DEF Session!Range
<1>6. {First(n)[k] : k \in 1..n} = 0..(n - 1)
  <2>1. ASSUME NEW i \in 0..(n - 1) PROVE \E k \in 1..n : i = First(n)[k]
    BY <1>3, <1>4
  <2>2. \A k \in 1..n : k - 1 \in 0..(n - 1)
    OBVIOUS
  <2> QED BY <1>3, <2>1, <2>2
<1> QED BY <1>2, <1>5, <1>6

\* An answer is one of PoolSession: the blocks it names are learned, or it is torn.
LEMMA AnswerIsStep ==
  ASSUME LogOK, SessionOK, UNCHANGED chainVars,
         NEW from, from = AtLeast(cursor, Deployed), NEW to \in from..(head + 1),
         NEW events \in Seq(Event), ToSet(events) \subseteq ToSet(log),
         Answer(from, to, events),
         torn' \in BOOLEAN, torn => torn', ~ torn' => Fits(from, to, events)
  PROVE  SessionStep
<1>1. /\ head \in Nat /\ UNCHANGED <<head, log>> /\ cursor \in 0..(head + 1)
      /\ to \in Nat /\ to <= head + 1 /\ to \in cursor..(head + 1)
  BY LogType DEF SessionOK, chainVars, AtLeast
<1>2. PICK n \in 0..Len(OfKind(log, "deposit")) : leaves = First(n)
  BY ViewIs DEF SessionOK, View
<1>3. OfKind(log, "deposit") = Deposits(head + 1) /\ Len(Deposits(head + 1)) \in Nat
  <2>1. OfKind(log, "deposit") = Deposits(head + 1)
    BY WithinAll DEF Deposits
  <2>2. OfKind(log, "deposit") \in Seq(Event)
    BY LogType
  <2> QED BY <2>1, <2>2, LenProperties
<1>4. n \in Nat /\ Len(leaves) = n
  BY <1>2, <1>3, FirstLen
<1>5. CASE ~ torn'
  <2>1. CursorCovered /\ View
    BY <1>5, ViewIs DEF SessionOK, CoveredUnlessTorn
  <2>2. /\ refused' = FALSE /\ cursor' = to
        /\ leaves' = First(AtLeast(Len(Deposits(to)), n))
        /\ spent' = spent \cup Withdrawn(to)
    BY <1>1, <1>4, <1>5, <2>1, AnswerCovers
  <2>3. Session!Before("deposit", to) = 0..(Len(Deposits(to)) - 1)
        /\ Session!Before("withdrawal", to) = Withdrawn(to)
    BY <1>1, BeforeIs
  <2> DEFINE c == Len(Deposits(to))  m == AtLeast(c, n)
  <2>4. c \in Nat
    <3>1. Deposits(to) \in Seq(Event)
      BY LogType DEF Deposits
    <3> QED BY <3>1, LenProperties
  <2> HIDE DEF c
  <2>5. m \in Nat /\ 0..(m - 1) = 0..(n - 1) \cup 0..(c - 1)
    BY <1>4, <2>4 DEF AtLeast
  <2> HIDE DEF m
  <2>6. leaves' = First(m)
    BY <2>2 DEF m, c
  <2>7. Session!InPlace(leaves') /\ Session!Range(leaves') = 0..(m - 1)
    BY <2>5, <2>6, FirstInPlace
  <2>8. Session!Range(leaves) = 0..(n - 1)
    BY <1>2, <1>4, FirstInPlace
  <2>9. Session!Range(leaves') = Session!Range(leaves) \cup Session!Before("deposit", to)
    BY <2>3, <2>5, <2>7, <2>8 DEF c
  <2>10. ~ torn /\ torn' = torn
    BY <1>5 DEF SessionOK
  <2>11. Session!Learn(to)
    BY <1>1, <2>2, <2>3, <2>7, <2>9, <2>10 DEF Session!Learn
  <2> QED BY <1>1, <2>11 DEF SessionStep, Session!Next
<1>6. CASE torn' /\ refused' = TRUE /\ UNCHANGED <<leaves, spent, cursor>>
  BY <1>1, <1>6 DEF SessionStep, Session!Next, Session!Refuse
<1>7. CASE torn' /\ refused' = FALSE /\ cursor' = to /\ spent' = spent \cup Nullifiers(events)
  <2>1. ViewSound' /\ Grows(leaves, leaves')
    BY AnswerKeepsView DEF SessionOK
  <2>2. PICK m \in 0..Len(OfKind(log, "deposit")) : \E i \in 0..m : leaves = First(i) /\ leaves' = First(m)
    BY <2>1 DEF Grows
  <2>3. PICK i \in 0..m : leaves = First(i) /\ leaves' = First(m)
    BY <2>2
  <2> DEFINE total == Len(Deposits(head + 1))
  <2>4. total \in Nat /\ m \in 0..total /\ m \in Nat /\ i \in Nat /\ i <= m
    BY <1>3, <2>2, <2>3
  <2>5. /\ Session!InPlace(leaves') /\ Session!Range(leaves') = 0..(m - 1)
        /\ Session!Range(leaves) = 0..(i - 1)
    BY <2>3, <2>4, FirstInPlace
  <2>6. Session!Before("deposit", head + 1) = 0..(total - 1)
        /\ Session!Before("withdrawal", head + 1) = Withdrawn(head + 1)
    BY <1>1, BeforeIs
  <2> HIDE DEF total
  <2>7. /\ Session!Range(leaves) \subseteq Session!Range(leaves')
        /\ Session!Range(leaves') \subseteq Session!Before("deposit", head + 1)
    BY <2>4, <2>5, <2>6
  <2>8. spent' \subseteq Withdrawn(head + 1)
    <3>1. Withdrawn(head + 1)' = Withdrawn(head + 1)
      BY <1>1 DEF Withdrawn
    <3> QED BY <2>1, <3>1 DEF ViewSound
  <2>9. Session!LearnTorn(to)
    BY <1>1, <1>7, <2>5, <2>6, <2>7, <2>8 DEF Session!LearnTorn
  <2> QED BY <1>1, <2>9 DEF SessionStep, Session!Next
<1> QED BY <1>5, <1>6, <1>7 DEF Answer

\* What does not touch session or chain is no step of PoolSession.
LEMMA SessionStutters == ASSUME UNCHANGED <<chainVars, sessionVars>> PROVE SessionStep
BY DEF SessionStep, Session!vars, chainVars, sessionVars

\* A mined block is one of PoolSession: the logs before it stay.
LEMMA MineIsStep ==
  ASSUME LogOK, NEW kinds \in BlockLogs, Mine(kinds)
  PROVE  SessionStep
<1> DEFINE N == Numbered(kinds)  l == Len(log)
<1>1. kinds \in Seq(Kinds)
  BY BoundsAssumption
<1>2. N \in Seq(Event) /\ \A k \in 1..Len(N) : N[k].block = head + 1
  BY <1>1, NumberedIs
<1>3. /\ head' = head + 1 /\ log' = log \o N /\ log \in Seq(Event)
      /\ UNCHANGED <<cursor, leaves, spent, refused, torn>>
  BY LogType DEF Mine, sessionVars
<1> HIDE DEF N
<1>4. l \in Nat /\ Len(N) \in Nat
  BY <1>2, <1>3, LenProperties
<1>5. /\ Len(log') = l + Len(N)
      /\ \A k \in 1..(l + Len(N)) : log'[k] = IF k <= l THEN log[k] ELSE N[k - l]
  BY <1>2, <1>3, ConcatProperties
<1> HIDE DEF l
<1>6. \A k \in (l + 1)..Len(log') : log'[k].block = head'
  <2>1. SUFFICES ASSUME NEW k \in (l + 1)..Len(log') PROVE log'[k].block = head'
    OBVIOUS
  <2>2. k \in 1..(l + Len(N)) /\ ~ (k <= l) /\ k - l \in 1..Len(N)
    BY <1>4, <1>5, <2>1
  <2> QED BY <1>2, <1>3, <1>5, <2>2
<1>7. SubSeq(log', 1, l) = log
  <2>1. log' \in Seq(Event)
    BY <1>2, <1>3, ConcatProperties
  <2>2. 1 \in 1..(Len(log') + 1) /\ l \in 0..Len(log')
    BY <1>4, <1>5
  <2>3. /\ SubSeq(log', 1, l) \in Seq(Event) /\ Len(SubSeq(log', 1, l)) = l
        /\ \A k \in 1..l : SubSeq(log', 1, l)[k] = log'[k]
    <3>1. \A k \in 1..l : 1 + k - 1 = k
      BY <1>4
    <3>2. l - 1 + 1 = l
      BY <1>4
    <3> QED BY <1>4, <2>1, <2>2, <3>1, <3>2, SubSeqProperties
  <2>4. \A k \in 1..l : SubSeq(log', 1, l)[k] = log[k]
    BY <1>4, <1>5, <2>3
  <2> QED BY <1>3, <2>3, <2>4, SeqEqual DEF l
<1>8. l <= Len(log')
  BY <1>4, <1>5
<1>9. Session!Mine
  BY <1>3, <1>6, <1>7, <1>8 DEF Session!Mine, l
<1> QED BY <1>9 DEF SessionStep, Session!Next

-----------------------------------------------------------------------------
\* Steps that leave a part alone.
LEMMA ManifestKept ==
  ASSUME ManifestOK, UNCHANGED <<chainVars, sagaVars>>
  PROVE  ManifestOK'
BY DEF ManifestOK, Listed, LastBlock, chainVars, sagaVars

\* The session does not change when its own variables and the chain do not.
LEMMA SessionKept ==
  ASSUME SessionOK, UNCHANGED <<chainVars, sessionVars>>
  PROVE  SessionOK'
BY DEF SessionOK, ViewSound, CoveredUnlessTorn, RefusedOnlyIfTorn, CursorCovered, Deposits,
       Withdrawn, chainVars, sessionVars

\* A call is not disturbed by a cache that is published anew.
LEMMA CallKept ==
  ASSUME CallOK, UNCHANGED <<chainVars, call, cursor>>, cached \in Nat, cached' \in Nat,
         cached <= cached'
  PROVE  CallOK'
<1>1. 0..cached \subseteq 0..cached'
  OBVIOUS
<1>2. QED BY <1>1 DEF CallOK, ChunksOK, Listed, chainVars

\* A new block changes nothing that has been received or listed.
LEMMA StepMine ==
  ASSUME SyncInv, NEW kinds \in BlockLogs, Mine(kinds)
  PROVE  SyncInv'
<1>1. /\ LogOK'
      /\ \A a \in Int : \A b \in Int : b <= head + 1 => Within(log', a, b) = Within(log, a, b)
      /\ Len(OfKind(log', "deposit")) >= Len(OfKind(log, "deposit"))
      /\ Withdrawn(head + 1) \subseteq Withdrawn(head + 1)'
      /\ head' = head + 1
  BY MineKeeps DEF SyncInv
<1>2. /\ UNCHANGED <<cached, sealed, hot, manifest, call, cursor, leaves, spent, refused, torn>>
      /\ head \in Nat /\ Deployed \in Nat /\ Deployed <= head
  BY LogType DEF Mine, sagaVars, sessionVars, SyncInv
<1>3. cached' \in 0..head'
  BY <1>1, <1>2 DEF SyncInv
<1>4. \A r : Listed(r) => Listed(r)'
  <2>1. SUFFICES ASSUME NEW r, Listed(r) PROVE Listed(r)'
    OBVIOUS
  <2>2. r.from \in Int /\ r.to \in Int
    BY <2>1 DEF Listed, Ref
  <2>3. Within(log', r.from, r.to) = Within(log, r.from, r.to)
    BY <1>1, <2>1, <2>2 DEF Listed
  <2>4. QED BY <1>1, <1>2, <2>1, <2>2, <2>3 DEF Listed
<1>5. ManifestOK'
  <2>1. hot' \in Deployed..(head' + 1) /\ sealed' \in Deployed..hot'
    BY <1>1, <1>2 DEF SyncInv, ManifestOK
  <2>2. (\A k \in 1..Len(manifest) : Listed(manifest[k]))'
    BY <1>2, <1>4 DEF SyncInv, ManifestOK, Listed
  <2>3. QED BY <1>2, <2>1, <2>2 DEF SyncInv, ManifestOK, LastBlock
<1>6. CallOK'
  <2>1. CASE call = Idle
    BY <1>2, <2>1 DEF CallOK
  <2>2. CASE /\ call.from = AtLeast(cursor, Deployed)
             /\ \E phase \in {"rpc", "remote", "saga"}, to \in ToBlocks :
                  call = [phase |-> phase, from |-> call.from, to |-> to]
    BY <1>2, <2>2 DEF CallOK
  <2>3. CASE /\ call.from = AtLeast(cursor, Deployed)
             /\ \E to \in call.from..(head + 1) :
                  call = [phase |-> "rpc_logs", from |-> call.from, to |-> to]
    <3>1. call.from \in Int
      BY <1>2, <2>3 DEF SyncInv, SessionOK, AtLeast
    <3>2. \A to \in call.from..(head + 1) : to \in call.from..(head' + 1)
      BY <1>1, <1>2, <3>1
    <3>3. QED BY <1>2, <2>3, <3>2 DEF CallOK
  <2>4. CASE /\ call.from = AtLeast(cursor, Deployed)
             /\ \E to \in ToBlocks, c \in 0..cached :
                  call = [phase |-> "remote_withdrawals", from |-> call.from, to |-> to,
                          cached |-> c,
                          deposits |-> OfKind(Within(log, 0, c + 1), "deposit")]
    <3>1. \A c \in 0..cached : Within(log', 0, c + 1) = Within(log, 0, c + 1)
      <4>1. \A c \in 0..cached : c + 1 \in Int /\ c + 1 <= head + 1 /\ 0 \in Int
        BY <1>2 DEF SyncInv
      <4>2. QED BY <1>1, <4>1
    <3>2. QED BY <1>2, <2>4, <3>1 DEF CallOK
  <2>5. CASE /\ call.from = AtLeast(cursor, Deployed)
             /\ ChunksOK(call.from, call.to, call.refs)
             /\ call = [phase |-> "saga_chunks", from |-> call.from, to |-> call.to,
                        refs |-> call.refs,
                        events |-> Decoded(Within(log, call.from,
                                     ReceivedTo(call.from, call.to, call.refs)))]
    <3> DEFINE from == call.from  to == call.to  refs == call.refs
               at == ReceivedTo(from, to, refs)
    <3>1. from \in Nat /\ to \in from..(head + 1)
      BY <1>2, <2>5 DEF SyncInv, SessionOK, AtLeast, ChunksOK
    <3>2. refs # <<>> => refs[1].from \in Nat /\ refs[1].from <= head + 1
      <4>1. refs \in Seq(Ref) /\ \A k \in 1..Len(refs) : Listed(refs[k])
        BY <2>5 DEF ChunksOK
      <4> HIDE DEF refs
      <4>2. refs # <<>> => 1 \in 1..Len(refs)
        BY <4>1, LenProperties, EmptySeq
      <4>3. \A r : Listed(r) => r.from \in Nat /\ r.from <= head + 1
        <5>1. \A r \in Ref : r.from \in Nat /\ r.to \in Nat
          BY DEF Ref
        <5>2. QED BY <1>2, <5>1 DEF Listed
      <4>4. QED BY <4>1, <4>2, <4>3
    <3>3. at \in Int /\ at <= head + 1
      <4> HIDE DEF from, to, refs
      <4>1. QED BY <1>2, <3>1, <3>2 DEF ReceivedTo, AtLeast
    <3>4. Within(log', from, at) = Within(log, from, at)
      <4> HIDE DEF at, from
      <4> QED BY <1>1, <3>1, <3>3
    <3>5. ChunksOK(from, to, refs)'
      <4>1. to \in from..(head' + 1)
        BY <1>1, <1>2, <3>1
      <4>2. QED BY <1>2, <1>4, <2>5, <4>1 DEF ChunksOK
    <3>6. QED BY <1>2, <2>5, <3>4, <3>5 DEF CallOK
  <2>6. QED BY <2>1, <2>2, <2>3, <2>4, <2>5 DEF SyncInv, CallOK
<1>7. SessionOK'
  <2>1. cursor' \in 0..(head' + 1)
    BY <1>1, <1>2 DEF SyncInv, SessionOK
  <2>2. View' /\ spent' \subseteq Withdrawn(head + 1)'
    <3>1. View /\ spent \subseteq Withdrawn(head + 1)
      BY ViewIs DEF SyncInv, SessionOK
    <3>2. /\ Len(OfKind(log, "deposit")) \in Nat
          /\ Len(OfKind(log', "deposit")) \in Nat
      <4>1. OfKind(log, "deposit") \in Seq(Event)
        BY LogType DEF SyncInv
      <4>2. OfKind(log', "deposit") \in Seq(Event)
        BY <1>1, SelectionTypes DEF LogOK, LogIs
      <4>3. QED BY <4>1, <4>2, LenProperties
    <3>3. View'
      BY <1>1, <1>2, <3>1, <3>2 DEF View
    <3>4. QED BY <1>1, <1>2, <3>1, <3>3
  <2>3. ViewSound'
    BY <1>2, <2>2 DEF ViewSound, View, First
  <2>4. CursorCovered => CursorCovered'
    <3>1. SUFFICES ASSUME CursorCovered PROVE CursorCovered'
      OBVIOUS
    <3>2. cursor \in Int /\ cursor <= head + 1 /\ 0 \in Int
      BY <1>2 DEF SyncInv, SessionOK
    <3>3. Within(log', 0, cursor) = Within(log, 0, cursor)
      BY <1>1, <3>2
    <3>4. Deposits(cursor)' = Deposits(cursor) /\ Withdrawn(cursor)' = Withdrawn(cursor)
      BY <1>2, <3>3 DEF Deposits, Withdrawn
    <3>5. QED BY <1>1, <1>2, <2>1, <3>1, <3>4 DEF CursorCovered
  <2>5. QED BY <1>2, <2>1, <2>3, <2>4
        DEF SyncInv, SessionOK, CoveredUnlessTorn, RefusedOnlyIfTorn
<1>8. QED BY <1>1, <1>3, <1>5, <1>6, <1>7 DEF SyncInv

-----------------------------------------------------------------------------
\* The session starts with an empty pool, tree and manifest.
LEMMA StepInit == ASSUME Init PROVE SyncInv
<1>1. Deployed \in Nat /\ MaxHead \in Nat /\ Deployed <= MaxHead
  BY BoundsAssumption
<1>2. /\ \A keep : Selected(<<>>, keep) = <<>>
      /\ Len(<<>>) = 0 /\ ToSet(<<>>) = {}
      /\ \A S : <<>> \in Seq(S)
  BY SelEmpty, EmptySeq DEF ToSet
<1>3. \A kind : OfKind(<<>>, kind) = <<>>
  BY <1>2, Selections
<1>4. LogOK
  <2>1. Ordered(<<>>) /\ Placed(<<>>)
    BY <1>2, <1>3 DEF Ordered, Placed
  <2>2. QED BY <1>1, <1>2, <2>1 DEF Init, LogOK, LogIs
<1>5. ManifestOK
  <2>1. Row(<<>>, Deployed, Deployed)
    BY <1>2 DEF Row, Joined
  <2>2. Sealed(<<>>) = <<>>
    BY <1>2 DEF Sealed
  <2>3. QED BY <1>1, <1>2, <2>1, <2>2 DEF Init, ManifestOK, LastBlock
<1>6. SessionOK
  <2>1. View
    <3>1. First(0) = <<>>
      <4>1. First(0) \in Seq(Nat) /\ Len(First(0)) = 0
        BY FirstLen
      <4>2. QED BY <4>1, EmptySeq
    <3>2. OfKind(log, "deposit") = <<>> /\ leaves = <<>> /\ 0 \in 0..0
      BY <1>3 DEF Init
    <3>3. QED BY <1>2, <3>1, <3>2 DEF View
  <2>2. ViewSound
    BY <2>1, ViewIs DEF Init
  <2>3. CursorCovered
    <3>1. Within(<<>>, 0, cursor) = <<>>
      BY <1>2, Selections
    <3>2. Deposits(cursor) = <<>> /\ Withdrawn(cursor) = {}
      BY <1>2, <1>3, <3>1 DEF Init, Deposits, Withdrawn, Nullifiers
    <3>3. QED BY <1>1, <1>2, <3>2 DEF Init, CursorCovered
  <2>4. cursor \in 0..(head + 1) /\ refused = FALSE /\ torn = FALSE
    BY <1>1 DEF Init
  <2>5. CoveredUnlessTorn /\ RefusedOnlyIfTorn
    BY <2>3, <2>4 DEF CoveredUnlessTorn, RefusedOnlyIfTorn
  <2>6. QED BY <2>2, <2>4, <2>5 DEF SessionOK
<1>7. QED BY <1>1, <1>4, <1>5, <1>6 DEF Init, SyncInv, CallOK

\* Publishing the cache moves no call that is under way.
LEMMA StepPublishCache == ASSUME SyncInv, PublishCache PROVE SyncInv'
<1>1. head \in Nat
  BY LogType DEF SyncInv
<1>2. UNCHANGED <<chainVars, sagaVars, call, sessionVars>> /\ cached' \in 0..head'
      /\ cached \in Nat /\ cached' \in Nat /\ cached <= cached'
  BY <1>1 DEF PublishCache, chainVars, SyncInv
<1>3. ManifestOK' /\ SessionOK'
  BY <1>2, ManifestKept, SessionKept DEF SyncInv
<1>4. CallOK'
  BY <1>2, CallKept DEF SyncInv, sessionVars
<1>5. LogOK'
  BY <1>2 DEF SyncInv, LogOK, chainVars
<1>6. QED BY <1>2, <1>3, <1>4, <1>5 DEF SyncInv

\* What the publisher leaves alone.
LEMMA SagaKeeps ==
  ASSUME SyncInv, ManifestOK', UNCHANGED <<chainVars, cached, call, sessionVars>>
  PROVE  SyncInv'
<1>1. LogOK' /\ cached' \in 0..head'
  BY DEF SyncInv, LogOK, chainVars
<1>2. SessionOK'
  BY SessionKept DEF SyncInv
<1>3. CallOK'
  <2>1. cached \in Nat /\ cached' \in Nat /\ cached <= cached'
    BY LogType DEF SyncInv
  <2>2. UNCHANGED <<chainVars, call, cursor>>
    BY DEF sessionVars
  <2>3. QED BY <2>1, <2>2, CallKept DEF SyncInv
<1>4. QED BY <1>1, <1>2, <1>3 DEF SyncInv

\* The hot head's file is rewritten: the manifest still lists what it did.
LEMMA StepWriteHot == ASSUME SyncInv, WriteHot PROVE SyncInv'
<1>1. /\ head \in Nat /\ Deployed \in Nat /\ head' = head /\ log' = log
      /\ hot' = head + 1 /\ hot <= head /\ UNCHANGED <<sealed, manifest>>
  BY LogType DEF SyncInv, WriteHot, chainVars
<1>2. ManifestOK'
  BY <1>1 DEF SyncInv, ManifestOK, Listed, LastBlock
<1>3. QED BY <1>2, SagaKeeps DEF WriteHot

\* A chunk added after the sealed ones, hot or sealed.
LEMMA ChunkAdded ==
  ASSUME SyncInv, hot > sealed, NEW isHot \in BOOLEAN
  PROVE  LET r == ChunkRef(sealed, hot, isHot)
             m == Append(Sealed(manifest), r)
         IN  /\ m \in Seq(Ref)
             /\ \A k \in 1..Len(m) : Listed(m[k])
             /\ Row(m, Deployed, hot)
             /\ m[Len(m)].to = hot /\ m # <<>>
             /\ Row(Sealed(m), Deployed, IF isHot THEN sealed ELSE hot)
<1> DEFINE r == ChunkRef(sealed, hot, isHot)  s == Sealed(manifest)  m == Append(s, r)
           K == {ref \in Ref : ~ ref.hot}
<1>1. /\ head \in Nat /\ Deployed \in Nat
      /\ hot \in Deployed..(head + 1) /\ sealed \in Deployed..hot
      /\ Within(log, sealed, hot) \in Seq(Event)
      /\ manifest \in Seq(Ref)
      /\ \A k \in 1..Len(manifest) : Listed(manifest[k])
      /\ Row(s, Deployed, sealed)
  BY LogType DEF SyncInv, ManifestOK
<1>2. /\ r = [from |-> sealed, to |-> hot, hot |-> isHot, digest |-> Within(log, sealed, hot)]
      /\ r.from = sealed /\ r.to = hot /\ r.hot = isHot /\ r.digest = Within(log, sealed, hot)
  BY DEF ChunkRef
<1>3. r \in Ref /\ Listed(r)
  <2>1. r \in Ref
    BY <1>1, <1>2 DEF Ref
  <2> HIDE DEF r
  <2>2. QED BY <1>1, <1>2, <2>1 DEF Listed
<1> HIDE DEF r
<1>4. /\ s \in Seq(Ref) /\ ToSet(s) = ToSet(manifest) \cap K /\ Selected(s, K) = s
  <2>1. s \in Seq(Ref) /\ ToSet(s) = ToSet(manifest) \cap K
    BY <1>1, SelSeq, SelToSet DEF Sealed
  <2>2. ToSet(s) \subseteq K
    BY <2>1
  <2> HIDE DEF s, K
  <2>3. QED BY <2>1, <2>2, SelOwn
<1>5. \A k \in 1..Len(s) : Listed(s[k])
  <2>1. \A e \in ToSet(manifest) : Listed(e)
    <3>1. ToSet(manifest) = {manifest[k] : k \in 1..Len(manifest)}
      BY <1>1, OwnElements
    <3>2. QED BY <1>1, <3>1
  <2> HIDE DEF s
  <2>2. \A k \in 1..Len(s) : s[k] \in ToSet(s)
    BY <1>4, OwnElements
  <2>3. QED BY <1>4, <2>1, <2>2
<1> HIDE DEF s
<1>6. /\ m \in Seq(Ref) /\ Len(m) = Len(s) + 1 /\ Len(s) \in Nat /\ m[Len(s) + 1] = r
      /\ \A k \in 1..Len(s) : m[k] = s[k]
      /\ m # <<>>
  BY <1>3, <1>4, AppendProperties, LenProperties
<1>7. \A k \in 1..Len(m) : Listed(m[k])
  <2>1. \A k \in 1..Len(m) : k \in 1..Len(s) \/ k = Len(s) + 1
    BY <1>6
  <2>2. QED BY <1>3, <1>5, <1>6, <2>1
<1>8. Row(m, Deployed, hot)
  BY <1>1, <1>2, <1>3, <1>4, RowAppend
<1>9. Sealed(m) = IF isHot THEN s ELSE m
  <2>1. Sealed(m) = Selected(m, K)
    BY DEF Sealed
  <2> HIDE DEF K
  <2>2. Selected(m, K) = IF r \in K THEN Append(Selected(s, K), r) ELSE Selected(s, K)
    BY <1>3, <1>4, SelAppend
  <2>3. r \in K <=> ~ isHot
    BY <1>2, <1>3 DEF K
  <2>4. QED BY <1>4, <2>1, <2>2, <2>3
<1>10. Row(Sealed(m), Deployed, IF isHot THEN sealed ELSE hot)
  BY <1>1, <1>8, <1>9
<1>11. m[Len(m)].to = hot
  BY <1>2, <1>6
<1>12. QED BY <1>6, <1>7, <1>8, <1>10, <1>11 DEF r, s

\* The hot head is listed, after the sealed chunks.
LEMMA StepListHot == ASSUME SyncInv, ListHot PROVE SyncInv'
<1> DEFINE m == Append(Sealed(manifest), ChunkRef(sealed, hot, TRUE))
<1>1. /\ m \in Seq(Ref) /\ (\A k \in 1..Len(m) : Listed(m[k]))
      /\ Row(m, Deployed, hot) /\ m[Len(m)].to = hot /\ m # <<>>
      /\ Row(Sealed(m), Deployed, sealed)
  BY ChunkAdded DEF ListHot
<1>2. manifest' = m /\ UNCHANGED <<chainVars, cached, sealed, hot, call, sessionVars>>
  BY DEF ListHot
<1> HIDE DEF m
<1>3. (\A k \in 1..Len(manifest) : Listed(manifest[k]))'
  BY <1>1, <1>2 DEF Listed, chainVars
<1>4. LastBlock' = hot
  BY <1>1, <1>2 DEF LastBlock, Last
<1>5. ManifestOK'
  BY <1>1, <1>2, <1>3, <1>4 DEF SyncInv, ManifestOK, chainVars
<1>6. QED BY <1>2, <1>5, SagaKeeps

\* The hot head is sealed, and the next one starts where it ends.
LEMMA StepSeal == ASSUME SyncInv, Seal PROVE SyncInv'
<1> DEFINE m == Append(Sealed(manifest), ChunkRef(sealed, hot, FALSE))
<1>1. /\ m \in Seq(Ref) /\ (\A k \in 1..Len(m) : Listed(m[k]))
      /\ Row(m, Deployed, hot) /\ m[Len(m)].to = hot /\ m # <<>>
      /\ Row(Sealed(m), Deployed, hot)
  BY ChunkAdded DEF Seal
<1>2. manifest' = m /\ sealed' = hot /\ UNCHANGED <<chainVars, cached, hot, call, sessionVars>>
  BY DEF Seal
<1> HIDE DEF m
<1>3. (\A k \in 1..Len(manifest) : Listed(manifest[k]))'
  BY <1>1, <1>2 DEF Listed, chainVars
<1>4. LastBlock' = hot
  BY <1>1, <1>2 DEF LastBlock, Last
<1>5. hot' \in Deployed..(head' + 1) /\ sealed' \in Deployed..hot'
  BY <1>2, LogType DEF SyncInv, ManifestOK, chainVars
<1>6. ManifestOK'
  BY <1>1, <1>2, <1>3, <1>4, <1>5 DEF ManifestOK
<1>7. QED BY <1>2, <1>6, SagaKeeps

\* The steps of a call that end in no answer.
LEMMA CallKeeps ==
  ASSUME SyncInv, CallOK', UNCHANGED <<chainVars, cached, sagaVars, sessionVars>>
  PROVE  SyncInv'
<1>1. LogOK' /\ cached' \in 0..head'
  BY DEF SyncInv, LogOK, chainVars
<1>2. ManifestOK' /\ SessionOK'
  BY ManifestKept, SessionKept DEF SyncInv
<1>3. QED BY <1>1, <1>2 DEF SyncInv

\* A call starts at the session's cursor.
LEMMA StepCall ==
  ASSUME SyncInv, NEW source \in Sources, NEW to \in ToBlocks, Call(source, to)
  PROVE  SyncInv'
<1>1. source \in {"rpc", "remote", "saga"}
  BY BoundsAssumption
<1>2. /\ call' = [phase |-> source, from |-> AtLeast(cursor, Deployed), to |-> to]
      /\ cursor' = cursor
  BY DEF Call, sessionVars
<1>3. CallOK'
  BY <1>1, <1>2 DEF CallOK
<1>4. QED BY <1>3, CallKeeps DEF Call

\* A call that fails leaves the session as it was.
LEMMA StepFail == ASSUME SyncInv, Fail PROVE SyncInv'
<1>1. CallOK'
  BY DEF CallOK, Fail
<1>2. QED BY <1>1, CallKeeps DEF Fail

\* A session that starts over has been answered for nothing.
LEMMA StepRewind == ASSUME SyncInv, Rewind PROVE SyncInv'
<1>1. /\ UNCHANGED <<chainVars, cached, sagaVars, call, leaves, spent, refused, torn>>
      /\ call = Idle /\ cursor' = 0 /\ log' = log /\ head' = head
  BY DEF Rewind, chainVars
<1>2. LogOK' /\ cached' \in 0..head' /\ CallOK' /\ head \in Nat
  BY <1>1, LogType DEF SyncInv, LogOK, CallOK
<1>3. ManifestOK'
  BY <1>1, ManifestKept DEF SyncInv
<1>4. CursorCovered'
  <2>1. Within(log, 0, 0) = <<>>
    BY WithinAll DEF SyncInv
  <2>2. OfKind(<<>>, "deposit") = <<>> /\ OfKind(<<>>, "withdrawal") = <<>>
    BY Selections, SelEmpty
  <2>3. Len(<<>>) = 0 /\ DOMAIN <<>> = {}
    OBVIOUS
  <2>4. Deposits(0) = <<>> /\ Withdrawn(0) = {}
    BY <2>1, <2>2, <2>3 DEF Deposits, Withdrawn, Nullifiers, ToSet
  <2>5. Deposits(cursor)' = <<>> /\ Withdrawn(cursor)' = {}
    BY <1>1, <2>4 DEF Deposits, Withdrawn
  <2>6. PICK n \in Nat : leaves = First(n)
    BY ViewIs DEF SyncInv, SessionOK, View
  <2>7. Len(leaves') >= 0
    BY <1>1, <2>6, FirstLen
  <2>8. QED BY <1>1, <1>2, <2>3, <2>5, <2>7 DEF CursorCovered
<1>5. ViewSound'
  BY <1>1 DEF SyncInv, SessionOK, ViewSound, Withdrawn
<1>6. QED BY <1>1, <1>2, <1>3, <1>4, <1>5
      DEF SyncInv, SessionOK, CoveredUnlessTorn, RefusedOnlyIfTorn

-----------------------------------------------------------------------------
\* A source that ends before a block on the chain serves no block after it.
LEMMA Served ==
  ASSUME LogOK, cursor \in 0..(head + 1), CallOK, call # Idle, call.to \in Nat,
         NEW stop \in Int, stop <= head + 1
  PROVE  /\ ServedTo(stop) \in call.from..(head + 1)
         /\ ServedTo(stop) <= stop \/ ServedTo(stop) = call.from
         /\ call.from \in Nat
<1>1. call.from \in Deployed..(head + 1) /\ Deployed \in Nat /\ head \in Nat
  BY CallIs, LogType
<1>2. QED BY <1>1 DEF ServedTo, AtLeast, AtMost

\* An answer, and what it leaves alone.
LEMMA AnswerKeeps ==
  ASSUME SyncInv, UNCHANGED <<chainVars, cached, sagaVars>>, call # Idle,
         NEW to \in call.from..(head + 1),
         NEW events \in Seq(Event), ToSet(events) \subseteq ToSet(log),
         Answer(call.from, to, events),
         torn' \in BOOLEAN, torn => torn', ~ torn' => Fits(call.from, to, events)
  PROVE  SyncInv' /\ SessionStep
<1>1. call.from = AtLeast(cursor, Deployed)
  BY CallIs DEF SyncInv, SessionOK
<1>2. PICK from : from = call.from
  OBVIOUS
<1>3. SessionOK' /\ CallOK'
  BY <1>1, <1>2, AnswerKeepsSession DEF SyncInv
<1>4. ManifestOK'
  BY ManifestKept DEF SyncInv
<1>5. LogOK' /\ cached' \in 0..head'
  BY DEF SyncInv, LogOK, chainVars
<1>6. SessionStep
  BY <1>1, <1>2, AnswerIsStep DEF SyncInv
<1>7. QED BY <1>3, <1>4, <1>5, <1>6 DEF SyncInv

\* The RPC syncer's range ends at the latest block, or it is empty.
LEMMA StepRpcHead ==
  ASSUME SyncInv, NEW latest \in {head - 1, head}, RpcHead(latest)
  PROVE  SyncInv' /\ SessionStep
<1> DEFINE to == ServedTo(RpcStop(latest))
<1>1. /\ LogOK /\ cursor \in 0..(head + 1) /\ CallOK /\ call # Idle /\ torn \in BOOLEAN
      /\ call.phase = "rpc" /\ head \in Nat
      /\ UNCHANGED <<chainVars, cached, sagaVars, torn>>
  BY LogType DEF SyncInv, SessionOK, RpcHead, Idle
<1>2. /\ call.from = AtLeast(cursor, Deployed)
      /\ call.to \in Nat /\ call = [phase |-> "rpc", from |-> call.from, to |-> call.to]
  BY <1>1, CallIs, BoundsAssumption
<1>3. to \in call.from..(head + 1) /\ call.from \in Nat
  <2>1. RpcStop(latest) \in Int /\ RpcStop(latest) <= head + 1
    BY <1>1 DEF RpcStop
  <2>2. QED BY <1>1, <1>2, <2>1, Served
<1> HIDE DEF to
<1>4. CASE to <= call.from
  <2>1. to = call.from /\ Answer(call.from, to, <<>>)
    BY <1>3, <1>4 DEF RpcHead, to
  <2>2. Fits(call.from, to, <<>>) /\ ToSet(<<>>) \subseteq ToSet(log) /\ <<>> \in Seq(Event)
    BY <1>1, <1>3, <2>1, NothingFits, EmptySeq
  <2>3. torn' \in BOOLEAN /\ (torn => torn')
    BY <1>1
  <2>4. QED BY <1>1, <1>3, <2>1, <2>2, <2>3, AnswerKeeps
<1>5. CASE ~ (to <= call.from)
  <2>1. /\ call' = [call EXCEPT !.phase = "rpc_logs", !.to = to]
        /\ UNCHANGED <<cursor, leaves, spent, refused>>
    BY <1>5 DEF RpcHead, to
  <2>2. call' = [phase |-> "rpc_logs", from |-> call.from, to |-> to]
    BY <1>2, <2>1
  <2>3. UNCHANGED sessionVars /\ head' = head
    BY <1>1, <2>1 DEF sessionVars, chainVars
  <2>4. CallOK'
    BY <1>2, <1>3, <2>1, <2>2, <2>3 DEF CallOK
  <2>5. SessionStep
    BY <1>1, <2>3, SessionStutters
  <2>6. QED BY <1>1, <2>3, <2>4, <2>5, CallKeeps
<1>6. QED BY <1>4, <1>5

\* The RPC syncer is answered with the logs of its range.
LEMMA StepRpcLogs == ASSUME SyncInv, RpcLogs PROVE SyncInv' /\ SessionStep
<1>1. /\ LogOK /\ cursor \in 0..(head + 1) /\ CallOK /\ call # Idle /\ torn \in BOOLEAN
      /\ call.phase = "rpc_logs" /\ head \in Nat
      /\ UNCHANGED <<chainVars, cached, sagaVars, torn>>
  BY LogType DEF SyncInv, SessionOK, RpcLogs, Idle
<1>2. /\ call.from \in Nat /\ call.to \in call.from..(head + 1) /\ call.to \in Nat
  <2>1. call.from \in Deployed..(head + 1) /\ call.to \in call.from..(head + 1) /\ Deployed \in Nat
    BY <1>1, CallIs, LogType
  <2>2. QED BY <1>1, <2>1
<1> DEFINE events == Decoded(Within(log, call.from, call.to))
<1>3. Answer(call.from, call.to, events)
  BY DEF RpcLogs, QueriedTo
<1>4. Fits(call.from, call.to, events) /\ ToSet(events) \subseteq ToSet(log)
  BY <1>1, <1>2, LogsFit
<1> HIDE DEF events
<1>5. events \in Seq(Event)
  BY <1>4 DEF Fits
<1>6. torn' \in BOOLEAN /\ (torn => torn')
  BY <1>1
<1>7. QED BY <1>1, <1>2, <1>3, <1>4, <1>5, <1>6, AnswerKeeps

\* The remote cache's deposits are those of the blocks it is published for.
LEMMA StepRemoteDeposits == ASSUME SyncInv, RemoteDeposits PROVE SyncInv'
<1>1. /\ LogOK /\ cursor \in 0..(head + 1) /\ CallOK /\ call # Idle
      /\ call.phase = "remote" /\ cached \in 0..cached
      /\ UNCHANGED <<chainVars, cached, sagaVars, sessionVars>>
      /\ UNCHANGED <<log, head, cached, cursor>>
  BY LogType DEF SyncInv, SessionOK, RemoteDeposits, Idle, sessionVars, chainVars
<1>2. call.from = AtLeast(cursor, Deployed) /\ call.to \in ToBlocks
  BY <1>1, CallIs
<1>3. call' = [phase |-> "remote_withdrawals", from |-> call.from, to |-> call.to,
               cached |-> cached, deposits |-> OfKind(Within(log, 0, cached + 1), "deposit")]
  BY DEF RemoteDeposits
<1>4. CallOK'
  BY <1>1, <1>2, <1>3 DEF CallOK
<1>5. QED BY <1>1, <1>4, CallKeeps

\* A bounded set of block numbers has a largest.
LEMMA Largest ==
  ASSUME NEW S, 0 \in S, NEW c \in Nat, \A x \in S : x \in 0..c
  PROVE  Max(S) \in S
<1> DEFINE T == {u \in Nat : \A x \in S : x <= u}
<1>1. PICK u \in T : \A v \in T : u <= v
  <2>1. c \in T /\ T \in SUBSET Nat
    OBVIOUS
  <2> HIDE DEF T
  <2>2. QED BY <2>1, LeastNat
<1>2. u \in Nat /\ \A x \in S : x <= u /\ x \in Nat
  OBVIOUS
<1>3. u \in S
  <2>1. SUFFICES ASSUME u \notin S PROVE FALSE
    OBVIOUS
  <2>2. u # 0
    BY <2>1
  <2>3. u - 1 \in Nat /\ ~ (u <= u - 1)
    BY <1>2, <2>2
  <2>4. \A x \in S : x <= u - 1
    BY <1>2, <2>1
  <2>5. u - 1 \in T
    BY <2>3, <2>4
  <2>6. QED BY <1>1, <2>3, <2>5
<1>4. \E x \in S : \A y \in S : x >= y
  BY <1>2, <1>3
<1>5. QED BY <1>4 DEF Max

\* The remote cache's two files make a snapshot that fits, unless the cache was
\* published anew between them.
LEMMA StepRemoteWithdrawals == ASSUME SyncInv, RemoteWithdrawals PROVE SyncInv' /\ SessionStep
<1> DEFINE all == Within(log, 0, cached + 1)
           D == call.deposits
           X == OfKind(all, "withdrawal")
           latest == LatestBlock(D \o X)
           to == ServedTo(latest + 1)
           from == call.from
           d == Within(D, from, to)
           x == Within(X, from, to)
           W == Within(log, from, to)
<1>1. /\ LogOK /\ cursor \in 0..(head + 1) /\ CallOK /\ call # Idle /\ torn \in BOOLEAN
      /\ call.phase = "remote_withdrawals" /\ head \in Nat /\ cached \in 0..head
      /\ UNCHANGED <<chainVars, cached, sagaVars>>
      /\ torn' = (torn \/ call.cached # cached)
      /\ Answer(from, to, d \o x)
      /\ log \in Seq(Event)
  BY LogType DEF SyncInv, SessionOK, RemoteWithdrawals, Idle
<1>2. /\ call.to \in Nat /\ call.cached \in 0..cached
      /\ D = OfKind(Within(log, 0, call.cached + 1), "deposit")
      /\ from \in Deployed..(head + 1) /\ Deployed \in Nat
  BY <1>1, CallIs, BoundsAssumption, LogType
<1>3. D \in Seq(Event) /\ X \in Seq(Event)
  BY <1>1, <1>2, LogType
<1>4. ASSUME NEW c \in 0..cached, NEW kind
      PROVE  /\ ToSet(OfKind(Within(log, 0, c + 1), kind)) \subseteq ToSet(log)
             /\ \A e \in ToSet(OfKind(Within(log, 0, c + 1), kind)) : e.block \in 0..cached
  <2>1. ToSet(Within(log, 0, c + 1)) = ToSet(log) \cap Between(0, c + 1)
    BY <1>1, Selections, SelToSet
  <2>2. Within(log, 0, c + 1) \in Seq(Event)
    BY <1>1, LogType
  <2>3. ToSet(OfKind(Within(log, 0, c + 1), kind)) = ToSet(Within(log, 0, c + 1)) \cap Of(kind)
    BY <2>2, Selections, SelToSet
  <2>4. \A e \in Between(0, c + 1) : e.block \in 0..cached
    <3>1. \A e \in Event : e.block \in Nat
      BY DEF Event
    <3>2. QED BY <1>1, <3>1 DEF Between
  <2>5. QED BY <2>1, <2>3, <2>4
<1>5. /\ ToSet(D) \subseteq ToSet(log) /\ ToSet(X) \subseteq ToSet(log)
      /\ \A e \in ToSet(D) \cup ToSet(X) : e.block \in 0..cached
  <2>1. cached \in 0..cached
    BY <1>1
  <2>2. QED BY <1>2, <1>4, <2>1
<1> HIDE DEF D, X
<1>6. latest \in 0..cached
  <2> DEFINE S == {e.block : e \in ToSet(D \o X)} \cup {0}
  <2>1. ToSet(D \o X) = ToSet(D) \cup ToSet(X)
    BY <1>3, ToSetConcat
  <2>2. 0 \in S /\ \A b \in S : b \in 0..cached
    BY <1>1, <1>5, <2>1
  <2> HIDE DEF S
  <2>3. Max(S) \in S
    <3>1. cached \in Nat
      BY <1>1
    <3>2. QED BY <2>2, <3>1, Largest
  <2>4. QED BY <2>2, <2>3 DEF S, LatestBlock
<1> HIDE DEF latest
<1>7. /\ to \in from..(head + 1) /\ from \in Nat /\ to \in Nat
      /\ to <= cached + 1 \/ to = from
  <2>1. latest + 1 \in Int /\ latest + 1 <= head + 1 /\ latest + 1 <= cached + 1
    BY <1>1, <1>6
  <2>2. /\ ServedTo(latest + 1) \in call.from..(head + 1)
        /\ ServedTo(latest + 1) <= latest + 1 \/ ServedTo(latest + 1) = call.from
        /\ call.from \in Nat
    BY <1>1, <1>2, <2>1, Served
  <2> DEFINE t == ServedTo(latest + 1)
  <2> HIDE DEF t
  <2>3. t \in from..(head + 1) /\ (t <= latest + 1 \/ t = from) /\ from \in Nat
    BY <2>2 DEF t
  <2>4. t \in Nat /\ (t <= cached + 1 \/ t = from)
    BY <1>1, <1>6, <2>1, <2>3
  <2>5. QED BY <2>3, <2>4 DEF t
<1> HIDE DEF to, from
<1>8. /\ d \in Seq(Event) /\ x \in Seq(Event) /\ d \o x \in Seq(Event)
      /\ ToSet(d) = ToSet(D) \cap Between(from, to) /\ ToSet(x) = ToSet(X) \cap Between(from, to)
      /\ ToSet(d \o x) = ToSet(d) \cup ToSet(x)
  <2>1. d \in Seq(Event) /\ x \in Seq(Event)
    BY <1>3, SelectionTypes
  <2>2. ToSet(d) = ToSet(D) \cap Between(from, to) /\ ToSet(x) = ToSet(X) \cap Between(from, to)
    BY <1>3, Selections, SelToSet
  <2> HIDE DEF d, x
  <2>3. QED BY <2>1, <2>2, ToSetConcat, ConcatProperties
<1>9. ToSet(d \o x) \subseteq ToSet(log)
  BY <1>5, <1>8
<1>10. ~ torn' => Fits(from, to, d \o x)
  <2>1. SUFFICES ASSUME call.cached = cached PROVE Fits(from, to, d \o x)
    BY <1>1
  <2>2. all \in Seq(Event) /\ W \in Seq(Event)
    BY <1>1, LogType
  <2>3. Within(all, from, to) = W
    <3>1. Within(all, from, to) = Within(log, AtLeast(0, from), AtMost(cached + 1, to))
      <4>1. 0 \in Int /\ cached + 1 \in Int /\ from \in Int /\ to \in Int
        BY <1>1, <1>7
      <4>2. QED BY <1>1, <4>1, WithinWithin
    <3>2. AtLeast(0, from) = from
      BY <1>7 DEF AtLeast
    <3>3. CASE to <= cached + 1
      <4>1. AtMost(cached + 1, to) = to
        BY <1>1, <1>7, <3>3 DEF AtMost
      <4>2. QED BY <3>1, <3>2, <4>1
    <3>4. CASE to = from
      <4>1. AtMost(cached + 1, to) \in Int /\ AtMost(cached + 1, to) <= from /\ from \in Int
            /\ from <= from
        BY <1>1, <1>7, <3>4 DEF AtMost
      <4>2. Within(log, from, AtMost(cached + 1, to)) = <<>> /\ Within(log, from, from) = <<>>
        BY <1>1, <4>1, WithinAll
      <4>3. QED BY <3>1, <3>2, <3>4, <4>2
    <3>5. QED BY <1>7, <3>3, <3>4
  <2>4. d = OfKind(W, "deposit") /\ x = OfKind(W, "withdrawal")
    <3>1. D = OfKind(all, "deposit") /\ X = OfKind(all, "withdrawal")
      BY <1>2, <2>1 DEF X
    <3> HIDE DEF all, W
    <3>2. /\ OfKind(Within(all, from, to), "deposit") = Within(OfKind(all, "deposit"), from, to)
          /\ OfKind(Within(all, from, to), "withdrawal") =
               Within(OfKind(all, "withdrawal"), from, to)
      BY <2>2, KindWithin
    <3>3. QED BY <2>3, <3>1, <3>2
  <2> HIDE DEF d, x, W
  <2>5. /\ OfKind(d, "deposit") = d /\ OfKind(d, "withdrawal") = <<>>
        /\ OfKind(x, "deposit") = <<>> /\ OfKind(x, "withdrawal") = x
    BY <2>2, <2>4, KindKind
  <2>6. /\ OfKind(d \o x, "deposit") = OfKind(d, "deposit") \o OfKind(x, "deposit")
        /\ OfKind(d \o x, "withdrawal") = OfKind(d, "withdrawal") \o OfKind(x, "withdrawal")
    <3>1. d \in Seq(Event) /\ x \in Seq(Event)
      BY <1>8
    <3>2. \A kind : OfKind(d \o x, kind) = OfKind(d, kind) \o OfKind(x, kind)
      BY ONLY <3>1, SelectionsConcat
    <3>3. QED BY <3>2
  <2>7. d \o <<>> = d /\ <<>> \o x = x
    BY <1>8, ConcatEmptySeq
  <2>8. \A kind \in {"deposit", "withdrawal"} : OfKind(d \o x, kind) = OfKind(W, kind)
    BY <2>4, <2>5, <2>6, <2>7
  <2>9. \A e \in ToSet(d \o x) : from <= e.block /\ e.block < to
    BY <1>8 DEF Between
  <2>10. QED BY <1>8, <2>8, <2>9 DEF Fits, W
<1>11. torn' \in BOOLEAN /\ (torn => torn')
  BY <1>1
<1>12. QED
  <2>1. Answer(call.from, to, d \o x) /\ to \in call.from..(head + 1)
        /\ (~ torn' => Fits(call.from, to, d \o x))
    BY <1>1, <1>7, <1>10 DEF from
  <2> DEFINE events == d \o x
  <2>2. events \in Seq(Event) /\ ToSet(events) \subseteq ToSet(log)
    BY <1>8, <1>9
  <2> HIDE DEF events, d, x
  <2>3. QED BY <1>1, <1>11, <2>1, <2>2, AnswerKeeps DEF events

-----------------------------------------------------------------------------
\* The manifest's last block ends the row of its chunks.
LEMMA LastBlockIs ==
  ASSUME SyncInv
  PROVE  /\ LastBlock \in Deployed..(head + 1)
         /\ \A k \in 1..Len(manifest) : manifest[k].from < manifest[k].to
<1>1. /\ manifest \in Seq(Ref) /\ \A k \in 1..Len(manifest) : Listed(manifest[k])
      /\ head \in Nat /\ Deployed \in Nat /\ Deployed <= head
  BY LogType DEF SyncInv, ManifestOK
<1>2. \A r : Listed(r) => r.from < r.to /\ r.to \in Deployed..(head + 1)
  <2>1. \A r \in Ref : r.from \in Nat /\ r.to \in Nat
    BY DEF Ref
  <2>2. QED BY <1>1, <2>1 DEF Listed
<1>3. CASE manifest = <<>>
  BY <1>1, <1>2, <1>3 DEF LastBlock
<1>4. CASE manifest # <<>>
  <2>1. Len(manifest) \in 1..Len(manifest)
    BY <1>1, <1>4, LenProperties, EmptySeq
  <2>2. LastBlock = manifest[Len(manifest)].to
    BY <1>4 DEF LastBlock, Last
  <2>3. QED BY <1>1, <1>2, <2>1, <2>2
<1>5. QED BY <1>3, <1>4

\* The chunks a manifest lists for a range start at or before it and reach its end.
LEMMA StepSagaManifest == ASSUME SyncInv, SagaManifest PROVE SyncInv'
<1> DEFINE from == call.from
           to == ServedTo(LastBlock)
           refs == Selected(manifest, Overlap(from, to))
<1>1. /\ LogOK /\ cursor \in 0..(head + 1) /\ CallOK /\ call # Idle
      /\ call.phase = "saga" /\ manifest \in Seq(Ref)
      /\ UNCHANGED <<chainVars, cached, sagaVars, sessionVars>>
      /\ UNCHANGED <<log, head, cached, cursor>>
  BY LogType DEF SyncInv, SessionOK, ManifestOK, SagaManifest, Idle, sessionVars, chainVars
<1>2. /\ call.from = AtLeast(cursor, Deployed) /\ call.to \in Nat
      /\ from \in Deployed..(head + 1) /\ Deployed \in Nat
  BY <1>1, CallIs, BoundsAssumption
<1>3. call' = [phase |-> "saga_chunks", from |-> from, to |-> to, refs |-> refs,
               events |-> <<>>]
  BY DEF SagaManifest, Overlap
<1>4. LastBlock \in Deployed..(head + 1)
  BY LastBlockIs
<1>5. to \in from..(head + 1) /\ (to <= LastBlock \/ to = from) /\ from \in Nat /\ to \in Nat
  <2>1. LastBlock \in Int /\ LastBlock <= head + 1 /\ head \in Nat
    BY <1>1, <1>4, LogType
  <2>2. /\ ServedTo(LastBlock) \in call.from..(head + 1)
        /\ ServedTo(LastBlock) <= LastBlock \/ ServedTo(LastBlock) = call.from
        /\ call.from \in Nat
    BY <1>1, <1>2, <2>1, Served
  <2>3. QED BY <2>1, <2>2
<1> HIDE DEF to, from
<1>6. Reaches(refs, from, to, LastBlock)
  <2>1. Row(manifest, Deployed, LastBlock)
    BY DEF SyncInv, ManifestOK
  <2>2. Deployed \in Nat /\ LastBlock \in Nat /\ Deployed <= from
    BY <1>2, <1>4 DEF from
  <2>3. \A k \in 1..Len(manifest) : manifest[k].from < manifest[k].to
    BY LastBlockIs
  <2>4. QED BY <1>1, <1>5, <2>1, <2>2, <2>3, OverlapsReach
<1>7. refs \in Seq(Ref) /\ ToSet(refs) = ToSet(manifest) \cap Overlap(from, to)
  BY <1>1, SelSeq, SelToSet
<1> HIDE DEF refs
<1>8. \A k \in 1..Len(refs) : Listed(refs[k]) /\ Overlapping(refs[k], from, to)
  <2>1. \A e \in ToSet(manifest) : Listed(e)
    <3>1. ToSet(manifest) = {manifest[k] : k \in 1..Len(manifest)}
      BY <1>1, OwnElements
    <3>2. \A k \in 1..Len(manifest) : Listed(manifest[k])
      BY DEF SyncInv, ManifestOK
    <3>3. QED BY <3>1, <3>2
  <2>2. \A k \in 1..Len(refs) : refs[k] \in ToSet(refs)
    BY <1>7, OwnElements
  <2>3. QED BY <1>7, <2>1, <2>2 DEF Overlap
<1>9. refs # <<>> => refs[Len(refs)].to \in Nat /\ refs[1].from \in Nat
  <2>1. refs # <<>> => Len(refs) \in 1..Len(refs) /\ 1 \in 1..Len(refs)
    BY <1>7, LenProperties, EmptySeq
  <2>2. \A k \in 1..Len(refs) : refs[k] \in Ref
    BY <1>7, ElementOfSeq
  <2>3. \A r \in Ref : r.from \in Nat /\ r.to \in Nat
    BY DEF Ref
  <2>4. QED BY <2>1, <2>2, <2>3
<1>10. ChunksOK(from, to, refs)
  <2>1. refs # <<>> => to <= refs[Len(refs)].to
    BY <1>4, <1>5, <1>6, <1>9 DEF Reaches
  <2>2. Joined(refs)
    BY <1>6 DEF Reaches
  <2>3. QED BY <1>5, <1>7, <1>8, <2>1, <2>2 DEF ChunksOK
<1>11. ReceivedTo(from, to, refs) \in Int /\ ReceivedTo(from, to, refs) <= from
  <2>1. CASE refs = <<>>
    BY <1>4, <1>5, <1>6, <2>1 DEF Reaches, ReceivedTo
  <2>2. CASE refs # <<>>
    BY <1>5, <1>6, <1>9, <2>2 DEF Reaches, ReceivedTo, AtLeast
  <2>3. QED BY <2>1, <2>2
<1>12. Decoded(Within(log, from, ReceivedTo(from, to, refs))) = <<>>
  <2>1. Within(log, from, ReceivedTo(from, to, refs)) = <<>>
    <3>1. from \in Int
      BY <1>5
    <3>2. QED BY <1>1, <1>11, <3>1, WithinAll
  <2>2. QED BY <2>1, Selections, SelEmpty
<1>13. /\ call'.from = from /\ call'.to = to /\ call'.refs = refs
       /\ call' = [phase |-> "saga_chunks", from |-> from, to |-> to, refs |-> refs,
                   events |-> <<>>]
  BY <1>3
<1>14. CallOK'
  <2>1. ChunksOK(call.from, call.to, call.refs)'
    BY <1>1, <1>10, <1>13 DEF ChunksOK, Listed
  <2>2. QED BY <1>1, <1>2, <1>12, <1>13, <2>1 DEF CallOK, from
<1>15. QED BY <1>1, <1>14, CallKeeps

\* A chunk adds its logs of the range to those that have been received.
LEMMA StepSagaChunk == ASSUME SyncInv, SagaChunk PROVE SyncInv'
<1> DEFINE from == call.from  to == call.to  refs == call.refs  rest == Tail(refs)
           ref == Head(refs)  old == call.events
           new == Decoded(Within(FileOf(ref), from, to))
           at == ReceivedTo(from, to, refs)
           next == ReceivedTo(from, to, rest)
<1>1. /\ LogOK /\ cursor \in 0..(head + 1) /\ CallOK /\ call # Idle
      /\ call.phase = "saga_chunks" /\ refs # <<>> /\ Verified(ref)
      /\ UNCHANGED <<chainVars, cached, sagaVars, sessionVars>>
      /\ UNCHANGED <<log, head, cached, cursor>>
      /\ log \in Seq(Event) /\ Ordered(log) /\ head \in Nat
  BY LogType DEF SyncInv, SessionOK, SagaChunk, Idle, sessionVars, chainVars, LogOK, LogIs
<1>2. /\ from = AtLeast(cursor, Deployed) /\ from \in Deployed..(head + 1)
      /\ ChunksOK(from, to, refs)
      /\ old = Decoded(Within(log, from, at))
      /\ call = [phase |-> "saga_chunks", from |-> from, to |-> to, refs |-> refs,
                 events |-> old]
  BY <1>1, CallIs
<1>3. call' = [phase |-> "saga_chunks", from |-> from, to |-> to, refs |-> rest,
               events |-> old \o new]
  <2>1. call' = [call EXCEPT !.refs = rest, !.events = old \o new]
    BY DEF SagaChunk
  <2> HIDE DEF ref, rest, new, from, to, refs, old
  <2>2. PICK c : c = call
    OBVIOUS
  <2>3. /\ call' = [c EXCEPT !.refs = rest, !.events = old \o new]
        /\ c = [phase |-> "saga_chunks", from |-> from, to |-> to, refs |-> refs,
                events |-> old]
    BY <1>2, <2>1, <2>2
  <2>4. QED BY <2>3
<1> HIDE DEF from, to, refs, old
<1>4. /\ refs \in Seq(Ref) /\ Joined(refs) /\ to \in from..(head + 1)
      /\ \A k \in 1..Len(refs) : Listed(refs[k]) /\ Overlapping(refs[k], from, to)
      /\ to <= refs[Len(refs)].to
      /\ from \in Nat /\ to \in Nat
  BY <1>1, <1>2, BoundsAssumption, SMTT(30) DEF ChunksOK
<1>5. /\ Len(refs) \in Nat \ {0} /\ ref = refs[1]
      /\ rest \in Seq(Ref) /\ Len(rest) = Len(refs) - 1
      /\ \A k \in 1..Len(rest) : rest[k] = refs[k + 1]
      /\ rest = <<>> <=> Len(rest) = 0
  <2>1. refs # <<>>
    BY <1>1 DEF refs
  <2>2. Len(refs) \in Nat \ {0}
    BY <1>4, <2>1, LenProperties, EmptySeq
  <2>3. /\ Tail(refs) \in Seq(Ref) /\ Len(Tail(refs)) = Len(refs) - 1
        /\ \A k \in 1..Len(Tail(refs)) : Tail(refs)[k] = refs[k + 1]
    BY <1>4, <2>1, HeadTailProperties
  <2>4. Tail(refs) = <<>> <=> Len(Tail(refs)) = 0
    BY <2>3, EmptySeq
  <2>5. Head(refs) = refs[1]
    BY <1>4, <2>1
  <2>6. QED BY <2>2, <2>3, <2>4, <2>5
<1>6. \A k \in 1..Len(refs) :
        /\ refs[k].from \in Nat /\ refs[k].to \in Nat /\ refs[k].from < refs[k].to
        /\ refs[k].from < to /\ from < refs[k].to
  <2>1. \A r \in Ref : r.from \in Nat /\ r.to \in Nat
    BY DEF Ref
  <2>2. QED BY <1>4, <2>1 DEF Listed, Overlapping
<1>7. /\ ref.from \in Nat /\ ref.to \in Nat /\ ref.from < ref.to
      /\ ref.from < to /\ from < ref.to
      /\ FileOf(ref) = Within(log, ref.from, ref.to)
  <2>1. 1 \in 1..Len(refs)
    BY <1>5
  <2>2. Listed(ref)
    BY <1>4, <1>5, <2>1
  <2>3. FileOf(ref) = ref.digest
    BY <1>1 DEF Verified, refs
  <2>4. QED BY <1>5, <1>6, <2>1, <2>2, <2>3 DEF Listed
<1>8. at = AtLeast(from, ref.from)
  BY <1>1, <1>5 DEF ReceivedTo, refs
<1>9. next = AtMost(ref.to, to) /\ at <= next /\ from <= at /\ at \in Nat /\ next \in Nat
  <2>1. CASE rest = <<>>
    <3>1. ref = refs[Len(refs)]
      BY <1>5, <2>1
    <3>2. next = to /\ to <= ref.to
      BY <1>4, <2>1, <3>1 DEF ReceivedTo
    <3> HIDE DEF at, next, ref
    <3>3. QED BY <1>4, <1>7, <1>8, <3>2 DEF AtLeast, AtMost
  <2>2. CASE rest # <<>>
    <3>1. 1 \in 1..(Len(refs) - 1) /\ 1 \in 1..Len(rest) /\ 2 \in 1..Len(refs) /\ rest[1] = refs[2]
      BY <1>5, <2>2
    <3>2. refs[1].to = refs[2].from
      BY <1>4, <3>1 DEF Joined
    <3>3. next = AtLeast(from, ref.to) /\ ref.to < to
      BY <1>5, <1>6, <2>2, <3>1, <3>2 DEF ReceivedTo
    <3> HIDE DEF at, next, ref
    <3>4. QED BY <1>4, <1>7, <1>8, <3>3 DEF AtLeast, AtMost
  <2>3. QED BY <2>1, <2>2
<1> HIDE DEF at, next, ref, rest
<1>10. Within(FileOf(ref), from, to) = Within(log, at, next)
  <2>1. Within(Within(log, ref.from, ref.to), from, to) =
          Within(log, AtLeast(ref.from, from), AtMost(ref.to, to))
    <3>1. ref.from \in Int /\ ref.to \in Int /\ from \in Int /\ to \in Int
      BY <1>4, <1>7
    <3>2. QED BY <1>1, <3>1, WithinWithin
  <2>2. AtLeast(ref.from, from) = AtLeast(from, ref.from)
    BY <1>4, <1>7 DEF AtLeast
  <2>3. QED BY <1>7, <1>8, <1>9, <2>1, <2>2
<1>11. old \o new = Decoded(Within(log, from, next))
  <2>1. Within(log, from, next) = Within(log, from, at) \o Within(log, at, next)
    <3>1. from \in Int /\ at \in Int /\ next \in Int /\ from <= at /\ at <= next
      BY <1>4, <1>9
    <3>2. log \in Seq(Event) /\ Ordered(log)
      BY <1>1
    <3>3. QED BY ONLY <3>1, <3>2, WithinSplit, ZenonT(60)
  <2> DEFINE s == Within(log, from, at)  t == Within(log, at, next)
  <2>2. s \in Seq(Event) /\ t \in Seq(Event)
    BY <1>1, LogType
  <2>3. old = Decoded(s) /\ new = Decoded(t)
    BY <1>2, <1>10
  <2> HIDE DEF s, t, new
  <2>4. Decoded(s \o t) = Decoded(s) \o Decoded(t)
    BY <2>2, SelectionsConcat
  <2>5. QED BY <2>1, <2>3, <2>4 DEF s, t
<1>12. ChunksOK(from, to, rest)
  <2>1. \A k \in 1..Len(rest) : Listed(rest[k]) /\ Overlapping(rest[k], from, to)
    <3>1. \A k \in 1..Len(rest) : k + 1 \in 1..Len(refs)
      BY <1>5
    <3>2. QED BY <1>4, <1>5, <3>1
  <2>2. Joined(rest)
    <3>1. SUFFICES ASSUME NEW k \in 1..(Len(rest) - 1) PROVE rest[k].to = rest[k + 1].from
      BY DEF Joined
    <3>2. k \in 1..Len(rest) /\ k + 1 \in 1..Len(rest) /\ k + 1 \in 1..(Len(refs) - 1)
      BY <1>5
    <3>3. rest[k] = refs[k + 1] /\ rest[k + 1] = refs[(k + 1) + 1]
      BY <1>5, <3>2
    <3>4. refs[k + 1].to = refs[(k + 1) + 1].from
      BY <1>4, <3>2 DEF Joined
    <3>5. QED BY <3>3, <3>4
  <2>3. rest # <<>> => to <= rest[Len(rest)].to
    <3>1. rest # <<>> => Len(rest) \in 1..Len(rest) /\ Len(rest) + 1 = Len(refs)
      BY <1>5
    <3>2. rest # <<>> => rest[Len(rest)] = refs[Len(refs)]
      BY <1>5, <3>1
    <3>3. QED BY <1>4, <3>2
  <2>4. QED BY <1>4, <1>5, <2>1, <2>2, <2>3 DEF ChunksOK
<1> HIDE DEF new
<1>13. /\ call'.from = from /\ call'.to = to /\ call'.refs = rest
       /\ call' = [phase |-> "saga_chunks", from |-> from, to |-> to, refs |-> rest,
                   events |-> Decoded(Within(log, from, next))]
  BY <1>3, <1>11
<1>14. CallOK'
  <2>1. ChunksOK(call.from, call.to, call.refs)'
    BY <1>1, <1>12, <1>13 DEF ChunksOK, Listed
  <2>2. QED BY <1>1, <1>2, <1>13, <2>1 DEF CallOK, next
<1>15. QED BY <1>1, <1>14, CallKeeps

\* When all chunks are read, the events of the whole range have been received.
LEMMA StepSagaEnd == ASSUME SyncInv, SagaEnd PROVE SyncInv' /\ SessionStep
<1>1. /\ LogOK /\ cursor \in 0..(head + 1) /\ CallOK /\ call # Idle /\ torn \in BOOLEAN
      /\ call.phase = "saga_chunks" /\ call.refs = <<>> /\ head \in Nat
      /\ UNCHANGED <<chainVars, cached, sagaVars, torn>>
      /\ Answer(call.from, call.to, call.events)
  BY LogType DEF SyncInv, SessionOK, SagaEnd, Idle
<1>2. /\ call.from \in Nat /\ call.to \in call.from..(head + 1) /\ call.to \in Nat
      /\ call.events = Decoded(Within(log, call.from, call.to))
  <2>1. /\ call.from \in Deployed..(head + 1) /\ Deployed \in Nat
        /\ ChunksOK(call.from, call.to, call.refs)
        /\ call.events = Decoded(Within(log, call.from,
                           ReceivedTo(call.from, call.to, call.refs)))
    BY <1>1, CallIs, LogType
  <2>2. ReceivedTo(call.from, call.to, call.refs) = call.to
    BY <1>1 DEF ReceivedTo
  <2>3. QED BY <1>1, <2>1, <2>2 DEF ChunksOK
<1>3. Fits(call.from, call.to, call.events) /\ ToSet(call.events) \subseteq ToSet(log)
  BY <1>1, <1>2, LogsFit
<1>4. call.events \in Seq(Event)
  BY <1>3 DEF Fits
<1>5. torn' \in BOOLEAN /\ (torn => torn')
  BY <1>1
<1>6. PICK events : events = call.events
  OBVIOUS
<1>7. QED BY <1>1, <1>2, <1>3, <1>4, <1>5, <1>6, AnswerKeeps

-----------------------------------------------------------------------------
\* Every step keeps the invariant.
LEMMA SyncNext == ASSUME SyncInv, [Next]_vars PROVE SyncInv'
<1>1. CASE \E kinds \in BlockLogs : Mine(kinds)
  BY <1>1, StepMine
<1>2. CASE PublishCache
  BY <1>2, StepPublishCache
<1>3. CASE WriteHot
  BY <1>3, StepWriteHot
<1>4. CASE ListHot
  BY <1>4, StepListHot
<1>5. CASE Seal
  BY <1>5, StepSeal
<1>6. CASE \E source \in Sources, to \in ToBlocks : Call(source, to)
  BY <1>6, StepCall
<1>7. CASE Rewind
  BY <1>7, StepRewind
<1>8. CASE CallStep
  <2>1. CASE Fail
    BY <2>1, StepFail
  <2>2. CASE \E latest \in {head - 1, head} : RpcHead(latest)
    BY <2>2, StepRpcHead
  <2>3. CASE RpcLogs
    BY <2>3, StepRpcLogs
  <2>4. CASE RemoteDeposits
    BY <2>4, StepRemoteDeposits
  <2>5. CASE RemoteWithdrawals
    BY <2>5, StepRemoteWithdrawals
  <2>6. CASE SagaManifest
    BY <2>6, StepSagaManifest
  <2>7. CASE SagaChunk
    BY <2>7, StepSagaChunk
  <2>8. CASE SagaEnd
    BY <2>8, StepSagaEnd
  <2>9. QED BY <1>8, <2>1, <2>2, <2>3, <2>4, <2>5, <2>6, <2>7, <2>8 DEF CallStep
<1>9. CASE UNCHANGED vars
  <2>1. UNCHANGED <<chainVars, cached, sagaVars, sessionVars>> /\ UNCHANGED <<call, cursor>>
    BY <1>9 DEF vars, chainVars, sagaVars, sessionVars
  <2>2. CallOK'
    <3>1. cached \in Nat /\ cached' \in Nat /\ cached <= cached'
      BY <2>1, LogType DEF SyncInv
    <3>2. QED BY <2>1, <3>1, CallKept DEF SyncInv
  <2>3. QED BY <2>1, <2>2, CallKeeps
<1>10. QED BY <1>1, <1>2, <1>3, <1>4, <1>5, <1>6, <1>7, <1>8, <1>9 DEF Next

\* The invariant holds throughout.
LEMMA SyncAlways == Spec => []SyncInv
<1>1. Init => SyncInv
  BY StepInit
<1>2. SyncInv /\ [Next]_vars => SyncInv'
  BY SyncNext
<1>3. QED BY <1>1, <1>2, PTL DEF Spec

\* Every variable of the syncing session keeps its type.
THEOREM TypeOKHolds == Spec => []TypeOK
<1>1. SyncInv => TypeOK
  <2> SUFFICES ASSUME SyncInv PROVE TypeOK
    OBVIOUS
  <2>2. /\ head \in Nat /\ Deployed \in Nat /\ MaxHead \in Nat /\ head \in Deployed..MaxHead
        /\ log \in Seq(Event) /\ \A e \in ToSet(log) : e.block \in (Deployed + 1)..head
    BY LogType, BoundsAssumption DEF SyncInv, LogOK, LogIs
  <2>3. Range(log) \subseteq [kind : Kinds, block : (Deployed + 1)..head, leaf : Nat]
    <3>1. DOMAIN log = 1..Len(log) /\ \A k \in 1..Len(log) : log[k] \in Event
      BY <2>2, LenProperties, ElementOfSeq
    <3>2. \A k \in 1..Len(log) : log[k] \in ToSet(log)
      BY <2>2, OwnElements
    <3>3. \A e \in Event : e.block \in (Deployed + 1)..head =>
            e \in [kind : Kinds, block : (Deployed + 1)..head, leaf : Nat]
      BY DEF Event
    <3>4. QED BY <2>2, <3>1, <3>2, <3>3 DEF Range
  <2>4. call.phase \in {"idle", "rpc", "rpc_logs", "remote", "remote_withdrawals", "saga",
                        "saga_chunks"}
    BY DEF SyncInv, CallOK, Idle
  <2>5. cursor \in 0..(MaxHead + 1)
    BY <2>2 DEF SyncInv, SessionOK
  <2>6. Range(leaves) \subseteq Nat
    <3>1. PICK n \in Nat : leaves = First(n)
      BY ViewIs DEF SyncInv, SessionOK, View
    <3>2. QED BY <3>1 DEF Range, First
  <2>7. spent \subseteq Nat
    <3>1. spent \subseteq Nullifiers(log)
      BY ViewIs, WithinAll DEF SyncInv, SessionOK, Withdrawn
    <3>2. Nullifiers(log) = {e.leaf : e \in {x \in ToSet(log) : x.kind = "withdrawal"}}
      BY <2>2, NullifiersAre
    <3>3. ToSet(log) \subseteq Event
      BY <2>2, OwnElements
    <3>4. QED BY <3>1, <3>2, <3>3 DEF Event
  <2>8. /\ cached \in 0..head /\ sealed \in Deployed..hot /\ hot \in Deployed..(head + 1)
        /\ refused \in BOOLEAN /\ torn \in BOOLEAN
    BY DEF SyncInv, ManifestOK, SessionOK
  <2>9. QED BY <2>2, <2>3, <2>4, <2>5, <2>6, <2>7, <2>8 DEF TypeOK
<1>2. QED BY <1>1, SyncAlways, PTL

\* The session's leaves are the pool's first deposits, each in its place, and
\* the notes it takes for spent are spent.
THEOREM ViewSoundHolds == Spec => []ViewSound
<1>1. SyncInv => ViewSound
  BY DEF SyncInv, SessionOK
<1>2. QED BY <1>1, SyncAlways, PTL

\* Unless a call has read the cache's two files at different ages, the session
\* has every deposit and withdrawal of the blocks it has been answered for.
THEOREM CoveredUnlessTornHolds == Spec => []CoveredUnlessTorn
<1>1. SyncInv => CoveredUnlessTorn
  BY DEF SyncInv, SessionOK
<1>2. QED BY <1>1, SyncAlways, PTL

\* No snapshot of an honest source is refused, unless a call has read a cache
\* that was being published.
THEOREM RefusedOnlyIfTornHolds == Spec => []RefusedOnlyIfTorn
<1>1. SyncInv => RefusedOnlyIfTorn
  BY DEF SyncInv, SessionOK
<1>2. QED BY <1>1, SyncAlways, PTL

-----------------------------------------------------------------------------
\* Every step of the syncing session is one of PoolSession or is not seen by it.
LEMMA SessionNext == ASSUME SyncInv, [Next]_vars PROVE SessionStep
<1>1. CASE \E kinds \in BlockLogs : Mine(kinds)
  BY <1>1, MineIsStep DEF SyncInv
<1>2. CASE PublishCache \/ WriteHot \/ ListHot \/ Seal
  BY <1>2, SessionStutters DEF PublishCache, WriteHot, ListHot, Seal
<1>3. CASE \E source \in Sources, to \in ToBlocks : Call(source, to)
  BY <1>3, SessionStutters DEF Call
<1>4. CASE Rewind
  BY <1>4 DEF Rewind, chainVars, SessionStep, Session!Next, Session!StartOver
<1>5. CASE Fail \/ RemoteDeposits \/ SagaManifest \/ SagaChunk
  BY <1>5, SessionStutters DEF Fail, RemoteDeposits, SagaManifest, SagaChunk
<1>6. CASE \E latest \in {head - 1, head} : RpcHead(latest)
  BY <1>6, StepRpcHead
<1>7. CASE RpcLogs \/ RemoteWithdrawals \/ SagaEnd
  BY <1>7, StepRpcLogs, StepRemoteWithdrawals, StepSagaEnd
<1>8. CASE UNCHANGED vars
  BY <1>8, SessionStutters DEF vars, chainVars, sessionVars
<1> QED BY <1>1, <1>2, <1>3, <1>4, <1>5, <1>6, <1>7, <1>8 DEF Next, CallStep

\* For every chain, every cache and manifest and any mix of syncers, a syncing session
\* implements PoolSession: an answer adds just what the blocks it names hold, and
\* no answer, failure or new start forgets a leaf or a spent note.
THEOREM ImplementsPoolSessionHolds == Spec => ImplementsPoolSession
<1>1. Init => Session!Init
  BY BoundsAssumption DEF Init, Session!Init
<1>2. SyncInv /\ [Next]_vars => [Session!Next]_(Session!vars)
  BY SessionNext DEF SessionStep
<1>3. QED BY SyncAlways, <1>1, <1>2, PTL DEF Spec, ImplementsPoolSession, Session!Spec
===============================================================================
