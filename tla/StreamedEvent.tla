---------------------------- MODULE StreamedEvent ----------------------------
(***************************************************************************)
(* The streamed `eth_getLogs` query of                                     *)
(* crates/rpc-provider/src/events/streamed.rs: the block range of a filter *)
(* is fetched in chunks, up to MaxConcurrent at once, each chunk halving   *)
(* the ranges that fail and waiting out a pause that all chunks share when *)
(* the provider rate limits.                                               *)
(*                                                                         *)
(* All chunk futures are polled by the one task that polls the stream, so  *)
(* steps interleave only at the awaits of the code: a request that is      *)
(* answered is handled, and the chunk's next request prepared, in a single *)
(* step.  A block stands for the logs found in it.  Times are durations    *)
(* still to elapse; Tick lets one unit pass.                               *)
(*                                                                         *)
(* A definition D_Suffix is D with a plausible bug, used by no action: the *)
(* properties are checked to notice each of them in place of D.            *)
(***************************************************************************)
EXTENDS Integers, Sequences

CONSTANTS
  Latest,         \* a block tag other than a number or `earliest`
  FromTags,       \* bounds a filter may start with: block numbers, Latest
  ToTags,         \* bounds a filter may end with
  Heads,          \* heads of the chain the provider may report
  ChunkSize,      \* the fields of StreamedEventConfig
  MaxConcurrent,
  BaseDelay,
  MaxDelay,
  MaxRetries,
  NoHint,         \* a rate-limit error that names no delay
  Hints           \* the delays a rate-limit error may name, or NoHint

ASSUME ConfigAssumption ==
  /\ ChunkSize \in Nat
  /\ MaxConcurrent \in Nat
  /\ BaseDelay \in Nat
  /\ MaxDelay \in Nat
  /\ MaxRetries \in Nat

ASSUME ProviderAssumption ==
  /\ Heads \subseteq Nat
  /\ FromTags \subseteq Nat \cup {Latest}
  /\ ToTags \subseteq Nat \cup {Latest}
  /\ Hints \subseteq Nat \cup {NoHint}

VARIABLES
  first, end,   \* the resolved range, end exclusive
  out,          \* blocks whose logs the consumer has received
  status,       \* how far the stream is
  cursor,       \* where the next chunk starts
  chunks,       \* the buffered chunk futures, in block order
  size,         \* State.size: length of a chunk not yet started
  delay,        \* State.delay: the pause the next rate limit applies
  paused        \* State.paused_until: time to the next free send slot

rangeVars == <<first, end>>
sharedVars == <<size, delay, paused>>
vars == <<first, end, out, status, cursor, chunks, size, delay, paused>>

-----------------------------------------------------------------------------
AtLeast(a, b) == IF a < b THEN b ELSE a
AtMost(a, b) == IF a < b THEN a ELSE b

\* Both settings are clamped to 1.
Concurrency == AtLeast(MaxConcurrent, 1)
InitialSize == AtLeast(ChunkSize, 1)
Stagger == BaseDelay \div Concurrency

\* A half-open block range, and its blocks in order.
Span(a, b) == [start |-> a, end |-> b]
Width(r) == r.end - r.start
Blocks(a, b) == [k \in 1..(IF a < b THEN b - a ELSE 0) |-> a + k - 1]

\* paused_until is None.  An elapsed pause that nobody cleared is 0.
NoPause == -1

\* claim_slot: the time a request must wait, and the slot left for the next.
SlotWait(p) == AtLeast(p, 0)
AfterClaim_NotPushedBack(p) == IF p > 0 THEN p ELSE NoPause
AfterClaim(p) == IF p > 0 THEN p + Stagger ELSE NoPause

\* State::pause for a rate limit that carries `hint`.
PauseFor(hint) == AtLeast(paused, IF hint = NoHint THEN delay ELSE hint)
NextDelay_Uncapped == 2 * delay
NextDelay == AtMost(2 * delay, MaxDelay)

\* State::shrink, and the halves of a range that failed, left half first.
Shrunk_Overwritten(n) == AtLeast(n, 1)
Shrunk(n) == AtLeast(AtMost(size, n), 1)
Middle(r) == r.start + Width(r) \div 2
Halves(r) == <<Span(r.start, Middle(r)), Span(Middle(r), r.end)>>

\* A chunk future that buffered() has taken in but not polled yet.
NewChunk(a, b) ==
  [start |-> a, end |-> b, phase |-> "new", range |-> Span(a, b),
   pending |-> <<>>, retries |-> 0, wait |-> 0, logs |-> <<>>]

\* Chunk c about to request range r when the pause stands at p: it sleeps to
\* its slot, or sends at once when there is no slot to wait for.
Requesting_ForgetsRetries(c, r, rest, tries, p) ==
  [c EXCEPT !.range = r, !.pending = rest, !.retries = 0,
            !.wait = SlotWait(p),
            !.phase = IF p > 0 THEN "sleeping" ELSE "requested"]
Requesting(c, r, rest, tries, p) ==
  [c EXCEPT !.range = r, !.pending = rest, !.retries = tries,
            !.wait = SlotWait(p),
            !.phase = IF p > 0 THEN "sleeping" ELSE "requested"]

\* A range may be rate limited MaxRetries times in a row.
WithinBudget_OneTooMany(c) == c.retries <= MaxRetries
WithinBudget(c) == c.retries < MaxRetries

\* chunk_ranges has nothing more to yield.
Exhausted == cursor >= end

\* buffered() tops itself up before it polls any chunk.
Filled == Len(chunks) >= Concurrency \/ Exhausted
Polled(i, phase) ==
  /\ status = "streaming"
  /\ Filled
  /\ chunks[i].phase = phase
-----------------------------------------------------------------------------
Init ==
  /\ first = 0
  /\ end = 0
  /\ out = <<>>
  /\ status = "resolve_from"
  /\ cursor = 0
  /\ chunks = <<>>
  /\ size = InitialSize
  /\ delay = BaseDelay
  /\ paused = NoPause

\* Numbers resolve to themselves (earliest is 0), any other tag to the head
\* the provider reports when asked.
Resolved(tag) == IF tag = Latest THEN Heads ELSE {tag}

ResolveFrom ==
  /\ status = "resolve_from"
  /\ \E tag \in FromTags : first' \in Resolved(tag)
  /\ cursor' = first'
  /\ status' = "resolve_to"
  /\ UNCHANGED <<end, out, chunks, sharedVars>>

ResolveTo ==
  /\ status = "resolve_to"
  /\ \E tag \in ToTags : \E n \in Resolved(tag) : end' = n + 1
  /\ status' = "streaming"
  /\ UNCHANGED <<first, out, cursor, chunks, sharedVars>>

\* The provider cannot say its head, or the filter names a block hash.
ResolveFail ==
  /\ status \in {"resolve_from", "resolve_to"}
  /\ status' = "failed"
  /\ UNCHANGED <<rangeVars, out, cursor, chunks, sharedVars>>

\* chunk_ranges yields the next chunk, with the size read at that moment.
StartChunk ==
  /\ status = "streaming"
  /\ ~ Filled
  /\ LET stop == AtMost(cursor + size, end)
     IN  /\ chunks' = Append(chunks, NewChunk(cursor, stop))
         /\ cursor' = stop
  /\ UNCHANGED <<rangeVars, out, status, sharedVars>>

\* First poll of a chunk future: query_chunk pops the whole chunk.
Begin(i) ==
  /\ Polled(i, "new")
  /\ chunks' = [chunks EXCEPT ![i] = Requesting(@, @.range, @.pending, 0, paused)]
  /\ paused' = AfterClaim(paused)
  /\ UNCHANGED <<rangeVars, out, status, cursor, size, delay>>

\* sleep_until has elapsed, the request is sent.
Wake(i) ==
  /\ Polled(i, "sleeping")
  /\ chunks[i].wait = 0
  /\ chunks' = [chunks EXCEPT ![i].phase = "requested"]
  /\ UNCHANGED <<rangeVars, out, status, cursor, sharedVars>>

\* get_logs returns: the delay is reset unless a pause is on record, and the
\* chunk goes on with the next pending range or is complete.
Collected(c) == [c EXCEPT !.logs = @ \o Blocks(c.range.start, c.range.end)]

Succeed(i) ==
  /\ Polled(i, "requested")
  /\ delay' = IF paused = NoPause THEN BaseDelay ELSE delay
  /\ LET c == Collected(chunks[i])
     IN  \/ /\ c.pending = <<>>
            /\ chunks' = [chunks EXCEPT ![i] = [c EXCEPT !.phase = "ready"]]
            /\ UNCHANGED paused
         \/ /\ c.pending # <<>>
            /\ chunks' = [chunks EXCEPT ![i] =
                 Requesting(c, Head(c.pending), Tail(c.pending), 0, paused)]
            /\ paused' = AfterClaim(paused)
  /\ UNCHANGED <<rangeVars, out, status, cursor, size>>

\* A rate limit within the retry budget: pause everybody, claim a slot for
\* the same range again.
RateLimited(i) ==
  /\ Polled(i, "requested")
  /\ WithinBudget(chunks[i])
  /\ \E hint \in Hints :
       LET p == PauseFor(hint)
       IN  /\ chunks' = [chunks EXCEPT ![i] =
                Requesting(@, @.range, @.pending, @.retries + 1, p)]
           /\ paused' = AfterClaim(p)
  /\ delay' = NextDelay
  /\ UNCHANGED <<rangeVars, out, status, cursor, size>>

\* A range that cannot be fetched: rate limited once too often, or a single
\* block that fails.  The chunk's partial logs are lost with it.
Abandon(i) ==
  /\ Polled(i, "requested")
  /\ ~ WithinBudget(chunks[i]) \/ Width(chunks[i].range) <= 1
  /\ chunks' = [chunks EXCEPT ![i].phase = "error"]
  /\ UNCHANGED <<rangeVars, out, status, cursor, sharedVars>>

\* Any other error on more than one block: halve the range, push the right
\* half and then the left one, and go on with the left one.
Split(i) ==
  /\ Polled(i, "requested")
  /\ Width(chunks[i].range) > 1
  /\ LET r == chunks[i].range
     IN  /\ size' = Shrunk(Middle(r) - r.start)
         /\ chunks' = [chunks EXCEPT ![i] =
              Requesting(@, Halves(r)[1], <<Halves(r)[2]>> \o @.pending, 0, paused)]
  /\ paused' = AfterClaim(paused)
  /\ UNCHANGED <<rangeVars, out, status, cursor, delay>>

\* buffered() yields the oldest chunk, whose logs go to the consumer.
Deliver_Unordered ==
  /\ \E i \in DOMAIN chunks :
       /\ Polled(i, "ready")
       /\ out' = out \o chunks[i].logs
       /\ chunks' = SubSeq(chunks, 1, i - 1) \o SubSeq(chunks, i + 1, Len(chunks))
  /\ UNCHANGED <<rangeVars, status, cursor, sharedVars>>
Deliver ==
  /\ chunks # <<>>
  /\ Polled(1, "ready")
  /\ out' = out \o chunks[1].logs
  /\ chunks' = Tail(chunks)
  /\ UNCHANGED <<rangeVars, status, cursor, sharedVars>>

\* The oldest chunk failed: its error is the stream's last item, and dropping
\* the inner stream cancels every other chunk.
DeliverError ==
  /\ chunks # <<>>
  /\ Polled(1, "error")
  /\ status' = "failed"
  /\ chunks' = <<>>
  /\ UNCHANGED <<rangeVars, out, cursor, sharedVars>>

Finish ==
  /\ status = "streaming"
  /\ Exhausted
  /\ chunks = <<>>
  /\ status' = "done"
  /\ UNCHANGED <<rangeVars, out, cursor, chunks, sharedVars>>

\* One unit of time passes.
Tick ==
  /\ status = "streaming"
  /\ paused > 0 \/ \E i \in DOMAIN chunks : chunks[i].wait > 0
  /\ paused' = IF paused > 0 THEN paused - 1 ELSE paused
  /\ chunks' = [i \in DOMAIN chunks |->
                 [chunks[i] EXCEPT !.wait = AtLeast(@ - 1, 0)]]
  /\ UNCHANGED <<rangeVars, out, status, cursor, size, delay>>

\* The stream has ended: polling it again yields nothing.
Ended ==
  /\ status \in {"done", "failed"}
  /\ UNCHANGED vars

ChunkStep(i) ==
  Begin(i) \/ Wake(i) \/ Succeed(i) \/ RateLimited(i) \/ Abandon(i) \/ Split(i)

Next ==
  \/ ResolveFrom \/ ResolveTo \/ ResolveFail
  \/ StartChunk
  \/ \E i \in DOMAIN chunks : ChunkStep(i)
  \/ Deliver \/ DeliverError \/ Finish
  \/ Tick
  \/ Ended

\* The consumer keeps polling, timers fire and every request is answered.
Spec == Init /\ [][Next]_vars /\ WF_vars(Next)
-----------------------------------------------------------------------------
SpanType == [start : Nat, end : Nat]
ChunkType ==
  [start : Nat, end : Nat,
   phase : {"new", "sleeping", "requested", "ready", "error"},
   range : SpanType, pending : Seq(SpanType), retries : 0..MaxRetries,
   wait : Nat, logs : Seq(Nat)]

\* Every variable has its type.
TypeOK ==
  /\ first \in Nat /\ end \in Nat
  /\ out \in Seq(Nat)
  /\ status \in {"resolve_from", "resolve_to", "streaming", "failed", "done"}
  /\ cursor \in Nat
  /\ chunks \in Seq(ChunkType)
  /\ size \in Nat \ {0}
  /\ delay \in Nat
  /\ paused \in Nat \cup {NoPause}

\* The consumer has received exactly the blocks before the oldest chunk, in
\* block order, each once, whatever was split, retried or answered out of
\* order (streamed.rs: "yielding them in block order").
Oldest == IF chunks = <<>> THEN cursor ELSE chunks[1].start
DeliveredPrefix ==
  status \in {"streaming", "done"} => out = Blocks(first, Oldest)

\* The ranges of a sequence lie end to end, the last one ending at `stop`.
Chained(ranges, stop) ==
  \A k \in DOMAIN ranges :
    /\ ranges[k].start < ranges[k].end
    /\ ranges[k].end = IF k = Len(ranges) THEN stop ELSE ranges[k + 1].start

\* The chunks in flight lie end to end up to the cursor: no block falls
\* between two chunks or into both, though the chunk size changes under way.
ChunksTile == Chained(chunks, cursor)

\* What a chunk has collected, the range it is asking for and the ranges on
\* its stack lie end to end and make up the chunk: halving a range loses no
\* block and asks for none twice (query_chunk).
WorkLeft(c) ==
  /\ c.start <= c.range.start
  /\ c.logs = Blocks(c.start, c.range.start)
  /\ Chained(<<c.range>> \o c.pending, c.end)
WorkOf(c) ==
  IF c.phase = "ready" THEN c.logs = Blocks(c.start, c.end) ELSE WorkLeft(c)
WorkPartition == \A i \in DOMAIN chunks : WorkOf(chunks[i])

\* Two requests that wait out the same pause are sent at least a stagger
\* apart, and the next free slot is a stagger after both, also when a later
\* rate limit has moved the pause (State.paused_until: "the next free send
\* slot. Each waiting request claims it and pushes it back").
SlotsSpaced ==
  \A i \in DOMAIN chunks :
    chunks[i].wait > 0 =>
      /\ chunks[i].wait + Stagger <= paused
      /\ \A j \in DOMAIN chunks \ {i} :
           \/ chunks[j].wait = 0
           \/ chunks[j].wait >= chunks[i].wait + Stagger
           \/ chunks[i].wait >= chunks[j].wait + Stagger

\* Splits are remembered for the chunks not yet started: a chunk is never
\* longer than one started before it, also when a split of an old, long chunk
\* fails after one of a newer, shorter chunk (State::shrink).
ChunksNeverGrow ==
  \A i, j \in DOMAIN chunks :
    i < j => Width(chunks[i]) >= Width(chunks[j])

\* A stream that ends without an error has delivered its whole range.
CompleteWhenDone == status = "done" => out = Blocks(first, end)

\* An error reaches the consumer after every block before the chunk that
\* failed, with none of that chunk, and is the last thing to reach it: chunks
\* in flight behind it are dropped ("ending the stream").
ErrorEndsStream ==
  [][/\ status = "failed" => UNCHANGED <<out, status, chunks>>
     /\ status = "streaming" /\ status' = "failed" =>
          /\ out' = Blocks(first, chunks[1].start)
          /\ chunks[1].phase = "error"
          /\ chunks' = <<>>]_vars

\* No request waits for longer than the longest pause and one stagger for
\* each other waiting request: pauses that rate limits apply while others
\* wait do not add up (State::pause takes the later deadline).
Sleeping == {i \in DOMAIN chunks : chunks[i].phase = "sleeping"}
LongestPause ==
  CHOOSE d \in {BaseDelay, MaxDelay} \cup (Hints \ {NoHint}) :
    \A e \in {BaseDelay, MaxDelay} \cup (Hints \ {NoHint}) : e <= d
PauseBounded ==
  \A i \in DOMAIN chunks :
    chunks[i].wait <= LongestPause + (Concurrency - 1) * Stagger

\* A request that succeeds resets the delay, as StreamedEvent's documentation
\* has it: "resets the pause on a successful request" (streamed.rs:32).
Succeeds(i) ==
  /\ chunks[i].phase = "requested"
  /\ i \in DOMAIN chunks'
  /\ chunks[i].logs # chunks'[i].logs
SuccessResetsDelay ==
  [][\A i \in DOMAIN chunks : Succeeds(i) => delay' = BaseDelay]_vars

\* The stream implements the ordered query: whatever happens to its chunks shows
\* outside only in the range, in what the consumer has received and in the end.
Query == INSTANCE OrderedQuery WITH
           first <- first, end <- end, out <- out, status <- status
ImplementsOrderedQuery == Query!Spec

\* The stream ends, with its range delivered or with an error, however often
\* the provider rate limits and fails.
StreamEnds == <>(status \in {"done", "failed"})
===============================================================================
