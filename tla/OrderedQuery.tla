----------------------------- MODULE OrderedQuery -----------------------------
(***************************************************************************)
(* What a streamed event query promises its caller, with no chunks, no     *)
(* splitting and no rate limits: once the block range is known the blocks  *)
(* come out in order, without a gap and without a repetition, until either *)
(* the whole range is out or one error ends the stream.                    *)
(***************************************************************************)
EXTENDS Integers, Sequences

VARIABLES
  first,    \* first block of the range, once resolved
  end,      \* the block after the last one of the range, once resolved
  out,      \* the blocks whose logs the consumer has received
  status    \* how far the stream is

vars == <<first, end, out, status>>

\* The blocks of the half-open range a..b, in order.
Blocks(a, b) == [k \in 1..(IF a < b THEN b - a ELSE 0) |-> a + k - 1]

Init ==
  /\ first = 0
  /\ end = 0
  /\ out = <<>>
  /\ status = "resolve_from"

ResolveFrom ==
  /\ status = "resolve_from"
  /\ first' \in Nat
  /\ status' = "resolve_to"
  /\ UNCHANGED <<end, out>>

ResolveTo ==
  /\ status = "resolve_to"
  /\ end' \in Nat
  /\ status' = "streaming"
  /\ UNCHANGED <<first, out>>

\* The consumer receives the next few blocks.
Emit ==
  /\ status = "streaming"
  /\ \E n \in (first + Len(out) + 1)..end : out' = Blocks(first, n)
  /\ UNCHANGED <<first, end, status>>

\* The consumer receives an error, the last item of the stream.
Fail ==
  /\ status \in {"resolve_from", "resolve_to", "streaming"}
  /\ status' = "failed"
  /\ UNCHANGED <<first, end, out>>

Finish ==
  /\ status = "streaming"
  /\ out = Blocks(first, end)
  /\ status' = "done"
  /\ UNCHANGED <<first, end, out>>

Next == ResolveFrom \/ ResolveTo \/ Emit \/ Fail \/ Finish

Spec == Init /\ [][Next]_vars
===============================================================================
