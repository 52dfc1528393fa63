--------------------------- MODULE IsolatedSessions ---------------------------
(***************************************************************************)
(* What isolation promises, with no HTTP connections and no clones: there  *)
(* are sessions, each sends its traffic on circuits of its own, and no     *)
(* circuit ever carries the traffic of two of them.                        *)
(***************************************************************************)
EXTENDS Naturals

CONSTANT Circuits

VARIABLES
  sessions,   \* the number of sessions opened so far
  used        \* the circuits each session's traffic has travelled on

vars == <<sessions, used>>

Init ==
  /\ sessions = 0
  /\ used = [s \in 1..0 |-> {}]

Open ==
  /\ sessions' = sessions + 1
  /\ used' = [s \in 1..sessions' |-> IF s \in 1..sessions THEN used[s] ELSE {}]

Send(session, circuit) ==
  /\ \A other \in 1..sessions \ {session} : circuit \notin used[other]
  /\ used' = [used EXCEPT ![session] = @ \cup {circuit}]
  /\ UNCHANGED sessions

Next == Open \/ \E session \in 1..sessions, circuit \in Circuits : Send(session, circuit)

Spec == Init /\ [][Next]_vars
===============================================================================
