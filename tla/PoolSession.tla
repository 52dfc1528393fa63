------------------------------ MODULE PoolSession ------------------------------
(***************************************************************************)
(* What a wallet is promised of its view of a pool, with no syncers, no    *)
(* snapshots and no answers that overtake one another: blocks are final,   *)
(* and a session that is answered for the blocks before some block knows   *)
(* those and what it knew before, and nothing else.  It goes back only by  *)
(* starting over, which forgets no leaf and no spent note.  A session that *)
(* was answered from a cache in the middle of being published (`torn`)     *)
(* adds only what is true, but may miss something, and may be refused.     *)
(***************************************************************************)
EXTENDS Integers, Sequences, Functions

VARIABLES
  head, log,       \* the latest block, and the pool's logs in order
  cursor,          \* the block before which the session was answered for
  leaves, spent,   \* the tree's leaves and the notes known to be spent
  refused, torn

vars == <<head, log, cursor, leaves, spent, refused, torn>>

\* What was deposited, or withdrawn, before a block.
Before(kind, to) == {e.leaf : e \in {x \in Range(log) : x.kind = kind /\ x.block < to}}

\* The leaves are the first of the pool, each in its place.
InPlace(s) == s = [k \in 1..Len(s) |-> k - 1]

Init ==
  /\ head \in Nat /\ log = <<>>
  /\ cursor = 0 /\ leaves = <<>> /\ spent = {}
  /\ refused = FALSE /\ torn = FALSE

\* A block is mined, and what was before it stays.
Mine ==
  /\ head' = head + 1
  /\ Len(log) <= Len(log') /\ SubSeq(log', 1, Len(log)) = log
  /\ \A k \in (Len(log) + 1)..Len(log') : log'[k].block = head'
  /\ UNCHANGED <<cursor, leaves, spent, refused, torn>>

\* The session is answered for the blocks before `to`.
Learn(to) ==
  /\ cursor' = to /\ refused' = FALSE
  /\ ~ torn /\ UNCHANGED torn
  /\ InPlace(leaves') /\ Range(leaves') = Range(leaves) \cup Before("deposit", to)
  /\ spent' = spent \cup Before("withdrawal", to)
  /\ UNCHANGED <<head, log>>

\* It is answered from a cache of two ages, or was before.
LearnTorn(to) ==
  /\ cursor' = to /\ refused' = FALSE
  /\ torn'
  /\ InPlace(leaves')
  /\ Range(leaves) \subseteq Range(leaves') /\ Range(leaves') \subseteq Before("deposit", head + 1)
  /\ spent \subseteq spent' /\ spent' \subseteq Before("withdrawal", head + 1)
  /\ UNCHANGED <<head, log>>

Refuse ==
  /\ torn' /\ refused'
  /\ UNCHANGED <<head, log, cursor, leaves, spent>>

StartOver ==
  /\ cursor' = 0
  /\ UNCHANGED <<head, log, leaves, spent, refused, torn>>

Next ==
  \/ Mine
  \/ \E to \in cursor..(head + 1) : Learn(to) \/ LearnTorn(to)
  \/ Refuse
  \/ StartOver

Spec == Init /\ [][Next]_vars
================================================================================
