--------------------------- MODULE MC_TorIsolation ---------------------------
(***************************************************************************)
(* Three groups asked for one after the other by two values at a time that *)
(* are cloned and dropped, two requests at a time and two circuits.        *)
(***************************************************************************)
EXTENDS TorIsolation, TLC

Sites == {[scheme |-> "https", host |-> "node", port |-> None],
          [scheme |-> "http", host |-> "node", port |-> 8545]}
Symmetric == Permutations(Handles) \cup Permutations(Requests) \cup Permutations(Conns)
               \cup Permutations(Circuits)
===============================================================================
