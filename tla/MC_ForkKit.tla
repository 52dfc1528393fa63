------------------------------ MODULE MC_ForkKit ------------------------------
(***************************************************************************)
(* Two bundlers, or two relayer stacks, or one of each, that try two ports *)
(* each, where something else may listen on one of them.                   *)
(***************************************************************************)
EXTENDS ForkKit

CONSTANTS a1, a2, r1, r2

Pairs == {{a1, a2}, {r1, r2}, {a1, r1}}
===============================================================================
