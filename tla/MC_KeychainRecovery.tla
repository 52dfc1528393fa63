------------------------- MODULE MC_KeychainRecovery -------------------------
(***************************************************************************)
(* Two pools of one address on two chains, or two descriptions of a pool.  *)
(***************************************************************************)
EXTENDS KeychainRecovery

Described(chain, variant) == [chain |-> chain, address |-> "a", variant |-> variant]

TwoChains == {Described(1, "catalog"), Described(2, "catalog")}
TwoVariants == {Described(1, "catalog"), Described(1, "custom")}
===============================================================================
