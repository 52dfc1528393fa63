------------------------------ MODULE MC_PoolSync ------------------------------
(***************************************************************************)
(* A few blocks with up to two of the pool's logs each.                    *)
(***************************************************************************)
EXTENDS PoolSync

Blocks == {<<>>, <<"withdrawal">>, <<"deposit">>, <<"deposit", "other", "withdrawal", "deposit">>}
Bounds == {3, MaxBlock}

AllSources == {"rpc", "remote", "saga"}
RemoteOnly == {"remote"}
===============================================================================
