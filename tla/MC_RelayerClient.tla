-------------------------- MODULE MC_RelayerClient --------------------------
(***************************************************************************)
(* A note submitted at most twice, and a timeout of two ticks.             *)
(***************************************************************************)
EXTENDS RelayerClient
===============================================================================
