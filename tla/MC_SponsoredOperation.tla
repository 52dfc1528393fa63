----------------------- MODULE MC_SponsoredOperation -----------------------
(***************************************************************************)
(* A pool of native currency and one of tokens, whose notes cover some     *)
(* costs and not others, and a pool without a paymaster; a rate that rises *)
(* within the buffer; a deposit of another into the native pool, which     *)
(* makes it forget the root before.                                        *)
(***************************************************************************)
EXTENDS SponsoredOperation

Gas(paymasterVerification, paymasterPostOp) ==
  [preVerification |-> 2, verification |-> 3, call |-> 5,
   paymasterVerification |-> paymasterVerification, paymasterPostOp |-> paymasterPostOp]
MC_Estimates == {Gas(7, 3), Gas(None, None)}

MC_Pools == {[denomination |-> 1100, native |-> TRUE, paymaster |-> TRUE],
             [denomination |-> 5000, native |-> FALSE, paymaster |-> TRUE],
             [denomination |-> 5000, native |-> FALSE, paymaster |-> FALSE]}
MC_MaxDeposits == [pool \in MC_Pools |-> IF pool.native THEN 1 ELSE 0]
=============================================================================
