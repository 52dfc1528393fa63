---------------------------- MODULE RelayerQuote ----------------------------
(***************************************************************************)
(* The fee a wallet offers a relayer, from the status the relayer          *)
(* publishes (crates/tornadocash/relayer/src/status.rs).                   *)
(*                                                                         *)
(* Integers keep the proportions of their widths: a U256 is below WORD,    *)
(* what is a u128 or a u64 in the code is small enough that products which *)
(* cannot overflow there do not here.  A definition D_Suffix is D with a   *)
(* plausible bug.                                                          *)
(***************************************************************************)
EXTENDS PoolNotes

CONSTANTS
  WORD,              \* one more than the greatest U256
  MaxU64,
  FEE_PRECISION,
  WITHDRAWAL_GAS,
  Units(_),          \* a pool's amount_wei, scaled to WORD
  Decimals(_)        \* the decimals of its asset, scaled

ASSUME QuoteAssumption ==
  /\ WORD \in Nat /\ MaxU64 \in Nat
  /\ FEE_PRECISION \in Nat \ {0} /\ WITHDRAWAL_GAS \in Nat

Wrapped(n) == n % WORD

\* The status is for one chain, and lists an address for some symbols and amounts.
Supports(status, pool) ==
  /\ pool.chainId = status.netId
  /\ [symbol |-> Symbol(pool), amount |-> Amount(pool), address |-> pool.address] \in status.instances

\* The float service fee, in units of 1/FEE_PRECISION, cast to u64: it saturates.
FeeScaled(serviceFee) ==
  IF serviceFee < 0 THEN 0 ELSE IF serviceFee > MaxU64 THEN MaxU64 ELSE serviceFee

FeePercent(status, pool) == (Units(pool) * FeeScaled(status.serviceFee)) \div FEE_PRECISION
Expense(gasPrice) == gasPrice * WITHDRAWAL_GAS
Scale(pool) == 10 ^ Decimals(pool)

HasPrice(status, pool) ==
  Symbol(pool) \in DOMAIN status.ethPrices /\ status.ethPrices[Symbol(pool)] # 0

\* The cost in the pool's token, for a sum in the chain's own.
InToken(sum, status, pool) == Wrapped(sum * Scale(pool)) \div status.ethPrices[Symbol(pool)]

Overflows_ProductUnchecked(status, pool, sum) ==
  sum >= WORD \/ InToken(Wrapped(sum), status, pool) + FeePercent(status, pool) >= WORD
Overflows(status, pool, sum) ==
  \/ sum >= WORD
  \/ Scale(pool) >= WORD
  \/ sum * Scale(pool) >= WORD
  \/ InToken(sum, status, pool) + FeePercent(status, pool) >= WORD

Refused(why) == [error |-> why, address |-> NoPool, fee |-> 0, refund |-> 0]
Payer(address, fee, refund) == [error |-> "none", address |-> address, fee |-> fee, refund |-> refund]

\* quote
Quote(status, pool, gasPrice, refund) ==
  LET expense == Expense(gasPrice)
      sum == expense + refund
  IN  IF ~ Supports(status, pool) THEN Refused("UnsupportedPool")
      ELSE IF pool.asset.native
      THEN Payer(status.rewardAccount, Wrapped(expense + FeePercent(status, pool)), refund)
      ELSE IF ~ HasPrice(status, pool) THEN Refused("UnsupportedPool")
      ELSE IF Overflows(status, pool, sum) THEN Refused("QuoteOverflow")
      ELSE Payer(status.rewardAccount,
                 Wrapped(InToken(Wrapped(sum), status, pool) + FeePercent(status, pool)), refund)
-----------------------------------------------------------------------------
\* A fee is the relayer's share of the amount and its cost, each rounded down and
\* neither wrapped: in the chain's own currency the gas, in a token the gas and the
\* refund at the token's price.
IsFee(fee, status, pool, gasPrice, refund) ==
  \E share \in 0..fee :
    LET cost == fee - share
        price == status.ethPrices[Symbol(pool)]
        owed == (Expense(gasPrice) + refund) * Scale(pool)
        rate == FeeScaled(status.serviceFee)
    IN  /\ share * FEE_PRECISION <= Units(pool) * rate
        /\ Units(pool) * rate < (share + 1) * FEE_PRECISION
        /\ IF pool.asset.native THEN cost = Expense(gasPrice)
           ELSE cost * price <= owed /\ owed < (cost + 1) * price
=============================================================================
