-------------------------- MODULE SponsoredOperation --------------------------
(***************************************************************************)
(* A wallet that has a note of a pool pay for a user operation: it builds  *)
(* the operation, has its gas estimated with a placeholder proof, quotes   *)
(* and buffers the fee, proves the withdrawal, signs, sends and waits for  *)
(* the receipt (crates/tornadocash/paymaster, crates/userop-kit).  Prices, *)
(* the account, the pools' roots and the bundler's queue move between any  *)
(* two of its requests.  A definition D_Suffix is D with a plausible bug.  *)
(***************************************************************************)
EXTENDS Naturals, FiniteSets

CONSTANTS
  Pools,        \* [denomination, native, paymaster], the wallet has a note of each
  Prices,       \* what a unit of gas may cost
  Rates,        \* what a unit of native currency may cost, in 1/RateUnit tokens
  RateUnit,
  Estimates,    \* the gas limits the bundler may answer with
  Timeout, WaitInterval,   \* of wait_for_receipt, in ticks
  Latency,      \* bound on the ticks until a request for a receipt is answered
  RootHistory,  \* the roots a pool remembers
  MaxDeposits,  \* per pool, bound on the deposits of others
  MaxOps,       \* bound on the operations sent
  MaxOwnerNonce,\* bound on the transactions of the account's owner
  None

GasFields == {"preVerification", "verification", "call",
              "paymasterVerification", "paymasterPostOp"}

ASSUME SponsoredAssumption ==
  /\ Pools \subseteq [denomination : Nat, native : BOOLEAN, paymaster : BOOLEAN]
  /\ Prices \subseteq Nat /\ Rates \subseteq Nat /\ RateUnit \in Nat \ {0}
  /\ Timeout \in Nat \ {0} /\ WaitInterval \in Nat \ {0} /\ Latency \in Nat
  /\ RootHistory \in Nat \ {0} /\ MaxDeposits \in [Pools -> Nat]
  /\ MaxOps \in Nat /\ MaxOwnerNonce \in Nat
  /\ None \notin Nat
  /\ \A gas \in Estimates :
       /\ DOMAIN gas = GasFields
       /\ \A field \in {"preVerification", "verification", "call"} : gas[field] \in Nat
       /\ \A field \in {"paymasterVerification", "paymasterPostOp"} : gas[field] \in Nat \cup {None}

VARIABLES
  market,    \* the price of gas, and the token's rate
  account,   \* [nonce, owner's nonce, delegated to the account's code] on the chain
  spent,     \* the pools whose note is spent
  deposits,  \* per pool, the deposits since the wallet's: its root is the last one's
  phase,     \* what the wallet is doing
  op,        \* the user operation it builds
  estimate,  \* the two answers of estimate_gas
  quoted,    \* the rate the fee was quoted at, and the quote
  sent,      \* the operations the bundler has
  included,  \* those of them on the chain
  clock      \* of wait_for_receipt: [elapsed, asked, wake, landed]

vars == <<market, account, spent, deposits, phase, op, estimate, quoted, sent, included, clock>>
world == <<market, account, spent, deposits, sent, included>>
-----------------------------------------------------------------------------
(* The operation. *)

\* total_gas_limit: a limit the bundler left out counts as nothing.
Limit(gas, field) == IF gas[field] = None THEN 0 ELSE gas[field]
TotalGasLimit(gas) ==
  gas["preVerification"] + gas["verification"] + gas["call"]
    + Limit(gas, "paymasterVerification") + Limit(gas, "paymasterPostOp")

\* gas_cost: the contract's quoteWeiInToken for a token, the cost itself otherwise.
Quote(pool, rate, cost) == IF pool.native THEN cost ELSE (cost * rate) \div RateUnit

FEE_BUFFER_BPS == 100
WithBuffer_Bare(cost) == cost
WithBuffer(cost) == cost + (cost * FEE_BUFFER_BPS) \div 10000

SEED_FEE_DENOMINATOR == 10
Seed(pool) == pool.denomination \div SEED_FEE_DENOMINATOR

\* encode_paymaster_data: of the withdrawal, what the contracts decide on.
Data == [fee : Nat, root : Nat, proof : {"dummy", "real"}]

\* pack_paymaster_and_data: nothing at all unless both limits are there.
PaymasterAndData(o) ==
  IF o.data = None \/ o.gas["paymasterVerification"] = None \/ o.gas["paymasterPostOp"] = None
    THEN None
    ELSE [data |-> o.data, verification |-> o.gas["paymasterVerification"],
          postOp |-> o.gas["paymasterPostOp"]]

\* What the signature covers.
LimitFields == {"preVerification", "verification", "call"}
Packed(o) ==
  [nonce |-> o.nonce, limits |-> [f \in LimitFields |-> o.gas[f]],
   price |-> o.price, paymaster |-> PaymasterAndData(o)]

NoGas == [f \in GasFields |-> IF f \in {"paymasterVerification", "paymasterPostOp"} THEN None ELSE 0]
\* The pool and the root are those of the withdrawal and its Merkle proof.
Unset(pool, root, nonce) ==
  [pool |-> pool, root |-> root, nonce |-> nonce, auth |-> None, gas |-> NoGas, price |-> 0, data |-> None,
   signature |-> None]

\* What the wallet signs and sends; None is not such an operation.
Paymaster == [data : Data, verification : Nat, postOp : Nat]
Signed == [nonce : Nat, limits : [LimitFields -> Nat], price : Nat, paymaster : {None} \cup Paymaster]
Operation == [pool : Pools, root : Nat, nonce : Nat, auth : Nat \cup {None},
              gas : Estimates \cup {NoGas}, price : Nat, data : {None} \cup Data, signature : {None} \cup Signed]
ASSUME NoneAssumption ==
  None \notin Operation \cup Data \cup Paymaster \cup Estimates \cup [rate : Rates, cost : Nat]

NoEstimate == [gas |-> None, price |-> None]
Stopped == [elapsed |-> 0, asked |-> 0, wake |-> 0, landed |-> None]

Init ==
  /\ market \in [price : Prices, rate : Rates]
  /\ account = [nonce |-> 0, owner |-> 0, delegated |-> FALSE]
  /\ spent = {}
  /\ deposits = [pool \in Pools |-> 0]
  /\ phase = "idle"
  /\ op = None
  /\ estimate = NoEstimate
  /\ quoted = None
  /\ sent = {}
  /\ included = {}
  /\ clock = Stopped
-----------------------------------------------------------------------------
\* The call returns, and what it held is dropped.
Ends ==
  /\ phase' = "idle"
  /\ op' = None /\ estimate' = NoEstimate /\ quoted' = None /\ clock' = Stopped

(* Building: the account's nonce, then its owner's.  The caller has made the *)
(* Merkle proof by then, from a tree that may be behind the pool.            *)

ReadNonce(pool, root) ==
  /\ phase = "idle" /\ Cardinality(sent) < MaxOps
  /\ op' = Unset(pool, root, account.nonce)
  /\ phase' = "authorize"
  /\ UNCHANGED <<world, estimate, quoted, clock>>

ReadAuthorization ==
  /\ phase = "authorize"
  /\ op' = [op EXCEPT !.auth = account.owner]
  /\ phase' = "sponsor"
  /\ UNCHANGED <<world, estimate, quoted, clock>>

\* A request, the prover or the signer fails, and the error is passed on.
Fails ==
  /\ phase \in {"authorize", "override", "estimate", "prove", "sign", "poll"}
       \cup (IF op # None /\ ~ op.pool.native THEN {"quote"} ELSE {})
  /\ Ends
  /\ UNCHANGED world

MissingPaymaster ==
  /\ phase = "sponsor" /\ ~ op.pool.paymaster
  /\ Ends
  /\ UNCHANGED world

\* estimate_fee: the placeholder, then the verifier and its code.
Placeholder ==
  /\ phase = "sponsor" /\ op.pool.paymaster
  /\ op' = [op EXCEPT !.data = [fee |-> Seed(op.pool), root |-> op.root, proof |-> "dummy"]]
  /\ phase' = "override"
  /\ UNCHANGED <<world, estimate, quoted, clock>>

VerifierOverride ==
  /\ phase = "override"
  /\ phase' = "estimate"
  /\ UNCHANGED <<world, op, estimate, quoted, clock>>

\* estimate_gas: two requests, joined, whose answers come in any order.
AnswerGas(gas) ==
  /\ phase = "estimate" /\ estimate.gas = None
  /\ estimate' = [estimate EXCEPT !.gas = gas]
  /\ UNCHANGED <<world, phase, op, quoted, clock>>

AnswerPrice ==
  /\ phase = "estimate" /\ estimate.price = None
  /\ estimate' = [estimate EXCEPT !.price = market.price]
  /\ UNCHANGED <<world, phase, op, quoted, clock>>

SetGas ==
  /\ phase = "estimate" /\ estimate.gas # None /\ estimate.price # None
  /\ op' = [op EXCEPT !.gas = estimate.gas, !.price = estimate.price]
  /\ estimate' = NoEstimate
  /\ phase' = "quote"
  /\ UNCHANGED <<world, quoted, clock>>

MaxCost(o) == TotalGasLimit(o.gas) * o.price

QuoteFee ==
  /\ phase = "quote"
  /\ quoted' = [rate |-> market.rate, cost |-> Quote(op.pool, market.rate, MaxCost(op))]
  /\ phase' = "prove"
  /\ UNCHANGED <<world, op, estimate, clock>>

Covers_Always(pool, fee) == TRUE
Covers(pool, fee) == fee <= pool.denomination

InsufficientDenomination ==
  /\ phase = "prove" /\ ~ Covers(op.pool, WithBuffer(quoted.cost))
  /\ Ends
  /\ UNCHANGED world

Prove ==
  /\ phase = "prove" /\ Covers(op.pool, WithBuffer(quoted.cost))
  /\ op' = [op EXCEPT !.data = [fee |-> WithBuffer(quoted.cost), root |-> op.root, proof |-> "real"]]
  /\ phase' = "sign"
  /\ UNCHANGED <<world, estimate, quoted, clock>>

Sign ==
  /\ phase = "sign"
  /\ op' = [op EXCEPT !.signature = Packed(op)]
  /\ phase' = "send"
  /\ UNCHANGED <<world, estimate, quoted, clock>>
-----------------------------------------------------------------------------
(* send_user_operation: the bundler takes the operation or not, its answer   *)
(* comes or not, and without one the wallet may poll for the hash all the    *)
(* same.                                                                     *)

Send ==
  /\ phase = "send"
  /\ sent' \in {sent, sent \cup {op}}
  /\ \/ phase' = "wait" /\ UNCHANGED <<op, estimate, quoted, clock>>
     \/ Ends
  /\ UNCHANGED <<market, account, spent, deposits, included>>
-----------------------------------------------------------------------------
(* wait_for_receipt *)

InTime_Inclusive(elapsed) == elapsed <= Timeout
InTime(elapsed) == elapsed < Timeout

\* The bundler knows an operation by its hash, which is of what was signed.
HasReceipt == \E o \in included : Packed(o) = Packed(op)

Ask ==
  /\ phase = "wait" /\ InTime(clock.elapsed)
  /\ phase' = "poll"
  /\ clock' = [clock EXCEPT !.asked = clock.elapsed]
  /\ UNCHANGED <<world, op, estimate, quoted>>

TimedOut ==
  /\ phase = "wait" /\ ~ InTime(clock.elapsed)
  /\ Ends
  /\ UNCHANGED world

Receipt ==
  /\ phase = "poll" /\ HasReceipt
  /\ Ends
  /\ UNCHANGED world

Pause_Doubled == 2 * WaitInterval
Pause == WaitInterval
Asleep_Restarted == [clock EXCEPT !.elapsed = 0, !.wake = Pause]
Asleep == [clock EXCEPT !.wake = clock.elapsed + Pause]
NoReceipt ==
  /\ phase = "poll" /\ ~ HasReceipt
  /\ phase' = "sleeping"
  /\ clock' = Asleep
  /\ UNCHANGED <<world, op, estimate, quoted>>

Wake ==
  /\ phase = "sleeping" /\ clock.elapsed = clock.wake
  /\ phase' = "wait"
  /\ UNCHANGED <<world, op, estimate, quoted, clock>>

Tick ==
  /\ \/ phase = "poll" /\ clock.elapsed < clock.asked + Latency
     \/ phase = "sleeping" /\ clock.elapsed < clock.wake
  /\ clock' = [clock EXCEPT !.elapsed = @ + 1]
  /\ UNCHANGED <<world, phase, op, estimate, quoted>>
-----------------------------------------------------------------------------
(* The market, the account's owner, other depositors, and the chain with its *)
(* contracts.                                                                *)

MarketMoves ==
  /\ market' \in [price : Prices, rate : Rates]
  /\ UNCHANGED <<account, spent, deposits, phase, op, estimate, quoted, sent, included, clock>>

OwnerSends ==
  /\ account.owner < MaxOwnerNonce
  /\ account' = [account EXCEPT !.owner = @ + 1]
  /\ UNCHANGED <<market, spent, deposits, phase, op, estimate, quoted, sent, included, clock>>

\* A deposit of another makes a new root, and the pool forgets its oldest.
OthersDeposit(pool) ==
  /\ deposits[pool] < MaxDeposits[pool]
  /\ deposits' = [deposits EXCEPT ![pool] = @ + 1]
  /\ UNCHANGED <<market, account, spent, phase, op, estimate, quoted, sent, included, clock>>

KnownRoot(pool, root) == deposits[pool] < root + RootHistory

\* What the entry point takes the operation to cost at most.
RequiredPrefund(o) ==
  (o.gas["preVerification"] + o.gas["verification"] + o.gas["call"]
     + Limit(o.gas, "paymasterVerification") + Limit(o.gas, "paymasterPostOp")) * o.price

\* What the entry point, the account, the paymaster and the pool require.
Valid(o) ==
  /\ o.signature = Packed(o) /\ PaymasterAndData(o) # None
  /\ o.nonce = account.nonce
  /\ account.delegated \/ o.auth = account.owner
  /\ o.data.proof = "real" /\ o.pool \notin spent /\ KnownRoot(o.pool, o.data.root)
  /\ Quote(o.pool, market.rate, RequiredPrefund(o)) <= o.data.fee
  /\ o.data.fee <= o.pool.denomination

Include(o) ==
  /\ o \notin included /\ Valid(o) /\ market.price <= o.price
  /\ included' = included \cup {o}
  /\ spent' = spent \cup {o.pool}
  /\ account' = [nonce |-> account.nonce + 1, delegated |-> TRUE,
                 owner |-> IF o.auth = account.owner THEN account.owner + 1 ELSE account.owner]
  /\ clock' = IF phase \in {"wait", "poll", "sleeping"} /\ Packed(o) = Packed(op)
                THEN [clock EXCEPT !.landed = clock.elapsed] ELSE clock
  /\ UNCHANGED <<market, deposits, phase, op, estimate, quoted, sent>>
-----------------------------------------------------------------------------
Wallet ==
  \/ ReadAuthorization \/ MissingPaymaster \/ Placeholder \/ VerifierOverride
  \/ (\E gas \in Estimates : AnswerGas(gas)) \/ AnswerPrice \/ SetGas
  \/ QuoteFee \/ InsufficientDenomination \/ Prove \/ Sign \/ Send
  \/ Ask \/ TimedOut \/ Receipt \/ NoReceipt \/ Wake \/ Fails

Next ==
  \/ \E pool \in Pools : \E root \in 0..deposits[pool] : ReadNonce(pool, root)
  \/ Wallet \/ Tick
  \/ MarketMoves \/ OwnerSends \/ \E pool \in Pools : OthersDeposit(pool)
  \/ \E o \in sent : Include(o)

\* The wallet's task is polled, its requests are answered, and time passes.
Fairness == WF_vars(Wallet) /\ WF_vars(Tick)

Spec == Init /\ [][Next]_vars /\ Fairness
-----------------------------------------------------------------------------
\* Every variable has its type, and the clock stops at the last pause.
TypeOK ==
  /\ market \in [price : Prices, rate : Rates]
  /\ account \in [nonce : Nat, owner : Nat, delegated : BOOLEAN]
  /\ spent \subseteq Pools
  /\ deposits \in [Pools -> Nat]
  /\ phase \in {"idle", "authorize", "sponsor", "override", "estimate", "quote", "prove", "sign",
                "send", "wait", "poll", "sleeping"}
  /\ op = None <=> phase = "idle"
  /\ op # None => op \in Operation
  /\ estimate \in [gas : Estimates \cup {None}, price : Prices \cup {None}]
  /\ quoted = None \/ quoted \in [rate : Rates, cost : Nat]
  /\ included \subseteq sent
  /\ clock.elapsed < Timeout + Latency + WaitInterval

Proven == phase \in {"sign", "send", "wait", "poll", "sleeping"}

\* Nothing has overtaken the operation: its nonces, its note and, up to half the
\* buffer, the rate are as the wallet read them, and the pool has not forgotten the
\* root of the caller's Merkle proof.  A cost below 10000 \div
\* FEE_BUFFER_BPS is buffered with nothing, and no rise of the rate is covered.
NotOvertaken ==
  /\ op.nonce = account.nonce
  /\ account.delegated \/ op.auth = account.owner
  /\ op.pool \notin spent /\ KnownRoot(op.pool, op.root)
  /\ market.rate > quoted.rate =>
       /\ 20000 * market.rate <= (20000 + FEE_BUFFER_BPS) * quoted.rate
       /\ quoted.cost * FEE_BUFFER_BPS >= 10000

\* The fee that was proven covers the cost of the gas limits and of the price that
\* the final operation names, with at most the buffer to spare, and the note covers
\* the fee (estimate_fee measures the cost with another fee in the calldata).
FeeFits ==
  Proven =>
    LET cost == Quote(op.pool, quoted.rate, RequiredPrefund(op))
    IN  /\ cost <= op.data.fee
        /\ 10000 * op.data.fee <= (10000 + FEE_BUFFER_BPS) * cost
        /\ op.data.fee <= op.pool.denomination

\* The fee fits, and once signed an operation that nothing has overtaken is one the
\* contracts accept, provided that the bundler's estimate named the paymaster's
\* limits.
SponsoredIsValid ==
  /\ FeeFits
  /\ Proven /\ phase # "sign" /\ NotOvertaken
       /\ op.gas["paymasterVerification"] # None /\ op.gas["paymasterPostOp"] # None
     => Valid(op)

\* The wait is given up only for an operation that was not included one pause
\* and one answer before the timeout.
SeenInTime ==
  [][phase = "wait" /\ phase' = "idle" =>
       clock.landed = None \/ clock.landed + WaitInterval + Latency >= Timeout]_vars

\* Every operation ends, in a receipt, an error or the timeout.
OperationEnds == phase # "idle" ~> phase = "idle"
=============================================================================
