----------------------- MODULE SponsoredOperationProofs -----------------------
(***************************************************************************)
(* Proofs about SponsoredOperation: its types, that the fee fits, and that *)
(* the wait does not miss an operation, for any pools, prices, rates, gas  *)
(* estimates and times.                                                    *)
(*                                                                         *)
(* That the fee fits is decided two awaits before it matters: the          *)
(* invariant carries the quote along with the gas and the price it was     *)
(* made for, which no later step of the wallet may touch.  For the wait it *)
(* relates the time of the landing to the last request that missed it and  *)
(* to the pause that follows.                                              *)
(***************************************************************************)
EXTENDS SponsoredOperation, TLAPS

Phases == {"idle", "authorize", "sponsor", "override", "estimate", "quote", "prove", "sign",
           "send", "wait", "poll", "sleeping"}
Waiting == {"wait", "poll", "sleeping"}

WorldOK ==
  /\ market \in [price : Prices, rate : Rates]
  /\ account \in [nonce : Nat, owner : Nat, delegated : BOOLEAN]
  /\ spent \subseteq Pools
  /\ deposits \in [Pools -> Nat]
  /\ sent \subseteq Operation
  /\ included \subseteq sent

OpOK ==
  /\ phase \in Phases
  /\ phase = "idle" => op = None
  /\ phase # "idle" => op \in Operation

EstimateOK == estimate \in [gas : Estimates \cup {None}, price : Prices \cup {None}]

\* The quote is for the gas and the price that the operation still names.
QuoteOK ==
  /\ quoted = None \/ quoted \in [rate : Rates, cost : Nat]
  /\ phase = "prove" \/ Proven =>
       /\ quoted \in [rate : Rates, cost : Nat]
       /\ quoted.cost = Quote(op.pool, quoted.rate, MaxCost(op))

FeeOK ==
  Proven => /\ op.data.fee = WithBuffer(quoted.cost)
            /\ Covers(op.pool, op.data.fee)
            /\ op.data \in Data /\ op.data.proof = "real" /\ op.data.root = op.root

\* What was signed is what is sent and waited for.
SignedOK == phase = "send" \/ phase \in Waiting => op.signature = Packed(op)

Clock == [elapsed : Nat, asked : Nat, wake : Nat, landed : Nat \cup {None}]
ClockOK ==
  /\ clock \in Clock
  /\ phase \notin Waiting => clock = Stopped
  /\ clock.elapsed < Timeout + Latency + WaitInterval
  /\ phase = "poll" => clock.asked < Timeout /\ clock.elapsed <= clock.asked + Latency
  /\ phase = "sleeping" =>
       /\ clock.wake < Timeout + Latency + WaitInterval
       /\ clock.elapsed <= clock.wake /\ clock.wake <= clock.elapsed + WaitInterval

\* What has landed is there to be seen, and the request before the landing was
\* made no longer than a pause before it.
LandedOK ==
  phase \in Waiting /\ clock.landed # None =>
    /\ HasReceipt
    /\ phase = "wait" => clock.elapsed <= clock.landed + WaitInterval
    /\ phase = "sleeping" => clock.wake <= clock.landed + WaitInterval

IInv == WorldOK /\ OpOK /\ EstimateOK /\ QuoteOK /\ FeeOK /\ SignedOK /\ ClockOK /\ LandedOK
-----------------------------------------------------------------------------
(* The operators. *)

LEMMA GasType ==
  ASSUME NEW gas \in Estimates \cup {NoGas}
  PROVE  /\ \A f \in LimitFields : gas[f] \in Nat
         /\ \A f \in {"paymasterVerification", "paymasterPostOp"} : gas[f] \in Nat \cup {None}
BY SponsoredAssumption DEF NoGas, GasFields, LimitFields

LEMMA MaxCostType ==
  ASSUME NEW o \in Operation
  PROVE  MaxCost(o) \in Nat
<1>1. o.gas \in Estimates \cup {NoGas} /\ o.price \in Nat
  BY DEF Operation
<1>2. \A f \in LimitFields : o.gas[f] \in Nat
  BY <1>1, GasType
<1>3. \A f \in {"paymasterVerification", "paymasterPostOp"} : Limit(o.gas, f) \in Nat
  BY <1>1, GasType DEF Limit
<1>4. TotalGasLimit(o.gas) \in Nat
  BY <1>2, <1>3 DEF TotalGasLimit, LimitFields
<1>5. \A a, b \in Nat : a * b \in Nat
  OBVIOUS
<1> QED
  BY <1>1, <1>4, <1>5 DEF MaxCost

\* What the contracts charge for is what total_gas_limit counts.
LEMMA PrefundIsMaxCost == \A o : RequiredPrefund(o) = MaxCost(o)
BY DEF RequiredPrefund, MaxCost, TotalGasLimit

LEMMA QuoteType ==
  ASSUME NEW pool \in Pools, NEW rate \in Rates, NEW cost \in Nat
  PROVE  Quote(pool, rate, cost) \in Nat
<1>1. \A a, b \in Nat : a * b \in Nat
  OBVIOUS
<1>2. \A a \in Nat, b \in Nat \ {0} : a \div b \in Nat
  OBVIOUS
<1>3. rate \in Nat /\ RateUnit \in Nat \ {0}
  BY SponsoredAssumption
<1> QED
  BY <1>1, <1>2, <1>3 DEF Quote

\* The buffer covers the cost, and is a hundredth of it at most.
LEMMA BufferFits ==
  ASSUME NEW cost \in Nat
  PROVE  /\ WithBuffer(cost) \in Nat
         /\ cost <= WithBuffer(cost)
         /\ 10000 * WithBuffer(cost) <= (10000 + FEE_BUFFER_BPS) * cost
BY DEF WithBuffer, FEE_BUFFER_BPS

LEMMA PackedType ==
  ASSUME NEW o \in Operation
  PROVE  Packed(o) \in Signed
<1>1. o.gas \in Estimates \cup {NoGas} /\ o.price \in Nat /\ o.nonce \in Nat /\ o.data \in {None} \cup Data
  BY DEF Operation
<1>2. [f \in LimitFields |-> o.gas[f]] \in [LimitFields -> Nat]
  BY <1>1, GasType
<1>3. PaymasterAndData(o) \in {None} \cup Paymaster
  BY <1>1, GasType DEF PaymasterAndData, Paymaster
<1> QED
  BY <1>1, <1>2, <1>3 DEF Packed, Signed

LEMMA NoneIsNothing == /\ \A n \in Nat : n # None
                       /\ \A o \in Operation : o # None
                       /\ \A e \in Estimates : e # None
                       /\ \A p \in Prices : p # None
BY SponsoredAssumption, NoneAssumption
-----------------------------------------------------------------------------
LEMMA InitIInv == Init => IInv
<1> SUFFICES ASSUME Init PROVE IInv
  OBVIOUS
<1> USE SponsoredAssumption DEF Init
<1>1. WorldOK /\ OpOK /\ EstimateOK
  BY DEF WorldOK, OpOK, Phases, EstimateOK, NoEstimate
<1>2. QuoteOK /\ FeeOK /\ SignedOK /\ LandedOK
  BY DEF QuoteOK, FeeOK, SignedOK, LandedOK, Proven, Waiting
<1>3. ClockOK
  BY DEF ClockOK, Clock, Stopped
<1> QED
  BY <1>1, <1>2, <1>3 DEF IInv

\* A call that ends leaves nothing behind but the world it has changed.
LEMMA EndsIInv ==
  ASSUME WorldOK', Ends
  PROVE  IInv'
<1> USE SponsoredAssumption DEF Ends
<1>1. OpOK' /\ EstimateOK'
  BY DEF OpOK, Phases, EstimateOK, NoEstimate
<1>2. QuoteOK' /\ FeeOK' /\ SignedOK' /\ LandedOK'
  BY DEF QuoteOK, FeeOK, SignedOK, LandedOK, Proven, Waiting
<1>3. ClockOK'
  BY DEF ClockOK, Clock, Stopped
<1> QED
  BY <1>1, <1>2, <1>3 DEF IInv

LEMMA WorldStays ==
  ASSUME WorldOK, UNCHANGED world
  PROVE  WorldOK'
BY DEF WorldOK, world

\* A step of the wallet before there is anything to wait for.
Early == {"authorize", "sponsor", "override", "estimate", "quote"}
LEMMA EarlyIInv ==
  ASSUME IInv, phase = "idle" \/ phase \in Early, phase' \in Early,
         op' \in Operation, EstimateOK', UNCHANGED <<world, quoted, clock>>
  PROVE  IInv'
<1>1. WorldOK'
  BY WorldStays DEF IInv
<1>2. OpOK'
  BY DEF OpOK, Early, Phases
<1>3. QuoteOK' /\ FeeOK' /\ SignedOK' /\ LandedOK'
  BY DEF IInv, QuoteOK, FeeOK, SignedOK, LandedOK, Proven, Waiting, Early
<1>4. ClockOK'
  BY DEF IInv, ClockOK, Waiting, Early
<1> QED
  BY <1>1, <1>2, <1>3, <1>4 DEF IInv

\* A step of the wait: only phase and clock change.
LEMMA WaitIInv ==
  ASSUME IInv, phase \in Waiting, phase' \in Waiting, ClockOK', LandedOK',
         UNCHANGED <<world, op, estimate, quoted>>
  PROVE  IInv'
<1>1. WorldOK'
  BY WorldStays DEF IInv
<1>2. OpOK' /\ EstimateOK'
  BY DEF IInv, OpOK, EstimateOK, Waiting, Phases
<1>3. QuoteOK' /\ FeeOK'
  BY DEF IInv, QuoteOK, FeeOK, Proven, Waiting, MaxCost, Covers
<1>4. SignedOK'
  BY DEF IInv, SignedOK, Packed, PaymasterAndData
<1> QED
  BY <1>1, <1>2, <1>3, <1>4 DEF IInv
-----------------------------------------------------------------------------
LEMMA NextIInv == IInv /\ [Next]_vars => IInv'
<1> SUFFICES ASSUME IInv, [Next]_vars PROVE IInv'
  OBVIOUS
<1> USE SponsoredAssumption
<1>0. phase # "idle" => op \in Operation
  BY DEF IInv, OpOK
<1>1. ASSUME NEW pool \in Pools, NEW root \in 0..deposits[pool], ReadNonce(pool, root) PROVE IInv'
  <2>1. Unset(pool, root, account.nonce) \in Operation
    BY DEF Unset, Operation, IInv, WorldOK
  <2> QED
    BY <1>1, <2>1, EarlyIInv DEF ReadNonce, Early, IInv, EstimateOK
<1>2. CASE ReadAuthorization
  <2>1. [op EXCEPT !.auth = account.owner] \in Operation
    BY <1>0, <1>2 DEF ReadAuthorization, Operation, IInv, WorldOK
  <2> QED
    BY <1>2, <2>1, EarlyIInv DEF ReadAuthorization, Early, IInv, EstimateOK
<1>3. CASE Placeholder
  <2>1. Seed(op.pool) \in Nat
    <3>1. op.pool \in Pools
      BY <1>0, <1>3 DEF Placeholder, Operation
    <3>2. op.pool.denomination \in Nat
      BY <3>1
    <3> QED
      BY <3>2 DEF Seed, SEED_FEE_DENOMINATOR
  <2>2. [op EXCEPT !.data = [fee |-> Seed(op.pool), root |-> op.root, proof |-> "dummy"]] \in Operation
    BY <1>0, <1>3, <2>1 DEF Placeholder, Operation, Data
  <2> QED
    BY <1>3, <2>2, EarlyIInv DEF Placeholder, Early, IInv, EstimateOK
<1>4. CASE VerifierOverride
  BY <1>0, <1>4, EarlyIInv DEF VerifierOverride, Early, IInv, EstimateOK
<1>5. ASSUME NEW gas \in Estimates, AnswerGas(gas) PROVE IInv'
  BY <1>0, <1>5, EarlyIInv DEF AnswerGas, Early, IInv, EstimateOK
<1>6. CASE AnswerPrice
  BY <1>0, <1>6, EarlyIInv DEF AnswerPrice, Early, IInv, EstimateOK, WorldOK
<1>7. CASE SetGas
  <2>1. estimate.gas \in Estimates /\ estimate.price \in Nat
    BY <1>7 DEF SetGas, IInv, EstimateOK
  <2>2. [op EXCEPT !.gas = estimate.gas, !.price = estimate.price] \in Operation
    BY <1>0, <1>7, <2>1 DEF SetGas, Operation
  <2> QED
    BY <1>7, <2>2, EarlyIInv DEF SetGas, Early, IInv, EstimateOK, NoEstimate
<1>8. CASE QuoteFee
  <2>1. op \in Operation /\ op.pool \in Pools /\ market.rate \in Rates /\ MaxCost(op) \in Nat
    BY <1>0, <1>8, MaxCostType DEF QuoteFee, Operation, IInv, WorldOK
  <2>2. Quote(op.pool, market.rate, MaxCost(op)) \in Nat
    BY <2>1, QuoteType
  <2>3. QuoteOK'
    BY <1>8, <2>1, <2>2 DEF QuoteFee, QuoteOK, MaxCost
  <2>4. WorldOK' /\ OpOK' /\ EstimateOK'
    BY <1>0, <1>8, WorldStays DEF QuoteFee, IInv, OpOK, EstimateOK, Phases
  <2>5. FeeOK' /\ SignedOK' /\ ClockOK' /\ LandedOK'
    BY <1>8 DEF QuoteFee, IInv, FeeOK, SignedOK, ClockOK, LandedOK, Proven, Waiting
  <2> QED
    BY <2>3, <2>4, <2>5 DEF IInv
<1>9. CASE Prove
  <2> DEFINE data == [fee |-> WithBuffer(quoted.cost), root |-> op.root, proof |-> "real"]
  <2>1. /\ op \in Operation /\ quoted \in [rate : Rates, cost : Nat]
        /\ quoted.cost = Quote(op.pool, quoted.rate, MaxCost(op))
        /\ Covers(op.pool, WithBuffer(quoted.cost))
    BY <1>0, <1>9 DEF Prove, IInv, QuoteOK
  <2>2. data \in Data /\ data.fee = WithBuffer(quoted.cost) /\ data.proof = "real" /\ data.root = op.root
    BY <2>1, BufferFits DEF Data, Operation
  <2>3. op' = [op EXCEPT !.data = data] /\ phase' = "sign" /\ UNCHANGED <<world, estimate, quoted, clock>>
    BY <1>9 DEF Prove
  <2> HIDE DEF data
  <2>4. op' \in Operation /\ op'.pool = op.pool /\ op'.gas = op.gas /\ op'.price = op.price
        /\ op'.data = data /\ op'.root = op.root
    BY <2>1, <2>2, <2>3 DEF Operation
  <2>5. WorldOK' /\ OpOK' /\ EstimateOK'
    BY <2>3, <2>4, WorldStays DEF IInv, OpOK, EstimateOK, Phases
  <2>6. QuoteOK'
    BY <2>1, <2>3, <2>4 DEF QuoteOK, MaxCost
  <2>7. FeeOK'
    BY <2>1, <2>2, <2>3, <2>4 DEF FeeOK, Covers
  <2>8. SignedOK' /\ ClockOK' /\ LandedOK'
    BY <1>9, <2>3 DEF Prove, IInv, SignedOK, ClockOK, LandedOK, Waiting
  <2> QED
    BY <2>5, <2>6, <2>7, <2>8 DEF IInv
<1>10. CASE Sign
  <2>1. op \in Operation
    BY <1>0, <1>10 DEF Sign
  <2>2. op' = [op EXCEPT !.signature = Packed(op)] /\ phase' = "send"
        /\ UNCHANGED <<world, estimate, quoted, clock>>
    BY <1>10 DEF Sign
  <2>3. Packed(op) \in Signed
    BY <2>1, PackedType
  <2>4. op' \in Operation /\ op'.pool = op.pool /\ op'.gas = op.gas /\ op'.price = op.price
        /\ op'.data = op.data /\ op'.root = op.root /\ op'.nonce = op.nonce /\ op'.signature = Packed(op)
    BY <2>1, <2>2, <2>3 DEF Operation
  <2>5. WorldOK' /\ OpOK' /\ EstimateOK'
    BY <2>2, <2>4, WorldStays DEF IInv, OpOK, EstimateOK, Phases
  <2>6. QuoteOK' /\ FeeOK'
    BY <1>10, <2>2, <2>4 DEF Sign, IInv, QuoteOK, FeeOK, MaxCost, Covers, Proven
  <2>7. ClockOK' /\ LandedOK'
    BY <1>10, <2>2 DEF Sign, IInv, ClockOK, LandedOK, Waiting
  <2>8. SignedOK'
    BY <2>4 DEF SignedOK, Packed, PaymasterAndData
  <2> QED
    BY <2>5, <2>6, <2>7, <2>8 DEF IInv
<1>11. CASE Send
  <2>1. op \in Operation
    BY <1>0, <1>11 DEF Send
  <2>2. WorldOK'
    BY <1>11, <2>1 DEF Send, IInv, WorldOK
  <2>3. CASE phase' = "wait" /\ UNCHANGED <<op, estimate, quoted, clock>>
    <3>1. OpOK' /\ EstimateOK'
      BY <2>1, <2>3 DEF IInv, OpOK, EstimateOK, Phases
    <3>2. QuoteOK' /\ FeeOK'
      BY <1>11, <2>3 DEF Send, IInv, QuoteOK, FeeOK, MaxCost, Covers, Proven
    <3>5. SignedOK'
      BY <1>11, <2>3 DEF Send, IInv, SignedOK, Packed, PaymasterAndData
    <3>3. clock = Stopped
      BY <1>11 DEF Send, IInv, ClockOK, Waiting
    <3>4. ClockOK' /\ LandedOK'
      BY <2>3, <3>3 DEF ClockOK, LandedOK, Clock, Stopped, Waiting
    <3> QED
      BY <2>2, <3>1, <3>2, <3>4, <3>5 DEF IInv
  <2>4. CASE Ends
    BY <2>2, <2>4, EndsIInv
  <2> QED
    BY <1>11, <2>3, <2>4 DEF Send
<1>12. CASE Ask
  <2>1. ClockOK'
    BY <1>12 DEF Ask, InTime, IInv, ClockOK, Clock, Waiting
  <2>2. LandedOK'
    BY <1>12 DEF Ask, IInv, LandedOK, ClockOK, Clock, Waiting, HasReceipt, Packed, PaymasterAndData, world
  <2> QED
    BY <1>12, <2>1, <2>2, WaitIInv DEF Ask, Waiting
<1>13. CASE NoReceipt
  <2>1. clock.landed = None
    BY <1>13 DEF NoReceipt, IInv, LandedOK, Waiting
  <2>2. ClockOK'
    BY <1>13 DEF NoReceipt, Asleep, Pause, IInv, ClockOK, Clock, Waiting
  <2>3. LandedOK'
    BY <1>13, <2>1 DEF NoReceipt, Asleep, IInv, LandedOK, ClockOK, Clock
  <2> QED
    BY <1>13, <2>2, <2>3, WaitIInv DEF NoReceipt, Waiting
<1>14. CASE Wake
  <2>1. ClockOK'
    BY <1>14 DEF Wake, IInv, ClockOK, Clock, Waiting
  <2>2. LandedOK'
    BY <1>14 DEF Wake, IInv, LandedOK, ClockOK, Clock, Waiting, HasReceipt, Packed, PaymasterAndData, world
  <2> QED
    BY <1>14, <2>1, <2>2, WaitIInv DEF Wake, Waiting
<1>15. CASE Tick
  <2>1. ClockOK'
    BY <1>15 DEF Tick, IInv, ClockOK, Clock, Waiting
  <2>2. LandedOK'
    BY <1>15 DEF Tick, IInv, LandedOK, ClockOK, Clock, Waiting, HasReceipt, Packed, PaymasterAndData, world
  <2> QED
    BY <1>15, <2>1, <2>2, WaitIInv DEF Tick, Waiting
<1>16. CASE Fails \/ MissingPaymaster \/ InsufficientDenomination \/ TimedOut \/ Receipt
  <2>1. Ends /\ UNCHANGED world
    BY <1>16 DEF Fails, MissingPaymaster, InsufficientDenomination, TimedOut, Receipt
  <2> QED
    BY <2>1, WorldStays, EndsIInv DEF IInv
<1>17. CASE MarketMoves \/ OwnerSends \/ \E pool \in Pools : OthersDeposit(pool)
  <2>1. WorldOK'
    BY <1>17 DEF MarketMoves, OwnerSends, OthersDeposit, IInv, WorldOK
  <2>2. UNCHANGED <<phase, op, estimate, quoted, included, clock>>
    BY <1>17 DEF MarketMoves, OwnerSends, OthersDeposit
  <2>3. OpOK' /\ EstimateOK' /\ QuoteOK' /\ FeeOK'
    BY <2>2 DEF IInv, OpOK, EstimateOK, QuoteOK, FeeOK, MaxCost, Covers, Proven
  <2>4. SignedOK' /\ ClockOK' /\ LandedOK'
    BY <2>2 DEF IInv, SignedOK, ClockOK, LandedOK, HasReceipt, Packed, PaymasterAndData
  <2> QED
    BY <2>1, <2>3, <2>4 DEF IInv
<1>18. ASSUME NEW o \in sent, Include(o) PROVE IInv'
  <2>1. o \in Operation /\ o.pool \in Pools /\ o.auth \in Nat \cup {None}
    BY DEF IInv, WorldOK, Operation
  <2>2. WorldOK'
    <3>1. account'.nonce \in Nat /\ account'.owner \in Nat /\ account'.delegated \in BOOLEAN
          /\ account' \in [nonce : Nat, owner : Nat, delegated : BOOLEAN]
      BY <1>18 DEF Include, IInv, WorldOK
    <3> QED
      BY <1>18, <2>1, <3>1 DEF Include, IInv, WorldOK
  <2>3. OpOK' /\ EstimateOK' /\ QuoteOK' /\ FeeOK'
    BY <1>18 DEF Include, IInv, OpOK, EstimateOK, QuoteOK, FeeOK, MaxCost, Covers, Proven
  <2>6. SignedOK'
    BY <1>18 DEF Include, IInv, SignedOK, Packed, PaymasterAndData
  <2>4. CASE phase \in Waiting /\ Packed(o) = Packed(op)
    <3>1. clock' = [clock EXCEPT !.landed = clock.elapsed] /\ UNCHANGED <<phase, op>>
      BY <1>18, <2>4 DEF Include, Waiting
    <3>2. ClockOK'
      BY <3>1, <2>4 DEF IInv, ClockOK, Clock
    <3>3. HasReceipt'
      BY <1>18, <2>4 DEF Include, HasReceipt, Packed, PaymasterAndData
    <3>4. clock'.landed = clock.elapsed /\ clock'.elapsed = clock.elapsed /\ clock'.wake = clock.wake
      BY <3>1 DEF IInv, ClockOK, Clock
    <3>5. LandedOK'
      BY <2>4, <3>1, <3>3, <3>4 DEF IInv, LandedOK, ClockOK, Clock
    <3> QED
      BY <2>2, <2>3, <2>6, <3>2, <3>5 DEF IInv
  <2>5. CASE ~ (phase \in Waiting /\ Packed(o) = Packed(op))
    <3>1. UNCHANGED <<clock, phase, op>> /\ included \subseteq included'
      BY <1>18, <2>5 DEF Include, Waiting
    <3>2. ClockOK' /\ LandedOK'
      BY <3>1 DEF IInv, ClockOK, LandedOK, HasReceipt, Packed, PaymasterAndData
    <3> QED
      BY <2>2, <2>3, <2>6, <3>2 DEF IInv
  <2> QED
    BY <2>4, <2>5
<1>19. CASE UNCHANGED vars
  <2>1. WorldOK' /\ OpOK' /\ EstimateOK' /\ QuoteOK' /\ FeeOK'
    BY <1>19 DEF vars, IInv, WorldOK, OpOK, EstimateOK, QuoteOK, FeeOK, MaxCost, Covers, Proven
  <2>2. SignedOK' /\ ClockOK' /\ LandedOK'
    BY <1>19 DEF vars, IInv, SignedOK, ClockOK, LandedOK, HasReceipt, Packed, PaymasterAndData
  <2> QED
    BY <2>1, <2>2 DEF IInv
<1> QED
  BY <1>1, <1>2, <1>3, <1>4, <1>5, <1>6, <1>7, <1>8, <1>9, <1>10, <1>11, <1>12, <1>13, <1>14,
     <1>15, <1>16, <1>17, <1>18, <1>19 DEF Next, Wallet

THEOREM Invariance == Spec => []IInv
BY InitIInv, NextIInv, PTL DEF Spec
-----------------------------------------------------------------------------
\* Every variable has its type, and the clock of wait_for_receipt never passes the
\* last pause after the timeout.
THEOREM TypeCorrect == Spec => []TypeOK
<1>1. IInv => TypeOK
  <2> SUFFICES ASSUME IInv PROVE TypeOK
    OBVIOUS
  <2>1. op = None <=> phase = "idle"
    BY NoneIsNothing DEF IInv, OpOK
  <2> QED
    BY <2>1 DEF IInv, WorldOK, OpOK, EstimateOK, QuoteOK, ClockOK, Phases, TypeOK
<1> QED
  BY Invariance, <1>1, PTL

LEMMA FeeFitsInIInv == IInv => FeeFits
<1> SUFFICES ASSUME IInv, Proven PROVE FeeFits
  BY DEF FeeFits
<1>1. quoted.cost \in Nat /\ quoted.cost = Quote(op.pool, quoted.rate, RequiredPrefund(op))
  BY PrefundIsMaxCost DEF IInv, QuoteOK
<1>2. op.data.fee = WithBuffer(quoted.cost) /\ op.data.fee <= op.pool.denomination
  BY DEF IInv, FeeOK, Covers
<1> QED
  BY <1>1, <1>2, BufferFits DEF FeeFits

\* The fee that estimate_fee quotes and buffers covers the cost of the operation
\* that is signed, with at most the buffer to spare, and the note covers the fee.
THEOREM FeeCovers == Spec => []FeeFits
BY Invariance, FeeFitsInIInv, PTL

\* A rate that has risen by half the buffer at most leaves the cost within the
\* buffered quote, when the buffer of that quote is a unit at least.
LEMMA BufferCoversRise ==
  ASSUME NEW pool \in Pools, NEW quotedRate \in Rates, NEW rate \in Rates, NEW cost \in Nat,
         rate > quotedRate => /\ 20000 * rate <= (20000 + FEE_BUFFER_BPS) * quotedRate
                              /\ Quote(pool, quotedRate, cost) * FEE_BUFFER_BPS >= 10000
  PROVE  Quote(pool, rate, cost) <= WithBuffer(Quote(pool, quotedRate, cost))
<1>0. quotedRate \in Nat /\ rate \in Nat /\ RateUnit \in Nat \ {0}
  BY SponsoredAssumption
<1>1. CASE pool.native
  BY <1>1, BufferFits DEF Quote
<1>2. CASE ~ pool.native
  <2> DEFINE before == (cost * quotedRate) \div RateUnit
             now == (cost * rate) \div RateUnit
  <2>1. Quote(pool, quotedRate, cost) = before /\ Quote(pool, rate, cost) = now
    BY <1>2 DEF Quote
  <2>2. \A a \in Nat, b \in Nat \ {0} : a \div b \in Nat /\ b * (a \div b) <= a /\ a < b * (a \div b + 1)
    OBVIOUS
  <2>3. cost * quotedRate \in Nat /\ cost * rate \in Nat
    BY <1>0
  <2>4. /\ before \in Nat /\ cost * quotedRate < RateUnit * (before + 1)
        /\ now \in Nat /\ RateUnit * now <= cost * rate
    BY <1>0, <2>2, <2>3
  <2> HIDE DEF before, now
  <2>5. \A a, b, c \in Nat : a <= b => c * a <= c * b
    OBVIOUS
  <2>6. \A a, b \in Nat, u \in Nat \ {0} : u * a < u * b => a < b
    OBVIOUS
  <2>7. CASE rate <= quotedRate
    <3>1. RateUnit * now < RateUnit * (before + 1)
      <4>1. cost * rate <= cost * quotedRate
        BY <1>0, <2>5, <2>7
      <4> QED
        BY <1>0, <2>3, <2>4, <4>1
    <3>2. now < before + 1
      BY <1>0, <2>4, <2>6, <3>1
    <3> QED
      BY <2>1, <2>4, <3>2, BufferFits
  <2>8. CASE rate > quotedRate
    <3>1. 20000 * rate <= 20100 * quotedRate /\ before * 100 >= 10000
      BY <2>1, <2>8 DEF FEE_BUFFER_BPS
    <3>2. 20000 * (cost * rate) <= 20100 * (cost * quotedRate)
      <4>1. cost * (20000 * rate) <= cost * (20100 * quotedRate)
        BY <1>0, <2>5, <3>1
      <4> QED
        BY <1>0, <4>1
    <3>3. RateUnit * (20000 * now) < RateUnit * (20100 * (before + 1))
      <4>1. 20000 * (RateUnit * now) < 20100 * (RateUnit * (before + 1))
        BY <1>0, <2>3, <2>4, <3>2
      <4> QED
        BY <1>0, <2>4, <4>1
    <3>4. 20000 * now < 20100 * (before + 1)
      BY <1>0, <2>4, <2>6, <3>3
    <3>5. now <= before + (before * 100) \div 10000
      BY <2>4, <3>1, <3>4
    <3> QED
      BY <2>1, <3>5 DEF WithBuffer, FEE_BUFFER_BPS
  <2> QED
    BY <1>0, <2>7, <2>8
<1> QED
  BY <1>1, <1>2

\* The fee fits, and an operation that was signed, that nothing has overtaken since
\* estimate_fee and the nonces were read, and of whose Merkle proof the pool still
\* remembers the root, is one the entry point, the account, the paymaster and the
\* pool accept.
THEOREM SponsoredIsValidHolds == Spec => []SponsoredIsValid
<1>1. IInv => SponsoredIsValid
  <2> SUFFICES ASSUME IInv PROVE SponsoredIsValid
    OBVIOUS
  <2>1. SUFFICES ASSUME Proven, phase # "sign", NotOvertaken,
                        op.gas["paymasterVerification"] # None, op.gas["paymasterPostOp"] # None
                 PROVE  Valid(op)
    BY FeeFitsInIInv DEF SponsoredIsValid
  <2>2. /\ op \in Operation /\ op.pool \in Pools
        /\ quoted.rate \in Rates /\ quoted.cost \in Nat
        /\ quoted.cost = Quote(op.pool, quoted.rate, MaxCost(op))
        /\ op.data.fee = WithBuffer(quoted.cost) /\ op.data.fee <= op.pool.denomination
        /\ op.data \in Data /\ op.data.proof = "real" /\ op.data.root = op.root /\ op.signature = Packed(op)
    BY <2>1 DEF Proven, IInv, OpOK, QuoteOK, FeeOK, SignedOK, Covers, Waiting, Operation
  <2>3. Quote(op.pool, market.rate, RequiredPrefund(op)) <= op.data.fee
    <3>1. market.rate \in Rates /\ MaxCost(op) \in Nat
      BY <2>2, MaxCostType DEF IInv, WorldOK
    <3>2. market.rate > quoted.rate =>
             /\ 20000 * market.rate <= (20000 + FEE_BUFFER_BPS) * quoted.rate
             /\ Quote(op.pool, quoted.rate, MaxCost(op)) * FEE_BUFFER_BPS >= 10000
      BY <2>1, <2>2 DEF NotOvertaken
    <3> QED
      BY <2>2, <3>1, <3>2, BufferCoversRise, PrefundIsMaxCost
  <2>4. PaymasterAndData(op) # None
    <3>1. op.data # None
      BY <2>2, NoneAssumption
    <3>2. op.gas["paymasterVerification"] \in Nat /\ op.gas["paymasterPostOp"] \in Nat
      BY <2>1, <2>2, GasType DEF Operation
    <3>3. PaymasterAndData(op) \in Paymaster
      BY <2>1, <2>2, <3>1, <3>2 DEF PaymasterAndData, Paymaster
    <3> QED
      BY <3>3, NoneAssumption
  <2> QED
    BY <2>1, <2>2, <2>3, <2>4 DEF Valid, NotOvertaken
<1> QED
  BY Invariance, <1>1, PTL

\* wait_for_receipt gives up only on an operation that was not included one pause
\* and one answer before the timeout.
THEOREM SeenInTimeHolds == Spec => SeenInTime
<1>1. IInv /\ IInv' /\ [Next]_vars =>
        (phase = "wait" /\ phase' = "idle" =>
           clock.landed = None \/ clock.landed + WaitInterval + Latency >= Timeout)
  <2> SUFFICES ASSUME IInv, [Next]_vars, phase = "wait", phase' = "idle", clock.landed # None
               PROVE  clock.landed + WaitInterval + Latency >= Timeout
    OBVIOUS
  <2>1. TimedOut
    BY DEF Next, Wallet, Tick, ReadNonce, ReadAuthorization, MissingPaymaster, Placeholder,
           VerifierOverride, AnswerGas, AnswerPrice, SetGas, QuoteFee, InsufficientDenomination,
           Prove, Sign, Send, Ask, TimedOut, Receipt, NoReceipt, Wake, Fails, MarketMoves,
           OwnerSends, OthersDeposit, Include, vars
  <2>2. clock.elapsed >= Timeout
    BY <2>1, SponsoredAssumption DEF TimedOut, InTime, IInv, ClockOK, Clock
  <2>3. clock.elapsed <= clock.landed + WaitInterval
    BY DEF IInv, LandedOK, Waiting
  <2> QED
    BY <2>2, <2>3, SponsoredAssumption DEF IInv, ClockOK, Clock
<1> QED
  BY Invariance, <1>1, PTL DEF Spec, SeenInTime
===============================================================================
