----------------------- MODULE RelayedWithdrawalProofs -----------------------
(***************************************************************************)
(* Proofs about RelayedWithdrawal, for every note and pool, every          *)
(* alteration, quote and proof and any number of jobs and deposits: the    *)
(* wallet's dealings with the relayer are those of RelayerClient; what was *)
(* proved is what is called with; a pool's amount is written exactly and   *)
(* its note found again; the fee is the formula's; the commitment is the   *)
(* Pedersen hash that the circuit computes; and the pool takes what was    *)
(* deposited and proved.                                                   *)
(***************************************************************************)
EXTENDS RelayedWithdrawal, SequenceTheorems, WellFoundedInduction, TLAPS

(* The client by itself: for every number of jobs and every timeout, with    *)
(* honest relayers or not, a withdrawal is confirmed by the chain alone, and *)
(* one that landed before a check began is never reported as anything worse  *)
(* than a provider's error.                                                  *)

\* What the chain answered was so and stays so, since a spent nullifier stays
\* spent; a check that began after the landing can only be answered "spent".
AnswersTrue ==
  /\ check.spent = "spent" => landed # None
  /\ check.after => landed # None
  /\ check.after => check.spent # "unspent"

\* The wallet waits for a job it has a receipt of.
WaitsForJob == Waiting => receipt # None

Inv == TypeOK /\ AnswersTrue /\ WaitsForJob /\ ConfirmedByChain

\* A check not answered yet has its type, and claims nothing that is not so.
LEMMA UnansweredCheck ==
  /\ Unanswered \in [job : {None, "error"} \cup Statuses,
                     spent : {None, "error", "spent", "unspent"}, after : BOOLEAN]
  /\ Unanswered.spent = None
  /\ Unanswered.after = (landed # None)
BY DEF Unanswered

\* Initially there are no jobs, no answers and no result.
LEMMA InitInv == Init => Inv
<1> SUFFICES ASSUME Init PROVE Inv
  OBVIOUS
<1>1. jobs = <<>> /\ jobs \in Seq(Statuses)
  BY DEF Init
<1>2. DOMAIN jobs = {}
  BY <1>1
<1>3. 0 \in 0..(Timeout + 1)
  BY RelayerAssumption
<1>4. TypeOK
  BY <1>1, <1>2, <1>3, UnansweredCheck DEF Init, TypeOK
<1>5. AnswersTrue
  BY UnansweredCheck, NoneAssumption DEF Init, AnswersTrue
<1>6. ConfirmedByChain
  BY NoneAssumption DEF Init, ConfirmedByChain
<1>7. WaitsForJob
  BY DEF Init, WaitsForJob, Waiting
<1> QED
  BY <1>4, <1>5, <1>6, <1>7 DEF Inv

\* The relayer adds a job, which is neither mined nor the one that landed.
LEMMA NewJob ==
  ASSUME TypeOK
  PROVE  LET queue == Append(jobs, "queued")
         IN  /\ queue \in Seq(Statuses)
             /\ DOMAIN jobs \subseteq DOMAIN queue
             /\ JobId \in DOMAIN queue
             /\ \A j \in DOMAIN queue : queue[j] \in {"mined", "confirmed"} <=> landed = j
<1> DEFINE queue == Append(jobs, "queued")
<1>1. jobs \in Seq(Statuses) /\ "queued" \in Statuses
  BY DEF TypeOK, Statuses
<1>2. queue \in Seq(Statuses) /\ Len(queue) = Len(jobs) + 1 /\ Len(jobs) \in Nat
  BY <1>1
<1>3. DOMAIN queue = 1..(Len(jobs) + 1) /\ DOMAIN jobs = 1..Len(jobs)
  BY <1>1, <1>2
<1>4. \A j \in 1..Len(jobs) : queue[j] = jobs[j]
  BY <1>1
<1>5. queue[Len(jobs) + 1] = "queued"
  BY <1>1
<1>6. landed # Len(jobs) + 1
  BY <1>2, <1>3, NoneAssumption DEF TypeOK
<1>7. \A j \in DOMAIN queue : queue[j] \in {"mined", "confirmed"} <=> landed = j
  BY <1>2, <1>3, <1>4, <1>5, <1>6 DEF TypeOK
<1> QED
  BY <1>2, <1>3, <1>7 DEF JobId

\* Every step keeps the invariant: only answers and landings disturb it.
LEMMA NextInv == Inv /\ [Next]_vars => Inv'
<1> SUFFICES ASSUME Inv, [Next]_vars PROVE Inv'
  OBVIOUS
<1> USE DEF Inv
<1>1. CASE Submit
  BY <1>1 DEF Submit, TypeOK, AnswersTrue, WaitsForJob, Waiting, ConfirmedByChain
<1>2. CASE Accepted
  BY <1>2, NewJob DEF Accepted, TypeOK, AnswersTrue, WaitsForJob, Waiting, ConfirmedByChain
<1>3. CASE SubmitFails
  BY <1>3, NewJob DEF SubmitFails, TypeOK, AnswersTrue, WaitsForJob, Waiting, ConfirmedByChain
<1>4. ASSUME NEW j \in DOMAIN jobs, NEW status \in Statuses, Work(j, status) PROVE Inv'
  <2>1. jobs' \in Seq(Statuses) /\ DOMAIN jobs' = DOMAIN jobs
    BY <1>4 DEF Work, TypeOK
  <2>2. \A i \in DOMAIN jobs' : jobs'[i] \in {"mined", "confirmed"} <=> landed = i
    BY <1>4, <2>1 DEF Work, TypeOK, Following, Statuses
  <2> QED
    BY <1>4, <2>1, <2>2 DEF Work, TypeOK, AnswersTrue, WaitsForJob, Waiting, ConfirmedByChain
<1>5. ASSUME NEW j \in DOMAIN jobs, Land(j) PROVE Inv'
  <2>1. jobs' \in Seq(Statuses) /\ DOMAIN jobs' = DOMAIN jobs
    BY <1>5 DEF Land, TypeOK, Statuses
  <2>2. landed' = j /\ j # None /\ DOMAIN jobs \subseteq Nat
    BY <1>5, NoneAssumption DEF Land, TypeOK
  <2>3. \A i \in DOMAIN jobs' : jobs'[i] \in {"mined", "confirmed"} <=> landed' = i
    BY <1>5, <2>1, <2>2, NoneAssumption DEF Land, TypeOK
  <2> QED
    BY <1>5, <2>1, <2>2, <2>3 DEF Land, TypeOK, AnswersTrue, WaitsForJob, Waiting, ConfirmedByChain
<1>6. CASE Await
  <2>1. check' = Unanswered /\ UNCHANGED landed /\ elapsed' \in 0..(Timeout + 1)
    BY <1>6, RelayerAssumption DEF Await
  <2> QED
    BY <1>6, <2>1, UnansweredCheck, NoneAssumption DEF Await, TypeOK, AnswersTrue, WaitsForJob, Waiting, ConfirmedByChain
<1>7. CASE Tick
  <2>1. elapsed' \in 0..(Timeout + 1)
    BY <1>7, RelayerAssumption DEF Tick, TypeOK
  <2> QED
    BY <1>7, <2>1 DEF Tick, TypeOK, AnswersTrue, WaitsForJob, Waiting, ConfirmedByChain
<1>8. CASE JobStatus
  <2> PICK answer \in JobAnswers : JobAnswer(answer)
    BY <1>8 DEF JobStatus
  <2>1. phase = "checking" /\ receipt \in DOMAIN jobs
    BY DEF JobAnswer, TypeOK, WaitsForJob, Waiting
  <2>2. answer \in {None, "error"} \cup Statuses
    BY <2>1 DEF JobAnswers, TypeOK
  <2>3. check' \in [job : {None, "error"} \cup Statuses,
                   spent : {None, "error", "spent", "unspent"}, after : BOOLEAN]
        /\ check'.spent = check.spent /\ check'.after = check.after
    BY <2>2 DEF JobAnswer, TypeOK
  <2> QED
    BY <2>3 DEF JobAnswer, TypeOK, AnswersTrue, WaitsForJob, Waiting, ConfirmedByChain
<1>9. CASE IsSpent
  <2> PICK answer \in SpentAnswers : SpentAnswer(answer)
    BY <1>9 DEF IsSpent
  <2>1. answer \in {"error", "spent", "unspent"}
        /\ (answer = "spent" => landed # None) /\ (answer = "unspent" => landed = None)
    BY DEF SpentAnswers
  <2>2. check' \in [job : {None, "error"} \cup Statuses,
                   spent : {None, "error", "spent", "unspent"}, after : BOOLEAN]
        /\ check'.spent = answer /\ check'.after = check.after
    BY <2>1 DEF SpentAnswer, TypeOK
  <2> QED
    BY <2>1, <2>2 DEF SpentAnswer, TypeOK, AnswersTrue, WaitsForJob, Waiting, ConfirmedByChain
<1>10. CASE Conclude
  <2>1. result' \in {"ok", "failed", "relayer", "provider"} /\ (result' = "ok" => landed # None)
    BY <1>10 DEF Conclude, End, Outcome, JobOutcome, AnswersTrue
  <2> QED
    BY <1>10, <2>1 DEF Conclude, End, TypeOK, AnswersTrue, WaitsForJob, Waiting, ConfirmedByChain
<1>11. CASE GiveUp
  BY <1>11 DEF GiveUp, End, TypeOK, AnswersTrue, WaitsForJob, Waiting, ConfirmedByChain
<1>12. CASE Sleep
  BY <1>12 DEF Sleep, Answered, TypeOK, AnswersTrue, WaitsForJob, Waiting, ConfirmedByChain
<1>13. CASE Wake
  BY <1>13, UnansweredCheck, NoneAssumption DEF Wake, TypeOK, AnswersTrue, WaitsForJob, Waiting, ConfirmedByChain
<1>14. CASE UNCHANGED vars
  BY <1>14 DEF vars, TypeOK, AnswersTrue, WaitsForJob, Waiting, ConfirmedByChain
<1> QED
  BY <1>1, <1>2, <1>3, <1>4, <1>5, <1>6, <1>7, <1>8, <1>9, <1>10, <1>11, <1>12, <1>13, <1>14 DEF Next

\* The invariant holds in every reachable state.
THEOREM Invariance == Spec => []Inv
<1>1. Init => Inv
  BY InitInv
<1>2. Inv /\ [Next]_vars => Inv'
  BY NextInv
<1> QED
  BY <1>1, <1>2, PTL DEF Spec

\* Every variable has its type, for every number of jobs and every timeout.
THEOREM TypeCorrect == Spec => []TypeOK
<1>1. Inv => TypeOK
  BY DEF Inv
<1> QED
  BY <1>1, Invariance, PTL

\* Success means that the nullifier is spent, whatever the relayer reports.
THEOREM ConfirmedByChainHolds == Spec => []ConfirmedByChain
<1>1. Inv => ConfirmedByChain
  BY DEF Inv
<1> QED
  BY <1>1, Invariance, PTL

\* A check that began after the landing was answered "spent", or not at all:
\* it neither times out nor fails.
THEOREM LandedIsReportedHolds == Spec => LandedIsReported
<1> DEFINE Reported ==
      phase = "checking" /\ check.after /\ phase' = "idle" => result' \in {"ok", "provider"}
<1>1. Inv /\ [Next]_vars => [Reported]_vars
  <2> SUFFICES ASSUME Inv, [Next]_vars, phase = "checking", check.after, phase' = "idle"
               PROVE  result' \in {"ok", "provider"}
    OBVIOUS
  <2>1. check.spent # "unspent"
    BY DEF Inv, AnswersTrue
  <2>2. CASE Conclude
    <3>1. check.spent \in {"error", "spent"}
      BY <2>1, <2>2 DEF Conclude, Answered, Inv, TypeOK
    <3>2. Outcome \in {"ok", "provider"}
      BY <3>1 DEF Outcome
    <3> QED
      BY <2>2, <3>2 DEF Conclude, End
  <2>3. CASE GiveUp
    BY <2>1, <2>3 DEF GiveUp, Answered, Outcome, Inv, TypeOK
  <2>4. Conclude \/ GiveUp
    BY DEF Next, Submit, Accepted, SubmitFails, Land, Work, Await, Tick, JobStatus, JobAnswer, IsSpent,
           SpentAnswer, Sleep, Wake, vars
  <2> QED
    BY <2>2, <2>3, <2>4
<1> QED
  BY <1>1, Invariance, PTL DEF Spec, LandedIsReported
-----------------------------------------------------------------------------
(* The client composed with what it withdraws.                               *)

\* The steps before the proof leave the relayer's part alone, the others are its.
LEMMA StepsAreTheClients == [WithdrawalNext]_<<vars, wvars>> => [Next]_vars
BY DEF WithdrawalNext, Relay

\* The composition implements the relayer's client (withdraw, check,
\* await_confirmation), with the fairness it asks for.
THEOREM ImplementsClient == WithdrawalSpec => Spec
<1>1. WithdrawalInit => Init
  BY DEF WithdrawalInit
<1> QED
  BY <1>1, StepsAreTheClients, PTL DEF WithdrawalSpec, Spec

\* A withdrawal is reported confirmed only when its note is spent on the chain,
\* for any note, quote and proof (check).
THEOREM WithdrawalConfirmedByChain == WithdrawalSpec => []ConfirmedByChain
BY ImplementsClient, ConfirmedByChainHolds, PTL

\* A check that began after the withdrawal landed does not report that it failed
\* (check, await_confirmation).
THEOREM WithdrawalReported == WithdrawalSpec => LandedIsReported
BY ImplementsClient, LandedIsReportedHolds, PTL
-----------------------------------------------------------------------------
\* The proof is one of the arguments that the withdrawal is called with: what the
\* note, the payer and the pool's tree were when it was made.
ProvenOK ==
  stage = "proven" /\ proven.error = "none" =>
    /\ proven.proof = Arguments
    /\ imported.pool.asset.native => payer.refund = 0

\* Nothing is proved initially.
LEMMA ProvenInit == WithdrawalInit => ProvenOK
BY DEF WithdrawalInit, ProvenOK, Unproven

\* Neither the note nor the payer changes once there is a proof.
LEMMA ProvenStep == ProvenOK /\ [WithdrawalNext]_<<vars, wvars>> => ProvenOK'
<1> SUFFICES ASSUME ProvenOK, [WithdrawalNext]_<<vars, wvars>> PROVE ProvenOK'
  OBVIOUS
<1>1. ASSUME NEW merkleProof \in MerkleProofs, Prove(merkleProof) PROVE ProvenOK'
  <2>1. /\ stage' = "proven" /\ UNCHANGED <<imported, payer>>
        /\ proven'.error = ProofError(merkleProof) /\ proven'.root = merkleProof.root
        /\ ProofError(merkleProof) = "none" =>
             proven'.proof = PublicInputs(CircuitInputs(merkleProof))
    BY <1>1 DEF Prove
  <2>2. ASSUME ProofError(merkleProof) = "none"
        PROVE  imported.pool.asset.native => payer.refund = 0
    BY <2>2 DEF ProofError, RefundError
  <2>3. PublicInputs(CircuitInputs(merkleProof)) =
          <<merkleProof.root, NullifierHash(imported.note), "recipient", payer.address, payer.fee,
            payer.refund>>
    BY DEF PublicInputs, CircuitInputs
  <2>4. Arguments' = <<proven'.root, NullifierHash(imported'.note), "recipient", payer'.address,
                       payer'.fee, payer'.refund>>
    BY DEF Arguments, NullifierHash, Hashed
  <2>5. ProofError(merkleProof) = "none" => proven'.proof = Arguments'
    BY <2>1, <2>3, <2>4
  <2> QED
    BY <2>1, <2>2, <2>5 DEF ProvenOK
<1>2. CASE (Relay /\ UNCHANGED wvars) \/ OthersDeposit \/ UNCHANGED <<vars, wvars>>
  <2>1. UNCHANGED <<stage, imported, payer, proven>>
    BY <1>2 DEF OthersDeposit, wvars
  <2> QED
    BY <2>1 DEF ProvenOK, Arguments, NullifierHash, Hashed
<1>3. CASE Approve \/ Deposit \/ PayNobody
           \/ (\E text, became : Import(text, became) /\ became # "proven")
           \/ (\E status \in RelayerStatuses, gasPrice \in GasPrices, refund \in Refunds :
                 PayRelayer(status, gasPrice, refund))
  <2>1. stage # "proven" /\ stage' # "proven" /\ proven' = proven
    BY <1>3 DEF Approve, Deposit, PayNobody, Import, PayRelayer, MayWithdraw
  <2> QED
    BY <2>1 DEF ProvenOK
<1> QED
  BY <1>1, <1>2, <1>3 DEF WithdrawalNext

\* What the pool's verifier checks of a withdrawal that was proved without an error:
\* the proof is of the arguments of the call, in the verifier's order, whether the
\* recipient sends it or a relayer, and a pool of native currency is sent none
\* (prove, as_signals, call, into_solidity_proof, WithdrawRequest).
ProofFitsCall ==
  stage = "proven" /\ proven.error = "none" =>
    \A call \in {Call, RelayerCall(WithdrawRequest)} :
      /\ Verifies(call.proof, call.args)
      /\ call.value = call.args[6]
      /\ imported.pool.asset.native => call.value = 0

\* However notes are altered, quoted and proved, a withdrawal proved without an
\* error is called with what was proved.
THEOREM ProofFitsCallHolds == WithdrawalSpec => []ProofFitsCall
<1>1. ProvenOK => ProofFitsCall
  <2> SUFFICES ASSUME ProvenOK, stage = "proven", proven.error = "none",
                      NEW call \in {Call, RelayerCall(WithdrawRequest)}
               PROVE  /\ Verifies(call.proof, call.args)
                      /\ call.value = call.args[6]
                      /\ imported.pool.asset.native => call.value = 0
    BY DEF ProofFitsCall
  <2>1. call.args = Arguments /\ call.proof = SolidityProof(proven.proof)
    BY DEF Call, RelayerCall, WithdrawRequest
  <2>2. Arguments[6] = payer.refund
    BY DEF Arguments
  <2>3. call.value = payer.refund
    BY <2>2 DEF Call, RelayerCall, WithdrawRequest
  <2> QED
    BY <2>1, <2>2, <2>3 DEF ProvenOK, Verifies, SolidityProof
<1> QED
  BY ProvenInit, ProvenStep, <1>1, PTL DEF WithdrawalSpec
-----------------------------------------------------------------------------
(* Amounts. *)

\* The order of the natural numbers, which is well-founded.
LessThan == {p \in Nat \X Nat : p[1] < p[2]}

\* It is the library's, which is stated with an operator.
LEMMA LessThanWellFounded == IsWellFoundedOn(LessThan, Nat)
<1>1. OpToRel(<, Nat) = LessThan
  BY DEF OpToRel, LessThan
<1> QED BY <1>1, NatLessThanWellFounded

\* A set of natural numbers has a least element.
LEMMA LeastOf ==
  ASSUME NEW T \in SUBSET Nat, T # {}
  PROVE  \E n \in T : \A m \in T : n <= m
<1>1. PICK n \in T : \A m \in T : ~ (<<m, n>> \in LessThan)
  BY LessThanWellFounded, WFMin
<1>2. ASSUME NEW m \in T PROVE n <= m
  <2>1. <<m, n>> \notin LessThan
    BY <1>1
  <2>2. m < n => <<m, n>> \in LessThan
    BY DEF LessThan
  <2> QED BY <2>1, <2>2
<1> QED BY <1>2

\* A set of natural numbers up to some n has a greatest element.
LEMMA GreatestOf ==
  ASSUME NEW n \in Nat, NEW T \in SUBSET (0..n), T # {}
  PROVE  \E k \in T : \A m \in T : m <= k
<1> DEFINE U == {i \in Nat : \E k \in T : i = n - k}
<1>1. \A k \in T : n - k \in U
  OBVIOUS
<1>2. U # {} /\ U \in SUBSET Nat
  BY <1>1
<1>3. PICK i \in U : \A j \in U : i <= j
  <2> HIDE DEF U
  <2> QED BY <1>2, LeastOf
<1>4. PICK k \in T : i = n - k
  BY <1>3
<1>5. ASSUME NEW m \in T PROVE m <= k
  <2>1. i <= n - m
    BY <1>1, <1>3
  <2> QED BY <2>1, <1>4
<1> QED BY <1>5

\* The least element of a set is what Min chooses.
LEMMA MinIs == ASSUME NEW T \in SUBSET Nat, NEW k \in T, \A m \in T : k <= m PROVE Min(T) = k
<1>1. PICK c \in T : c = Min(T) /\ \A m \in T : c <= m
  BY DEF Min
<1> QED BY <1>1

\* The greatest element of a set is what Max chooses.
LEMMA MaxIs == ASSUME NEW T \in SUBSET Nat, NEW k \in T, \A m \in T : k >= m PROVE Max(T) = k
<1>1. PICK c \in T : c = Max(T) /\ \A m \in T : c >= m
  BY DEF Max
<1> QED BY <1>1

\* Where the point is.
LEMMA PointIs ==
  ASSUME NEW text \in Seq(0..10), NEW k \in 1..Len(text), text[k] = Point,
         \A i \in 1..(k - 1) : text[i] # Point
  PROVE  PointAt(text) = k
<1> DEFINE I == {i \in 1..Len(text) : text[i] = Point}
<1>1. k \in I /\ I \in SUBSET Nat
  BY LenProperties
<1>2. \A m \in I : k <= m
  OBVIOUS
<1>3. Min(I) = k
  <2> HIDE DEF I
  <2> QED BY <1>1, <1>2, MinIs
<1> QED
  BY <1>1, <1>3 DEF PointAt, SelectInSeq

\* Digits alone have no point.
LEMMA PointIsNowhere ==
  ASSUME NEW text \in Seq(0..9)
  PROVE  PointAt(text) = 0
<1>1. {i \in 1..Len(text) : text[i] = Point} = {}
  BY ElementOfSeq DEF Point
<1> QED
  BY <1>1 DEF PointAt, SelectInSeq

\* The digits without leading zeros begin with the first that is not zero.
LEMMA DigitsFrom ==
  ASSUME NEW text \in Seq(0..9), NEW k \in 1..Len(text), text[k] # 0,
         \A i \in 1..(k - 1) : text[i] = 0
  PROVE  Digits(text) = SubSeq(text, k, Len(text))
<1> DEFINE I == {i \in 1..Len(text) : text[i] # 0}
<1>1. k \in I /\ I \in SUBSET Nat
  BY LenProperties
<1>2. \A m \in I : k <= m
  OBVIOUS
<1>3. Min(I) = k
  <2> HIDE DEF I
  <2> QED BY <1>1, <1>2, MinIs
<1>4. SelectInSeq(text, LAMBDA d : d # 0) = k
  BY <1>1, <1>3 DEF SelectInSeq
<1> QED
  BY <1>4 DEF Digits

\* Zeros are the number zero.
LEMMA DigitsOfZeros ==
  ASSUME NEW text \in Seq(0..9), \A i \in 1..Len(text) : text[i] = 0
  PROVE  Digits(text) = Zeros(1)
<1>1. {i \in 1..Len(text) : text[i] # 0} = {}
  OBVIOUS
<1>2. SelectInSeq(text, LAMBDA d : d # 0) = 0
  BY <1>1 DEF SelectInSeq
<1> QED
  BY <1>2 DEF Digits

\* A text is cut after the last character that is not c.
LEMMA TrimmedAt ==
  ASSUME NEW S, NEW text \in Seq(S), NEW c, NEW k \in 1..Len(text), text[k] # c,
         \A i \in (k + 1)..Len(text) : text[i] = c
  PROVE  TrimEnd(text, c) = SubSeq(text, 1, k)
<1> DEFINE I == {i \in 1..Len(text) : text[i] # c}
<1>1. k \in I /\ I \in SUBSET Nat /\ Len(text) \in Nat
  BY LenProperties
<1>2. \A m \in I : k >= m
  BY <1>1
<1>3. Max(I) = k
  <2> HIDE DEF I
  <2> QED BY <1>1, <1>2, MaxIs
<1>4. SelectLastInSeq(text, LAMBDA d : d # c) = k
  BY <1>1, <1>3 DEF SelectLastInSeq
<1> QED
  BY <1>4 DEF TrimEnd

\* Zeros are that many digits.
LEMMA ZerosSeq ==
  ASSUME NEW n \in Nat
  PROVE  /\ Zeros(n) \in Seq(0..9) /\ Len(Zeros(n)) = n
         /\ \A i \in 1..n : Zeros(n)[i] = 0
<1>1. Zeros(n) \in [1..n -> 0..9]
  BY DEF Zeros
<1> QED
  BY <1>1 DEF Zeros

\* A numeral is its own digits.
LEMMA NumeralDigits ==
  ASSUME NEW digits, IsNumeral(digits)
  PROVE  Digits(digits) = digits
<1>1. digits \in Seq(0..9) /\ Len(digits) \in Nat /\ Len(digits) >= 1
  BY EmptySeq, LenProperties DEF IsNumeral
<1>2. CASE digits[1] = 0
  <2>1. Len(digits) = 1
    BY <1>2 DEF IsNumeral
  <2>2. Digits(digits) = Zeros(1)
    BY <1>1, <1>2, <2>1, DigitsOfZeros
  <2>3. Zeros(1) = digits
    BY <1>1, <1>2, <2>1, ZerosSeq, SeqEqual
  <2> QED BY <2>2, <2>3
<1>3. CASE digits[1] # 0
  <2>1. Digits(digits) = SubSeq(digits, 1, Len(digits))
    BY <1>1, <1>3, DigitsFrom
  <2> QED BY <1>1, <2>1, SubSeqFull
<1> QED BY <1>2, <1>3

\* What follows the last digit that is not a zero is zeros.
LEMMA LastNonzero ==
  ASSUME NEW f \in Seq(0..9)
  PROVE  \E m \in 0..Len(f) : /\ m # 0 => f[m] # 0
                              /\ \A i \in (m + 1)..Len(f) : f[i] = 0
<1> DEFINE T == {i \in 0..Len(f) : i # 0 => f[i] # 0}
<1>1. Len(f) \in Nat
  OBVIOUS
<1>2. T \in SUBSET (0..Len(f)) /\ 0 \in T
  BY <1>1
<1>3. PICK m \in T : \A i \in T : i <= m
  <2> HIDE DEF T
  <2> QED BY <1>1, <1>2, GreatestOf
<1>4. ASSUME NEW i \in (m + 1)..Len(f) PROVE f[i] = 0
  <2>1. i \in 0..Len(f) /\ i # 0 /\ ~ (i <= m)
    BY <1>1
  <2> QED BY <1>3, <2>1
<1> QED BY <1>3, <1>4

\* The elements of two sequences in a row.
LEMMA Concatenated ==
  ASSUME NEW S, NEW left \in Seq(S), NEW right \in Seq(S)
  PROVE  /\ left \o right \in Seq(S) /\ Len(left \o right) = Len(left) + Len(right)
         /\ \A i \in 1..Len(left) : (left \o right)[i] = left[i]
         /\ \A i \in 1..Len(right) : (left \o right)[Len(left) + i] = right[i]
<1>1. Len(left) \in Nat /\ Len(right) \in Nat
  OBVIOUS
<1>2. \A i \in 1..Len(left) : (left \o right)[i] = left[i]
  OBVIOUS
<1>3. \A i \in 1..Len(right) : (left \o right)[Len(left) + i] = right[i]
  <2> TAKE i \in 1..Len(right)
  <2>1. /\ Len(left) + i \in 1..(Len(left) + Len(right)) /\ ~ (Len(left) + i <= Len(left))
        /\ Len(left) + i - Len(left) = i
    BY <1>1
  <2> QED BY <2>1
<1> QED BY <1>1, <1>2, <1>3

\* A whole part w and a fraction f, cut after its last digit that is not a zero.
Written(w, f, m) == IF m = 0 THEN w ELSE w \o <<Point>> \o SubSeq(f, 1, m)

\* The elements of three sequences in a row.
LEMMA Joined ==
  ASSUME NEW S, NEW w \in Seq(S), NEW p \in Seq(S), NEW g \in Seq(S)
  PROVE  /\ w \o p \o g \in Seq(S)
         /\ Len(w \o p \o g) = Len(w) + Len(p) + Len(g)
         /\ \A i \in 1..Len(w) : (w \o p \o g)[i] = w[i]
         /\ \A i \in 1..Len(p) : (w \o p \o g)[Len(w) + i] = p[i]
         /\ \A i \in 1..Len(g) : (w \o p \o g)[Len(w) + Len(p) + i] = g[i]
<1>1. Len(w) \in Nat /\ Len(p) \in Nat /\ Len(g) \in Nat
  OBVIOUS
<1>2. /\ w \o p \in Seq(S) /\ Len(w \o p) = Len(w) + Len(p)
      /\ \A i \in 1..Len(w) : (w \o p)[i] = w[i]
      /\ \A i \in 1..Len(p) : (w \o p)[Len(w) + i] = p[i]
  BY Concatenated
<1>3. /\ w \o p \o g \in Seq(S) /\ Len(w \o p \o g) = Len(w \o p) + Len(g)
      /\ \A i \in 1..Len(w \o p) : (w \o p \o g)[i] = (w \o p)[i]
      /\ \A i \in 1..Len(g) : (w \o p \o g)[Len(w \o p) + i] = g[i]
  <2>1. w \o p \in Seq(S)
    BY <1>2
  <2> QED BY <2>1, Concatenated
<1>4. /\ \A i \in 1..Len(p) : Len(w) + i \in 1..Len(w \o p)
      /\ \A i \in 1..Len(w) : i \in 1..Len(w \o p)
  BY <1>1, <1>2
<1>5. /\ \A i \in 1..Len(w) : (w \o p \o g)[i] = w[i]
      /\ \A i \in 1..Len(p) : (w \o p \o g)[Len(w) + i] = p[i]
  BY <1>2, <1>3, <1>4
<1>6. \A i \in 1..Len(g) : (w \o p \o g)[Len(w) + Len(p) + i] = g[i]
  BY <1>2, <1>3
<1> QED BY <1>2, <1>3, <1>5, <1>6

\* The elements of a sequence from m to n, in a row.
LEMMA SubSeqOf ==
  ASSUME NEW S, NEW s \in Seq(S), NEW m \in Nat \ {0}, NEW n \in Nat,
         m <= n + 1, n <= Len(s)
  PROVE  /\ SubSeq(s, m, n) \in Seq(S) /\ Len(SubSeq(s, m, n)) = n + 1 - m
         /\ \A i \in 1..(n + 1 - m) : SubSeq(s, m, n)[i] = s[m - 1 + i]
<1>1. Len(s) \in Nat /\ m \in 1..(Len(s) + 1) /\ n \in (m - 1)..Len(s)
      /\ n - m + 1 = n + 1 - m
  OBVIOUS
<1>2. \A i \in 1..(n + 1 - m) : m + i - 1 = m - 1 + i
  OBVIOUS
<1> QED BY <1>1, <1>2, SubSeqProperties

\* The elements of an amount that is written with a point.
LEMMA WrittenSeq ==
  ASSUME NEW w \in Seq(0..9), NEW f \in Seq(0..9), NEW m \in 1..Len(f)
  PROVE  /\ Written(w, f, m) \in Seq(0..10)
         /\ Len(Written(w, f, m)) = Len(w) + 1 + m
         /\ \A i \in 1..Len(w) : Written(w, f, m)[i] = w[i]
         /\ Written(w, f, m)[Len(w) + 1] = Point
         /\ \A i \in 1..m : Written(w, f, m)[Len(w) + 1 + i] = f[i]
<1> DEFINE g == SubSeq(f, 1, m)
           p == <<Point>>
<1>1. w \in Seq(0..10) /\ f \in Seq(0..10) /\ p \in Seq(0..10) /\ Len(p) = 1 /\ p[1] = Point
      /\ Len(w) \in Nat /\ Len(f) \in Nat
  BY DEF Point
<1>2. g \in Seq(0..10) /\ Len(g) = m /\ \A i \in 1..m : g[i] = f[i]
  BY <1>1, SubSeqProperties
<1>3. Written(w, f, m) = w \o p \o g
  BY DEF Written
<1> HIDE DEF g, p
<1>4. w \in Seq(0..10) /\ p \in Seq(0..10) /\ g \in Seq(0..10)
  BY <1>1, <1>2
<1>5. /\ w \o p \o g \in Seq(0..10)
      /\ Len(w \o p \o g) = Len(w) + Len(p) + Len(g)
      /\ \A i \in 1..Len(w) : (w \o p \o g)[i] = w[i]
      /\ \A i \in 1..Len(p) : (w \o p \o g)[Len(w) + i] = p[i]
      /\ \A i \in 1..Len(g) : (w \o p \o g)[Len(w) + Len(p) + i] = g[i]
  BY <1>4, Joined, SMTT(30)
<1>6. (w \o p \o g)[Len(w) + 1] = p[1]
  <2>1. 1 \in 1..Len(p)
    BY <1>1
  <2> QED BY <1>5, <2>1
<1> QED BY <1>1, <1>2, <1>3, <1>5, <1>6

\* A whole part, the point and a fraction are cut at the last digit of the fraction, or
\* before the point.
LEMMA TrimmedFraction ==
  ASSUME NEW w \in Seq(0..9), w # <<>>, NEW f \in Seq(0..9), f # <<>>,
         NEW m \in 0..Len(f), m # 0 => f[m] # 0, \A i \in (m + 1)..Len(f) : f[i] = 0
  PROVE  TrimEnd(TrimEnd(w \o <<Point>> \o f, 0), Point) = Written(w, f, m)
<1> DEFINE n == Len(w)
           P == Written(w, f, Len(f))
           R == SubSeq(P, 1, n + 1 + m)
<1>1. n \in Nat /\ n >= 1 /\ Len(f) \in Nat /\ Len(f) >= 1
  BY EmptySeq, LenProperties
<1>2. P = w \o <<Point>> \o f
  BY <1>1, SubSeqFull DEF Written
<1>3. /\ P \in Seq(0..10) /\ Len(P) = n + 1 + Len(f)
      /\ \A i \in 1..n : P[i] = w[i]
      /\ P[n + 1] = Point
      /\ \A i \in 1..Len(f) : P[n + 1 + i] = f[i]
  BY <1>1, WrittenSeq, SMTT(30)
<1> HIDE DEF P
<1>4. \A i \in (n + 1 + m + 1)..Len(P) : P[i] = 0
  <2> TAKE i \in (n + 1 + m + 1)..Len(P)
  <2>1. i - n - 1 \in (m + 1)..Len(f) /\ i - n - 1 \in 1..Len(f) /\ n + 1 + (i - n - 1) = i
    BY <1>1, <1>3
  <2>2. P[n + 1 + (i - n - 1)] = f[i - n - 1]
    BY <1>3, <2>1
  <2> QED BY <2>1, <2>2
<1>5. n + 1 + m \in 1..Len(P) /\ P[n + 1 + m] # 0
  <2>1. n + 1 + m \in 1..Len(P)
    BY <1>1, <1>3
  <2>2. CASE m = 0
    BY <1>1, <1>3, <2>1, <2>2 DEF Point
  <2>3. CASE m # 0
    BY <1>1, <1>3, <2>1, <2>3
  <2> QED BY <2>1, <2>2, <2>3
<1>6. TrimEnd(P, 0) = R
  BY <1>1, <1>3, <1>4, <1>5, TrimmedAt
<1>7. R \in Seq(0..10) /\ Len(R) = n + 1 + m /\ \A i \in 1..(n + 1 + m) : R[i] = P[i]
  BY <1>1, <1>3, <1>5, SubSeqProperties, SMTT(30)
<1> HIDE DEF R
<1>8. CASE m = 0
  <2>1. R[n + 1] = Point
    BY <1>1, <1>3, <1>7, <1>8
  <2>2. R[n] # Point
    <3>1. n \in 1..Len(w) /\ n \in 1..(n + 1 + m)
      BY <1>1
    <3>2. R[n] = w[n] /\ w[n] \in 0..9
      BY <1>3, <1>7, <3>1, ElementOfSeq
    <3> QED BY <3>2 DEF Point
  <2>3. \A i \in (n + 1)..Len(R) : R[i] = Point
    <3> TAKE i \in (n + 1)..Len(R)
    <3>1. i = n + 1
      BY <1>1, <1>7, <1>8
    <3> QED BY <2>1, <3>1
  <2>4. n \in 1..Len(R)
    BY <1>1, <1>7
  <2>5. TrimEnd(R, Point) = SubSeq(R, 1, n)
    BY <1>7, <2>2, <2>3, <2>4, TrimmedAt
  <2>6. SubSeq(R, 1, n) \in Seq(0..10) /\ Len(SubSeq(R, 1, n)) = n
        /\ \A i \in 1..n : SubSeq(R, 1, n)[i] = R[i]
    BY <1>1, <1>7, SubSeqProperties
  <2>7. \A i \in 1..n : SubSeq(R, 1, n)[i] = w[i]
    <3> TAKE i \in 1..n
    <3>1. i \in 1..(n + 1 + m)
      BY <1>1, <1>8
    <3> QED BY <1>3, <1>7, <2>6, <3>1
  <2>8. SubSeq(R, 1, n) = w
    BY <2>6, <2>7, SeqEqual
  <2> QED
    BY <1>2, <1>6, <1>8, <2>5, <2>8 DEF Written
<1>9. CASE m # 0
  <2>1. n + 1 + m \in 1..Len(R) /\ R[n + 1 + m] # Point
    <3>1. m \in 1..Len(f)
      BY <1>1, <1>9
    <3>2. P[n + 1 + m] = f[m] /\ f[m] \in 0..9
      BY <1>3, <3>1, ElementOfSeq
    <3>3. n + 1 + m \in 1..(n + 1 + m)
      BY <1>1
    <3> QED BY <1>7, <3>2, <3>3, SMTT(30) DEF Point
  <2>2. \A i \in (n + 1 + m + 1)..Len(R) : R[i] = Point
    BY <1>1, <1>7
  <2>3. TrimEnd(R, Point) = SubSeq(R, 1, n + 1 + m)
    BY <1>7, <2>1, <2>2, TrimmedAt
  <2>4. SubSeq(R, 1, n + 1 + m) = R
    BY <1>7, SubSeqFull
  <2>5. Written(w, f, m) \in Seq(0..10) /\ Len(Written(w, f, m)) = n + 1 + m
        /\ (\A i \in 1..n : Written(w, f, m)[i] = w[i])
        /\ Written(w, f, m)[n + 1] = Point
        /\ (\A i \in 1..m : Written(w, f, m)[n + 1 + i] = f[i])
    BY <1>1, <1>9, WrittenSeq
  <2>6. \A i \in 1..(n + 1 + m) : Written(w, f, m)[i] = R[i]
    <3> TAKE i \in 1..(n + 1 + m)
    <3>1. CASE i \in 1..n
      BY <1>3, <1>7, <2>5, <3>1
    <3>2. CASE i = n + 1
      BY <1>3, <1>7, <2>5, <3>2
    <3>3. CASE i > n + 1
      <4>1. i - n - 1 \in 1..m /\ i - n - 1 \in 1..Len(f) /\ n + 1 + (i - n - 1) = i
        BY <1>1, <3>3
      <4>2. Written(w, f, m)[n + 1 + (i - n - 1)] = f[i - n - 1] /\ P[n + 1 + (i - n - 1)] = f[i - n - 1]
        BY <1>3, <2>5, <4>1
      <4> QED BY <1>7, <4>1, <4>2
    <3> QED BY <1>1, <3>1, <3>2, <3>3
  <2>7. Written(w, f, m) = R
    BY <1>7, <2>5, <2>6, SeqEqual
  <2> QED
    BY <1>2, <1>6, <2>3, <2>4, <2>7
<1> QED BY <1>8, <1>9

\* What a text says that writes a whole part and a fraction.
LEMMA WrittenParts ==
  ASSUME NEW w \in Seq(0..9), NEW f \in Seq(0..9), NEW m \in 1..Len(f)
  PROVE  /\ PointAt(Written(w, f, m)) = Len(w) + 1
         /\ Whole(Written(w, f, m)) = w
         /\ Fraction(Written(w, f, m)) = SubSeq(f, 1, m)
         /\ Last(Written(w, f, m)) = f[m]
<1> DEFINE t == Written(w, f, m)
           g == SubSeq(f, 1, m)
           b == SubSeq(t, Len(w) + 2, Len(w) + 1 + m)
<1>1. Len(w) \in Nat /\ Len(f) \in Nat /\ m \in Nat /\ m >= 1
  OBVIOUS
<1>2. /\ t \in Seq(0..10)
      /\ Len(t) = Len(w) + 1 + m
      /\ \A i \in 1..Len(w) : t[i] = w[i]
      /\ t[Len(w) + 1] = Point
      /\ \A i \in 1..m : t[Len(w) + 1 + i] = f[i]
  BY WrittenSeq
<1> HIDE DEF t
<1>3. PointAt(t) = Len(w) + 1
  <2>1. \A i \in 1..Len(w) : t[i] # Point
    <3>1. \A i \in 1..Len(w) : w[i] \in 0..9
      BY ElementOfSeq
    <3>2. ASSUME NEW i \in 1..Len(w) PROVE t[i] # Point
      <4>1. t[i] = w[i] /\ w[i] \in 0..9
        BY <1>2, <3>1
      <4> QED BY <4>1 DEF Point
    <3> QED BY <3>2
  <2>2. Len(w) + 1 \in 1..Len(t) /\ Len(w) + 1 - 1 = Len(w)
    BY <1>1, <1>2
  <2>3. t \in Seq(0..10) /\ t[Len(w) + 1] = Point
    BY <1>2
  <2>4. \A i \in 1..(Len(w) + 1 - 1) : t[i] # Point
    BY <2>1, <2>2
  <2> QED BY ONLY <2>2, <2>3, <2>4, PointIs
<1>4. Whole(t) = w
  <2>1. Whole(t) = SubSeq(t, 1, Len(w))
    BY <1>1, <1>3 DEF Whole
  <2>2. SubSeq(t, 1, Len(w)) \in Seq(0..10) /\ Len(SubSeq(t, 1, Len(w))) = Len(w)
        /\ \A i \in 1..Len(w) : SubSeq(t, 1, Len(w))[i] = t[i]
    BY <1>1, <1>2, SubSeqProperties, SMTT(30)
  <2>3. \A i \in 1..Len(w) : SubSeq(t, 1, Len(w))[i] = w[i]
    BY <1>2, <2>2
  <2>4. SubSeq(t, 1, Len(w)) = w
    BY <2>2, <2>3, SeqEqual
  <2> QED BY <2>1, <2>4
<1>5. Fraction(t) = g
  <2>1. Fraction(t) = b
    <3>1. PointAt(t) # 0 /\ PointAt(t) + 1 = Len(w) + 2
      BY <1>1, <1>3
    <3> QED BY <1>2, <3>1 DEF Fraction
  <2>2. b \in Seq(0..10) /\ Len(b) = m /\ \A i \in 1..m : b[i] = t[Len(w) + 1 + i]
    <3>1. Len(w) + 2 \in 1..(Len(t) + 1) /\ Len(w) + 1 + m \in (Len(w) + 1)..Len(t)
          /\ Len(w) + 1 + m - (Len(w) + 2) + 1 = m
      BY <1>1, <1>2
    <3>2. /\ t \in Seq(0..10) /\ Len(w) + 2 \in Nat \ {0} /\ Len(w) + 1 + m \in Nat
          /\ Len(w) + 2 <= Len(w) + 1 + m + 1 /\ Len(w) + 1 + m <= Len(t)
      BY <1>1, <1>2, <3>1
    <3>3. /\ Len(w) + 1 + m + 1 - (Len(w) + 2) = m
          /\ \A i \in 1..m : Len(w) + 2 - 1 + i = Len(w) + 1 + i
      BY <1>1
    <3>4. /\ b \in Seq(0..10) /\ Len(b) = Len(w) + 1 + m + 1 - (Len(w) + 2)
          /\ \A i \in 1..(Len(w) + 1 + m + 1 - (Len(w) + 2)) : b[i] = t[Len(w) + 2 - 1 + i]
      BY ONLY <3>2, SubSeqOf, SMTT(30)
    <3> HIDE DEF b
    <3> QED BY ONLY <3>3, <3>4
  <2>3. g \in Seq(0..9) /\ Len(g) = m /\ \A i \in 1..m : g[i] = f[i]
    BY <1>1, SubSeqProperties
  <2> HIDE DEF b, g
  <2>4. \A i \in 1..m : b[i] = g[i]
    BY <1>2, <2>2, <2>3
  <2>5. b = g
    BY <2>2, <2>3, <2>4, SeqEqual
  <2> QED BY <2>1, <2>5
<1>6. Last(t) = f[m]
  <2>1. t[Len(w) + 1 + m] = f[m]
    BY <1>1, <1>2
  <2> QED BY <1>2, <2>1 DEF Last
<1> QED BY <1>3, <1>4, <1>5, <1>6 DEF t

\* The text of a whole part and a fraction writes the number of the digits of both.
LEMMA WritesParts ==
  ASSUME NEW w, IsNumeral(w), NEW f \in Seq(0..9), f # <<>>, NEW digits, Digits(w \o f) = digits
  PROVE  WritesAmount(TrimEnd(TrimEnd(w \o <<Point>> \o f, 0), Point), digits, Len(f))
<1>1. w \in Seq(0..9) /\ w # <<>> /\ Len(w) \in Nat /\ Len(f) \in Nat /\ Len(f) >= 1 /\ Digits(w) = w
  BY NumeralDigits, EmptySeq, LenProperties DEF IsNumeral
<1>2. PICK m \in 0..Len(f) : (m # 0 => f[m] # 0) /\ \A i \in (m + 1)..Len(f) : f[i] = 0
  BY LastNonzero
<1>3. TrimEnd(TrimEnd(w \o <<Point>> \o f, 0), Point) = Written(w, f, m)
  BY <1>1, <1>2, TrimmedFraction
<1>4. CASE m = 0
  <2>1. Written(w, f, m) = w
    BY <1>4 DEF Written
  <2>2. PointAt(w) = 0 /\ Whole(w) = w /\ Fraction(w) = <<>>
    BY <1>1, PointIsNowhere DEF Whole, Fraction
  <2>3. f = Zeros(Len(f))
    <3>1. Zeros(Len(f)) \in Seq(0..9) /\ Len(Zeros(Len(f))) = Len(f)
          /\ \A i \in 1..Len(f) : Zeros(Len(f))[i] = 0
      BY <1>1, ZerosSeq
    <3>2. \A i \in 1..Len(f) : f[i] = Zeros(Len(f))[i]
      BY <1>2, <1>4, <3>1
    <3> QED BY <3>1, <3>2, SeqEqual
  <2>4. w \o <<>> \o Zeros(Len(f) - 0) = w \o f
    <3>1. w \o <<>> = w /\ Len(f) - 0 = Len(f)
      BY <1>1, ConcatEmptySeq
    <3> QED BY <2>3, <3>1
  <2>5. Len(<<>>) = 0 /\ Len(<<>>) <= Len(f)
    BY <1>1, EmptySeq
  <2> QED
    BY <1>1, <1>3, <2>1, <2>2, <2>4, <2>5 DEF WritesAmount
<1>5. CASE m # 0
  <2> DEFINE g == SubSeq(f, 1, m)
             z == Zeros(Len(f) - m)
             t == Written(w, f, m)
  <2>1. m \in 1..Len(f) /\ Len(f) - m \in Nat
    BY <1>1, <1>5
  <2>2. Whole(t) = w /\ Fraction(t) = g /\ Last(t) # 0
    BY <1>1, <1>2, <1>5, <2>1, WrittenParts
  <2>3. g \in Seq(0..9) /\ Len(g) = m /\ \A i \in 1..m : g[i] = f[i]
    BY <1>1, <2>1, SubSeqProperties
  <2>4. z \in Seq(0..9) /\ Len(z) = Len(f) - m /\ \A i \in 1..(Len(f) - m) : z[i] = 0
    BY <2>1, ZerosSeq
  <2>5. g # <<>>
    BY <2>1, <2>3, EmptySeq
  <2> HIDE DEF g, z, t
  <2>6. g \o z = f
    <3>1. /\ g \o z \in Seq(0..9) /\ Len(g \o z) = Len(g) + Len(z)
          /\ \A i \in 1..Len(g) : (g \o z)[i] = g[i]
          /\ \A i \in 1..Len(z) : (g \o z)[Len(g) + i] = z[i]
      <4>1. g \in Seq(0..9) /\ z \in Seq(0..9)
        BY <2>3, <2>4
      <4> QED BY <4>1, Concatenated
    <3>2. Len(g \o z) = Len(f)
      BY <1>1, <2>1, <2>3, <2>4, <3>1
    <3>3. \A i \in 1..Len(f) : (g \o z)[i] = f[i]
      <4> TAKE i \in 1..Len(f)
      <4>1. CASE i <= m
        <5>1. i \in 1..m
          BY <4>1, <1>1, <2>1
        <5> QED BY <2>3, <3>1, <5>1
      <4>2. CASE i > m
        <5>1. i - m \in 1..(Len(f) - m) /\ m + (i - m) = i /\ i \in (m + 1)..Len(f)
          BY <1>1, <2>1, <4>2
        <5>2. (g \o z)[m + (i - m)] = z[i - m]
          BY <2>3, <2>4, <3>1, <5>1
        <5> QED BY <1>2, <2>4, <5>1, <5>2
      <4>3. i <= m \/ i > m
        BY <1>1, <2>1
      <4> QED BY <4>1, <4>2, <4>3
    <3> QED BY <3>1, <3>2, <3>3, SeqEqual
  <2>7. w \o g \o z = w \o f
    <3>1. w \o g \o z = w \o (g \o z)
      <4>1. w \in Seq(0..9) /\ g \in Seq(0..9) /\ z \in Seq(0..9)
        BY <1>1, <2>3, <2>4
      <4> QED BY <4>1, ConcatAssociative, SMTT(30)
    <3> QED BY <2>6, <3>1
  <2>8. Digits(Whole(t) \o Fraction(t) \o Zeros(Len(f) - Len(Fraction(t)))) = digits
    <3>1. Zeros(Len(f) - Len(Fraction(t))) = z
      BY <2>2, <2>3 DEF z
    <3> QED BY <2>2, <2>7, <3>1
  <2>9. Len(Fraction(t)) <= Len(f)
    BY <2>1, <2>2, <2>3
  <2>10. WritesAmount(t, digits, Len(f))
    BY <1>1, <2>2, <2>5, <2>8, <2>9 DEF WritesAmount
  <2> QED BY <1>3, <2>10 DEF t
<1> QED BY <1>4, <1>5

\* The text of an amount writes it exactly, for every amount and every number of decimals,
\* and is the one way to write it (format_amount).
THEOREM AmountIsExact ==
  ASSUME NEW digits, IsNumeral(digits), NEW decimals \in Nat
  PROVE  WritesAmount(FormatAmount(digits, decimals), digits, decimals)
<1> DEFINE n == Len(digits)
<1>1. digits \in Seq(0..9) /\ n \in Nat /\ n >= 1 /\ Digits(digits) = digits
  BY NumeralDigits, EmptySeq, LenProperties DEF IsNumeral
<1>2. CASE decimals = 0 \/ digits = Zeros(1)
  <2>1. FormatAmount(digits, decimals) = digits
    BY <1>2 DEF FormatAmount
  <2>2. PointAt(digits) = 0 /\ Whole(digits) = digits /\ Fraction(digits) = <<>> /\ Len(<<>>) = 0
    BY <1>1, PointIsNowhere DEF Whole, Fraction
  <2>3. digits \o <<>> = digits
    BY <1>1, ConcatEmptySeq
  <2>4. Zeros(decimals) \in Seq(0..9) /\ Len(Zeros(decimals)) = decimals
        /\ \A i \in 1..decimals : Zeros(decimals)[i] = 0
    BY ZerosSeq
  <2>5. Digits(digits \o Zeros(decimals)) = digits
    <3>1. CASE decimals = 0
      <4>1. Zeros(decimals) = <<>>
        BY <2>4, <3>1, EmptySeq
      <4> QED BY <1>1, <2>3, <4>1
    <3>2. CASE digits = Zeros(1)
      <4> DEFINE all == digits \o Zeros(decimals)
      <4>1. digits \in Seq(0..9) /\ Len(digits) = 1 /\ \A i \in 1..1 : digits[i] = 0
        BY <3>2, ZerosSeq
      <4>2. /\ all \in Seq(0..9) /\ Len(all) = Len(digits) + Len(Zeros(decimals))
            /\ \A i \in 1..Len(digits) : all[i] = digits[i]
            /\ \A i \in 1..Len(Zeros(decimals)) : all[Len(digits) + i] = Zeros(decimals)[i]
        <5>1. digits \in Seq(0..9) /\ Zeros(decimals) \in Seq(0..9)
          BY <2>4, <4>1
        <5> QED BY <5>1, Concatenated
      <4> HIDE DEF all
      <4>3. \A i \in 1..Len(all) : all[i] = 0
        <5> TAKE i \in 1..Len(all)
        <5>1. CASE i = 1
          BY <4>1, <4>2, <5>1
        <5>2. CASE i # 1
          <6>1. i - 1 \in 1..decimals /\ 1 + (i - 1) = i
            BY <2>4, <4>1, <4>2, <5>2
          <6>2. all[1 + (i - 1)] = Zeros(decimals)[i - 1]
            BY <2>4, <4>1, <4>2, <6>1
          <6> QED BY <2>4, <6>1, <6>2
        <5> QED BY <5>1, <5>2
      <4>4. Digits(all) = Zeros(1)
        BY <4>2, <4>3, DigitsOfZeros
      <4> QED BY <3>2, <4>4 DEF all
    <3> QED BY <1>2, <3>1, <3>2
  <2>6. Digits(Whole(digits) \o Fraction(digits) \o Zeros(decimals - Len(Fraction(digits)))) = digits
    <3>1. decimals - 0 = decimals
      OBVIOUS
    <3> QED BY <2>2, <2>3, <2>5, <3>1
  <2> QED
    BY <1>1, <2>1, <2>2, <2>6 DEF WritesAmount
<1>3. CASE decimals # 0 /\ digits # Zeros(1)
  <2>1. digits[1] # 0
    <3> SUFFICES ASSUME digits[1] = 0 PROVE FALSE
      OBVIOUS
    <3>1. n = 1
      BY DEF IsNumeral
    <3>2. Zeros(1) \in Seq(0..9) /\ Len(Zeros(1)) = 1 /\ \A i \in 1..1 : Zeros(1)[i] = 0
      BY ZerosSeq
    <3>3. digits = Zeros(1)
      BY <1>1, <3>1, <3>2, SeqEqual
    <3> QED BY <1>3, <3>3
  <2>2. FormatAmount(digits, decimals) = TrimEnd(TrimEnd(Pointed(digits, decimals), 0), Point)
    BY <1>3 DEF FormatAmount
  <2>3. CASE n > decimals
    <3> DEFINE w == SubSeq(digits, 1, n - decimals)
               f == SubSeq(digits, n - decimals + 1, n)
    <3>1. Pointed(digits, decimals) = w \o <<Point>> \o f
      <4>1. (n - decimals + 1) - 1 = n - decimals
        BY <1>1
      <4>2. Pointed(digits, decimals) = InsertAt(digits, n - decimals + 1, Point)
        BY <2>3 DEF Pointed
      <4>3. InsertAt(digits, n - decimals + 1, Point)
              = SubSeq(digits, 1, (n - decimals + 1) - 1) \o <<Point>> \o f
        BY DEF InsertAt
      <4> QED BY <4>1, <4>2, <4>3
    <3>2. w \in Seq(0..9) /\ Len(w) = n - decimals /\ \A i \in 1..(n - decimals) : w[i] = digits[i]
      <4>1. /\ digits \in Seq(0..9) /\ 1 \in Nat \ {0} /\ n - decimals \in Nat
            /\ 1 <= n - decimals + 1 /\ n - decimals <= Len(digits)
        BY <1>1, <2>3
      <4>2. /\ w \in Seq(0..9) /\ Len(w) = n - decimals + 1 - 1
            /\ \A i \in 1..(n - decimals + 1 - 1) : w[i] = digits[1 - 1 + i]
        BY ONLY <4>1, SubSeqOf
      <4> HIDE DEF w, f
      <4>3. n - decimals + 1 - 1 = n - decimals /\ \A i \in Int : 1 - 1 + i = i
        BY <1>1
      <4> QED BY <4>2, <4>3
    <3>3. f \in Seq(0..9) /\ Len(f) = decimals
      <4>1. n - decimals + 1 \in 1..(n + 1) /\ n \in (n - decimals)..n /\ n - (n - decimals + 1) + 1 = decimals
        BY <1>1, <2>3
      <4> QED BY <1>1, <4>1, SubSeqProperties
    <3>4. w \o f = digits
      <4>1. SubSeq(digits, 1, n) = digits
        BY <1>1, SubSeqFull
      <4>2. SubSeq(digits, 1, n - decimals) \o SubSeq(digits, n - decimals + 1, n) = SubSeq(digits, 1, n)
        <5>1. 1 \in 1..(n + 1) /\ n - decimals \in (1 - 1)..n /\ n \in (n - decimals)..n
          BY <1>1, <2>3
        <5>2. digits \in Seq(0..9)
          BY <1>1
        <5> HIDE DEF w, f
        <5> QED BY <5>1, <5>2, ConcatAdjacentSubSeq
      <4> QED BY <4>1, <4>2, Zenon
    <3> HIDE DEF w, f
    <3>5. IsNumeral(w)
      <4>1. 1 \in 1..(n - decimals)
        BY <1>1, <2>3
      <4>2. w[1] = digits[1] /\ w # <<>>
        BY <3>2, <4>1, EmptySeq
      <4> QED BY <2>1, <3>2, <4>2 DEF IsNumeral
    <3>6. f # <<>>
      BY <1>3, <3>3, EmptySeq
    <3>7. WritesAmount(TrimEnd(TrimEnd(w \o <<Point>> \o f, 0), Point), digits, decimals)
      BY <1>1, <3>3, <3>4, <3>5, <3>6, WritesParts
    <3> QED BY <2>2, <3>1, <3>7
  <2>4. CASE n <= decimals
    <3> DEFINE w == <<0>>
               z == Zeros(decimals - n)
               f == z \o digits
    <3>1. decimals - n \in Nat
      BY <1>1, <2>4
    <3>2. z \in Seq(0..9) /\ Len(z) = decimals - n /\ \A i \in 1..(decimals - n) : z[i] = 0
      BY <3>1, ZerosSeq
    <3>3. w \in Seq(0..9) /\ Len(w) = 1 /\ w[1] = 0 /\ w # <<>>
      OBVIOUS
    <3>4. Pointed(digits, decimals) = w \o <<Point>> \o f
      <4> DEFINE p == <<Point>>
      <4>1. Pointed(digits, decimals) = <<0, Point>> \o z \o digits
        BY <1>1, <2>4 DEF Pointed
      <4>2. <<0, Point>> = w \o p
        OBVIOUS
      <4>3. w \in Seq(0..10) /\ p \in Seq(0..10) /\ z \in Seq(0..10) /\ digits \in Seq(0..10)
        BY <1>1, <3>2, <3>3 DEF Point
      <4> HIDE DEF w, p, z
      <4>4. w \o p \in Seq(0..10)
        BY <4>3, ConcatProperties
      <4>5. (w \o p) \o z \o digits = (w \o p) \o (z \o digits)
        <5>1. PICK v : v = w \o p
          OBVIOUS
        <5>2. v \in Seq(0..10) /\ z \in Seq(0..10) /\ digits \in Seq(0..10)
          BY <4>3, <4>4, <5>1
        <5>3. (v \o z) \o digits = v \o (z \o digits)
          BY ONLY <5>2, ConcatAssociative, SMTT(30)
        <5> QED BY <5>1, <5>3
      <4> QED BY <4>1, <4>2, <4>5 DEF p
    <3> HIDE DEF w, z
    <3>5. /\ f \in Seq(0..9) /\ Len(f) = Len(z) + n
          /\ \A i \in 1..Len(z) : f[i] = z[i]
          /\ \A i \in 1..n : f[Len(z) + i] = digits[i]
      BY <1>1, <3>2, Concatenated
    <3>6. Len(f) = decimals /\ f # <<>>
      BY <1>1, <1>3, <3>1, <3>2, <3>5, EmptySeq
    <3>7. IsNumeral(w)
      BY <3>3 DEF IsNumeral
    <3> HIDE DEF f
    <3>8. Digits(w \o f) = digits
      <4> DEFINE all == w \o f
                 k == decimals - n + 2
                 rest == SubSeq(all, k, Len(all))
      <4>1. /\ all \in Seq(0..9) /\ Len(all) = Len(w) + Len(f)
            /\ \A i \in 1..Len(w) : all[i] = w[i]
            /\ \A i \in 1..Len(f) : all[Len(w) + i] = f[i]
        BY <3>3, <3>5, Concatenated
      <4> HIDE DEF all
      <4>2. Len(all) = decimals + 1 /\ all[1] = 0 /\ \A i \in 1..decimals : all[1 + i] = f[i]
        <5>1. 1 \in 1..Len(w)
          BY <3>3
        <5> QED BY <3>3, <3>6, <4>1, <5>1
      <4>3. \A i \in 1..n : all[k - 1 + i] = digits[i]
        <5> TAKE i \in 1..n
        <5>1. Len(z) + i \in 1..decimals /\ 1 + (Len(z) + i) = k - 1 + i
          BY <1>1, <2>4, <3>2
        <5>2. all[1 + (Len(z) + i)] = f[Len(z) + i]
          BY <4>2, <5>1
        <5> QED BY <3>5, <5>1, <5>2
      <4>4. k \in 1..Len(all) /\ k \in Nat
        BY <1>1, <2>4, <4>2
      <4>5. all[k] # 0
        <5>1. 1 \in 1..n /\ k - 1 + 1 = k
          BY <1>1
        <5>2. all[k - 1 + 1] = digits[1]
          BY <4>3, <5>1
        <5> QED BY <2>1, <5>1, <5>2
      <4>6. \A i \in 1..(k - 1) : all[i] = 0
        <5> TAKE i \in 1..(k - 1)
        <5>1. CASE i = 1
          BY <4>2, <5>1
        <5>2. CASE i # 1
          <6>1. i - 1 \in 1..decimals /\ i - 1 \in 1..(decimals - n) /\ 1 + (i - 1) = i
            BY <1>1, <2>4, <5>2
          <6>2. all[1 + (i - 1)] = f[i - 1]
            BY <4>2, <6>1
          <6>3. f[i - 1] = z[i - 1] /\ z[i - 1] = 0
            BY <3>2, <3>5, <6>1
          <6> QED BY <6>1, <6>2, <6>3
        <5> QED BY <5>1, <5>2
      <4>7. Digits(all) = rest
        BY <4>1, <4>4, <4>5, <4>6, DigitsFrom
      <4>8. rest \in Seq(0..9) /\ Len(rest) = n /\ \A i \in 1..n : rest[i] = all[k - 1 + i]
        <5>1. k \in 1..(Len(all) + 1) /\ Len(all) \in (k - 1)..Len(all) /\ Len(all) - k + 1 = n
          BY <1>1, <2>4, <4>2, <4>4
        <5>2. /\ all \in Seq(0..9) /\ k \in Nat \ {0} /\ Len(all) \in Nat
              /\ k <= Len(all) + 1 /\ Len(all) <= Len(all)
          BY <4>1, <5>1
        <5>3. /\ rest \in Seq(0..9) /\ Len(rest) = Len(all) + 1 - k
              /\ \A i \in 1..(Len(all) + 1 - k) : rest[i] = all[k - 1 + i]
          BY ONLY <5>2, SubSeqOf
        <5> HIDE DEF rest
        <5>4. Len(all) + 1 - k = n
          BY <5>1, <5>2
        <5> QED BY <5>3, <5>4
      <4> HIDE DEF rest
      <4>9. rest = digits
        <5>1. \A i \in 1..n : rest[i] = digits[i]
          BY <4>3, <4>8
        <5> QED BY <1>1, <4>8, <5>1, SeqEqual
      <4> QED BY <4>7, <4>9 DEF all
    <3>9. WritesAmount(TrimEnd(TrimEnd(w \o <<Point>> \o f, 0), Point), digits, decimals)
      BY <3>5, <3>6, <3>7, <3>8, WritesParts
    <3> QED BY <2>2, <3>4, <3>9
  <2> QED BY <1>1, <2>3, <2>4
<1> QED BY <1>2, <1>3

\* Amounts of one number of decimals have different texts.
LEMMA AmountIsInjective ==
  ASSUME NEW digits, IsNumeral(digits), NEW others, IsNumeral(others), NEW decimals \in Nat,
         FormatAmount(digits, decimals) = FormatAmount(others, decimals)
  PROVE  digits = others
BY AmountIsExact DEF WritesAmount
-----------------------------------------------------------------------------
(* The note's text. *)

\* The catalogue is a sequence.
LEMMA PoolsSeq == Len(POOLS) \in Nat /\ DOMAIN POOLS = 1..Len(POOLS)
<1> DEFINE S == Range(SEPOLIA) \cup Range(ETHEREUM_ETHER) \cup Range(ETHEREUM_ERC20) \cup Range(POLYGON)
<1>1. SEPOLIA \in Seq(S)
  BY DEF SEPOLIA, Range
<1>2. ETHEREUM_ETHER \in Seq(S)
  BY DEF ETHEREUM_ETHER, Range
<1>3. ETHEREUM_ERC20 \in Seq(S)
  BY DEF ETHEREUM_ERC20, Range
<1>4. POLYGON \in Seq(S)
  BY DEF POLYGON, Range
<1> HIDE DEF S
<1>5. SEPOLIA \o ETHEREUM_ETHER \in Seq(S)
  BY <1>1, <1>2, ConcatProperties
<1>6. SEPOLIA \o ETHEREUM_ETHER \o ETHEREUM_ERC20 \in Seq(S)
  BY <1>3, <1>5, ConcatProperties
<1>7. POOLS \in Seq(S)
  BY <1>4, <1>6, ConcatProperties DEF POOLS
<1> QED BY <1>7, LenProperties

\* A pool's hints lead to a pool of the catalogue with these hints, if there is one.
LEMMA FromNoteFinds ==
  ASSUME NEW string
  PROVE  /\ FromNote(string) \in Range(POOLS) \cup {NoPool}
         /\ LET Named(p) == p.chainId = string.chainId /\ Symbol(p) = string.symbol /\ Amount(p) = string.amount
            IN  \/ FromNote(string) \in Range(POOLS) /\ Named(FromNote(string))
                \/ FromNote(string) = NoPool /\ \A p \in Range(POOLS) : ~ Named(p)
<1> DEFINE Named(p) == p.chainId = string.chainId /\ Symbol(p) = string.symbol /\ Amount(p) = string.amount
           I == {i \in 1..Len(POOLS) : Named(POOLS[i])}
           k == IF I # {} THEN Min(I) ELSE 0
<1>1. FromNote(string) = IF k = 0 THEN NoPool ELSE POOLS[k]
  BY DEF FromNote, SelectInSeq
<1>2. I \in SUBSET Nat
  BY PoolsSeq
<1> HIDE DEF Named
<1>3. CASE I = {}
  <2>1. FromNote(string) = NoPool
    BY <1>1, <1>3
  <2>2. \A p \in Range(POOLS) : ~ Named(p)
    BY <1>3, PoolsSeq DEF Range
  <2> QED BY <2>1, <2>2 DEF Named
<1>4. CASE I # {}
  <2>1. k = Min(I)
    BY <1>4
  <2> HIDE DEF I, k
  <2>2. PICK least \in I : \A m \in I : least <= m
    BY <1>2, <1>4, LeastOf
  <2>3. k = least
    BY <1>2, <2>1, <2>2, MinIs
  <2>4. k \in 1..Len(POOLS) /\ Named(POOLS[k])
    BY <2>2, <2>3 DEF I
  <2>5. k # 0
    BY <2>4
  <2>6. FromNote(string) = POOLS[k] /\ POOLS[k] \in Range(POOLS)
    BY <1>1, <2>4, <2>5, PoolsSeq DEF Range
  <2> QED BY <2>4, <2>6 DEF Named
<1> QED BY <1>3, <1>4

\* The halves of a note's bits are the note's.
LEMMA Halves ==
  ASSUME NEW note \in Notes
  PROVE  LET bits == Preimage(note)
         IN  /\ bits \in Seq(BOOLEAN) /\ Len(bits) = 2 * SECRET_BITS
             /\ SubSeq(bits, 1, SECRET_BITS) = note.nullifier
             /\ SubSeq(bits, SECRET_BITS + 1, Len(bits)) = note.secret
<1> DEFINE a == note.nullifier
           b == note.secret
           S == SECRET_BITS
           bits == a \o b
           front == SubSeq(bits, 1, S)
           back == SubSeq(bits, S + 1, 2 * S)
<1>1. S \in Nat /\ S >= 1
  BY NotesAssumption
<1>2. a \in [1..S -> BOOLEAN] /\ b \in [1..S -> BOOLEAN]
  BY DEF Notes
<1> HIDE DEF a, b, S
<1>3. a \in Seq(BOOLEAN) /\ b \in Seq(BOOLEAN) /\ Len(a) = S /\ Len(b) = S
  BY <1>1, <1>2
<1>4. /\ bits \in Seq(BOOLEAN) /\ Len(bits) = Len(a) + Len(b)
      /\ \A i \in 1..Len(a) : bits[i] = a[i]
      /\ \A i \in 1..Len(b) : bits[Len(a) + i] = b[i]
  <2>1. a \in Seq(BOOLEAN) /\ b \in Seq(BOOLEAN)
    BY <1>3
  <2> QED BY <2>1, Concatenated
<1>5. Len(bits) = 2 * S
  BY <1>1, <1>3, <1>4
<1> HIDE DEF bits
<1>6. front = a
  <2>1. front \in Seq(BOOLEAN) /\ Len(front) = S /\ \A i \in 1..S : front[i] = bits[i]
    <3>1. 1 \in Int /\ S \in Int /\ \A i \in 1..S : bits[i] \in BOOLEAN
      BY <1>1, <1>4, <1>5
    <3>2. \A i \in 1..S : 1 + i - 1 = i
      BY <1>1
    <3> QED BY <1>1, <3>1, <3>2, SubSeqProperties
  <2>2. \A i \in 1..S : front[i] = a[i]
    BY <1>3, <1>4, <2>1
  <2> QED BY <1>3, <2>1, <2>2, SeqEqual
<1>7. back = b
  <2>1. back \in Seq(BOOLEAN) /\ Len(back) = S /\ \A i \in 1..S : back[i] = bits[S + i]
    <3>1. S + 1 \in Int /\ 2 * S \in Int /\ S + 1 <= 2 * S /\ 2 * S - (S + 1) + 1 = S
      BY <1>1
    <3>2. \A i \in (S + 1)..(2 * S) : bits[i] \in BOOLEAN
      BY <1>1, <1>4, <1>5
    <3>3. \A i \in 1..S : S + 1 + i - 1 = S + i
      BY <1>1
    <3> QED BY <3>1, <3>2, <3>3, SubSeqProperties
  <2>2. \A i \in 1..S : back[i] = b[i]
    BY <1>3, <1>4, <2>1
  <2> QED BY <1>3, <2>1, <2>2, SeqEqual
<1>8. Preimage(note) = bits
  BY DEF Preimage, bits, a, b
<1> QED BY <1>4, <1>5, <1>6, <1>7, <1>8 DEF a, b, S

\* A text with the parts, the tag, a chain and the bits of a note gives the note, and the
\* pool of its hints.
LEMMA ReadGives ==
  ASSUME NEW note \in Notes, NEW text, text.parts = 5, text.tag = "tornado",
         text.chainId # Garbled, text.bits = Preimage(note)
  PROVE  /\ Read(text).error = "none"
         /\ Read(text).note = note
         /\ Read(text).pool = FromNote(FromStr(text))
         /\ Read(text) = [error |-> "none", note |-> note, pool |-> FromNote(FromStr(text))]
<1>1. /\ text.bits \in Seq(BOOLEAN) /\ Len(text.bits) = 2 * SECRET_BITS
      /\ SubSeq(text.bits, 1, SECRET_BITS) = note.nullifier
      /\ SubSeq(text.bits, SECRET_BITS + 1, Len(text.bits)) = note.secret
  BY Halves
<1>2. text.bits # Garbled
  BY <1>1, NotesAssumption
<1>3. ParseError(text) = "none"
  BY <1>1, <1>2 DEF ParseError
<1>4. FromStr(text).note = [nullifier |-> note.nullifier, secret |-> note.secret]
  BY <1>1 DEF FromStr
<1>5. FromStr(text).note = note
  BY <1>4 DEF Notes
<1> QED BY <1>3, <1>5 DEF Read

\* A text that lacks one of them is refused, and names no pool.
LEMMA ReadRefuses ==
  ASSUME NEW text, text.parts \in Nat,
         \/ text.parts # 5 \/ text.tag # "tornado"
         \/ text.chainId = Garbled \/ text.bits = Garbled \/ Len(text.bits) # 2 * SECRET_BITS
  PROVE  /\ Read(text).error \in {"InvalidFormat", "InvalidChainId", "InvalidHex"}
         /\ Read(text).pool = NoPool
<1>1. ParseError(text) \in {"InvalidFormat", "InvalidChainId", "InvalidHex"}
  <2>1. text.parts < 5 \/ text.parts = 5 \/ text.parts > 5
    OBVIOUS
  <2> QED BY <2>1 DEF ParseError
<1>2. Read(text) = [Unread EXCEPT !.error = ParseError(text)]
  BY <1>1 DEF Read
<1> QED BY <1>1, <1>2 DEF Unread

\* A text that names a note's pool is read as the note of its bits, whichever it is, and
\* that pool, if the catalogue has it.
LEMMA ReadNamed ==
  ASSUME NEW b \in Backups, NEW note \in Notes, NEW text,
         text.parts = 5, text.tag = "tornado", text.bits = Preimage(note),
         text.chainId = b.pool.chainId, text.symbol = Symbol(b.pool), text.amount = Amount(b.pool)
  PROVE  Read(text) = [Found(b) EXCEPT !.note = note]
<1> DEFINE string == FromStr(text)
           pool == FromNote(string)
<1>1. b.pool # NoPool /\ text.chainId # Garbled /\ NoPool \notin Range(POOLS)
  BY BackupsAssumption, NotesAssumption
<1>2. Read(text) = [error |-> "none", note |-> note, pool |-> pool]
  BY <1>1, ReadGives
<1>3. string.symbol = Symbol(b.pool) /\ string.amount = Amount(b.pool) /\ string.chainId = b.pool.chainId
  BY DEF FromStr
<1> HIDE DEF string
<1>4. \/ /\ pool \in Range(POOLS)
         /\ pool.chainId = b.pool.chainId /\ Symbol(pool) = Symbol(b.pool) /\ Amount(pool) = Amount(b.pool)
      \/ pool = NoPool /\ b.pool \notin Range(POOLS)
  BY <1>3, FromNoteFinds
<1> HIDE DEF pool
<1>5. pool = IF b.pool \in Range(POOLS) THEN b.pool ELSE NoPool
  <2>1. CASE pool \in Range(POOLS)
    <3>1. pool.chainId = b.pool.chainId /\ Symbol(pool) = Symbol(b.pool) /\ Amount(pool) = Amount(b.pool)
      BY <1>1, <1>4, <2>1
    <3>2. pool = b.pool
      BY <2>1, <3>1, UniquePools
    <3> QED BY <2>1, <3>2
  <2>2. CASE pool \notin Range(POOLS)
    BY <1>4, <2>2
  <2> QED BY <2>1, <2>2
<1> QED BY <1>2, <1>5 DEF Found

\* A note's text, its 0x kept or not, gives what the note was written down for.
LEMMA ReadCopy ==
  ASSUME NEW b \in Backups, NEW text \in Copies(Display(FromPool(b.note, b.pool)))
  PROVE  Read(text) = Found(b)
<1>1. b.note \in Notes
  BY BackupsAssumption
<1>2. /\ text.parts = 5 /\ text.tag = "tornado" /\ text.bits = Preimage(b.note)
      /\ text.chainId = b.pool.chainId /\ text.symbol = Symbol(b.pool) /\ text.amount = Amount(b.pool)
  BY DEF Copies, Display, FromPool
<1>3. Read(text) = [Found(b) EXCEPT !.note = b.note]
  BY <1>1, <1>2, ReadNamed
<1> QED BY <1>3 DEF Found

\* With other digits it gives another note of the same pool.
LEMMA ReadMiscopy ==
  ASSUME NEW b \in Backups, NEW text \in Miscopies(Display(FromPool(b.note, b.pool)))
  PROVE  \E note \in Notes \ {b.note} : Read(text) = [Found(b) EXCEPT !.note = note]
<1> DEFINE written == Display(FromPool(b.note, b.pool))
<1>1. PICK note \in Notes : text = [written EXCEPT !.bits = Preimage(note)] /\ text # written
  BY DEF Miscopies
<1>2. /\ text.parts = 5 /\ text.tag = "tornado" /\ text.bits = Preimage(note)
      /\ text.chainId = b.pool.chainId /\ text.symbol = Symbol(b.pool) /\ text.amount = Amount(b.pool)
  BY <1>1 DEF Display, FromPool
<1>3. note # b.note
  BY <1>1 DEF Display, FromPool
<1>4. Read(text) = [Found(b) EXCEPT !.note = note]
  BY <1>2, ReadNamed
<1> QED BY <1>3, <1>4

\* Altered elsewhere it gives nothing, or the note with another pool or none.
LEMMA ReadAltered ==
  ASSUME NEW b \in Backups, NEW text \in Alterations(Display(FromPool(b.note, b.pool)))
  PROVE  LET r == Read(text)
         IN  /\ r.error \in {"none", "InvalidFormat", "InvalidChainId", "InvalidHex"}
             /\ r.error = "none" =>
                  r.note = b.note /\ r.pool \in Range(POOLS) \cup {NoPool} /\ r.pool # b.pool
             /\ r.error # "none" => r.pool = NoPool
<1> DEFINE written == Display(FromPool(b.note, b.pool))
           r == Read(text)
<1>1. /\ b.note \in Notes /\ b.pool # NoPool /\ b.pool.chainId \in Nat
      /\ Garbled \notin Nat /\ SECRET_BITS \in Nat /\ NoPool \notin Range(POOLS)
  BY BackupsAssumption, NotesAssumption
<1>2. written = [parts |-> 5, tag |-> "tornado", symbol |-> Symbol(b.pool), amount |-> Amount(b.pool),
                 chainId |-> b.pool.chainId, prefixed |-> TRUE, bits |-> Preimage(b.note)]
  BY DEF Display, FromPool
<1>3. Preimage(b.note) \in Seq(BOOLEAN) /\ Len(Preimage(b.note)) = 2 * SECRET_BITS
  BY <1>1, Halves
<1> HIDE DEF written
<1>4. \/ \E chain : text = [written EXCEPT !.chainId = chain] /\ chain # written.chainId
      \/ \E symbol : text = [written EXCEPT !.symbol = symbol] /\ symbol # written.symbol
      \/ \E amount : text = [written EXCEPT !.amount = amount] /\ amount # written.amount
      \/ text \in {[written EXCEPT !.tag = "typhoon"], [written EXCEPT !.bits = Front(@)],
                   [written EXCEPT !.bits = Garbled], [written EXCEPT !.parts = 6],
                   [written EXCEPT !.parts = 4]}
  BY DEF Alterations, written
<1>5. ASSUME text.parts = 5, text.tag = "tornado", text.bits = Preimage(b.note), text.chainId # Garbled,
             \/ text.chainId # b.pool.chainId
             \/ text.symbol # Symbol(b.pool)
             \/ text.amount # Amount(b.pool)
      PROVE  r.error = "none" /\ r.note = b.note /\ r.pool \in Range(POOLS) \cup {NoPool} /\ r.pool # b.pool
  <2> DEFINE string == FromStr(text)
  <2>1. r.error = "none" /\ r.note = b.note /\ r.pool = FromNote(string)
    BY <1>1, <1>5, ReadGives
  <2>2. string.chainId = text.chainId /\ string.symbol = text.symbol /\ string.amount = text.amount
    BY DEF FromStr
  <2> HIDE DEF r, string
  <2>3. \/ FromNote(string) = NoPool
        \/ /\ FromNote(string).chainId = string.chainId /\ Symbol(FromNote(string)) = string.symbol
           /\ Amount(FromNote(string)) = string.amount
    BY FromNoteFinds
  <2>4. FromNote(string) # b.pool
    BY <1>1, <1>5, <2>2, <2>3
  <2>5. FromNote(string) \in Range(POOLS) \cup {NoPool}
    BY FromNoteFinds
  <2> QED BY <2>1, <2>4, <2>5
<1>6. ASSUME text.parts \in Nat,
             \/ text.parts # 5 \/ text.tag # "tornado"
             \/ text.chainId = Garbled \/ text.bits = Garbled
             \/ Len(text.bits) # 2 * SECRET_BITS
      PROVE  r.error \in {"InvalidFormat", "InvalidChainId", "InvalidHex"} /\ r.pool = NoPool
  BY <1>6, ReadRefuses
<1> HIDE DEF r
<1>7. ASSUME NEW chain, text = [written EXCEPT !.chainId = chain], chain # written.chainId
      PROVE  \/ r.error = "none" /\ r.note = b.note /\ r.pool \in Range(POOLS) \cup {NoPool} /\ r.pool # b.pool
             \/ r.error \in {"InvalidFormat", "InvalidChainId", "InvalidHex"} /\ r.pool = NoPool
  <2>1. /\ text.parts = 5 /\ text.tag = "tornado" /\ text.bits = Preimage(b.note)
        /\ text.chainId = chain /\ chain # b.pool.chainId
    BY <1>2, <1>7
  <2>2. CASE chain = Garbled
    BY <1>6, <2>1, <2>2
  <2>3. CASE chain # Garbled
    BY <1>5, <2>1, <2>3
  <2> QED BY <2>2, <2>3
<1>8. ASSUME NEW name, name # written.symbol, text = [written EXCEPT !.symbol = name]
      PROVE  r.error = "none" /\ r.note = b.note /\ r.pool \in Range(POOLS) \cup {NoPool} /\ r.pool # b.pool
  <2>1. /\ text.parts = 5 /\ text.tag = "tornado" /\ text.bits = Preimage(b.note)
        /\ text.chainId = b.pool.chainId /\ text.symbol # Symbol(b.pool)
    BY <1>2, <1>8
  <2> QED BY <1>1, <1>5, <2>1
<1>9. ASSUME NEW amount, amount # written.amount, text = [written EXCEPT !.amount = amount]
      PROVE  r.error = "none" /\ r.note = b.note /\ r.pool \in Range(POOLS) \cup {NoPool} /\ r.pool # b.pool
  <2>1. /\ text.parts = 5 /\ text.tag = "tornado" /\ text.bits = Preimage(b.note)
        /\ text.chainId = b.pool.chainId /\ text.amount # Amount(b.pool)
    BY <1>2, <1>9
  <2> QED BY <1>1, <1>5, <2>1
<1>10. ASSUME text \in {[written EXCEPT !.tag = "typhoon"], [written EXCEPT !.bits = Front(@)],
                        [written EXCEPT !.bits = Garbled], [written EXCEPT !.parts = 6],
                        [written EXCEPT !.parts = 4]}
       PROVE  r.error \in {"InvalidFormat", "InvalidChainId", "InvalidHex"} /\ r.pool = NoPool
  <2>1. Len(Front(Preimage(b.note))) # 2 * SECRET_BITS
    <3> DEFINE bits == Preimage(b.note)
    <3>1. 2 * SECRET_BITS \in Nat /\ 2 * SECRET_BITS >= 1
      BY NotesAssumption
    <3> HIDE DEF bits
    <3>2. \A n \in Nat : n >= 1 => \A s \in Seq(BOOLEAN) : Len(s) = n => Len(SubSeq(s, 1, n - 1)) # n
      OBVIOUS
    <3> QED BY <1>3, <3>1, <3>2 DEF Front, bits
  <2>2. /\ text.parts \in Nat
        /\ \/ text.parts # 5 \/ text.tag # "tornado" \/ text.bits = Garbled
           \/ text.bits = Front(Preimage(b.note))
    BY <1>2, <1>10
  <2> QED BY <1>6, <2>1, <2>2
<1>11. \/ r.error = "none" /\ r.note = b.note /\ r.pool \in Range(POOLS) \cup {NoPool} /\ r.pool # b.pool
       \/ r.error \in {"InvalidFormat", "InvalidChainId", "InvalidHex"} /\ r.pool = NoPool
  BY <1>4, <1>7, <1>8, <1>9, <1>10
<1> QED BY <1>11 DEF r
-----------------------------------------------------------------------------
(* The quote. *)

\* A quotient is rounded down.
LEMMA Division ==
  ASSUME NEW a \in Nat, NEW b \in Nat \ {0}
  PROVE  /\ a \div b \in Nat
         /\ (a \div b) * b <= a
         /\ a < (a \div b + 1) * b
<1>1. PICK q \in Int, r \in 0..(b - 1) : a = b * q + r /\ q = a \div b
  <2>1. a % b \in 0..(b - 1) /\ a \div b \in Int /\ a = (b * (a \div b)) + (a % b)
    OBVIOUS
  <2> QED BY <2>1
<1>2. q >= 0
  <2> SUFFICES ASSUME q <= -1 PROVE FALSE
    BY <1>1
  <2>1. b * q <= b * (-1)
    BY <1>1
  <2> QED BY <1>1, <2>1
<1>3. b * q = q * b /\ (q + 1) * b = q * b + b
  BY <1>1
<1> QED BY <1>1, <1>2, <1>3

\* A product of numbers is a number, and with a positive one it is no less.
LEMMA Products ==
  ASSUME NEW a \in Nat, NEW b \in Nat
  PROVE  a * b \in Nat /\ (b >= 1 => a * b >= a)
OBVIOUS

\* The relayer's share, for its fee and the pool's amount: a quotient rounded down.
LEMMA ShareIs ==
  ASSUME NEW status \in RelayerStatuses, NEW pool \in Range(POOLS)
  PROVE  LET share == FeePercent(status, pool)
             amount == Units(pool) * FeeScaled(status.serviceFee)
         IN  /\ share \in Nat /\ amount \in Nat
             /\ share * FEE_PRECISION <= amount
             /\ amount < (share + 1) * FEE_PRECISION
<1> DEFINE rate == FeeScaled(status.serviceFee)
           amount == Units(pool) * rate
<1>1. rate \in Nat
  BY WidthsAssumption, QuoteAssumption DEF FeeScaled
<1>2. Units(pool) \in Nat
  BY WidthsAssumption
<1> HIDE DEF rate
<1>3. amount \in Nat
  BY <1>1, <1>2, Products
<1>4. FeePercent(status, pool) = amount \div FEE_PRECISION
  BY DEF FeePercent, rate
<1> HIDE DEF amount
<1>5. FEE_PRECISION \in Nat \ {0}
  BY QuoteAssumption
<1> QED BY <1>3, <1>4, <1>5, Division DEF amount, rate

\* The gas and refund are a number, whose product with the scale is no less.
LEMMA OwedIs ==
  ASSUME NEW pool \in Range(POOLS), NEW gasPrice \in GasPrices, NEW refund \in Refunds
  PROVE  LET sum == Expense(gasPrice) + refund
         IN  /\ Expense(gasPrice) \in Nat /\ refund \in Nat /\ sum \in Nat
             /\ sum * Scale(pool) \in Nat /\ sum * Scale(pool) >= sum
<1> DEFINE sum == Expense(gasPrice) + refund
<1>1. gasPrice \in Nat /\ refund \in Nat /\ WITHDRAWAL_GAS \in Nat
      /\ Scale(pool) \in Nat /\ Scale(pool) >= 1
  BY WidthsAssumption, QuoteAssumption
<1>2. Expense(gasPrice) \in Nat
  BY <1>1, Products DEF Expense
<1>3. sum \in Nat
  BY <1>1, <1>2
<1> HIDE DEF sum
<1>4. sum * Scale(pool) \in Nat /\ sum * Scale(pool) >= sum
  BY <1>1, <1>3, Products
<1> QED BY <1>1, <1>2, <1>3, <1>4 DEF sum

\* A number below WORD is not wrapped.
LEMMA NotWrapped == ASSUME NEW n \in Nat, n < WORD PROVE Wrapped(n) = n
<1>1. WORD \in Nat \ {0}
  BY QuoteAssumption
<1> QED BY <1>1 DEF Wrapped

\* What the formula owes costs this in the token, if it does not overflow.
LEMMA CostIs ==
  ASSUME NEW status \in RelayerStatuses, NEW pool \in Range(POOLS), HasPrice(status, pool),
         NEW sum \in Nat, sum * Scale(pool) \in Nat, sum * Scale(pool) < WORD
  PROVE  LET cost == InToken(sum, status, pool)
             price == status.ethPrices[Symbol(pool)]
         IN  /\ cost = (sum * Scale(pool)) \div price
             /\ cost \in Nat
             /\ cost * price <= sum * Scale(pool)
             /\ sum * Scale(pool) < (cost + 1) * price
<1> DEFINE owed == sum * Scale(pool)
           price == status.ethPrices[Symbol(pool)]
<1>1. price \in Nat \ {0}
  BY WidthsAssumption DEF HasPrice
<1>2. owed \in Nat /\ owed < WORD
  OBVIOUS
<1>3. InToken(sum, status, pool) = Wrapped(owed) \div price
  BY DEF InToken
<1> HIDE DEF owed, price
<1>4. InToken(sum, status, pool) = owed \div price
  BY <1>2, <1>3, NotWrapped
<1> QED BY <1>1, <1>2, <1>4, Division DEF owed, price

\* A fee that is a share and a cost, as the formula has them, is the fee.
LEMMA FeeIs ==
  ASSUME NEW status \in RelayerStatuses, NEW pool \in Range(POOLS), pool.asset.native \in BOOLEAN,
         NEW gasPrice \in GasPrices, NEW refund \in Refunds, NEW cost \in Nat,
         LET owed == (Expense(gasPrice) + refund) * Scale(pool)
             price == status.ethPrices[Symbol(pool)]
         IN  IF pool.asset.native THEN cost = Expense(gasPrice)
             ELSE cost * price <= owed /\ owed < (cost + 1) * price
  PROVE  IsFee(cost + FeePercent(status, pool), status, pool, gasPrice, refund)
<1> DEFINE share == FeePercent(status, pool)
           rate == FeeScaled(status.serviceFee)
           fee == cost + share
<1>1. /\ share \in Nat
      /\ share * FEE_PRECISION <= Units(pool) * rate
      /\ Units(pool) * rate < (share + 1) * FEE_PRECISION
  BY ShareIs
<1> HIDE DEF share
<1>2. share \in 0..fee /\ fee - share = cost
  BY <1>1
<1> HIDE DEF fee
<1>3. IsFee(fee, status, pool, gasPrice, refund)
  BY <1>1, <1>2 DEF IsFee
<1> QED BY <1>3 DEF fee, share

\* A product that wraps or a sum that does, and nothing else, is an overflow.
LEMMA OverflowIs ==
  ASSUME NEW status \in RelayerStatuses, NEW pool \in Range(POOLS), HasPrice(status, pool),
         NEW gasPrice \in GasPrices, NEW refund \in Refunds
  PROVE  LET sum == Expense(gasPrice) + refund
             owed == sum * Scale(pool)
             due == owed \div status.ethPrices[Symbol(pool)] + FeePercent(status, pool)
         IN  /\ Overflows(status, pool, sum) => owed >= WORD \/ due >= WORD
             /\ ~ Overflows(status, pool, sum) => sum < WORD /\ owed < WORD /\ due < WORD
<1> DEFINE sum == Expense(gasPrice) + refund
           owed == sum * Scale(pool)
           cost == owed \div status.ethPrices[Symbol(pool)]
           share == FeePercent(status, pool)
<1>1. sum \in Nat /\ owed \in Nat /\ owed >= sum
  BY OwedIs
<1>2. share \in Nat
  BY ShareIs
<1>3. WORD \in Nat /\ Scale(pool) \in Nat /\ Scale(pool) < WORD
  BY WidthsAssumption, QuoteAssumption
<1>4. owed < WORD => InToken(sum, status, pool) = cost /\ cost \in Nat
  <2> HIDE DEF sum
  <2> QED BY <1>1, CostIs
<1>5. Overflows(status, pool, sum) <=>
        \/ sum >= WORD \/ Scale(pool) >= WORD \/ owed >= WORD
        \/ InToken(sum, status, pool) + share >= WORD
  BY DEF Overflows
<1> HIDE DEF sum, owed, cost, share
<1>6. Overflows(status, pool, sum) => owed >= WORD \/ cost + share >= WORD
  BY <1>1, <1>3, <1>4, <1>5
<1>7. ~ Overflows(status, pool, sum) => sum < WORD /\ owed < WORD /\ cost + share < WORD
  BY <1>1, <1>2, <1>3, <1>4, <1>5
<1> QED BY <1>6, <1>7 DEF sum, owed, cost, share

\* Whatever is quoted, the fee is the formula's and a word holds it, and it is refused as
\* overflowing only if it would not.
LEMMA QuoteIs ==
  ASSUME NEW status \in RelayerStatuses, NEW pool \in Range(POOLS), pool.asset.native \in BOOLEAN,
         NEW gasPrice \in GasPrices, NEW refund \in Refunds
  PROVE  LET p == Quote(status, pool, gasPrice, refund)
             owed == (Expense(gasPrice) + refund) * Scale(pool)
         IN  /\ p.fee \in 0..(WORD - 1) /\ p.refund \in 0..(WORD - 1)
             /\ p.error = "none" => /\ p.address \in Addresses
                                    /\ IsFee(p.fee, status, pool, gasPrice, refund)
             /\ p.error = "QuoteOverflow" =>
                  \/ owed >= WORD
                  \/ owed \div status.ethPrices[Symbol(pool)] + FeePercent(status, pool) >= WORD
<1> DEFINE p == Quote(status, pool, gasPrice, refund)
           sum == Expense(gasPrice) + refund
           owed == sum * Scale(pool)
           cost == owed \div status.ethPrices[Symbol(pool)]
           share == FeePercent(status, pool)
           Good(q) == /\ q.fee \in 0..(WORD - 1) /\ q.refund \in 0..(WORD - 1)
                      /\ q.error = "none" => /\ q.address \in Addresses
                                             /\ IsFee(q.fee, status, pool, gasPrice, refund)
                      /\ q.error = "QuoteOverflow" => owed >= WORD \/ cost + share >= WORD
<1> SUFFICES Good(p)
  OBVIOUS
<1>1. /\ Expense(gasPrice) \in Nat /\ sum \in Nat /\ owed \in Nat
      /\ share \in Nat /\ Expense(gasPrice) + share < WORD
  BY OwedIs, ShareIs, WidthsAssumption
<1>2. WORD \in Nat /\ WORD >= 1 /\ refund \in 0..(WORD - 1) /\ status.rewardAccount \in Addresses
  BY WidthsAssumption, QuoteAssumption DEF Addresses
<1>3. Good(Refused("UnsupportedPool"))
  BY <1>2 DEF Refused
<1>4. owed >= WORD \/ cost + share >= WORD => Good(Refused("QuoteOverflow"))
  BY <1>2 DEF Refused
<1>5. ASSUME NEW fee \in 0..(WORD - 1), IsFee(fee, status, pool, gasPrice, refund)
      PROVE  Good(Payer(status.rewardAccount, fee, refund))
  BY <1>2, <1>5 DEF Payer
<1>6. CASE pool.asset.native
  <2>1. IsFee(Expense(gasPrice) + share, status, pool, gasPrice, refund)
    BY <1>1, <1>6, FeeIs
  <2>2. Wrapped(Expense(gasPrice) + share) = Expense(gasPrice) + share
    BY <1>1, NotWrapped
  <2>3. Expense(gasPrice) + share \in 0..(WORD - 1)
    BY <1>1, <1>2
  <2> HIDE DEF share, Good
  <2>4. Good(Payer(status.rewardAccount, Wrapped(Expense(gasPrice) + share), refund))
    BY <1>5, <2>1, <2>2, <2>3
  <2>5. p \in {Refused("UnsupportedPool"),
               Payer(status.rewardAccount, Wrapped(Expense(gasPrice) + share), refund)}
    BY <1>6 DEF Quote, share
  <2> QED BY <1>3, <2>4, <2>5
<1>7. CASE ~ pool.asset.native /\ HasPrice(status, pool)
  <2>1. CASE Overflows(status, pool, sum)
    <3>1. Good(Refused("QuoteOverflow"))
      BY <1>4, <1>7, <2>1, OverflowIs
    <3>2. p \in {Refused("UnsupportedPool"), Refused("QuoteOverflow")}
      BY <1>7, <2>1 DEF Quote
    <3> HIDE DEF Good
    <3> QED BY <1>3, <3>1, <3>2
  <2>2. CASE ~ Overflows(status, pool, sum)
    <3>1. sum < WORD /\ owed < WORD /\ cost + share < WORD
      BY <1>7, <2>2, OverflowIs
    <3>2. Wrapped(sum) = sum
      BY <1>1, <3>1, NotWrapped
    <3> DEFINE price == status.ethPrices[Symbol(pool)]
    <3>3. InToken(sum, status, pool) = cost /\ cost \in Nat
          /\ cost * price <= owed /\ owed < (cost + 1) * price
      <4> HIDE DEF sum
      <4> QED BY <1>1, <1>7, <3>1, CostIs
    <3>4. IsFee(cost + share, status, pool, gasPrice, refund)
      <4> HIDE DEF cost, share
      <4> QED BY <1>7, <3>3, FeeIs DEF share
    <3>5. p \in {Refused("UnsupportedPool"),
                 Payer(status.rewardAccount, Wrapped(InToken(Wrapped(sum), status, pool) + share), refund)}
      BY <1>7, <2>2 DEF Quote
    <3> HIDE DEF cost, share, sum, Good
    <3>6. cost + share \in 0..(WORD - 1) /\ Wrapped(cost + share) = cost + share
      BY <1>1, <1>2, <3>1, <3>3, NotWrapped
    <3>7. Good(Payer(status.rewardAccount, Wrapped(InToken(Wrapped(sum), status, pool) + share), refund))
      BY <1>5, <3>2, <3>3, <3>4, <3>6
    <3> QED BY <1>3, <3>5, <3>7
  <2> QED BY <2>1, <2>2
<1>8. CASE ~ pool.asset.native /\ ~ HasPrice(status, pool)
  <2>1. p = Refused("UnsupportedPool")
    BY <1>8 DEF Quote
  <2> QED BY <1>3, <2>1
<1> QED BY <1>6, <1>7, <1>8
-----------------------------------------------------------------------------
(* Recursive functions and division. *)

\* A function given by its first value and the step from each value to the next.
Solves(f, d, V, a, step) ==
  /\ f \in [0..d -> V]
  /\ f[0] = a
  /\ \A l \in 1..d : f[l] = step[l][f[l - 1]]

\* There is such a function.
LEMMA Recursion ==
  ASSUME NEW V, NEW a \in V, NEW d \in Nat, NEW step \in [1..d -> [V -> V]]
  PROVE  \E f : Solves(f, d, V, a, step)
<1> DEFINE T == {n \in 0..d : ~ \E f : Solves(f, n, V, a, step)}
<1>1. SUFFICES ASSUME T # {} PROVE FALSE
  <2>1. T = {} => \A n \in 0..d : \E f : Solves(f, n, V, a, step)
    OBVIOUS
  <2>2. d \in 0..d
    OBVIOUS
  <2>3. QED BY <2>1, <2>2
<1>2. PICK n \in T : \A m \in T : n <= m
  <2>1. T \in SUBSET Nat
    OBVIOUS
  <2> HIDE DEF T
  <2>2. QED BY <1>1, <2>1, LeastOf
<1>3. CASE n = 0
  <2>1. Solves([l \in 0..0 |-> a], 0, V, a, step)
    BY DEF Solves
  <2>2. QED BY <2>1, <1>3, <1>2
<1>4. CASE n # 0
  <2>1. n - 1 \in 0..d /\ n \in 1..d /\ n - 1 \notin T
    BY <1>2, <1>4
  <2>2. PICK f : Solves(f, n - 1, V, a, step)
    BY <2>1
  <2> DEFINE g == [l \in 0..n |-> IF l < n THEN f[l] ELSE step[n][f[n - 1]]]
  <2>3. f[n - 1] \in V /\ step[n] \in [V -> V]
    BY <2>1, <2>2 DEF Solves
  <2>4. g \in [0..n -> V]
    BY <2>1, <2>2, <2>3 DEF Solves
  <2>5. g[0] = a
    BY <2>1, <2>2 DEF Solves
  <2>6. ASSUME NEW l \in 1..n PROVE g[l] = step[l][g[l - 1]]
    BY <2>1, <2>2 DEF Solves
  <2>7. Solves(g, n, V, a, step)
    <3> HIDE DEF g
    <3> QED BY <2>4, <2>5, <2>6 DEF Solves
  <2>8. QED BY <2>7, <1>2
<1>5. QED BY <1>3, <1>4

\* Functions that agree at first and from each step to the next are the same.
LEMMA SameByLevel ==
  ASSUME NEW d \in Nat, NEW f, NEW g,
         f[0] = g[0], \A l \in 1..d : f[l - 1] = g[l - 1] => f[l] = g[l]
  PROVE  \A l \in 0..d : f[l] = g[l]
<1> DEFINE T == {n \in 0..d : f[n] # g[n]}
<1>1. SUFFICES ASSUME T # {} PROVE FALSE
  <2>1. T = {} => \A n \in 0..d : f[n] = g[n]
    OBVIOUS
  <2>2. QED BY <2>1
<1>2. PICK n \in T : \A m \in T : n <= m
  <2>1. T \in SUBSET Nat
    OBVIOUS
  <2> HIDE DEF T
  <2>2. QED BY <1>1, <2>1, LeastOf
<1>3. n \in 1..d /\ n - 1 \in 0..d /\ n - 1 \notin T
  BY <1>2
<1>4. QED BY <1>2, <1>3

\* Two functions begin alike, and agree at a level where they do below it.
Follow(f, g, d) == f[0] = g[0] /\ \A l \in 1..d : f[l - 1] = g[l - 1] => f[l] = g[l]

Alike(f, g, d) == \A l \in 0..d : f[l] = g[l]

\* Then they are alike: the fact above, without a quantifier for a prover to unfold.
LEMMA FollowAlike ==
  ASSUME NEW d \in Nat, NEW f, NEW g, Follow(f, g, d)
  PROVE  Alike(f, g, d)
<1>1. f[0] = g[0] /\ \A l \in 1..d : f[l - 1] = g[l - 1] => f[l] = g[l]
  BY DEF Follow
<1> QED BY <1>1, SameByLevel DEF Alike

\* Division with remainder.
LEMMA ModBounds ==
  ASSUME NEW a \in Nat, NEW p \in Nat \ {0}
  PROVE  /\ a \div p \in Nat /\ a % p \in 0..(p - 1)
         /\ a = p * (a \div p) + (a % p)
OBVIOUS

\* There is one quotient and one remainder.
LEMMA DivUnique ==
  ASSUME NEW p \in Nat \ {0}, NEW w \in Nat, NEW v \in 0..(p - 1)
  PROVE  (p * w + v) \div p = w /\ (p * w + v) % p = v
<1> DEFINE a == p * w + v  q == a \div p  r == a % p
<1>1. p * w \in Nat
  OBVIOUS
<1>2. a \in Nat
  BY <1>1
<1>3. q \in Nat /\ r \in 0..(p - 1) /\ a = p * q + r
  BY <1>2, ModBounds
<1>4. p * w + v = p * q + r
  BY <1>3
<1> HIDE DEF a, q
<1>5. \A x, y \in Nat : x < y => p * x + p <= p * y
  <2>1. \A x, d \in Nat : p * (x + 1 + d) = p * x + p + p * d /\ p * d >= 0
    OBVIOUS
  <2>2. \A x, y \in Nat : x < y => y - x - 1 \in Nat /\ y = x + 1 + (y - x - 1)
    OBVIOUS
  <2>3. \A x \in Nat : p * x \in Nat
    OBVIOUS
  <2> QED
    BY <2>1, <2>2, <2>3
<1>6. q = w
  <2> HIDE DEF r
  <2>1. p * w \in Nat /\ p * q \in Nat
    BY <1>3
  <2>2. ~ (q < w) /\ ~ (w < q)
    BY <1>3, <1>4, <1>5, <2>1
  <2> QED
    BY <1>3, <2>2
<1> QED
  BY <1>1, <1>3, <1>4, <1>6 DEF a, q, r
-----------------------------------------------------------------------------
(* The field. *)

\* Whole numbers that the field does not tell apart.
Cong(a, b) == \E k \in Int : a = b + k * Q

\* The field has more than two elements, among them zero, one and the curve's coefficients.
LEMMA FieldIs == Q \in Nat /\ Q > 2 /\ Fr = 0..(Q - 1) /\ Fr \subseteq Int /\ 0 \in Fr /\ 1 \in Fr /\ A \in Fr /\ D \in Fr
<1>1. Q \in Nat /\ Q % 2 = 1 /\ \E r \in Fr \ {0} : TRUE
  BY CurveAssumption
<1>2. Q > 1
  BY <1>1 DEF Fr
<1>3. Q # 2
  BY <1>1
<1>4. A \in Fr /\ D \in Fr
  BY <1>1, <1>2 DEF A, D, Fr
<1> QED BY <1>1, <1>2, <1>3, <1>4 DEF Fr

\* It is an equivalence.
LEMMA CongRefl == \A a \in Int : Cong(a, a)
<1> TAKE a \in Int
<1>1. a = a + 0 * Q
  BY FieldIs
<1> QED BY <1>1 DEF Cong

\* Of two numbers in either order.
LEMMA CongSym == \A a, b \in Int : Cong(a, b) => Cong(b, a)
<1> SUFFICES ASSUME NEW a \in Int, NEW b \in Int, Cong(a, b) PROVE Cong(b, a)
  OBVIOUS
<1>1. PICK k \in Int : a = b + k * Q
  BY DEF Cong
<1>2. b = a + (-k) * Q /\ -k \in Int
  BY <1>1, FieldIs
<1> QED BY <1>2 DEF Cong

\* Along a third number.
LEMMA CongTrans == \A a, b, c \in Int : Cong(a, b) /\ Cong(b, c) => Cong(a, c)
<1> SUFFICES ASSUME NEW a \in Int, NEW b \in Int, NEW c \in Int, Cong(a, b), Cong(b, c) PROVE Cong(a, c)
  OBVIOUS
<1>1. PICK k \in Int : a = b + k * Q
  BY DEF Cong
<1>2. PICK m \in Int : b = c + m * Q
  BY DEF Cong
<1>3. a = c + (k + m) * Q /\ k + m \in Int
  BY <1>1, <1>2, FieldIs
<1> QED BY <1>3 DEF Cong

\* Sums respect it.
LEMMA CongPlus == \A a, b, c, d \in Int : Cong(a, b) /\ Cong(c, d) => Cong(a + c, b + d)
<1> SUFFICES ASSUME NEW a \in Int, NEW b \in Int, NEW c \in Int, NEW d \in Int, Cong(a, b), Cong(c, d)
             PROVE Cong(a + c, b + d)
  OBVIOUS
<1>1. PICK k \in Int : a = b + k * Q
  BY DEF Cong
<1>2. PICK m \in Int : c = d + m * Q
  BY DEF Cong
<1>3. a + c = (b + d) + (k + m) * Q /\ k + m \in Int
  BY <1>1, <1>2, FieldIs
<1> QED BY <1>3 DEF Cong

\* So do differences.
LEMMA CongMinus == \A a, b, c, d \in Int : Cong(a, b) /\ Cong(c, d) => Cong(a - c, b - d)
<1> SUFFICES ASSUME NEW a \in Int, NEW b \in Int, NEW c \in Int, NEW d \in Int, Cong(a, b), Cong(c, d)
             PROVE Cong(a - c, b - d)
  OBVIOUS
<1>1. PICK k \in Int : a = b + k * Q
  BY DEF Cong
<1>2. PICK m \in Int : c = d + m * Q
  BY DEF Cong
<1>3. a - c = (b - d) + (k - m) * Q /\ k - m \in Int
  BY <1>1, <1>2, FieldIs
<1> QED BY <1>3 DEF Cong

\* So do products.
LEMMA CongTimes == \A a, b, c, d \in Int : Cong(a, b) /\ Cong(c, d) => Cong(a * c, b * d)
<1> SUFFICES ASSUME NEW a \in Int, NEW b \in Int, NEW c \in Int, NEW d \in Int, Cong(a, b), Cong(c, d)
             PROVE Cong(a * c, b * d)
  OBVIOUS
<1>1. PICK k \in Int : a = b + k * Q
  BY DEF Cong
<1>2. PICK m \in Int : c = d + m * Q
  BY DEF Cong
<1>3. a * c = (b * d) + (k * d + m * b + k * m * Q) * Q /\ k * d + m * b + k * m * Q \in Int
  BY <1>1, <1>2, FieldIs
<1> QED BY <1>3 DEF Cong

\* What an operation of the field answers is what it answers of whole numbers.
LEMMA ModIs == \A n \in Int : n % Q \in Fr /\ Cong(n % Q, n)
<1> TAKE n \in Int
<1>1. n % Q \in Fr /\ n = Q * (n \div Q) + (n % Q) /\ n \div Q \in Int
  BY FieldIs
<1>2. n % Q = n + (-(n \div Q)) * Q
  BY <1>1, FieldIs
<1>3. -(n \div Q) \in Int
  BY <1>1
<1> QED BY <1>1, <1>2, <1>3 DEF Cong

\* It tells all elements of the field apart.
LEMMA CongSame == \A a, b \in Fr : Cong(a, b) => a = b
<1> SUFFICES ASSUME NEW a \in Fr, NEW b \in Fr, Cong(a, b) PROVE a = b
  OBVIOUS
<1>1. PICK k \in Int : a = b + k * Q
  BY DEF Cong
<1>2. a \in 0..(Q - 1) /\ b \in 0..(Q - 1) /\ Q \in Nat /\ Q > 0
  BY FieldIs
<1>3. k >= 1 => k * Q >= Q
  BY <1>2
<1>4. k <= -1 => k * Q <= -Q
  BY <1>2
<1>5. k = 0
  BY <1>1, <1>2, <1>3, <1>4
<1> QED BY <1>1, <1>2, <1>5

\* A remainder does not depend on which of them it is taken of.
LEMMA CongMod == \A a, b \in Int : Cong(a, b) => a % Q = b % Q
<1> SUFFICES ASSUME NEW a \in Int, NEW b \in Int, Cong(a, b) PROVE a % Q = b % Q
  OBVIOUS
<1>1. a % Q \in Fr /\ b % Q \in Fr /\ Cong(a % Q, a) /\ Cong(b % Q, b)
  BY ModIs
<1>2. a % Q \in Int /\ b % Q \in Int
  BY <1>1, FieldIs
<1>3. Cong(a % Q, b % Q)
  BY <1>1, <1>2, CongSym, CongTrans
<1> QED BY <1>1, <1>3, CongSame

\* The same, where one of the numbers is 0 or 1.
LEMMA CongZero == \A a, b \in Int : Cong(b, 0) => Cong(a * b, 0) /\ Cong(b * a, 0)
<1> SUFFICES ASSUME NEW a \in Int, NEW b \in Int, Cong(b, 0) PROVE Cong(a * b, 0) /\ Cong(b * a, 0)
  OBVIOUS
<1>1. PICK k \in Int : b = 0 + k * Q
  BY DEF Cong
<1>2. a * b = 0 + (a * k) * Q /\ b * a = 0 + (a * k) * Q /\ a * k \in Int
  BY <1>1, FieldIs
<1> QED BY <1>2 DEF Cong

\* The two denominators of the group law.
LEMMA CongOne ==
  ASSUME NEW b \in Int, NEW d \in Int, Cong(b, d)
  PROVE  /\ (1 + b) % Q \in Fr /\ Cong((1 + b) % Q, 1 + d)
         /\ Minus(1, b) \in Fr /\ Cong(Minus(1, b), 1 - d)
<1>1. PICK k \in Int : b = d + k * Q
  BY DEF Cong
<1>2. 1 + b = (1 + d) + k * Q /\ 1 - b = (1 - d) + (-k) * Q /\ -k \in Int
  BY <1>1, FieldIs
<1>3. Cong(1 + b, 1 + d) /\ Cong(1 - b, 1 - d)
  BY <1>2 DEF Cong
<1> DEFINE m == 1 + b  n == 1 - b  mm == 1 + d  nn == 1 - d
<1>4. m \in Int /\ n \in Int /\ mm \in Int /\ nn \in Int
  OBVIOUS
<1>5. m % Q \in Fr /\ Cong(m % Q, mm) /\ n % Q \in Fr /\ Cong(n % Q, nn)
  <2>1. Cong(m, mm) /\ Cong(n, nn)
    BY <1>3
  <2> HIDE DEF m, n, mm, nn
  <2>2. m % Q \in Fr /\ Cong(m % Q, m) /\ n % Q \in Fr /\ Cong(n % Q, n)
    BY <1>4, ModIs
  <2>3. m % Q \in Int /\ n % Q \in Int
    BY <2>2, FieldIs
  <2> QED BY <1>4, <2>1, <2>2, <2>3, CongTrans
<1> QED BY <1>5 DEF Minus

\* The code's product is one, in the field.
LEMMA TimesIs ==
  ASSUME NEW a \in Int, NEW b \in Int, NEW c \in Int, NEW d \in Int, Cong(a, c), Cong(b, d)
  PROVE  Times(a, b) \in Fr /\ Times(a, b) \in Int /\ Cong(Times(a, b), c * d)
<1>1. a * b \in Int /\ c * d \in Int
  OBVIOUS
<1>2. Times(a, b) \in Fr /\ Cong(Times(a, b), a * b)
  BY <1>1, ModIs DEF Times
<1>3. Times(a, b) \in Int
  BY <1>2, FieldIs
<1>4. Cong(a * b, c * d)
  BY CongTimes
<1> QED BY <1>1, <1>2, <1>3, <1>4, CongTrans

\* Its difference is one.
LEMMA MinusIs ==
  ASSUME NEW a \in Int, NEW b \in Int, NEW c \in Int, NEW d \in Int, Cong(a, c), Cong(b, d)
  PROVE  Minus(a, b) \in Fr /\ Minus(a, b) \in Int /\ Cong(Minus(a, b), c - d)
<1>1. a - b \in Int /\ c - d \in Int
  OBVIOUS
<1>2. Minus(a, b) \in Fr /\ Cong(Minus(a, b), a - b)
  BY <1>1, ModIs DEF Minus
<1>3. Minus(a, b) \in Int
  BY <1>2, FieldIs
<1>4. Cong(a - b, c - d)
  BY CongMinus
<1> QED BY <1>1, <1>2, <1>3, <1>4, CongTrans

\* And its sum.
LEMMA PlusIs ==
  ASSUME NEW a \in Int, NEW b \in Int, NEW c \in Int, NEW d \in Int, Cong(a, c), Cong(b, d)
  PROVE  (a + b) % Q \in Fr /\ (a + b) % Q \in Int /\ Cong((a + b) % Q, c + d)
<1>1. a + b \in Int /\ c + d \in Int
  OBVIOUS
<1>2. (a + b) % Q \in Fr /\ Cong((a + b) % Q, a + b)
  BY <1>1, ModIs
<1>3. (a + b) % Q \in Int
  BY <1>2, FieldIs
<1>4. Cong(a + b, c + d)
  BY CongPlus
<1> QED BY <1>1, <1>2, <1>3, <1>4, CongTrans

\* Every number but 0 has an inverse, by which it is cancelled.
LEMMA InverseIs ==
  ASSUME NEW z \in Fr \ {0}
  PROVE  Inverses[z] \in Fr /\ Inverses[z] \in Int /\ Cong(z * Inverses[z], 1)
<1> DEFINE w == Inverses[z]
<1>1. w \in Fr /\ Times(z, w) = 1
  BY CurveAssumption DEF Inverses
<1>2. z \in Int /\ w \in Int
  BY <1>1, FieldIs
<1> HIDE DEF w
<1>3. z * w \in Int
  BY <1>2
<1>4. Cong((z * w) % Q, z * w)
  BY <1>3, ModIs
<1>5. Cong(1, z * w)
  BY <1>1, <1>4 DEF Times
<1>6. Cong(z * w, 1)
  BY <1>3, <1>5, CongSym
<1> QED BY <1>1, <1>2, <1>6 DEF w

\* What is no zero can be divided by.
LEMMA Cancel ==
  ASSUME NEW a \in Int, NEW b \in Int, NEW z \in Int, Cong(a * z, b * z), ~ Cong(z, 0)
  PROVE  Cong(a, b)
<1> DEFINE y == z % Q
<1>1. y \in Fr /\ Cong(y, z)
  BY ModIs
<1>2. y # 0
  <2>1. y = 0 => Cong(z, 0)
    BY <1>1, CongSym
  <2> QED BY <2>1
<1> DEFINE w == Inverses[y]
<1>3. w \in Int /\ Cong(y * w, 1) /\ y \in Int
  BY <1>1, <1>2, InverseIs, FieldIs
<1> HIDE DEF y, w
<1>4. Cong(z * w, 1)
  <2>1. Cong(z, y) /\ Cong(w, w)
    BY <1>1, <1>3, CongSym, CongRefl
  <2>2. Cong(z * w, y * w)
    BY <2>1, <1>3, CongTimes
  <2>3. z * w \in Int /\ y * w \in Int
    BY <1>3
  <2> QED BY <2>2, <2>3, <1>3, CongTrans
<1>5. \A c \in Int : Cong((c * z) * w, c)
  <2> TAKE c \in Int
  <2>1. z * w \in Int /\ Cong(c, c)
    BY <1>3, CongRefl
  <2>2. Cong(c * (z * w), c * 1)
    BY <2>1, <1>4, CongTimes
  <2>3. (c * z) * w = c * (z * w) /\ c * 1 = c
    BY <1>3
  <2> QED BY <2>2, <2>3
<1>6. a * z \in Int /\ b * z \in Int
  OBVIOUS
<1>7. Cong((a * z) * w, (b * z) * w)
  BY <1>3, <1>6, CongTimes, CongRefl
<1>8. (a * z) * w \in Int /\ (b * z) * w \in Int
  BY <1>3, <1>6
<1>9. Cong(a, (a * z) * w)
  BY <1>5, <1>8, CongSym
<1> QED BY <1>5, <1>7, <1>8, <1>9, CongTrans

\* A product is zero only if a factor is.
LEMMA NoZeroDivisors ==
  ASSUME NEW a \in Int, NEW b \in Int, Cong(a * b, 0)
  PROVE  Cong(a, 0) \/ Cong(b, 0)
<1>1. a * b = a * b /\ 0 * b = 0
  OBVIOUS
<1>2. Cong(a * b, 0 * b)
  BY <1>1
<1> QED BY <1>2, Cancel
-----------------------------------------------------------------------------
(* The group law. *)

\* A root of A, with which the curve is a circle but for D.
LEMMA RootIs == \E r \in Int : Cong(r * r, A) /\ ~ Cong(r, 0)
<1>1. PICK r \in Fr \ {0} : Square(r) = A
  BY CurveAssumption
<1>2. r \in Int /\ 0 \in Fr
  BY FieldIs
<1>3. Cong(r * r, A)
  <2>1. r * r \in Int /\ A \in Int
    BY <1>2, FieldIs
  <2>2. Cong(A, r * r)
    BY <1>1, <1>2, CongRefl, TimesIs DEF Square
  <2> QED BY <2>1, <2>2, CongSym
<1>4. ~ Cong(r, 0)
  BY <1>1, <1>2, CongSame
<1> QED BY <1>2, <1>3, <1>4

\* D times a square is no square, unless it is 0.
LEMMA NoRoot ==
  ASSUME NEW m \in Int, NEW n \in Int, Cong(m * m, D * (n * n))
  PROVE  Cong(n, 0)
<1> SUFFICES ASSUME ~ Cong(n, 0) PROVE FALSE
  OBVIOUS
<1> DEFINE y == n % Q
<1>1. y \in Fr /\ Cong(y, n)
  BY ModIs
<1>2. y # 0
  <2>1. y = 0 => Cong(n, 0)
    BY <1>1, CongSym
  <2> QED BY <2>1
<1> DEFINE w == Inverses[y]
<1>3. w \in Int /\ Cong(y * w, 1) /\ y \in Int
  BY <1>1, <1>2, InverseIs, FieldIs
<1> HIDE DEF y, w
<1>4. Cong(n * w, 1)
  <2>1. Cong(n, y) /\ Cong(w, w)
    BY <1>1, <1>3, CongSym, CongRefl
  <2>2. Cong(n * w, y * w)
    BY <2>1, <1>3, CongTimes
  <2>3. n * w \in Int /\ y * w \in Int
    BY <1>3
  <2> QED BY <2>2, <2>3, <1>3, CongTrans
<1> DEFINE nw == n * w  mw == m * w  s == mw % Q
<1>5. nw \in Int /\ mw \in Int /\ D \in Int /\ nw * nw \in Int /\ m * m \in Int /\ n * n \in Int
  BY <1>3, FieldIs
<1>6. Cong(mw * mw, D)
  <2>1. mw * mw = (m * m) * (w * w) /\ (D * (n * n)) * (w * w) = D * (nw * nw) /\ w * w \in Int
    BY <1>3, <1>5
  <2>2. Cong((m * m) * (w * w), (D * (n * n)) * (w * w))
    <3>1. Cong(w * w, w * w) /\ D * (n * n) \in Int
      BY <2>1, <1>5, CongRefl
    <3> HIDE DEF nw, mw
    <3> QED BY <2>1, <3>1, <1>5, CongTimes
  <2>3. Cong(mw * mw, D * (nw * nw))
    BY <2>1, <2>2
  <2> HIDE DEF nw, mw
  <2>4. Cong(nw, 1)
    BY <1>4 DEF nw
  <2>5. Cong(nw * nw, 1 * 1)
    BY <2>4, <1>5, CongTimes
  <2>6. Cong(D * (nw * nw), D * (1 * 1)) /\ D * (1 * 1) = D
    BY <2>5, <1>5, CongRefl, CongTimes
  <2>7. mw * mw \in Int /\ D * (nw * nw) \in Int
    BY <1>5
  <2> QED BY <2>3, <2>6, <2>7, <1>5, CongTrans
<1> HIDE DEF nw, mw
<1>7. s \in Fr /\ Cong(s, mw) /\ s \in Int
  BY <1>5, ModIs, FieldIs
<1>8. Square(s) = D
  <2> HIDE DEF s
  <2>1. Square(s) \in Fr /\ Cong(Square(s), mw * mw)
    BY <1>5, <1>7, TimesIs DEF Square
  <2>2. Square(s) \in Int /\ mw * mw \in Int /\ D \in Fr
    BY <2>1, <1>5, FieldIs
  <2>3. Cong(Square(s), D)
    BY <2>1, <2>2, <1>5, <1>6, CongTrans
  <2> QED BY <2>1, <2>2, <2>3, CongSame
<1> QED BY <1>7, <1>8, CurveAssumption

\* The equation of the curve, in whole numbers.
LEMMA OnCurveIs ==
  ASSUME NEW x \in Fr, NEW y \in Fr
  PROVE  OnCurve(x, y) <=> Cong(A * (x * x) + y * y, 1 + D * ((x * y) * (x * y)))
<1>1. x \in Int /\ y \in Int /\ A \in Int /\ D \in Int
  BY FieldIs
<1> DEFINE xx == x * x  yy == y * y
<1>2. xx \in Int /\ yy \in Int
  BY <1>1
<1>3. Cong(Square(x), xx) /\ Square(x) \in Int /\ Cong(Square(y), yy) /\ Square(y) \in Int
  BY <1>1, TimesIs, CongRefl DEF Square
<1>4. D * (xx * yy) = D * ((x * y) * (x * y))
  BY <1>1
<1> HIDE DEF xx, yy
<1>5. Times(A, Square(x)) \in Int /\ Cong(Times(A, Square(x)), A * xx)
  BY <1>1, <1>2, <1>3, TimesIs, CongRefl
<1>6. Times(Square(x), Square(y)) \in Int /\ Cong(Times(Square(x), Square(y)), xx * yy)
  BY <1>2, <1>3, TimesIs
<1>7. xx * yy \in Int /\ A * xx \in Int
  BY <1>1, <1>2
<1> DEFINE d == Times(D, Times(Square(x), Square(y)))  dd == D * (xx * yy)
<1>8. d \in Int /\ Cong(d, dd)
  BY <1>1, <1>6, <1>7, TimesIs, CongRefl
<1>9. dd \in Int
  BY <1>1, <1>7
<1> DEFINE l == (Times(A, Square(x)) + Square(y)) % Q  ll == A * xx + yy
           h == (1 + d) % Q  hh == 1 + dd
<1>10. l \in Fr /\ l \in Int /\ Cong(l, ll)
  BY <1>2, <1>3, <1>5, <1>7, PlusIs
<1> HIDE DEF d, dd
<1>11. h \in Fr /\ h \in Int /\ Cong(h, hh)
  BY <1>8, <1>9, CongOne, FieldIs
<1>12. OnCurve(x, y) <=> l = h
  BY DEF OnCurve, d
<1>13. ll \in Int /\ hh \in Int
  BY <1>2, <1>7, <1>9
<1> HIDE DEF l, h, ll, hh
<1>14. l = h => Cong(ll, hh)
  BY <1>10, <1>11, <1>13, CongSym, CongTrans
<1>15. Cong(ll, hh) => l = h
  <2> SUFFICES ASSUME Cong(ll, hh) PROVE l = h
    OBVIOUS
  <2>1. Cong(l, hh) /\ Cong(hh, h)
    BY <1>10, <1>11, <1>13, CongSym, CongTrans
  <2>2. Cong(l, h)
    BY <2>1, <1>10, <1>11, <1>13, CongTrans
  <2> QED BY <2>2, <1>10, <1>11, CongSame
<1> QED BY <1>4, <1>12, <1>14, <1>15 DEF ll, hh, xx, yy, dd

\* A point has coordinates in the field and satisfies the equation of the curve.
LEMMA PointIsOn ==
  ASSUME NEW p \in Points
  PROVE  /\ p.x \in Fr /\ p.y \in Fr /\ p.x \in Int /\ p.y \in Int /\ p = [x |-> p.x, y |-> p.y]
         /\ Cong(A * (p.x * p.x) + p.y * p.y, 1 + D * ((p.x * p.y) * (p.x * p.y)))
<1>1. /\ p.x \in Fr /\ p.y \in Fr /\ p = [x |-> p.x, y |-> p.y]
      /\ OnCurve(p.x, p.y)
  BY DEF Points
<1> QED BY <1>1, OnCurveIs, FieldIs

\* Where two points would be an exception of the sum, one coordinate over the other
\* would be a root of D (Bernstein and Lange).
LEMMA ExceptionIs ==
  ASSUME NEW r \in Int, Cong(r * r, A),
         NEW x1 \in Int, NEW y1 \in Int, NEW x2 \in Int, NEW y2 \in Int, NEW s \in {1, -1},
         Cong(A * (x1 * x1) + y1 * y1, 1 + D * ((x1 * y1) * (x1 * y1))),
         Cong(A * (x2 * x2) + y2 * y2, 1 + D * ((x2 * y2) * (x2 * y2))),
         Cong(D * ((x1 * y1) * (x2 * y2)), s)
  PROVE  Cong((x1 * y1) * (r * x2 + y2), 0)
<1> DEFINE n1 == x1 * y1  n2 == x2 * y2  m == r * x1 + s * y1  n == n1 * (r * x2 + y2)
           t == D * (n1 * n2)  rr == r * r
<1>1. D \in Int /\ A \in Int /\ s \in Int /\ s * s = 1
  BY FieldIs
<1>2. n1 \in Int /\ n2 \in Int /\ m \in Int /\ n \in Int /\ rr \in Int
  BY <1>1
<1>3. t \in Int
  BY <1>1, <1>2
<1>4. \A x, y \in Int, c \in Int : Cong(A * (x * x) + y * y, c) => Cong(rr * (x * x) + y * y, c)
  <2> SUFFICES ASSUME NEW x \in Int, NEW y \in Int, NEW c \in Int, Cong(A * (x * x) + y * y, c)
               PROVE  Cong(rr * (x * x) + y * y, c)
    OBVIOUS
  <2> DEFINE xx == x * x  yy == y * y
  <2>1. xx \in Int /\ yy \in Int /\ Cong(rr, A)
    OBVIOUS
  <2> HIDE DEF xx, yy, rr
  <2>2. Cong(rr * xx, A * xx)
    BY <1>1, <1>2, <2>1, CongRefl, CongTimes
  <2>3. rr * xx \in Int /\ A * xx \in Int
    BY <1>1, <1>2, <2>1
  <2>4. Cong(rr * xx + yy, A * xx + yy)
    BY <2>1, <2>2, <2>3, CongRefl, CongPlus
  <2>5. rr * xx + yy \in Int /\ A * xx + yy \in Int
    BY <2>1, <2>3
  <2>6. Cong(A * xx + yy, c)
    BY DEF xx, yy
  <2>7. Cong(rr * xx + yy, c)
    BY <2>4, <2>5, <2>6, CongTrans
  <2> QED BY <2>7 DEF xx, yy
<1>5. Cong(rr * (x1 * x1) + y1 * y1, 1 + D * (n1 * n1)) /\ Cong(rr * (x2 * x2) + y2 * y2, 1 + D * (n2 * n2))
  <2>1. D * (n1 * n1) \in Int /\ D * (n2 * n2) \in Int
    BY <1>1, <1>2
  <2>2. 1 + D * (n1 * n1) \in Int /\ 1 + D * (n2 * n2) \in Int
    BY <2>1
  <2> HIDE DEF rr
  <2> QED BY <1>4, <2>2
<1> DEFINE c1 == rr * (x1 * x1) + y1 * y1  c2 == rr * (x2 * x2) + y2 * y2  d1 == D * (n1 * n1)  d2 == D * (n2 * n2)
           u == 2 * (r * n1)
<1>6. m * m = c1 + u * s
  <2>1. m * m = (r * x1) * (r * x1) + 2 * (r * x1) * (s * y1) + (s * s) * (y1 * y1)
    BY <1>1
  <2>2. (s * s) * (y1 * y1) = y1 * y1
    BY <1>1
  <2>3. (r * x1) * (r * x1) = rr * (x1 * x1) /\ 2 * (r * x1) * (s * y1) = u * s
    BY <1>1
  <2> QED BY <2>1, <2>2, <2>3
<1>7. D * (n * n) = d1 * c2 + u * t
  <2>1. (r * x2 + y2) * (r * x2 + y2) = c2 + 2 * (r * n2)
    OBVIOUS
  <2>2. n * n = (n1 * n1) * ((r * x2 + y2) * (r * x2 + y2))
    BY <1>2
  <2> DEFINE q == (r * x2 + y2) * (r * x2 + y2)
  <2>3. D * (n * n) = d1 * q
    <3>1. q \in Int
      OBVIOUS
    <3>2. n * n = (n1 * n1) * q
      BY <2>2
    <3> HIDE DEF q, n, n1
    <3> QED BY <3>1, <3>2, <1>1, <1>2
  <2>4. c2 \in Int /\ r * n2 \in Int
    BY <1>2
  <2>5. d1 * (2 * (r * n2)) = u * t
    <3> HIDE DEF n1, n2
    <3> QED BY <1>1, <1>2
  <2>6. d1 * q = d1 * c2 + d1 * (2 * (r * n2))
    <3>1. q = c2 + 2 * (r * n2) /\ d1 \in Int
      BY <2>1, <1>1, <1>2
    <3> HIDE DEF q, c2, d1, n2
    <3> QED BY <3>1, <2>4
  <2> QED BY <2>3, <2>5, <2>6
<1>8. d1 * d2 = t * t
  <2> HIDE DEF n1, n2
  <2> QED BY <1>1, <1>2
<1>9. d1 \in Int /\ d2 \in Int /\ u \in Int /\ c1 \in Int /\ c2 \in Int /\ Cong(t, s)
  <2>1. c1 \in Int /\ c2 \in Int /\ Cong(t, s)
    OBVIOUS
  <2>2. u \in Int /\ d1 \in Int /\ d2 \in Int
    <3> HIDE DEF n1, n2
    <3> QED BY <1>1, <1>2
  <2> QED BY <2>1, <2>2
<1>10. Cong(m * m, D * (n * n))
  <2>1. Cong(c1, 1 + d1) /\ Cong(c2, 1 + d2)
    BY <1>5
  <2> HIDE DEF c1, c2, d1, d2, u, t, m, n
  <2>0. u * s \in Int /\ u * t \in Int /\ t * t \in Int /\ 1 + d1 \in Int /\ 1 + d2 \in Int
    BY <1>1, <1>3, <1>9
  <2>2. Cong(c1 + u * s, (1 + d1) + u * s) /\ u * s \in Int /\ u * t \in Int /\ t * t \in Int
    BY <2>0, <2>1, <1>9, CongRefl, CongPlus
  <2>3. Cong(d1 * c2, d1 * (1 + d2)) /\ d1 * (1 + d2) = d1 + t * t
    <3>1. d1 * (1 + d2) = d1 + d1 * d2
      BY <1>9
    <3>2. Cong(d1 * c2, d1 * (1 + d2))
      BY <2>0, <2>1, <1>9, CongRefl, CongTimes
    <3> QED BY <3>1, <3>2, <1>8
  <2>4. Cong(t * t, s * s) /\ Cong(u * t, u * s)
    BY <1>1, <1>3, <1>9, CongRefl, CongTimes
  <2>5. Cong(d1 + t * t, d1 + 1)
    <3>1. d1 \in Int /\ 1 \in Int /\ t * t \in Int
      BY <1>9, <2>2
    <3>2. Cong(d1, d1)
      BY ONLY <3>1, CongRefl
    <3>3. Cong(t * t, 1)
      BY <1>1, <2>4
    <3> QED BY ONLY <3>1, <3>2, <3>3, CongPlus
  <2>6. d1 * c2 \in Int /\ d1 + t * t \in Int /\ d1 + 1 \in Int
    BY <1>9, <2>2
  <2>7. Cong(d1 * c2, d1 + 1)
    BY <2>3, <2>5, <2>6, CongTrans
  <2>8. Cong(d1 * c2 + u * t, (d1 + 1) + u * s)
    BY <2>2, <2>4, <2>6, <2>7, CongPlus
  <2>9. (d1 + 1) + u * s = (1 + d1) + u * s
    BY <1>9
  <2>10. c1 + u * s \in Int /\ d1 * c2 + u * t \in Int /\ (1 + d1) + u * s \in Int
    BY <1>9, <2>2, <2>6
  <2>11. Cong((1 + d1) + u * s, d1 * c2 + u * t)
    BY <2>8, <2>9, <2>10, CongSym
  <2>12. Cong(c1 + u * s, d1 * c2 + u * t)
    BY <2>2, <2>10, <2>11, CongTrans
  <2> QED BY <2>12, <1>6, <1>7
<1>11. Cong(n, 0)
  <2> HIDE DEF m, n
  <2> QED BY <1>2, <1>10, NoRoot
<1> QED BY <1>11

\* The field's characteristic is odd.
LEMMA TwoIsNot0 == ~ Cong(2, 0) /\ ~ Cong(1, 0)
<1>1. 2 \in Fr /\ 1 \in Fr /\ 0 \in Fr
  BY FieldIs
<1> QED BY <1>1, CongSame

\* No two points are an exception of the sum.
LEMMA Complete ==
  ASSUME NEW p \in Points, NEW q \in Points
  PROVE  LET t == D * ((p.x * q.x) * (p.y * q.y)) IN ~ Cong(1 + t, 0) /\ ~ Cong(1 - t, 0)
<1> DEFINE t == D * ((p.x * q.x) * (p.y * q.y))
<1> DEFINE x1 == p.x  y1 == p.y  x2 == q.x  y2 == q.y
<1>1. /\ x1 \in Int /\ y1 \in Int /\ x2 \in Int /\ y2 \in Int /\ D \in Int
      /\ Cong(A * (x1 * x1) + y1 * y1, 1 + D * ((x1 * y1) * (x1 * y1)))
      /\ Cong(A * (x2 * x2) + y2 * y2, 1 + D * ((x2 * y2) * (x2 * y2)))
  BY PointIsOn, FieldIs
<1>2. t = D * ((x1 * y1) * (x2 * y2))
  <2> HIDE DEF x1, y1, x2, y2
  <2>1. D * ((x1 * x2) * (y1 * y2)) = D * ((x1 * y1) * (x2 * y2))
    BY <1>1
  <2> QED BY <2>1 DEF x1, y1, x2, y2
<1>3. t \in Int
  <2> HIDE DEF x1, y1, x2, y2
  <2>1. x1 * y1 \in Int /\ x2 * y2 \in Int
    BY <1>1
  <2>2. (x1 * y1) * (x2 * y2) \in Int
    BY <2>1
  <2>3. D * ((x1 * y1) * (x2 * y2)) \in Int
    BY <1>1, <2>2
  <2> QED BY <1>2, <2>3
<1> HIDE DEF t, x1, y1, x2, y2
<1>4. ASSUME NEW s \in {1, -1}, Cong(t, s) PROVE FALSE
  <2> PICK r \in Int : Cong(r * r, A) /\ ~ Cong(r, 0)
    BY RootIs
  <2> DEFINE n1 == x1 * y1  up == r * x2 + y2  down == (-r) * x2 + y2
  <2>1. Cong(n1 * up, 0)
    BY <1>1, <1>2, <1>4, ExceptionIs
  <2>2. Cong(n1 * down, 0)
    <3>1. -r \in Int /\ (-r) * (-r) = r * r
      OBVIOUS
    <3> HIDE DEF n1, down
    <3>2. Cong((-r) * (-r), A)
      BY <3>1
    <3> QED BY <3>1, <3>2, <1>1, <1>2, <1>4, ExceptionIs DEF n1, down
  <2>3. n1 \in Int /\ up \in Int /\ down \in Int
    <3>1. x1 * y1 \in Int /\ r * x2 \in Int /\ (-r) * x2 \in Int
      BY <1>1
    <3> QED BY <1>1, <3>1
  <2>4. up + down = 2 * y2 /\ 2 * y2 \in Int /\ 0 + 0 = 0
    BY <1>1
  <2> HIDE DEF n1, up, down
  <2>5. Cong(n1, 0) \/ Cong(y2, 0)
    <3>1. CASE Cong(n1, 0)
      BY <3>1
    <3>2. CASE ~ Cong(n1, 0)
      <4>1. Cong(up, 0) /\ Cong(down, 0)
        BY <2>1, <2>2, <2>3, <3>2, NoZeroDivisors
      <4>2. Cong(up + down, 0 + 0)
        BY <4>1, <2>3, CongPlus
      <4>3. Cong(2 * y2, 0)
        BY <4>2, <2>4
      <4> QED BY <4>3, <1>1, TwoIsNot0, NoZeroDivisors
    <3> QED BY <3>1, <3>2
  <2> DEFINE n2 == x2 * y2
  <2>6. n2 \in Int /\ t = D * (n1 * n2)
    BY <1>1, <1>2 DEF n1
  <2>7. Cong(n1, 0) \/ Cong(n2, 0)
    <3>1. Cong(y2, 0) => Cong(x2 * y2, 0)
      BY <1>1, CongZero
    <3> QED BY <2>5, <2>6, <3>1
  <2> HIDE DEF n2
  <2>8. Cong(n1 * n2, 0)
    BY <2>3, <2>6, <2>7, CongZero
  <2>9. Cong(t, 0)
    <3>1. n1 * n2 \in Int
      BY <2>3, <2>6
    <3> QED BY <1>1, <2>6, <2>8, <3>1, CongZero
  <2>10. Cong(s, 0) /\ s \in Int
    <3>1. s \in Int /\ Cong(s, t)
      BY <1>3, <1>4, CongSym
    <3> QED BY <3>1, <2>9, <1>3, CongTrans
  <2>11. Cong(s * s, 0) /\ s * s = 1
    BY <2>10, CongZero
  <2> QED BY <2>11, TwoIsNot0
<1>5. ASSUME Cong(1 + t, 0) PROVE FALSE
  <2>1. Cong((1 + t) - 1, 0 - 1) /\ (1 + t) - 1 = t /\ 0 - 1 = -1
    <3>1. 1 + t \in Int /\ (1 + t) - 1 = t /\ 0 - 1 = -1
      BY <1>3
    <3> QED BY <3>1, <1>5, CongRefl, CongMinus
  <2> QED BY <2>1, <1>4
<1>6. ASSUME Cong(1 - t, 0) PROVE FALSE
  <2>1. Cong(1 - (1 - t), 1 - 0) /\ 1 - (1 - t) = t /\ 1 - 0 = 1
    <3>1. 1 - t \in Int /\ 1 - (1 - t) = t /\ 1 - 0 = 1
      BY <1>3
    <3> QED BY <3>1, <1>6, CongRefl, CongMinus
  <2> QED BY <2>1, <1>4
<1>7. ~ Cong(1 + t, 0) /\ ~ Cong(1 - t, 0)
  BY <1>5, <1>6
<1> QED BY <1>7 DEF t

\* The number by which the field divides.
LEMMA QuotientIs ==
  ASSUME NEW z \in Int, ~ Cong(z, 0), NEW a \in Int, NEW c \in Int, Cong(a, c),
         NEW y \in Fr, Cong(y, z)
  PROVE  /\ Times(a, Inverses[y]) \in Fr /\ Times(a, Inverses[y]) \in Int
         /\ Cong(Times(a, Inverses[y]) * z, c)
<1> DEFINE w == Inverses[y]
<1>1. y # 0
  <2>1. y = 0 => Cong(z, 0)
    <3>1. Cong(z, y)
      BY FieldIs, CongSym
    <3> QED BY <3>1
  <2> QED BY <2>1
<1>2. w \in Int /\ Cong(y * w, 1) /\ y \in Int
  BY <1>1, InverseIs, FieldIs
<1> HIDE DEF w
<1> DEFINE b == Times(a, w)
<1>3. b \in Fr /\ b \in Int /\ Cong(b, c * w)
  BY <1>2, CongRefl, TimesIs
<1> HIDE DEF b
<1>4. Cong(b * z, (c * w) * y)
  <2>1. Cong(z, y) /\ c * w \in Int
    BY <1>2, CongSym
  <2> QED BY <1>2, <1>3, <2>1, CongTimes
<1>5. (c * w) * y = c * (y * w) /\ y * w \in Int /\ c * 1 = c
  BY <1>2
<1>6. Cong(c * (y * w), c * 1)
  BY <1>2, <1>5, CongRefl, CongTimes
<1>7. b * z \in Int /\ c * (y * w) \in Int
  BY <1>3, <1>5
<1>8. Cong(b * z, c)
  BY <1>4, <1>5, <1>6, <1>7, CongTrans
<1> QED BY <1>3, <1>8 DEF b, w

\* The sum of two points in whole numbers: its coordinates, times their denominators.
LEMMA PointSumIs ==
  ASSUME NEW p \in Points, NEW q \in Points
  PROVE  LET s == PointSum(p, q)
             t == D * ((p.x * q.x) * (p.y * q.y))
         IN  /\ s \in [x : Fr, y : Fr]
             /\ Cong(s.x * (1 + t), p.x * q.y + p.y * q.x)
             /\ Cong(s.y * (1 - t), p.y * q.y - A * (p.x * q.x))
<1> DEFINE x1 == p.x  y1 == p.y  x2 == q.x  y2 == q.y
<1> DEFINE u == x1 * x2  v == y1 * y2  t == D * (u * v)
<1>1. x1 \in Int /\ y1 \in Int /\ x2 \in Int /\ y2 \in Int /\ D \in Int /\ A \in Int
  BY PointIsOn, FieldIs
<1>2. ~ Cong(1 + t, 0) /\ ~ Cong(1 - t, 0)
  BY Complete
<1> DEFINE tq == Times(D, Times(Times(x1, x2), Times(y1, y2)))
<1> HIDE DEF x1, y1, x2, y2
<1>3. u \in Int /\ v \in Int /\ x1 * y2 \in Int /\ y1 * x2 \in Int
  BY <1>1
<1>4. /\ Times(x1, x2) \in Int /\ Cong(Times(x1, x2), u) /\ Times(y1, y2) \in Int /\ Cong(Times(y1, y2), v)
      /\ Times(x1, y2) \in Int /\ Cong(Times(x1, y2), x1 * y2)
      /\ Times(y1, x2) \in Int /\ Cong(Times(y1, x2), y1 * x2)
  BY <1>1, TimesIs, CongRefl
<1> DEFINE sum == x1 * y2 + y1 * x2  dif == v - A * u
<1> HIDE DEF u, v
<1>5. t \in Int /\ u * v \in Int
  BY <1>1, <1>3
<1>6. tq \in Int /\ Cong(tq, t)
  <2>1. Times(Times(x1, x2), Times(y1, y2)) \in Int /\ Cong(Times(Times(x1, x2), Times(y1, y2)), u * v)
    BY <1>3, <1>4, TimesIs
  <2> QED BY <2>1, <1>1, <1>5, TimesIs, CongRefl
<1> HIDE DEF t, tq
<1>7. (1 + tq) % Q \in Fr /\ Cong((1 + tq) % Q, 1 + t) /\ 1 + t \in Int
  BY <1>5, <1>6, CongOne
<1>8. Minus(1, tq) \in Fr /\ Cong(Minus(1, tq), 1 - t) /\ 1 - t \in Int
  BY <1>5, <1>6, CongOne
<1>9. /\ Times(x1, y2) + Times(y1, x2) \in Int /\ sum \in Int
      /\ Cong(Times(x1, y2) + Times(y1, x2), sum)
  <2>1. Times(x1, y2) + Times(y1, x2) \in Int /\ x1 * y2 + y1 * x2 \in Int
    BY <1>3, <1>4
  <2>2. Cong(Times(x1, y2) + Times(y1, x2), x1 * y2 + y1 * x2)
    BY <1>3, <1>4, CongPlus
  <2> QED BY <2>1, <2>2
<1>10. /\ Minus(Times(y1, y2), Times(A, Times(x1, x2))) \in Int /\ dif \in Int
       /\ Cong(Minus(Times(y1, y2), Times(A, Times(x1, x2))), dif)
  <2>1. Times(A, Times(x1, x2)) \in Int /\ Cong(Times(A, Times(x1, x2)), A * u) /\ A * u \in Int
    <3>1. A * u \in Int /\ Cong(A, A)
      BY <1>1, <1>3, CongRefl
    <3> QED BY <3>1, <1>1, <1>3, <1>4, TimesIs
  <2>2. dif \in Int
    BY <2>1, <1>3
  <2> QED BY <2>1, <2>2, <1>3, <1>4, MinusIs
<1> DEFINE sx == Times(Times(x1, y2) + Times(y1, x2), Inverses[(1 + tq) % Q])
           sy == Times(Minus(Times(y1, y2), Times(A, Times(x1, x2))), Inverses[Minus(1, tq)])
<1> HIDE DEF sum, dif
<1>11. sx \in Fr /\ Cong(sx * (1 + t), sum)
  BY <1>2, <1>7, <1>9, QuotientIs
<1>12. sy \in Fr /\ Cong(sy * (1 - t), dif)
  BY <1>2, <1>8, <1>10, QuotientIs
<1>13. PointSum(p, q) = [x |-> sx, y |-> sy]
  BY DEF PointSum, x1, x2, y1, y2, tq
<1> QED BY <1>11, <1>12, <1>13 DEF x1, x2, y1, y2, t, u, v, sum, dif

\* What a point in projective coordinates stands for.
Projectives == [x : Fr, y : Fr, z : Fr]
\* Projective coordinates of a point.
StandsFor(P, p) ==
  /\ P \in Projectives /\ ~ Cong(P.z, 0)
  /\ Cong(P.x, p.x * P.z) /\ Cong(P.y, p.y * P.z)

\* A point stands for itself, and is read off what stands for it.
LEMMA ProjectiveIs ==
  ASSUME NEW p \in Points
  PROVE  StandsFor(Projective(p), p)
<1>1. p.x \in Fr /\ p.y \in Fr /\ p.x \in Int /\ p.y \in Int /\ 1 \in Fr
  BY PointIsOn, FieldIs
<1>2. Projective(p) \in Projectives /\ Projective(p).x = p.x /\ Projective(p).y = p.y /\ Projective(p).z = 1
  BY <1>1 DEF Projective, Projectives
<1>3. p.x * 1 = p.x /\ p.y * 1 = p.y /\ Cong(p.x, p.x) /\ Cong(p.y, p.y)
  BY <1>1, CongRefl
<1> QED BY <1>2, <1>3, TwoIsNot0 DEF StandsFor

\* affine finds the point.
LEMMA AffineIs ==
  ASSUME NEW p \in [x : Fr, y : Fr], NEW P, StandsFor(P, p)
  PROVE  P.z # 0 /\ Affine(P) = p
<1>1. /\ P.x \in Fr /\ P.y \in Fr /\ P.z \in Fr /\ ~ Cong(P.z, 0)
      /\ Cong(P.x, p.x * P.z) /\ Cong(P.y, p.y * P.z)
  BY DEF StandsFor, Projectives
<1>2. /\ P.x \in Int /\ P.y \in Int /\ P.z \in Int /\ Cong(P.z, P.z)
      /\ p.x \in Fr /\ p.y \in Fr /\ p.x \in Int /\ p.y \in Int
  BY <1>1, FieldIs, CongRefl
<1>3. P.z # 0
  <2>1. P.z = 0 => Cong(P.z, 0)
    BY <1>2
  <2> QED BY <1>1, <2>1
<1>4. \A a \in Int, c \in Fr : Cong(a, c * P.z) => Times(a, Inverses[P.z]) = c
  <2> SUFFICES ASSUME NEW a \in Int, NEW c \in Fr, Cong(a, c * P.z)
               PROVE  Times(a, Inverses[P.z]) = c
    OBVIOUS
  <2> DEFINE b == Times(a, Inverses[P.z])
  <2>1. c \in Int /\ c * P.z \in Int
    BY <1>2, FieldIs
  <2>2. b \in Fr /\ b \in Int /\ Cong(b * P.z, c * P.z)
    BY <1>1, <1>2, <2>1, QuotientIs
  <2> HIDE DEF b
  <2>3. Cong(b, c)
    BY <1>1, <1>2, <2>1, <2>2, Cancel
  <2>4. b = c
    BY <2>2, <2>3, CongSame
  <2> QED BY <2>4 DEF b
<1>5. Times(P.x, Inverses[P.z]) = p.x /\ Times(P.y, Inverses[P.z]) = p.y
  BY <1>1, <1>2, <1>4
<1>6. p = [x |-> p.x, y |-> p.y]
  OBVIOUS
<1> QED BY <1>3, <1>5, <1>6 DEF Affine

\* A coordinate that add computes is that of the sum, times the third coordinate.
LEMMA CoordinateIs ==
  ASSUME NEW s \in Int, NEW sum \in Int, NEW up \in Int, NEW down \in Int, NEW Z \in Int,
         NEW n \in Int, NEW z \in Int,
         Cong(s * up, sum), Cong(n, (Z * ((Z * Z) * down)) * (sum * Z)),
         Cong(z, ((Z * Z) * down) * ((Z * Z) * up))
  PROVE  Cong(n, s * z)
<1> DEFINE k == (Z * Z) * ((Z * Z) * down)  w == ((Z * Z) * down) * ((Z * Z) * up)
<1>1. k \in Int /\ w \in Int
  <2>1. Z * Z \in Int
    OBVIOUS
  <2>2. (Z * Z) * down \in Int /\ (Z * Z) * up \in Int
    BY <2>1
  <2> QED BY <2>1, <2>2
<1>2. (Z * ((Z * Z) * down)) * (sum * Z) = k * sum /\ k * (s * up) = s * w
  OBVIOUS
<1> HIDE DEF k, w
<1>3. s * up \in Int /\ k * sum \in Int /\ s * w \in Int /\ s * z \in Int
  BY <1>1
<1>4. Cong(k * (s * up), k * sum)
  BY <1>1, <1>3, CongRefl, CongTimes
<1>5. Cong(k * sum, s * w)
  BY <1>2, <1>3, <1>4, CongSym
<1>6. Cong(w, z)
  BY <1>1, CongSym DEF w
<1>7. Cong(s * w, s * z)
  BY <1>1, <1>6, CongRefl, CongTimes
<1>8. Cong(n, k * sum)
  BY <1>2
<1>9. Cong(n, s * w)
  BY <1>3, <1>5, <1>8, CongTrans
<1> QED BY <1>3, <1>7, <1>9, CongTrans

\* The sum of what stands for two points stands for their sum.
LEMMA AddIs ==
  ASSUME NEW p \in Points, NEW q \in Points, NEW P, NEW R, StandsFor(P, p), StandsFor(R, q)
  PROVE  StandsFor(Add(P, R), PointSum(p, q))
<1> DEFINE x1 == P.x  y1 == P.y  z1 == P.z  x2 == R.x  y2 == R.y  z2 == R.z
           u1 == p.x  v1 == p.y  u2 == q.x  v2 == q.y
<1> DEFINE Z == z1 * z2  u == u1 * u2  v == v1 * v2  sum == u1 * v2 + v1 * u2  t == D * (u * v)
           dif == v - A * u
<1>1. /\ x1 \in Int /\ y1 \in Int /\ z1 \in Int /\ x2 \in Int /\ y2 \in Int /\ z2 \in Int
      /\ u1 \in Int /\ v1 \in Int /\ u2 \in Int /\ v2 \in Int /\ D \in Int /\ A \in Int
      /\ ~ Cong(z1, 0) /\ ~ Cong(z2, 0)
      /\ Cong(x1, u1 * z1) /\ Cong(y1, v1 * z1) /\ Cong(x2, u2 * z2) /\ Cong(y2, v2 * z2)
  BY PointIsOn, FieldIs DEF StandsFor, Projectives
<1>2. ~ Cong(1 + t, 0) /\ ~ Cong(1 - t, 0)
  BY Complete
<1> DEFINE s == PointSum(p, q)
<1>3. /\ s \in [x : Fr, y : Fr] /\ s.x \in Int /\ s.y \in Int
      /\ Cong(s.x * (1 + t), sum) /\ Cong(s.y * (1 - t), dif)
  BY PointSumIs, FieldIs
<1> DEFINE a == Times(z1, z2)  b == Square(a)  c == Times(x1, x2)  dxy == Times(y1, y2)
           e == Times(Times(D, c), dxy)  f == Minus(b, e)  g == (b + e) % Q
           aux == Cross(P, R, c, dxy)  dac == Minus(dxy, Times(A, c))
<1>4. Add(P, R) = [x |-> Times(Times(a, f), aux), y |-> Times(Times(a, g), dac), z |-> Times(f, g)]
  BY DEF Add
<1>5. aux = (Times(x1 + y1, x2 + y2) - c - dxy) % Q
  BY DEF Cross
<1> HIDE DEF x1, y1, z1, x2, y2, z2, u1, v1, u2, v2, s, aux
<1>6. u \in Int /\ v \in Int /\ Z \in Int /\ u1 * z1 \in Int /\ v1 * z1 \in Int /\ u2 * z2 \in Int /\ v2 * z2 \in Int
  BY <1>1
<1>7. a \in Int /\ Cong(a, Z)
  BY <1>1, CongRefl, TimesIs
<1>8. c \in Int /\ Cong(c, u * Z) /\ u * Z \in Int
  <2>1. c \in Int /\ Cong(c, (u1 * z1) * (u2 * z2))
    BY <1>1, <1>6, TimesIs
  <2>2. (u1 * z1) * (u2 * z2) = u * Z /\ u * Z \in Int
    BY <1>1
  <2> QED BY <2>1, <2>2
<1>9. dxy \in Int /\ Cong(dxy, v * Z) /\ v * Z \in Int
  <2>1. dxy \in Int /\ Cong(dxy, (v1 * z1) * (v2 * z2))
    BY <1>1, <1>6, TimesIs
  <2>2. (v1 * z1) * (v2 * z2) = v * Z /\ v * Z \in Int
    BY <1>1
  <2> QED BY <2>1, <2>2
<1>10. aux \in Fr /\ Cong(aux, sum * Z) /\ sum * Z \in Int /\ sum \in Int
  <2> DEFINE l == u1 * z1 + v1 * z1  r == u2 * z2 + v2 * z2
  <2>1. l \in Int /\ r \in Int /\ Cong(x1 + y1, l) /\ Cong(x2 + y2, r) /\ x1 + y1 \in Int /\ x2 + y2 \in Int
    BY <1>1, <1>6, CongPlus
  <2>2. sum * Z = (l * r - u * Z) - v * Z /\ l * r \in Int /\ sum \in Int
    BY <1>1
  <2> HIDE DEF l, r, u, v, Z, sum, c, dxy
  <2> DEFINE m == Times(x1 + y1, x2 + y2)  m1 == m - c  l1 == l * r - u * Z
  <2>3. m \in Int /\ Cong(m, l * r)
    BY <2>1, TimesIs
  <2> HIDE DEF m
  <2>4. m1 \in Int /\ l1 \in Int /\ Cong(m1, l1)
    BY <2>2, <2>3, <1>8, CongMinus
  <2> HIDE DEF m1, l1
  <2> DEFINE vz == v * Z
  <2>10. vz \in Int /\ Cong(dxy, vz)
    BY <1>9
  <2> HIDE DEF vz
  <2>11. m1 - dxy \in Int /\ l1 - vz \in Int /\ Cong(m1 - dxy, l1 - vz)
    BY <2>4, <2>10, <1>9, CongMinus
  <2>5. m1 - dxy \in Int /\ l1 - v * Z \in Int /\ Cong(m1 - dxy, l1 - v * Z)
    BY <2>11 DEF vz
  <2>6. (m1 - dxy) % Q \in Fr /\ Cong((m1 - dxy) % Q, m1 - dxy)
    BY <2>5, ModIs
  <2>7. (m1 - dxy) % Q \in Int
    BY <2>6, FieldIs
  <2>8. Cong((m1 - dxy) % Q, l1 - v * Z)
    BY <2>5, <2>6, <2>7, CongTrans
  <2>9. aux = (m1 - dxy) % Q /\ l1 - v * Z = sum * Z
    BY <1>5, <2>2 DEF m, m1, l1
  <2> QED BY <2>2, <2>5, <2>6, <2>8, <2>9
<1> HIDE DEF u, v, Z, sum, a, c, dxy
<1>11. b \in Int /\ Cong(b, Z * Z) /\ Z * Z \in Int
  BY <1>6, <1>7, TimesIs DEF Square
<1>12. t \in Int /\ u * v \in Int
  BY <1>1, <1>6
<1>13. e \in Int /\ Cong(e, t * (Z * Z)) /\ t * (Z * Z) \in Int
  <2>1. D * (u * Z) \in Int /\ Times(D, c) \in Int /\ Cong(Times(D, c), D * (u * Z))
    <3>1. D * (u * Z) \in Int /\ Cong(D, D)
      BY <1>1, <1>8, CongRefl
    <3> QED BY <3>1, <1>1, <1>8, TimesIs
  <2>2. e \in Int /\ Cong(e, (D * (u * Z)) * (v * Z))
    BY <2>1, <1>9, TimesIs
  <2>3. (D * (u * Z)) * (v * Z) = t * (Z * Z) /\ t * (Z * Z) \in Int
    BY <1>1, <1>6, <1>11, <1>12
  <2> QED BY <2>2, <2>3
<1> HIDE DEF b, e, t
<1> DEFINE ZZ == Z * Z
<1>14. f \in Int /\ Cong(f, ZZ * (1 - t)) /\ ZZ * (1 - t) \in Int
  <2>1. f \in Int /\ Cong(f, ZZ - t * ZZ)
    BY <1>11, <1>13, MinusIs
  <2>2. ZZ - t * ZZ = ZZ * (1 - t) /\ ZZ * (1 - t) \in Int
    <3> HIDE DEF ZZ
    <3> QED BY <1>11, <1>12 DEF ZZ
  <2> QED BY <2>1, <2>2
<1>15. g \in Int /\ Cong(g, ZZ * (1 + t)) /\ ZZ * (1 + t) \in Int
  <2>1. g \in Int /\ Cong(g, ZZ + t * ZZ)
    BY <1>11, <1>13, PlusIs
  <2>2. ZZ + t * ZZ = ZZ * (1 + t) /\ ZZ * (1 + t) \in Int
    <3> HIDE DEF ZZ
    <3> QED BY <1>11, <1>12 DEF ZZ
  <2> QED BY <2>1, <2>2
<1>16. dac \in Int /\ Cong(dac, dif * Z) /\ dif * Z \in Int /\ dif \in Int
  <2>1. A * (u * Z) \in Int /\ Times(A, c) \in Int /\ Cong(Times(A, c), A * (u * Z))
    <3>1. A * (u * Z) \in Int /\ Cong(A, A)
      BY <1>1, <1>8, CongRefl
    <3> QED BY <3>1, <1>1, <1>8, TimesIs
  <2>2. dac \in Int /\ Cong(dac, v * Z - A * (u * Z))
    BY <2>1, <1>9, MinusIs
  <2>3. v * Z - A * (u * Z) = dif * Z /\ dif * Z \in Int /\ dif \in Int
    BY <1>1, <1>6
  <2> QED BY <2>2, <2>3
<1> HIDE DEF f, g, dac, dif, ZZ
<1> DEFINE up == 1 + t  down == 1 - t
<1>17. up \in Int /\ down \in Int /\ ZZ \in Int
  BY <1>11, <1>12 DEF ZZ
<1> DEFINE x3 == Times(Times(a, f), aux)  y3 == Times(Times(a, g), dac)  z3 == Times(f, g)
<1>18. z3 \in Fr /\ z3 \in Int /\ Cong(z3, (ZZ * down) * (ZZ * up))
  BY <1>14, <1>15, TimesIs
<1>19. Times(a, f) \in Int /\ Cong(Times(a, f), Z * (ZZ * down)) /\ Z * (ZZ * down) \in Int
  <2>1. Z * (ZZ * down) \in Int
    BY <1>6, <1>14
  <2> QED BY <2>1, <1>6, <1>7, <1>14, TimesIs
<1>20. Times(a, g) \in Int /\ Cong(Times(a, g), Z * (ZZ * up)) /\ Z * (ZZ * up) \in Int
  <2>1. Z * (ZZ * up) \in Int
    BY <1>6, <1>15
  <2> QED BY <2>1, <1>6, <1>7, <1>15, TimesIs
<1>21. x3 \in Fr /\ x3 \in Int /\ Cong(x3, (Z * (ZZ * down)) * (sum * Z))
  <2>1. aux \in Int
    BY <1>10, FieldIs
  <2> QED BY <2>1, <1>10, <1>19, TimesIs
<1>22. y3 \in Fr /\ y3 \in Int /\ Cong(y3, (Z * (ZZ * up)) * (dif * Z))
  BY <1>16, <1>20, TimesIs
<1>23. Cong(s.x * up, sum) /\ Cong(s.y * down, dif) /\ ~ Cong(up, 0) /\ ~ Cong(down, 0)
  BY <1>2, <1>3 DEF t, dif, u, v, sum
<1> HIDE DEF x3, y3, z3, up, down
<1>24. ~ Cong(z3, 0)
  <2>1. ~ Cong(Z, 0)
    BY <1>1, NoZeroDivisors DEF Z
  <2>2. ~ Cong(ZZ, 0)
    BY <2>1, <1>6, NoZeroDivisors DEF ZZ
  <2>3. ZZ * down \in Int /\ ZZ * up \in Int
    BY <1>17
  <2>7. ~ Cong(ZZ * down, 0)
    BY <2>2, <1>17, <1>23, NoZeroDivisors
  <2>8. ~ Cong(ZZ * up, 0)
    BY <2>2, <1>17, <1>23, NoZeroDivisors
  <2> DEFINE l == ZZ * down  h == ZZ * up
  <2>9. ~ Cong(l * h, 0) /\ l * h \in Int
    <3>1. l \in Int /\ h \in Int /\ ~ Cong(l, 0) /\ ~ Cong(h, 0)
      BY <2>3, <2>7, <2>8
    <3> HIDE DEF l, h
    <3> QED BY <3>1, NoZeroDivisors
  <2>4. ~ Cong((ZZ * down) * (ZZ * up), 0) /\ (ZZ * down) * (ZZ * up) \in Int
    BY <2>9
  <2>5. Cong((ZZ * down) * (ZZ * up), z3)
    BY <2>4, <1>18, CongSym
  <2>6. 0 \in Int
    OBVIOUS
  <2> QED BY <2>4, <2>5, <2>6, <1>18, CongTrans
<1>26. Cong(x3, s.x * z3) /\ Cong(y3, s.y * z3)
  <2>1. (ZZ * down) * (ZZ * up) = (ZZ * up) * (ZZ * down)
    BY <1>17
  <2>2. /\ Cong(z3, ((Z * Z) * down) * ((Z * Z) * up)) /\ Cong(z3, ((Z * Z) * up) * ((Z * Z) * down))
        /\ Cong(x3, (Z * ((Z * Z) * down)) * (sum * Z)) /\ Cong(y3, (Z * ((Z * Z) * up)) * (dif * Z))
    BY <2>1, <1>18, <1>21, <1>22 DEF ZZ, up, down, x3, y3, z3
  <2> QED BY <2>2, <1>3, <1>6, <1>10, <1>16, <1>17, <1>18, <1>21, <1>22, <1>23, CoordinateIs
<1>28. Add(P, R) = [x |-> x3, y |-> y3, z |-> z3]
  BY <1>4 DEF x3, y3, z3
<1> QED BY <1>18, <1>21, <1>22, <1>24, <1>26, <1>28 DEF StandsFor, Projectives, s

\* A point stays the same when its coordinates are doubled.
LEMMA ScaledIs ==
  ASSUME NEW p \in Points
  PROVE  StandsFor([x |-> Times(2, p.x), y |-> Times(2, p.y), z |-> 2], p)
<1> DEFINE P == [x |-> Times(2, p.x), y |-> Times(2, p.y), z |-> 2]
<1>1. p.x \in Int /\ p.y \in Int /\ 2 \in Fr
  BY PointIsOn, FieldIs
<1>2. \A c \in Int : Times(2, c) \in Fr /\ Cong(Times(2, c), c * 2)
  <2> TAKE c \in Int
  <2>1. 2 * c \in Int /\ 2 * c = c * 2 /\ Times(2, c) = (2 * c) % Q
    BY DEF Times
  <2> DEFINE m == 2 * c
  <2> HIDE DEF m
  <2>2. m % Q \in Fr /\ Cong(m % Q, m)
    BY <2>1, ModIs DEF m
  <2> QED BY <2>1, <2>2 DEF m
<1>3. P \in Projectives /\ P.x = Times(2, p.x) /\ P.y = Times(2, p.y) /\ P.z = 2
  BY <1>1, <1>2 DEF Projectives
<1> QED BY <1>1, <1>2, <1>3, TwoIsNot0 DEF StandsFor

\* On every curve whose A is a square and whose D is none, any two points are added
\* without an exception, and to the sum of the group law: affine never answers with its
\* makeshift point (add, affine).
THEOREM AddIsCompleteHolds == AddIsComplete
<1> SUFFICES ASSUME NEW p \in Points, NEW q \in Points
             PROVE  LET scaled == [x |-> Times(2, q.x), y |-> Times(2, q.y), z |-> 2]
                        sum == Add(Projective(p), scaled)
                    IN  sum.z # 0 /\ Affine(sum) = PointSum(p, q)
  BY DEF AddIsComplete
<1> DEFINE scaled == [x |-> Times(2, q.x), y |-> Times(2, q.y), z |-> 2]
           sum == Add(Projective(p), scaled)
<1>1. StandsFor(Projective(p), p) /\ StandsFor(scaled, q)
  BY ProjectiveIs, ScaledIs
<1>2. PointSum(p, q) \in [x : Fr, y : Fr]
  BY PointSumIs
<1> HIDE DEF scaled
<1>3. StandsFor(sum, PointSum(p, q))
  BY <1>1, AddIs
<1> HIDE DEF sum
<1>4. sum.z # 0 /\ Affine(sum) = PointSum(p, q)
  BY <1>2, <1>3, AffineIs
<1> QED BY <1>4 DEF sum, scaled

\* The sum of two points, in whole numbers, fits the equation of the curve when
\* its denominators are taken out.
LEMMA SumIsOn ==
  ASSUME NEW x1 \in Int, NEW y1 \in Int, NEW x2 \in Int, NEW y2 \in Int,
         Cong(A * (x1 * x1) + y1 * y1, 1 + D * ((x1 * y1) * (x1 * y1))),
         Cong(A * (x2 * x2) + y2 * y2, 1 + D * ((x2 * y2) * (x2 * y2)))
  PROVE  LET t == D * ((x1 * x2) * (y1 * y2))
             s == x1 * y2 + y1 * x2
             m == y1 * y2 - A * (x1 * x2)
         IN  Cong(A * ((s * (1 - t)) * (s * (1 - t))) + (m * (1 + t)) * (m * (1 + t)),
                  ((1 + t) * (1 - t)) * ((1 + t) * (1 - t)) + D * ((s * m) * (s * m)))
<1> DEFINE t == D * ((x1 * x2) * (y1 * y2))
           s == x1 * y2 + y1 * x2
           m == y1 * y2 - A * (x1 * x2)
           c1 == A * (x1 * x1) + y1 * y1  c2 == A * (x2 * x2) + y2 * y2
           g1 == y1 * y1 - A * (x1 * x1)  g2 == y2 * y2 - A * (x2 * x2)
           n1 == x1 * y1  n2 == x2 * y2  d1 == D * (n1 * n1)  d2 == D * (n2 * n2)
           k == A * (n1 * n2)
<1>1. A \in Int /\ D \in Int
  BY FieldIs
<1>2. A * (s * s) + m * m = c1 * c2
  BY <1>1
<1>3. m * m - A * (s * s) = g1 * g2 - 4 * k
  BY <1>1
<1>4. s * m = n1 * g2 + n2 * g1
  BY <1>1
<1>5. g1 * g1 = c1 * c1 - 4 * (A * (n1 * n1)) /\ g2 * g2 = c2 * c2 - 4 * (A * (n2 * n2))
  BY <1>1
<1>6. t = D * (n1 * n2)
  BY <1>1
<1>7. /\ n1 \in Int /\ n2 \in Int /\ c1 \in Int /\ c2 \in Int /\ g1 \in Int /\ g2 \in Int /\ s \in Int /\ m \in Int
  BY <1>1
<1>8. Cong(c1, 1 + d1) /\ Cong(c2, 1 + d2)
  OBVIOUS
<1> HIDE DEF n1, n2, c1, c2, g1, g2, s, m, t
<1>9. t \in Int /\ k \in Int /\ d1 \in Int /\ d2 \in Int
  BY <1>1, <1>6, <1>7
<1>10. d1 * d2 = t * t /\ d1 * (A * (n2 * n2)) = t * k /\ d2 * (A * (n1 * n1)) = t * k
  BY <1>1, <1>6, <1>7
<1> DEFINE l == A * ((s * (1 - t)) * (s * (1 - t))) + (m * (1 + t)) * (m * (1 + t))
           r == ((1 + t) * (1 - t)) * ((1 + t) * (1 - t)) + D * ((s * m) * (s * m))
           gg == t * (g1 * g2)
<1>11. l = (c1 * c2) * (1 + t * t) + 2 * gg - 8 * (t * k)
  <2>1. l = (A * (s * s) + m * m) * (1 + t * t) + 2 * (t * (m * m - A * (s * s)))
    BY <1>1, <1>7, <1>9
  <2>2. t * (g1 * g2 - 4 * k) = gg - 4 * (t * k)
    <3> HIDE DEF k
    <3> QED BY <1>7, <1>9
  <2>3. gg \in Int /\ t * k \in Int /\ c1 * c2 \in Int /\ t * t \in Int
    <3> HIDE DEF k
    <3>1. g1 * g2 \in Int /\ t * k \in Int /\ c1 * c2 \in Int /\ t * t \in Int
      BY <1>7, <1>9
    <3> QED BY <3>1, <1>9
  <2>4. l = (c1 * c2) * (1 + t * t) + 2 * (t * (g1 * g2 - 4 * k))
    BY <2>1, <1>2, <1>3
  <2>5. (c1 * c2) * (1 + t * t) \in Int
    <3>1. 1 + t * t \in Int
      BY <2>3
    <3> QED BY <3>1, <2>3
  <2> HIDE DEF l, gg, k
  <2> QED BY <2>2, <2>3, <2>4, <2>5
<1>12. r = ((1 + t) * (1 - t)) * ((1 + t) * (1 - t)) + d1 * (c2 * c2) + d2 * (c1 * c1) + 2 * gg - 8 * (t * k)
  <2>1. D * ((s * m) * (s * m)) = d1 * (g2 * g2) + d2 * (g1 * g1) + 2 * gg
    <3>1. D * ((n1 * g2 + n2 * g1) * (n1 * g2 + n2 * g1))
            = d1 * (g2 * g2) + d2 * (g1 * g1) + 2 * ((D * (n1 * n2)) * (g1 * g2))
      BY <1>1, <1>7
    <3> QED BY <3>1, <1>4, <1>6
  <2>2. d1 * (g2 * g2) = d1 * (c2 * c2) - 4 * (d1 * (A * (n2 * n2)))
    <3> DEFINE an == A * (n2 * n2)
    <3>1. an \in Int /\ g2 * g2 = c2 * c2 - 4 * an /\ c2 * c2 \in Int
      BY <1>1, <1>5, <1>7
    <3> HIDE DEF an, d1
    <3>2. d1 * (c2 * c2 - 4 * an) = d1 * (c2 * c2) - 4 * (d1 * an)
      BY <3>1, <1>9
    <3> QED BY <3>1, <3>2 DEF an
  <2>3. d2 * (g1 * g1) = d2 * (c1 * c1) - 4 * (d2 * (A * (n1 * n1)))
    <3> DEFINE an == A * (n1 * n1)
    <3>1. an \in Int /\ g1 * g1 = c1 * c1 - 4 * an /\ c1 * c1 \in Int
      BY <1>1, <1>5, <1>7
    <3> HIDE DEF an, d2
    <3>2. d2 * (c1 * c1 - 4 * an) = d2 * (c1 * c1) - 4 * (d2 * an)
      BY <3>1, <1>9
    <3> QED BY <3>1, <3>2 DEF an
  <2> DEFINE e1 == d1 * (c2 * c2)  e2 == d2 * (c1 * c1)  f == ((1 + t) * (1 - t)) * ((1 + t) * (1 - t))  tk == t * k
  <2>4. e1 \in Int /\ e2 \in Int /\ f \in Int /\ gg \in Int /\ tk \in Int
    <3>1. c2 * c2 \in Int /\ c1 * c1 \in Int /\ g1 * g2 \in Int /\ (1 + t) * (1 - t) \in Int
      BY <1>7, <1>9
    <3> HIDE DEF d1, d2, k
    <3>2. e1 \in Int /\ e2 \in Int
      BY <3>1, <1>9
    <3>3. f \in Int
      BY <3>1
    <3> QED BY <3>1, <3>2, <3>3, <1>9
  <2>5. r = f + (d1 * (g2 * g2) + d2 * (g1 * g1) + 2 * gg)
    BY <2>1
  <2>6. d1 * (g2 * g2) = e1 - 4 * tk /\ d2 * (g1 * g1) = e2 - 4 * tk
    BY <2>2, <2>3, <1>10
  <2>7. r = f + ((e1 - 4 * tk) + (e2 - 4 * tk) + 2 * gg)
    BY <2>5, <2>6
  <2> HIDE DEF e1, e2, f, r, gg, tk
  <2>8. r = f + e1 + e2 + 2 * gg - 8 * tk
    BY <2>4, <2>7
  <2> QED BY <2>8 DEF e1, e2, f, tk
<1> DEFINE b1 == 1 + d1  b2 == 1 + d2
<1>13. b1 \in Int /\ b2 \in Int /\ Cong(c1, b1) /\ Cong(c2, b2)
  BY <1>8, <1>9
<1>14. (b1 * b2) * (1 + t * t) = ((1 + t) * (1 - t)) * ((1 + t) * (1 - t)) + d1 * (b2 * b2) + d2 * (b1 * b1)
  <2>1. (b1 * b2) * (1 + d1 * d2) = (1 - d1 * d2) * (1 - d1 * d2) + d1 * (b2 * b2) + d2 * (b1 * b1)
    <3> HIDE DEF d1, d2
    <3> QED BY <1>9
  <2>2. (1 + t) * (1 - t) = 1 - t * t
    BY <1>9
  <2> HIDE DEF b1, b2, d1, d2
  <2> QED BY <2>1, <2>2, <1>10
<1> HIDE DEF b1, b2, d1, d2, k
<1> DEFINE f == ((1 + t) * (1 - t)) * ((1 + t) * (1 - t))  h == 2 * gg - 8 * (t * k)  o == 1 + t * t
           l1 == (c1 * c2) * o  l2 == (b1 * b2) * o  r1 == f + d1 * (c2 * c2) + d2 * (c1 * c1)  r2 == f + d1 * (b2 * b2) + d2 * (b1 * b1)
<1>15. o \in Int /\ f \in Int /\ h \in Int
  <2>1. t * t \in Int /\ (1 + t) * (1 - t) \in Int /\ g1 * g2 \in Int /\ t * k \in Int
    BY <1>7, <1>9
  <2>2. f \in Int
    <3> DEFINE e == (1 + t) * (1 - t)
    <3> HIDE DEF e
    <3>1. e * e \in Int
      BY <2>1 DEF e
    <3> QED BY <3>1 DEF e
  <2>3. gg \in Int
    BY <2>1, <1>9
  <2> HIDE DEF f, gg
  <2> QED BY <2>1, <2>2, <2>3
<1> HIDE DEF o, f, h
<1>16. Cong(l1, l2) /\ l1 \in Int /\ l2 \in Int
  <2> DEFINE p == c1 * c2  q == b1 * b2
  <2>1. p \in Int /\ q \in Int
    BY <1>7, <1>13
  <2>2. Cong(p, q)
    BY <1>7, <1>13, CongTimes
  <2> HIDE DEF p, q
  <2>3. p * o \in Int /\ q * o \in Int
    BY <2>1, <1>15
  <2>4. Cong(p * o, q * o)
    BY <2>1, <2>2, <1>15, CongRefl, CongTimes
  <2> QED BY <2>3, <2>4 DEF p, q
<1>17. Cong(r1, r2) /\ r1 \in Int /\ r2 \in Int
  <2>1. \A d, c, b \in Int : Cong(c, b) =>
          Cong(d * (c * c), d * (b * b)) /\ d * (c * c) \in Int /\ d * (b * b) \in Int
    <3> SUFFICES ASSUME NEW d \in Int, NEW c \in Int, NEW b \in Int, Cong(c, b)
                 PROVE  Cong(d * (c * c), d * (b * b)) /\ d * (c * c) \in Int /\ d * (b * b) \in Int
      OBVIOUS
    <3> DEFINE p == c * c  q == b * b
    <3>1. p \in Int /\ q \in Int
      OBVIOUS
    <3>2. Cong(p, q)
      BY CongTimes
    <3> HIDE DEF p, q
    <3>3. d * p \in Int /\ d * q \in Int
      BY <3>1
    <3>4. Cong(d * p, d * q)
      BY <3>1, <3>2, CongRefl, CongTimes
    <3> QED BY <3>3, <3>4 DEF p, q
  <2>2. Cong(d1 * (c2 * c2), d1 * (b2 * b2)) /\ d1 * (c2 * c2) \in Int /\ d1 * (b2 * b2) \in Int
    BY <2>1, <1>7, <1>9, <1>13
  <2>3. Cong(d2 * (c1 * c1), d2 * (b1 * b1)) /\ d2 * (c1 * c1) \in Int /\ d2 * (b1 * b1) \in Int
    BY <2>1, <1>7, <1>9, <1>13
  <2> DEFINE p == d1 * (c2 * c2)  p2 == d1 * (b2 * b2)  q == d2 * (c1 * c1)  q2 == d2 * (b1 * b1)
  <2> HIDE DEF p, p2, q, q2
  <2>4. p \in Int /\ p2 \in Int /\ q \in Int /\ q2 \in Int /\ Cong(p, p2) /\ Cong(q, q2)
    BY <2>2, <2>3 DEF p, p2, q, q2
  <2> DEFINE m1 == f + p  m2 == f + p2
  <2>5. m1 \in Int /\ m2 \in Int
    BY <2>4, <1>15
  <2>6. Cong(m1, m2)
    BY <2>4, <1>15, CongRefl, CongPlus
  <2> HIDE DEF m1, m2
  <2>7. m1 + q \in Int /\ m2 + q2 \in Int
    BY <2>4, <2>5
  <2>8. Cong(m1 + q, m2 + q2)
    BY <2>4, <2>5, <2>6, CongPlus
  <2> QED BY <2>7, <2>8 DEF p, p2, q, q2, m1, m2
<1>18. l2 = r2
  BY <1>14 DEF f, o
<1>19. l = l1 + h /\ r = r1 + h
  <2>1. l = l1 + 2 * gg - 8 * (t * k) /\ r = r1 + 2 * gg - 8 * (t * k)
    BY <1>11, <1>12 DEF o, f
  <2>2. gg \in Int /\ t * k \in Int
    <3>1. g1 * g2 \in Int /\ t * k \in Int
      BY <1>7, <1>9
    <3> QED BY <3>1, <1>9
  <2> HIDE DEF l, r, l1, r1, gg
  <2> QED BY <2>1, <2>2, <1>16, <1>17 DEF h
<1> HIDE DEF l1, l2, r1, r2, l, r
<1>20. Cong(l1, r1)
  <2>1. Cong(l2, r1)
    BY <1>17, <1>18, CongSym
  <2> QED BY <2>1, <1>16, <1>17, CongTrans
<1>21. Cong(l, r)
  BY <1>15, <1>16, <1>17, <1>19, <1>20, CongRefl, CongPlus
<1> QED BY <1>21 DEF l, r, t, s, m

\* The sum of two points is a point.
LEMMA SumIsPoint ==
  ASSUME NEW p \in Points, NEW q \in Points
  PROVE  PointSum(p, q) \in Points
<1> DEFINE x1 == p.x  y1 == p.y  x2 == q.x  y2 == q.y
           t == D * ((x1 * x2) * (y1 * y2))
           s == x1 * y2 + y1 * x2
           m == y1 * y2 - A * (x1 * x2)
           a == PointSum(p, q).x  b == PointSum(p, q).y
           up == 1 + t  down == 1 - t
<1>1. /\ x1 \in Int /\ y1 \in Int /\ x2 \in Int /\ y2 \in Int /\ D \in Int /\ A \in Int
      /\ Cong(A * (x1 * x1) + y1 * y1, 1 + D * ((x1 * y1) * (x1 * y1)))
      /\ Cong(A * (x2 * x2) + y2 * y2, 1 + D * ((x2 * y2) * (x2 * y2)))
  BY PointIsOn, FieldIs
<1>2. ~ Cong(up, 0) /\ ~ Cong(down, 0)
  BY Complete
<1>3. /\ PointSum(p, q) = [x |-> a, y |-> b] /\ a \in Fr /\ b \in Fr /\ a \in Int /\ b \in Int
      /\ Cong(a * up, s) /\ Cong(b * down, m)
  BY PointSumIs, FieldIs
<1> HIDE DEF x1, y1, x2, y2, a, b
<1>4. Cong(A * ((s * down) * (s * down)) + (m * up) * (m * up), (up * down) * (up * down) + D * ((s * m) * (s * m)))
  BY <1>1, SumIsOn
<1>5. s \in Int /\ m \in Int /\ t \in Int
  <2>1. x1 * x2 \in Int /\ y1 * y2 \in Int
    BY <1>1
  <2>2. (x1 * x2) * (y1 * y2) \in Int
    BY <2>1
  <2>3. t \in Int
    BY <2>2, <1>1
  <2>4. s \in Int /\ m \in Int
    BY <1>1
  <2> QED BY <2>3, <2>4
<1> HIDE DEF t, s, m
<1>6. up \in Int /\ down \in Int
  BY <1>5
<1> HIDE DEF up, down
<1> DEFINE k == (up * down) * (up * down)
           l == A * (a * a) + b * b  h == 1 + D * ((a * b) * (a * b))
<1>7. Cong(l * k, A * ((s * down) * (s * down)) + (m * up) * (m * up))
  <2> DEFINE sd == s * down  mu == m * up  e == (a * up) * down  f == (b * down) * up
  <2>1. sd \in Int /\ mu \in Int /\ e \in Int /\ f \in Int
    BY <1>3, <1>5, <1>6
  <2>2. Cong(e, sd) /\ Cong(f, mu)
    <3>1. a * up \in Int /\ b * down \in Int
      BY <1>3, <1>6
    <3>2. Cong((a * up) * down, s * down)
      BY <3>1, <1>3, <1>5, <1>6, CongRefl, CongTimes
    <3>3. Cong((b * down) * up, m * up)
      BY <3>1, <1>3, <1>5, <1>6, CongRefl, CongTimes
    <3> QED BY <3>2, <3>3
  <2>3. l * k = A * (e * e) + f * f
    BY <1>1, <1>3, <1>6
  <2> HIDE DEF e, f, sd, mu
  <2> DEFINE ee == e * e  ff == f * f  ss == sd * sd  mm == mu * mu
  <2>4. ee \in Int /\ ff \in Int /\ ss \in Int /\ mm \in Int
    BY <2>1
  <2>5. Cong(ee, ss) /\ Cong(ff, mm)
    BY <2>1, <2>2, CongTimes
  <2> HIDE DEF ee, ff, ss, mm
  <2>6. A * ee \in Int /\ A * ss \in Int
    BY <2>4, <1>1
  <2>8. Cong(A * ee, A * ss)
    BY <2>4, <2>5, <1>1, CongRefl, CongTimes
  <2>7. Cong(A * ee + ff, A * ss + mm)
    BY <2>4, <2>5, <2>6, <2>8, CongPlus
  <2> QED BY <2>3, <2>7 DEF ee, ff, ss, mm, sd, mu
<1>8. Cong(h * k, k + D * ((s * m) * (s * m)))
  <2> DEFINE sm == s * m  e == (a * up) * (b * down)
  <2>1. sm \in Int /\ e \in Int
    <3>1. a * up \in Int /\ b * down \in Int
      BY <1>3, <1>6
    <3> QED BY <3>1, <1>5
  <2>2. Cong(e, sm)
    <3>1. a * up \in Int /\ b * down \in Int
      BY <1>3, <1>6
    <3> QED BY <3>1, <1>3, <1>5, CongTimes
  <2>3. h * k = k + D * (e * e)
    BY <1>1, <1>3, <1>6
  <2> HIDE DEF e, sm
  <2> DEFINE ee == e * e  ss == sm * sm
  <2>4. ee \in Int /\ ss \in Int
    BY <2>1
  <2>5. Cong(ee, ss)
    BY <2>1, <2>2, CongTimes
  <2> HIDE DEF ee, ss
  <2>6. D * ee \in Int /\ D * ss \in Int
    BY <2>4, <1>1
  <2>9. Cong(D * ee, D * ss)
    BY <2>4, <2>5, <1>1, CongRefl, CongTimes
  <2>7. k \in Int
    <3>1. up * down \in Int
      BY <1>6
    <3> QED BY <3>1
  <2> HIDE DEF k
  <2>8. Cong(k + D * ee, k + D * ss)
    BY <2>6, <2>7, <2>9, CongRefl, CongPlus
  <2> QED BY <2>3, <2>8 DEF ee, ss, sm
<1>9. k \in Int /\ l \in Int /\ h \in Int /\ s * m \in Int /\ s * down \in Int /\ m * up \in Int
  <2>1. up * down \in Int /\ s * m \in Int /\ s * down \in Int /\ m * up \in Int /\ a * b \in Int /\ a * a \in Int /\ b * b \in Int
    BY <1>3, <1>5, <1>6
  <2>2. k \in Int /\ (a * b) * (a * b) \in Int
    BY <2>1
  <2>3. l \in Int /\ h \in Int
    BY <2>1, <2>2, <1>1
  <2> QED BY <2>1, <2>2, <2>3
<1> DEFINE r1 == A * ((s * down) * (s * down)) + (m * up) * (m * up)  r2 == k + D * ((s * m) * (s * m))
<1>10. r1 \in Int /\ r2 \in Int
  <2>1. (s * down) * (s * down) \in Int /\ (m * up) * (m * up) \in Int /\ (s * m) * (s * m) \in Int
    BY <1>9
  <2> HIDE DEF k
  <2> QED BY <2>1, <1>1, <1>9
<1>11. Cong(l * k, r1) /\ Cong(r1, r2) /\ Cong(h * k, r2)
  BY <1>4, <1>7, <1>8
<1>12. ~ Cong(k, 0)
  <2> DEFINE ud == up * down
  <2>1. ~ Cong(ud, 0) /\ ud \in Int
    BY <1>2, <1>6, NoZeroDivisors
  <2> HIDE DEF ud
  <2>2. ~ Cong(ud * ud, 0)
    BY <2>1, NoZeroDivisors
  <2> QED BY <2>2 DEF ud
<1> HIDE DEF k, l, h, r1, r2
<1>13. l * k \in Int /\ h * k \in Int
  BY <1>9
<1>14. Cong(l * k, h * k)
  <2>1. Cong(l * k, r2) /\ Cong(r2, h * k)
    BY <1>10, <1>11, <1>13, CongSym, CongTrans
  <2> QED BY <2>1, <1>10, <1>13, CongTrans
<1>15. Cong(l, h)
  BY <1>9, <1>12, <1>14, Cancel
<1>16. OnCurve(a, b)
  BY <1>3, <1>15, OnCurveIs DEF l, h
<1> QED BY <1>3, <1>16 DEF Points

\* The powers of two.
LEMMA TwoToIs ==
  /\ TwoTo \in [0..WIDTH -> Nat \ {0}]
  /\ TwoTo[0] = 1
  /\ \A n \in 1..WIDTH : TwoTo[n] = 2 * TwoTo[n - 1]
<1> DEFINE V == Nat \ {0}
           double == [x \in V |-> 2 * x]
           step == [l \in 1..WIDTH |-> double]
           Eq(f) == f = [n \in 0..WIDTH |-> IF n = 0 THEN 1 ELSE 2 * f[n - 1]]
<1>1. WIDTH \in Nat
  BY ScalarAssumption
<1>2. step \in [1..WIDTH -> [V -> V]]
  OBVIOUS
<1>3. PICK f : Solves(f, WIDTH, V, 1, step)
  <2> HIDE DEF step
  <2>1. 1 \in V
    OBVIOUS
  <2> HIDE DEF V
  <2> QED BY <1>1, <1>2, <2>1, Recursion
<1>4. f \in [0..WIDTH -> V] /\ f[0] = 1
  BY <1>3 DEF Solves
<1>5. \A l \in 1..WIDTH : f[l] = 2 * f[l - 1]
  <2> TAKE l \in 1..WIDTH
  <2>1. f[l - 1] \in V /\ f[l] = step[l][f[l - 1]]
    BY <1>1, <1>3, SMTT(30) DEF Solves
  <2> QED BY <2>1
<1>6. Eq(f)
  <2>1. \A n \in 0..WIDTH : f[n] = IF n = 0 THEN 1 ELSE 2 * f[n - 1]
    BY <1>1, <1>4, <1>5
  <2> QED BY <2>1, <1>4
<1>7. Eq(TwoTo)
  <2> HIDE DEF Eq
  <2>1. TwoTo = CHOOSE g : Eq(g)
    BY DEF TwoTo, Eq
  <2> QED BY <2>1, <1>6
<1>8. TwoTo = [n \in 0..WIDTH |-> TwoTo[n]] /\ TwoTo[0] = 1 /\ \A n \in 1..WIDTH : TwoTo[n] = 2 * TwoTo[n - 1]
  <2>1. \A n \in 0..WIDTH : TwoTo[n] = IF n = 0 THEN 1 ELSE 2 * TwoTo[n - 1]
    BY <1>7
  <2>2. TwoTo = [n \in 0..WIDTH |-> TwoTo[n]]
    BY <1>7
  <2> HIDE DEF Eq
  <2>3. TwoTo[0] = 1 /\ \A n \in 1..WIDTH : TwoTo[n] = 2 * TwoTo[n - 1]
    BY <1>1, <2>1
  <2> QED BY <2>2, <2>3
<1> HIDE DEF Eq, step
<1>9. \A n \in 0..WIDTH : f[n] = TwoTo[n]
  <2>1. f[0] = TwoTo[0] /\ \A n \in 1..WIDTH : f[n - 1] = TwoTo[n - 1] => f[n] = TwoTo[n]
    BY <1>4, <1>5, <1>8
  <2> QED BY <1>1, <2>1, SameByLevel
<1>10. \A n \in 0..WIDTH : TwoTo[n] \in V
  BY <1>4, <1>9
<1> QED BY <1>8, <1>10

\* What a number is in binary, a bit more.
LEMMA BitIs ==
  ASSUME NEW n \in Nat, NEW t \in Nat \ {0}
  PROVE  /\ n \div t \in Nat /\ n % t \in Nat /\ n % (2 * t) \in Nat
         /\ n % (2 * t) = (n % t) + (IF (n \div t) % 2 = 1 THEN t ELSE 0)
         /\ n < t => n % t = n
<1> DEFINE q == n \div t  r == n % t
<1>1. q \in Nat /\ r \in 0..(t - 1) /\ n = t * q + r
  BY ModBounds
<1> HIDE DEF q, r
<1> DEFINE h == q \div 2  b == q % 2
<1>2. h \in Nat /\ b \in 0..1 /\ q = 2 * h + b
  BY <1>1
<1> HIDE DEF h, b
<1> DEFINE v == b * t + r
<1>3. v \in 0..(2 * t - 1) /\ n = (2 * t) * h + v /\ 2 * t \in Nat \ {0}
  <2>1. b = 0 \/ b = 1
    BY <1>2
  <2>2. b * t + r \in 0..(2 * t - 1)
    <3>1. b = 0 => b * t = 0
      OBVIOUS
    <3>2. b = 1 => b * t = t
      OBVIOUS
    <3> QED BY <2>1, <3>1, <3>2, <1>1
  <2>3. t * (2 * h + b) = (2 * t) * h + b * t
    BY <1>2
  <2>4. (2 * t) * h \in Nat /\ b * t \in Nat
    BY <1>2
  <2> QED BY <2>2, <2>3, <2>4, <1>1, <1>2
<1>4. n % (2 * t) = v
  <2> DEFINE tt == 2 * t
  <2> HIDE DEF tt, v
  <2>1. tt \in Nat \ {0} /\ v \in 0..(tt - 1) /\ n = tt * h + v
    BY <1>3 DEF tt
  <2>2. (tt * h + v) % tt = v
    BY <2>1, <1>2, DivUnique
  <2> QED BY <2>1, <2>2 DEF tt
<1>5. v = r + (IF b = 1 THEN t ELSE 0)
  <2>1. b = 0 \/ b = 1
    BY <1>2
  <2>2. b = 0 => b * t = 0
    OBVIOUS
  <2>3. b = 1 => b * t = t
    OBVIOUS
  <2> QED BY <2>1, <2>2, <2>3, <1>1
<1>6. n < t => n % t = n
  <2> SUFFICES ASSUME n < t PROVE n % t = n
    OBVIOUS
  <2>1. n \in 0..(t - 1) /\ 0 \in Nat /\ t * 0 + n = n
    OBVIOUS
  <2>2. (t * 0 + n) % t = n
    BY <2>1, DivUnique
  <2> QED BY <2>1, <2>2
<1>7. v \in Nat
  BY <1>3
<1> QED BY <1>1, <1>4, <1>5, <1>6, <1>7 DEF q, r, b
-----------------------------------------------------------------------------
(* Multiples. *)

\* Points that are a group under the sum.
IsGroup(G) ==
  /\ G \in SUBSET Points /\ Identity \in G
  /\ \A p, q \in G : PointSum(p, q) \in G
  /\ \A p, q, r \in G : PointSum(PointSum(p, q), r) = PointSum(p, PointSum(q, r))

\* The identity is a point that adds nothing.
LEMMA IdentityIs ==
  /\ Identity \in Points
  /\ \A p \in Points : PointSum(p, Identity) = p
<1>1. Identity.x = 0 /\ Identity.y = 1 /\ Identity = [x |-> 0, y |-> 1]
  BY DEF Identity
<1>2. Identity \in Points
  <2>1. OnCurve(0, 1)
    <3>1. A * (0 * 0) + 1 * 1 = 1 /\ 1 + D * ((0 * 1) * (0 * 1)) = 1 /\ 1 \in Int
      BY FieldIs
    <3>2. Cong(1, 1)
      BY CongRefl
    <3> QED BY <3>1, <3>2, FieldIs, OnCurveIs
  <2> QED BY <2>1, <1>1, FieldIs DEF Points
<1>3. ASSUME NEW p \in Points PROVE PointSum(p, Identity) = p
  <2> DEFINE s == PointSum(p, Identity)
             t == D * ((p.x * Identity.x) * (p.y * Identity.y))
  <2>1. /\ s \in [x : Fr, y : Fr]
        /\ Cong(s.x * (1 + t), p.x * Identity.y + p.y * Identity.x)
        /\ Cong(s.y * (1 - t), p.y * Identity.y - A * (p.x * Identity.x))
    BY <1>2, PointSumIs
  <2>2. p.x \in Fr /\ p.y \in Fr /\ p.x \in Int /\ p.y \in Int /\ D \in Int /\ A \in Int /\ p = [x |-> p.x, y |-> p.y]
    BY PointIsOn, FieldIs
  <2>3. t = 0 /\ p.x * Identity.y + p.y * Identity.x = p.x /\ p.y * Identity.y - A * (p.x * Identity.x) = p.y
    BY <1>1, <2>2
  <2>4. s.x \in Fr /\ s.y \in Fr /\ s.x \in Int /\ s.y \in Int /\ s = [x |-> s.x, y |-> s.y]
    BY <2>1, FieldIs
  <2> HIDE DEF s, t
  <2>5. s.x * (1 + t) = s.x /\ s.y * (1 - t) = s.y
    BY <2>3, <2>4
  <2>6. Cong(s.x, p.x) /\ Cong(s.y, p.y)
    BY <2>1, <2>3, <2>5
  <2>7. s.x = p.x /\ s.y = p.y
    BY <2>2, <2>4, <2>6, CongSame
  <2> QED BY <2>2, <2>4, <2>7 DEF s
<1> QED BY <1>2, <1>3

\* What a multiple is defined by.
IsMultiples(m, p, n) ==
  /\ m[0] = Identity
  /\ \A l \in 1..n : m[l] = PointSum(m[l - 1], p)

\* The multiples of a point of a group are in the group.
LEMMA MultiplesExist ==
  ASSUME NEW G, IsGroup(G), NEW p \in G, NEW n \in Nat
  PROVE  \E m : IsMultiples(m, p, n) /\ (\A l \in 0..n : m[l] \in G) /\ Multiple(p, n) = m[n]
<1> DEFINE plus == [x \in G |-> PointSum(x, p)]
           step == [l \in 1..n |-> plus]
           Eq(f) == f = [i \in 0..n |-> IF i = 0 THEN Identity ELSE PointSum(f[i - 1], p)]
           m == CHOOSE f : Eq(f)
<1>1. step \in [1..n -> [G -> G]]
  BY DEF IsGroup
<1>2. PICK f : Solves(f, n, G, Identity, step)
  <2> HIDE DEF step
  <2> QED BY <1>1, Recursion DEF IsGroup
<1>3. f \in [0..n -> G] /\ f[0] = Identity
  BY <1>2 DEF Solves
<1>4. \A l \in 1..n : f[l] = PointSum(f[l - 1], p)
  <2> TAKE l \in 1..n
  <2>1. f[l - 1] \in G /\ f[l] = step[l][f[l - 1]]
    BY <1>2 DEF Solves
  <2> QED BY <2>1
<1>5. Eq(f)
  <2>1. \A i \in 0..n : f[i] = IF i = 0 THEN Identity ELSE PointSum(f[i - 1], p)
    BY <1>3, <1>4
  <2> QED BY <2>1, <1>3
<1>6. Eq(m)
  <2> HIDE DEF Eq
  <2> QED BY <1>5
<1>7. IsMultiples(m, p, n)
  <2>1. \A i \in 0..n : m[i] = IF i = 0 THEN Identity ELSE PointSum(m[i - 1], p)
    BY <1>6
  <2> HIDE DEF m
  <2> QED BY <2>1 DEF IsMultiples
<1>8. Multiple(p, n) = m[n]
  BY DEF Multiple
<1> HIDE DEF m, step, Eq
<1>9. \A i \in 0..n : m[i] = f[i]
  <2>1. m[0] = f[0] /\ \A l \in 1..n : m[l - 1] = f[l - 1] => m[l] = f[l]
    BY <1>3, <1>4, <1>7 DEF IsMultiples
  <2> QED BY <2>1, SameByLevel
<1>10. \A l \in 0..n : m[l] \in G
  BY <1>3, <1>9
<1> QED BY <1>7, <1>8, <1>10

\* Each multiple is the sum of the one before and the point.
LEMMA MultipleIs ==
  ASSUME NEW G, IsGroup(G), NEW p \in G
  PROVE  /\ Multiple(p, 0) = Identity
         /\ \A n \in Nat : Multiple(p, n) \in G
         /\ \A n \in Nat : Multiple(p, n + 1) = PointSum(Multiple(p, n), p)
<1>1. \A n \in Nat : Multiple(p, n) \in G /\ (n = 0 => Multiple(p, n) = Identity)
  <2> TAKE n \in Nat
  <2>1. PICK m : IsMultiples(m, p, n) /\ (\A l \in 0..n : m[l] \in G) /\ Multiple(p, n) = m[n]
    BY MultiplesExist
  <2> QED BY <2>1 DEF IsMultiples
<1>2. ASSUME NEW n \in Nat PROVE Multiple(p, n + 1) = PointSum(Multiple(p, n), p)
  <2>1. PICK m : IsMultiples(m, p, n) /\ (\A l \in 0..n : m[l] \in G) /\ Multiple(p, n) = m[n]
    BY MultiplesExist
  <2>2. PICK k : IsMultiples(k, p, n + 1) /\ (\A l \in 0..(n + 1) : k[l] \in G) /\ Multiple(p, n + 1) = k[n + 1]
    <3>1. n + 1 \in Nat
      OBVIOUS
    <3> QED BY <3>1, MultiplesExist
  <2>3. \A l \in 0..n : m[l] = k[l]
    <3>1. m[0] = k[0]
      BY <2>1, <2>2 DEF IsMultiples
    <3>2. ASSUME NEW l \in 1..n, m[l - 1] = k[l - 1] PROVE m[l] = k[l]
      <4>1. m[l] = PointSum(m[l - 1], p)
        BY <2>1 DEF IsMultiples
      <4>2. l \in 1..(n + 1)
        OBVIOUS
      <4>3. k[l] = PointSum(k[l - 1], p)
        BY <2>2, <4>2 DEF IsMultiples
      <4> QED BY <3>2, <4>1, <4>3
    <3> QED BY <3>1, <3>2, SameByLevel
  <2>4. k[n + 1] = PointSum(k[n], p)
    <3>1. n + 1 \in 1..(n + 1) /\ (n + 1) - 1 = n
      OBVIOUS
    <3> QED BY <2>2, <3>1 DEF IsMultiples
  <2> QED BY <2>1, <2>2, <2>3, <2>4
<1> QED BY <1>1, <1>2

\* Multiples add up.
LEMMA MultiplePlus ==
  ASSUME NEW G, IsGroup(G), NEW p \in G, NEW a \in Nat, NEW b \in Nat
  PROVE  Multiple(p, a + b) = PointSum(Multiple(p, a), Multiple(p, b))
<1> DEFINE f == [k \in 0..b |-> Multiple(p, a + k)]
           g == [k \in 0..b |-> PointSum(Multiple(p, a), Multiple(p, k))]
<1>1. Multiple(p, a) \in G /\ \A k \in Nat : Multiple(p, k) \in G
  BY MultipleIs
<1>2. f[0] = g[0]
  <2>1. a + 0 = a /\ Multiple(p, 0) = Identity
    BY MultipleIs
  <2>2. PointSum(Multiple(p, a), Identity) = Multiple(p, a)
    BY <1>1, IdentityIs DEF IsGroup
  <2> QED BY <2>1, <2>2
<1>3. ASSUME NEW l \in 1..b, f[l - 1] = g[l - 1] PROVE f[l] = g[l]
  <2> DEFINE k == l - 1
  <2>1. k \in Nat /\ k \in 0..b /\ k + 1 = l /\ a + k \in Nat /\ (a + k) + 1 = a + l
    OBVIOUS
  <2>2. Multiple(p, a + k) = PointSum(Multiple(p, a), Multiple(p, k))
    BY <1>3, <2>1
  <2> HIDE DEF k
  <2>3. Multiple(p, (a + k) + 1) = PointSum(Multiple(p, a + k), p) /\ Multiple(p, k + 1) = PointSum(Multiple(p, k), p)
    BY <2>1, MultipleIs
  <2>4. PointSum(PointSum(Multiple(p, a), Multiple(p, k)), p) = PointSum(Multiple(p, a), PointSum(Multiple(p, k), p))
    BY <1>1, <2>1 DEF IsGroup
  <2>5. Multiple(p, a + l) = PointSum(Multiple(p, a), Multiple(p, l))
    BY <2>1, <2>2, <2>3, <2>4
  <2> QED BY <2>5
<1> HIDE DEF f, g
<1>4. \A k \in 0..b : f[k] = g[k]
  BY <1>2, <1>3, SameByLevel
<1> QED BY <1>4 DEF f, g

\* add gives projective coordinates whatever it is given.
LEMMA AddTyped ==
  ASSUME NEW P \in Projectives, NEW R \in Projectives
  PROVE  Add(P, R) \in Projectives
<1>1. \A a, b \in Int : Times(a, b) \in Fr /\ Times(a, b) \in Int /\ Minus(a, b) \in Fr /\ Minus(a, b) \in Int
  BY TimesIs, MinusIs, CongRefl
<1>2. \A a, b \in Int : (a + b) % Q \in Int
  BY PlusIs, CongRefl
<1> DEFINE a == Times(P.z, R.z)  b == Square(a)  c == Times(P.x, R.x)  dxy == Times(P.y, R.y)
           e == Times(Times(D, c), dxy)  f == Minus(b, e)  g == (b + e) % Q
           aux == Cross(P, R, c, dxy)  dac == Minus(dxy, Times(A, c))
<1>3. /\ P.x \in Int /\ P.y \in Int /\ P.z \in Int /\ R.x \in Int /\ R.y \in Int /\ R.z \in Int
      /\ A \in Int /\ D \in Int
  BY FieldIs DEF Projectives
<1>4. a \in Int /\ b \in Int /\ c \in Int /\ dxy \in Int /\ Times(D, c) \in Int /\ Times(A, c) \in Int
  BY <1>1, <1>3 DEF Square
<1>5. aux \in Int
  <2> HIDE DEF c, dxy
  <2>1. P.x + P.y \in Int /\ R.x + R.y \in Int
    BY <1>3
  <2>2. Times(P.x + P.y, R.x + R.y) \in Int
    BY <2>1, <1>1
  <2> DEFINE m == Times(P.x + P.y, R.x + R.y) - c - dxy
  <2>3. m \in Int
    BY <2>2, <1>4
  <2>4. aux = m % Q
    BY DEF Cross
  <2> HIDE DEF m
  <2> QED BY <2>3, <2>4, ModIs, FieldIs
<1> HIDE DEF a, b, c, dxy, aux
<1>6. e \in Int
  BY <1>1, <1>4
<1> HIDE DEF e
<1>7. f \in Int /\ g \in Int /\ dac \in Int
  BY <1>1, <1>2, <1>4, <1>6
<1> HIDE DEF f, g, dac
<1>8. /\ Times(Times(a, f), aux) \in Fr /\ Times(Times(a, g), dac) \in Fr /\ Times(f, g) \in Fr
  BY <1>1, <1>4, <1>5, <1>7
<1>9. Add(P, R) = [x |-> Times(Times(a, f), aux), y |-> Times(Times(a, g), dac), z |-> Times(f, g)]
  BY DEF Add, a, b, c, dxy, e, f, g, aux, dac
<1> QED BY <1>8, <1>9 DEF Projectives

\* The sum is the same in either order.
LEMMA SumCommutes ==
  ASSUME NEW p \in Points, NEW q \in Points
  PROVE  PointSum(p, q) = PointSum(q, p)
<1>1. p.x \in Int /\ p.y \in Int /\ q.x \in Int /\ q.y \in Int
  BY PointIsOn
<1>2. \A a, b \in Int : Times(a, b) = Times(b, a) /\ Times(a, b) \in Int
  <2> TAKE a \in Int, b \in Int
  <2>1. a * b = b * a
    OBVIOUS
  <2>2. Times(a, b) \in Int
    BY TimesIs, CongRefl
  <2> QED BY <2>1, <2>2 DEF Times
<1>3. /\ Times(p.x, q.x) = Times(q.x, p.x) /\ Times(p.y, q.y) = Times(q.y, p.y)
      /\ Times(p.x, q.y) = Times(q.y, p.x) /\ Times(p.y, q.x) = Times(q.x, p.y)
      /\ Times(q.y, p.x) \in Int /\ Times(q.x, p.y) \in Int
  BY <1>1, <1>2
<1>4. Times(p.x, q.y) + Times(p.y, q.x) = Times(q.x, p.y) + Times(q.y, p.x)
  BY <1>3
<1> QED BY <1>3, <1>4 DEF PointSum

\* A number below the greatest power of two has bits that hold it.
LEMMA BitsIs ==
  ASSUME NEW n \in Int, Magnitude(n) < TwoTo[WIDTH]
  PROVE  Magnitude(n) \in Nat /\ Bits(n) \in 0..WIDTH /\ TwoTo[Bits(n)] > Magnitude(n)
<1>1. WIDTH \in Nat
  BY ScalarAssumption
<1>2. Magnitude(n) \in Nat
  BY DEF Magnitude
<1> DEFINE N == Magnitude(n)  T == {i \in 0..WIDTH : TwoTo[i] > N}
           P(i) == TwoTo[i] > N /\ \A j \in 0..(i - 1) : TwoTo[j] <= N
<1> HIDE DEF N
<1>3. PICK i \in T : \A j \in T : i <= j
  <2>1. T \in SUBSET Nat
    BY <1>1
  <2>2. WIDTH \in T
    BY <1>1 DEF N
  <2> HIDE DEF T
  <2> QED BY <2>1, <2>2, LeastOf
<1>4. \A j \in 0..(i - 1) : TwoTo[j] <= N
  <2> TAKE j \in 0..(i - 1)
  <2>1. j \in 0..WIDTH /\ j \notin T
    BY <1>1, <1>3
  <2>2. TwoTo[j] \in Nat /\ N \in Nat
    BY <2>1, <1>2, TwoToIs DEF N
  <2> QED BY <2>1, <2>2
<1>5. P(i) /\ i \in 0..WIDTH
  BY <1>3, <1>4
<1>6. Bits(n) = CHOOSE k \in 0..WIDTH : P(k)
  BY DEF Bits, N
<1> HIDE DEF P
<1>7. P(Bits(n)) /\ Bits(n) \in 0..WIDTH
  BY <1>5, <1>6
<1> QED BY <1>2, <1>7 DEF P, N

\* What mul_scalar's loop leaves after each bit.
AreSteps(step, p, n) ==
  /\ step[0].r = Projective(Identity) /\ step[0].exp = Projective(p)
  /\ \A i \in 1..WIDTH :
       /\ step[i].r = IF TestBit(n, i - 1) THEN Add(step[i - 1].r, step[i - 1].exp) ELSE step[i - 1].r
       /\ step[i].exp = Add(step[i - 1].exp, step[i - 1].exp)

\* The loop runs to the scalar's last bit.
LEMMA StepsExist ==
  ASSUME NEW p \in Points, NEW n \in Int
  PROVE  \E step : AreSteps(step, p, n) /\ MulScalar(p, n) = Affine(step[Bits(n)].r)
<1> DEFINE V == [r : Projectives, exp : Projectives]
           start == [r |-> Projective(Identity), exp |-> Projective(p)]
           next(i, s) == [r |-> IF TestBit(n, i - 1) THEN Add(s.r, s.exp) ELSE s.r, exp |-> Add(s.exp, s.exp)]
           Eq(f) == f = [i \in 0..WIDTH |-> IF i = 0 THEN start ELSE next(i, f[i - 1])]
           step == CHOOSE f : Eq(f)
<1>1. WIDTH \in Nat
  BY ScalarAssumption
<1>2. start \in V
  <2>1. Projective(Identity) \in Projectives /\ Projective(p) \in Projectives
    BY IdentityIs, ProjectiveIs DEF StandsFor
  <2> QED BY <2>1
<1>3. \A i \in 1..WIDTH : \A s \in V : next(i, s) \in V
  BY AddTyped
<1>4. PICK f : Eq(f)
  <2> DEFINE steps == [i \in 1..WIDTH |-> [s \in V |-> next(i, s)]]
  <2>1. steps \in [1..WIDTH -> [V -> V]]
    <3> HIDE DEF V, next
    <3> QED BY <1>3
  <2>2. PICK g : Solves(g, WIDTH, V, start, steps)
    <3> HIDE DEF V, steps, start
    <3> QED BY <1>1, <1>2, <2>1, Recursion
  <2>3. g \in [0..WIDTH -> V] /\ g[0] = start
    BY <2>2 DEF Solves
  <2>4. ASSUME NEW i \in 1..WIDTH PROVE g[i] = next(i, g[i - 1])
    <3>1. g[i - 1] \in V /\ g[i] = steps[i][g[i - 1]]
      <4> HIDE DEF steps, start, V
      <4> QED BY <1>1, <2>2, <2>3 DEF Solves
    <3> HIDE DEF next, V
    <3> QED BY <3>1
  <2>5. \A i \in 0..WIDTH : g[i] = IF i = 0 THEN start ELSE next(i, g[i - 1])
    <3> HIDE DEF next, start
    <3> QED BY <2>3, <2>4
  <2>6. Eq(g)
    <3> HIDE DEF next, start
    <3> QED BY <2>3, <2>5
  <2> QED BY <2>6
<1>5. Eq(step)
  <2> HIDE DEF Eq
  <2> QED BY <1>4
<1>6. step[0] = start /\ \A i \in 1..WIDTH : step[i] = next(i, step[i - 1])
  <2>1. \A i \in 0..WIDTH : step[i] = IF i = 0 THEN start ELSE next(i, step[i - 1])
    <3> HIDE DEF next, start, step
    <3> QED BY <1>5
  <2> HIDE DEF next, start, step, Eq
  <2> QED BY <1>1, <2>1
<1>7. AreSteps(step, p, n)
  <2> HIDE DEF step, Eq, V
  <2>1. step[0].r = Projective(Identity) /\ step[0].exp = Projective(p)
    BY <1>6
  <2>2. ASSUME NEW i \in 1..WIDTH
        PROVE  /\ step[i].r = IF TestBit(n, i - 1) THEN Add(step[i - 1].r, step[i - 1].exp) ELSE step[i - 1].r
               /\ step[i].exp = Add(step[i - 1].exp, step[i - 1].exp)
    <3> DEFINE s == step[i - 1]
    <3>1. step[i] = next(i, s)
      BY <1>6
    <3> HIDE DEF s
    <3> QED BY <3>1 DEF s
  <2> QED BY <2>1, <2>2 DEF AreSteps
<1>8. MulScalar(p, n) = Affine(step[Bits(n)].r)
  BY DEF MulScalar
<1> HIDE DEF step
<1> QED BY <1>7, <1>8

\* Double and add gives the multiple.
LEMMA MulScalarIs ==
  ASSUME NEW G, IsGroup(G), NEW p \in G, NEW n \in Int, Magnitude(n) < TwoTo[WIDTH]
  PROVE  MulScalar(p, n) = Multiple(p, Magnitude(n))
<1> DEFINE N == Magnitude(n)
<1>1. WIDTH \in Nat /\ N \in Nat /\ Bits(n) \in 0..WIDTH /\ TwoTo[Bits(n)] > N
  BY ScalarAssumption, BitsIs
<1>2. p \in Points /\ Identity \in Points
  BY DEF IsGroup
<1>3. PICK step : AreSteps(step, p, n) /\ MulScalar(p, n) = Affine(step[Bits(n)].r)
  BY <1>2, StepsExist
<1> DEFINE Fits(i) == /\ StandsFor(step[i].r, Multiple(p, N % TwoTo[i]))
                      /\ StandsFor(step[i].exp, Multiple(p, TwoTo[i]))
           T == {i \in 0..WIDTH : ~ Fits(i)}
<1>8. \A k \in Nat : Multiple(p, k) \in Points
  BY MultipleIs DEF IsGroup
<1>9. Fits(0)
  <2>1. TwoTo[0] = 1 /\ N % 1 = 0 /\ Multiple(p, 0) = Identity
    BY <1>1, TwoToIs, MultipleIs
  <2>2. Multiple(p, 1) = p
    <3>1. Multiple(p, 0 + 1) = PointSum(Identity, p) /\ 0 + 1 = 1 /\ 0 \in Nat
      BY <2>1, MultipleIs
    <3>2. PointSum(Identity, p) = PointSum(p, Identity)
      BY <1>2, SumCommutes
    <3> QED BY <3>1, <3>2, <1>2, IdentityIs
  <2>3. StandsFor(step[0].r, Identity) /\ StandsFor(step[0].exp, p)
    BY <1>2, <1>3, ProjectiveIs DEF AreSteps
  <2> QED BY <2>1, <2>2, <2>3
<1>10. ASSUME NEW i \in 1..WIDTH, Fits(i - 1) PROVE Fits(i)
  <2> DEFINE k == i - 1  t == TwoTo[k]  s == step[k]
  <2>1. k \in 0..WIDTH /\ t \in Nat \ {0} /\ TwoTo[i] = 2 * t
    BY <1>1, TwoToIs
  <2>2. StandsFor(s.r, Multiple(p, N % t)) /\ StandsFor(s.exp, Multiple(p, t))
    BY <1>10
  <2>4. step[i].r = (IF TestBit(n, k) THEN Add(s.r, s.exp) ELSE s.r) /\ step[i].exp = Add(s.exp, s.exp)
    BY <1>3 DEF AreSteps
  <2>5. TestBit(n, k) <=> (N \div t) % 2 = 1
    BY DEF TestBit
  <2> HIDE DEF k, t, s, N
  <2>6. N % t \in Nat /\ N % (2 * t) = (N % t) + (IF (N \div t) % 2 = 1 THEN t ELSE 0)
    BY <1>1, <2>1, BitIs
  <2>7. StandsFor(step[i].exp, Multiple(p, 2 * t))
    <3>1. Multiple(p, t) \in Points /\ t \in Nat
      BY <1>8, <2>1
    <3>2. StandsFor(Add(s.exp, s.exp), PointSum(Multiple(p, t), Multiple(p, t)))
      BY <3>1, <2>2, AddIs
    <3>3. t + t = 2 * t /\ Multiple(p, t + t) = PointSum(Multiple(p, t), Multiple(p, t))
      BY <3>1, MultiplePlus
    <3> QED BY <2>4, <3>2, <3>3
  <2>8. StandsFor(step[i].r, Multiple(p, N % (2 * t)))
    <3>1. CASE TestBit(n, k)
      <4>1. N % (2 * t) = (N % t) + t /\ step[i].r = Add(s.r, s.exp)
        BY <2>4, <2>5, <2>6, <3>1
      <4>2. Multiple(p, N % t) \in Points /\ Multiple(p, t) \in Points
        BY <1>8, <2>1, <2>6
      <4>3. StandsFor(Add(s.r, s.exp), PointSum(Multiple(p, N % t), Multiple(p, t)))
        BY <4>2, <2>2, AddIs
      <4>4. Multiple(p, (N % t) + t) = PointSum(Multiple(p, N % t), Multiple(p, t))
        <5> DEFINE low == N % t
        <5>1. low \in Nat
          BY <2>6
        <5> HIDE DEF low
        <5>2. Multiple(p, low + t) = PointSum(Multiple(p, low), Multiple(p, t))
          BY <2>1, <5>1, MultiplePlus
        <5> QED BY <5>2 DEF low
      <4> QED BY <4>1, <4>3, <4>4
    <3>2. CASE ~ TestBit(n, k)
      <4>1. N % (2 * t) = N % t /\ step[i].r = s.r
        BY <2>4, <2>5, <2>6, <3>2
      <4> QED BY <4>1, <2>2
    <3> QED BY <3>1, <3>2
  <2> QED BY <2>1, <2>7, <2>8
<1> HIDE DEF Fits
<1>11. T = {}
  <2> SUFFICES ASSUME T # {} PROVE FALSE
    OBVIOUS
  <2>1. T \in SUBSET Nat
    BY <1>1
  <2>2. PICK i \in T : \A j \in T : i <= j
    <3> HIDE DEF T
    <3> QED BY <2>1, LeastOf
  <2>3. i # 0
    BY <2>2, <1>9
  <2>4. i \in 1..WIDTH /\ i - 1 \in 0..WIDTH /\ i - 1 \notin T
    BY <1>1, <2>2, <2>3
  <2> QED BY <2>2, <2>4, <1>10
<1>12. Fits(Bits(n))
  BY <1>1, <1>11
<1>13. N % TwoTo[Bits(n)] = N
  <2>1. TwoTo[Bits(n)] \in Nat \ {0}
    BY <1>1, TwoToIs
  <2> DEFINE t == TwoTo[Bits(n)]
  <2> HIDE DEF t, N
  <2>2. t \in Nat \ {0} /\ N < t
    BY <1>1, <2>1 DEF t
  <2>3. N % t = N
    BY <1>1, <2>2, BitIs
  <2> QED BY <2>3 DEF t
<1>14. StandsFor(step[Bits(n)].r, Multiple(p, N))
  BY <1>12, <1>13 DEF Fits
<1>15. Multiple(p, N) \in [x : Fr, y : Fr]
  <2>1. Multiple(p, N) \in Points
    BY <1>1, <1>8
  <2> QED BY <2>1 DEF Points
<1> QED BY <1>3, <1>14, <1>15, AffineIs

\* A point times a scalar is a point.
LEMMA MulScalarIsPoint ==
  ASSUME NEW p \in Points, NEW n \in Int, Magnitude(n) < TwoTo[WIDTH]
  PROVE  MulScalar(p, n) \in Points
<1>1. WIDTH \in Nat /\ Bits(n) \in 0..WIDTH
  BY ScalarAssumption, BitsIs
<1>2. PICK step : AreSteps(step, p, n) /\ MulScalar(p, n) = Affine(step[Bits(n)].r)
  BY StepsExist
<1> DEFINE Stands(P) == \E q \in Points : StandsFor(P, q)
           Fits(i) == Stands(step[i].r) /\ Stands(step[i].exp)
           T == {i \in 0..WIDTH : ~ Fits(i)}
<1>3. ASSUME NEW P, NEW R, Stands(P), Stands(R) PROVE Stands(Add(P, R))
  BY <1>3, AddIs, SumIsPoint
<1>4. Fits(0)
  <2>1. Stands(Projective(Identity)) /\ Stands(Projective(p))
    BY IdentityIs, ProjectiveIs
  <2> HIDE DEF Stands
  <2> QED BY <2>1, <1>2 DEF AreSteps
<1>5. ASSUME NEW i \in 1..WIDTH, Fits(i - 1) PROVE Fits(i)
  <2> DEFINE s == step[i - 1]
  <2>1. /\ step[i].r = (IF TestBit(n, i - 1) THEN Add(s.r, s.exp) ELSE s.r)
        /\ step[i].exp = Add(s.exp, s.exp) /\ Stands(s.r) /\ Stands(s.exp)
    BY <1>2, <1>5 DEF AreSteps
  <2> HIDE DEF s, Stands
  <2>2. Stands(Add(s.r, s.exp)) /\ Stands(Add(s.exp, s.exp))
    BY <1>3, <2>1
  <2> QED BY <2>1, <2>2
<1> HIDE DEF Fits
<1>6. T = {}
  <2> SUFFICES ASSUME T # {} PROVE FALSE
    OBVIOUS
  <2>1. T \in SUBSET Nat
    BY <1>1
  <2>2. PICK i \in T : \A j \in T : i <= j
    <3> HIDE DEF T
    <3> QED BY <2>1, LeastOf
  <2>3. i # 0
    BY <2>2, <1>4
  <2>4. i \in 1..WIDTH /\ i - 1 \in 0..WIDTH /\ i - 1 \notin T
    BY <1>1, <2>2, <2>3
  <2> QED BY <2>2, <2>4, <1>5
<1>7. PICK q \in Points : StandsFor(step[Bits(n)].r, q)
  BY <1>1, <1>6 DEF Fits
<1>8. q \in [x : Fr, y : Fr]
  BY DEF Points
<1> QED BY <1>2, <1>7, <1>8, AffineIs

\* Points whose order divides L are points that are a group.
LEMMA SubgroupIs ==
  /\ IsGroup(Subgroup)
  /\ \A p \in Subgroup : Multiple(p, L) = Identity
<1>1. L \in Nat /\ L \in Int /\ Magnitude(L) = L /\ L < TwoTo[WIDTH]
  BY ScalarAssumption DEF Magnitude
<1>2. IsGroup({Identity})
  <2>1. Identity \in Points /\ PointSum(Identity, Identity) = Identity
    BY IdentityIs
  <2> QED BY <2>1 DEF IsGroup
<1>3. Identity \in Subgroup
  <2>1. MulScalar(Identity, L) = Multiple(Identity, L)
    BY <1>1, <1>2, MulScalarIs
  <2>2. Multiple(Identity, L) = Identity
    BY <1>1, <1>2, MultipleIs
  <2> QED BY <2>1, <2>2, IdentityIs DEF Subgroup, InSubgroup
<1>4. IsGroup(Subgroup)
  <2>1. Subgroup \in SUBSET Points
    BY DEF Subgroup
  <2> QED BY <2>1, <1>3, SubgroupAssumption DEF IsGroup
<1>5. ASSUME NEW p \in Subgroup PROVE Multiple(p, L) = Identity
  <2>1. MulScalar(p, L) = Multiple(p, L)
    BY <1>1, <1>4, MulScalarIs
  <2> QED BY <2>1 DEF Subgroup, InSubgroup
<1> QED BY <1>4, <1>5

\* The multiples of a point of the subgroup come round.
LEMMA Around ==
  ASSUME NEW p \in Subgroup, NEW n \in Nat
  PROVE  Multiple(p, n + L) = Multiple(p, n)
<1>1. L \in Nat
  BY ScalarAssumption
<1>2. Multiple(p, n + L) = PointSum(Multiple(p, n), Multiple(p, L))
  BY <1>1, SubgroupIs, MultiplePlus
<1>3. Multiple(p, n) \in Points
  BY SubgroupIs, MultipleIs DEF IsGroup
<1> QED BY <1>2, <1>3, SubgroupIs, IdentityIs

\* A multiple of a point, for a whole number of either sign.
Turned(p, n) == Multiple(p, n % L)

\* The points of sums are the sums of the points.
LEMMA TurnedPlus ==
  ASSUME NEW p \in Subgroup, NEW a \in Int, NEW b \in Int
  PROVE  Turned(p, a + b) = PointSum(Turned(p, a), Turned(p, b))
<1> DEFINE ra == a % L  rb == b % L  r == (a + b) % L
<1>1. L \in Nat /\ L > 0
  BY ScalarAssumption
<1>2. /\ ra \in 0..(L - 1) /\ rb \in 0..(L - 1) /\ r \in 0..(L - 1)
      /\ ra + rb = r \/ ra + rb = r + L
  <2> DEFINE qa == a \div L  qb == b \div L  qr == (a + b) \div L
  <2>1. /\ ra \in 0..(L - 1) /\ qa \in Int /\ a = L * qa + ra
        /\ rb \in 0..(L - 1) /\ qb \in Int /\ b = L * qb + rb
    BY <1>1
  <2>2. r \in 0..(L - 1) /\ qr \in Int /\ a + b = L * qr + r
    BY <1>1
  <2> HIDE DEF ra, rb, r, qa, qb, qr
  <2>3. L * (qr - qa - qb) = ra + rb - r
    BY <1>1, <2>1, <2>2
  <2> DEFINE k == qr - qa - qb
  <2>4. k \in Int /\ L * k = ra + rb - r
    BY <2>1, <2>2, <2>3
  <2> HIDE DEF k
  <2>5. ra + rb - r > - L /\ ra + rb - r < 2 * L
    BY <1>1, <2>1, <2>2
  <2>6. k <= -1 => L * k <= - L
    BY <1>1, <2>4
  <2>7. k >= 2 => L * k >= 2 * L
    BY <1>1, <2>4
  <2>8. k = 0 \/ k = 1
    BY <1>1, <2>1, <2>2, <2>4, <2>5, <2>6, <2>7
  <2>9. k = 0 => L * k = 0
    BY <1>1
  <2>10. k = 1 => L * k = L
    BY <1>1
  <2> QED BY <1>1, <2>1, <2>2, <2>4, <2>8, <2>9, <2>10
<1> HIDE DEF ra, rb, r
<1>3. ra \in Nat /\ rb \in Nat /\ r \in Nat
  BY <1>1, <1>2
<1>4. Multiple(p, ra + rb) = PointSum(Multiple(p, ra), Multiple(p, rb))
  BY <1>3, SubgroupIs, MultiplePlus
<1>5. Multiple(p, ra + rb) = Multiple(p, r)
  <2>1. Multiple(p, r + L) = Multiple(p, r)
    BY <1>3, Around
  <2> QED BY <2>1, <1>2
<1> QED BY <1>4, <1>5 DEF Turned, ra, rb, r

\* They are points of the subgroup.
LEMMA TurnedIs ==
  ASSUME NEW p \in Subgroup
  PROVE  /\ Turned(p, 0) = Identity
         /\ \A n \in Int : Turned(p, n) \in Subgroup
<1>1. L \in Nat /\ L > 0
  BY ScalarAssumption
<1>2. \A n \in Int : n % L \in Nat
  BY <1>1
<1>3. 0 % L = 0
  BY <1>1
<1> QED BY <1>2, <1>3, SubgroupIs, MultipleIs DEF Turned

\* Lifting a scalar changes nothing.
LEMMA LiftedIs ==
  ASSUME NEW p \in Subgroup, NEW n \in (-L)..L
  PROVE  MulScalar(p, Lifted(n)) = Turned(p, n)
<1>1. L \in Nat /\ L > 0 /\ L < TwoTo[WIDTH]
  BY ScalarAssumption
<1> DEFINE m == Lifted(n)
<1>2. m \in 0..L /\ Magnitude(m) = m
  BY <1>1 DEF Lifted, Magnitude
<1>3. m % L = n % L
  <2>1. CASE n >= 0
    BY <2>1, <1>1 DEF Lifted
  <2>2. CASE n < 0
    <3>1. m = n + L
      BY <2>2 DEF Lifted
    <3>2. (n + L) % L = n % L
      BY <1>1
    <3> QED BY <3>1, <3>2
  <2> QED BY <1>1, <2>1, <2>2
<1> HIDE DEF m
<1>4. TwoTo[WIDTH] \in Nat
  BY ScalarAssumption, TwoToIs
<1>5. MulScalar(p, m) = Multiple(p, m)
  <2>1. m \in Int /\ Magnitude(m) < TwoTo[WIDTH]
    BY <1>1, <1>2, <1>4
  <2> QED BY <1>2, <2>1, SubgroupIs, MulScalarIs
<1>6. Multiple(p, m) = Multiple(p, m % L)
  <2>1. CASE m < L
    BY <2>1, <1>1, <1>2
  <2>2. CASE m = L
    <3>1. m % L = 0
      BY <2>2, <1>1
    <3> QED BY <3>1, <2>2, SubgroupIs, MultipleIs
  <2> QED BY <1>1, <1>2, <2>1, <2>2
<1> QED BY <1>3, <1>5, <1>6 DEF Turned, m
-----------------------------------------------------------------------------
(* Compressed points and base points. *)

\* Whichever root the field returns, it is one.
LEMMA SqrtIs ==
  ASSUME NEW v \in Fr, Roots(v) # {}
  PROVE  Sqrt(v) \in Fr /\ Square(Sqrt(v)) = v
<1>1. Q \in Nat /\ Q > 2 /\ Q % 2 = 1
  BY FieldIs, CurveAssumption
<1>2. PICK r \in Fr : Square(r) = v
  BY DEF Roots
<1>3. \E s \in Roots(v) : s % 2 = 1 \/ s = 0
  <2>1. CASE r % 2 = 1 \/ r = 0
    BY <2>1, <1>2 DEF Roots
  <2>2. CASE r % 2 # 1 /\ r # 0
    <3> DEFINE s == Q - r
    <3>1. r \in 1..(Q - 1) /\ r % 2 = 0
      BY <1>1, <1>2, <2>2 DEF Fr
    <3>2. s \in Fr /\ s \in Int /\ r \in Int /\ s % 2 = 1
      BY <1>1, <3>1 DEF Fr
    <3>3. Cong(s * s, r * r)
      <4>1. s * s = r * r + (Q - 2 * r) * Q /\ Q - 2 * r \in Int
        BY <1>1, <3>2
      <4> QED BY <4>1 DEF Cong
    <3> HIDE DEF s
    <3>4. s * s \in Int /\ r * r \in Int
      BY <3>2
    <3>5. (s * s) % Q = (r * r) % Q
      BY <3>3, <3>4, CongMod
    <3>6. Square(s) = v
      BY <3>5, <1>2 DEF Square, Times
    <3> QED BY <3>2, <3>6 DEF Roots
  <2> QED BY <2>1, <2>2
<1>4. Sqrt(v) \in Roots(v)
  BY <1>3 DEF Sqrt
<1> QED BY <1>4 DEF Roots

\* So is its opposite.
LEMMA NegatedIs ==
  ASSUME NEW x \in Fr
  PROVE  /\ Minus(0, x) \in Fr /\ Cong(Minus(0, x) * Minus(0, x), x * x)
         /\ x > Q \div 2 => Q - x \in Fr /\ Cong((Q - x) * (Q - x), x * x)
<1>1. Q \in Nat /\ Q > 2 /\ x \in Int /\ 0 \in Int
  BY FieldIs
<1> DEFINE n == Minus(0, x)
<1>2. n \in Fr /\ n \in Int /\ Cong(n, 0 - x)
  BY <1>1, CongRefl, MinusIs
<1> HIDE DEF n
<1>3. Cong(n * n, x * x)
  <2>1. PICK k \in Int : n = (0 - x) + k * Q
    BY <1>2 DEF Cong
  <2> DEFINE c == k * (k * Q - 2 * x)
  <2>2. n * n = x * x + c * Q
    BY <2>1, <1>1, <1>2
  <2>3. c \in Int
    BY <1>1
  <2> HIDE DEF c
  <2> QED BY <2>2, <2>3 DEF Cong
<1>4. ASSUME x > Q \div 2 PROVE Q - x \in Fr /\ Cong((Q - x) * (Q - x), x * x)
  <2>1. Q - x \in Fr
    BY <1>1, <1>4 DEF Fr
  <2>2. (Q - x) * (Q - x) = x * x + (Q - 2 * x) * Q /\ Q - 2 * x \in Int
    BY <1>1
  <2> QED BY <2>1, <2>2 DEF Cong
<1> QED BY <1>2, <1>3, <1>4 DEF n

\* A compressed point that is accepted is a point of the curve.
LEMMA UnpackIsPoint ==
  ASSUME NEW buff \in [y : Nat, sign : BOOLEAN], UnpackPoint(buff) # NoPoint
  PROVE  UnpackPoint(buff) \in Points /\ UnpackPoint(buff).y = buff.y
<1> DEFINE y == buff.y  y2 == Square(y)  dy == Times(D, y2)  divisor == Minus(A, dy)
           inverse == Inverses[divisor]  rest == Minus(1, y2)  x2 == Times(rest, inverse)
           r == Sqrt(x2)  m == Normal(r)  x == IF buff.sign THEN Minus(0, m) ELSE m
<1>1. ~ (y >= Q) /\ divisor # 0 /\ Roots(x2) # {} /\ UnpackPoint(buff) = [x |-> x, y |-> y]
  BY DEF UnpackPoint
<1>2. y \in Fr /\ y \in Int /\ A \in Int /\ D \in Int /\ 1 \in Int
  BY <1>1, FieldIs DEF Fr
<1>3. y2 \in Int /\ Cong(y2, y * y)
  BY <1>2, CongRefl, TimesIs DEF Square
<1>4. y * y \in Int /\ D * (y * y) \in Int
  BY <1>2
<1> DEFINE yy == y * y
<1> HIDE DEF y2, yy, y
<1>5. dy \in Int /\ Cong(dy, D * yy)
  BY <1>2, <1>3, <1>4, CongRefl, TimesIs DEF yy
<1> HIDE DEF dy
<1>6. divisor \in Fr /\ divisor \in Int /\ Cong(divisor, A - D * yy)
  BY <1>2, <1>4, <1>5, CongRefl, MinusIs DEF yy
<1> HIDE DEF divisor
<1>7. rest \in Int /\ Cong(rest, 1 - yy)
  BY <1>2, <1>3, <1>4, CongRefl, MinusIs DEF yy
<1> HIDE DEF rest
<1>8. inverse \in Int /\ Cong(divisor * inverse, 1)
  BY <1>1, <1>6, InverseIs
<1> HIDE DEF inverse
<1>9. x2 \in Fr /\ x2 \in Int /\ Cong(x2, rest * inverse)
  BY <1>7, <1>8, CongRefl, TimesIs
<1> HIDE DEF x2
<1>10. r \in Fr /\ r \in Int /\ Square(r) = x2
  BY <1>1, <1>9, SqrtIs, FieldIs
<1> HIDE DEF r
<1>11. Cong(x2, r * r)
  BY <1>10, CongRefl, TimesIs DEF Square
<1>12. m \in Fr /\ m \in Int /\ Cong(m * m, r * r)
  <2>1. CASE r > Q \div 2
    BY <2>1, <1>10, NegatedIs, FieldIs DEF Normal
  <2>2. CASE ~ (r > Q \div 2)
    <3>1. m = r /\ r * r \in Int
      BY <2>2, <1>10 DEF Normal
    <3>2. Cong(r * r, r * r)
      BY <3>1, CongRefl
    <3> QED BY <3>1, <3>2, <1>10
  <2> QED BY <2>1, <2>2
<1> HIDE DEF m
<1>13. x \in Fr /\ x \in Int /\ Cong(x * x, m * m)
  <2>1. m * m \in Int
    BY <1>12
  <2> QED BY <2>1, <1>12, NegatedIs, CongRefl, FieldIs
<1> HIDE DEF x
<1> DEFINE xx == x * x  rr == r * r  mm == m * m
<1>14. xx \in Int /\ rr \in Int /\ mm \in Int /\ yy \in Int
  BY <1>4, <1>10, <1>12, <1>13 DEF yy
<1>15. Cong(xx, x2)
  <2> HIDE DEF xx, rr, mm
  <2>1. Cong(xx, mm) /\ Cong(mm, rr) /\ Cong(rr, x2)
    BY <1>9, <1>11, <1>12, <1>13, <1>14, CongSym DEF xx, rr, mm
  <2>2. Cong(xx, rr)
    BY <2>1, <1>14, CongTrans
  <2> QED BY <2>1, <2>2, <1>9, <1>14, CongTrans
<1> HIDE DEF xx, rr, mm
<1>16. Cong(xx * divisor, rest)
  <2> DEFINE ri == rest * inverse  di == divisor * inverse  one == 1
  <2>1. ri \in Int /\ di \in Int /\ Cong(xx, ri)
    <3>1. ri \in Int /\ di \in Int
      BY <1>6, <1>7, <1>8
    <3> HIDE DEF ri
    <3>2. Cong(x2, ri)
      BY <1>9 DEF ri
    <3> QED BY <3>1, <3>2, <1>9, <1>14, <1>15, CongTrans
  <2> DEFINE a == xx * divisor  b == ri * divisor  c == rest * di
  <2>2. Cong(a, b)
    <3> HIDE DEF ri
    <3> QED BY <2>1, <1>6, <1>14, CongRefl, CongTimes
  <2>3. b = c
    BY <1>6, <1>7, <1>8
  <2>4. a \in Int /\ b \in Int /\ rest \in Int /\ c \in Int
    BY <2>1, <1>6, <1>7, <1>14
  <2>5. Cong(c, rest)
    <3> HIDE DEF di
    <3>1. Cong(di, one) /\ one \in Int /\ Cong(rest, rest)
      BY <1>7, <1>8, CongRefl DEF di
    <3> HIDE DEF one
    <3>2. Cong(rest * di, rest * one)
      BY <2>1, <3>1, <1>7, CongTimes
    <3>3. rest * one = rest
      BY <1>7 DEF one
    <3> QED BY <3>2, <3>3
  <2> HIDE DEF a, b, c, ri, di
  <2>6. Cong(a, rest)
    BY <2>2, <2>3, <2>4, <2>5, CongTrans
  <2> QED BY <2>6 DEF a
<1> DEFINE f == A - D * yy  g == 1 - yy  xf == xx * f  xd == xx * divisor
<1>17. f \in Int /\ g \in Int /\ xf \in Int /\ xd \in Int
  BY <1>2, <1>6, <1>14
<1>18. Cong(xf, g)
  <2>1. Cong(divisor, f)
    BY <1>6
  <2> HIDE DEF f
  <2>2. Cong(xd, xf)
    BY <2>1, <1>6, <1>14, <1>17, CongRefl, CongTimes
  <2> HIDE DEF xf, xd, g
  <2>3. Cong(xf, xd) /\ Cong(xd, rest) /\ Cong(rest, g)
    BY <2>2, <1>7, <1>16, <1>17, CongSym DEF xd, g
  <2>4. Cong(xf, rest)
    BY <2>3, <1>7, <1>17, CongTrans
  <2> QED BY <2>3, <2>4, <1>7, <1>17, CongTrans
<1>19. Cong(A * xx + yy, 1 + D * (xx * yy))
  <2>1. PICK k \in Int : xf = g + k * Q
    BY <1>18 DEF Cong
  <2>2. k * Q \in Int /\ xx * yy \in Int
    BY <1>14, FieldIs
  <2>3. A * xx + yy = (1 + D * (xx * yy)) + k * Q
    <3> DEFINE kq == k * Q
    <3>1. xx * (A - D * yy) = (1 - yy) + kq
      BY <2>1
    <3>2. kq \in Int
      BY <2>2
    <3> HIDE DEF kq
    <3>3. A * xx + yy = (1 + D * (xx * yy)) + kq
      BY <3>1, <3>2, <1>2, <1>14
    <3> QED BY <3>3 DEF kq
  <2> QED BY <2>3 DEF Cong
<1>20. Cong(A * (x * x) + y * y, 1 + D * ((x * y) * (x * y)))
  <2>1. (x * y) * (x * y) = xx * yy
    BY <1>2, <1>13 DEF xx, yy
  <2> QED BY <2>1, <1>19 DEF xx, yy
<1>21. OnCurve(x, y)
  BY <1>2, <1>13, <1>20, OnCurveIs
<1>22. [x |-> x, y |-> y] \in Points
  BY <1>2, <1>13, <1>21 DEF Points
<1> QED BY <1>1, <1>22 DEF y

\* Each base point is in the subgroup.
LEMMA BasePointIs ==
  ASSUME NEW s \in 1..Len(Candidates)
  PROVE  BasePoint[s] \in Subgroup
<1> DEFINE T == {i \in DOMAIN Candidates[s] : Usable(s, i)}
           P(i) == Usable(s, i) /\ \A j \in 1..(i - 1) : ~ Usable(s, j)
           first == CHOOSE i \in DOMAIN Candidates[s] : P(i)
           buff == Candidates[s][first]
<1>1. /\ Candidates \in Seq(Seq([y : Nat, sign : BOOLEAN])) /\ DOMAIN Candidates = 1..Len(Candidates)
      /\ s \in DOMAIN Candidates
  BY PedersenAssumption
<1>2. Candidates[s] \in Seq([y : Nat, sign : BOOLEAN])
  BY <1>1, ElementOfSeq
<1>3. Len(Candidates[s]) \in Nat /\ DOMAIN Candidates[s] = 1..Len(Candidates[s])
  BY <1>2
<1>4. PICK i \in T : \A j \in T : i <= j
  <2>1. T \in SUBSET Nat
    BY <1>3
  <2>2. T # {}
    BY <1>1, SearchAssumption
  <2> HIDE DEF T
  <2> QED BY <2>1, <2>2, LeastOf
<1>5. P(i) /\ i \in DOMAIN Candidates[s]
  <2>1. ASSUME NEW j \in 1..(i - 1) PROVE ~ Usable(s, j)
    <3>1. j \in DOMAIN Candidates[s] /\ ~ (i <= j)
      BY <1>3, <1>4
    <3>2. j \notin T
      BY <3>1, <1>4
    <3> QED BY <3>1, <3>2
  <2> QED BY <2>1, <1>4
<1>6. P(first) /\ first \in DOMAIN Candidates[s]
  <2> HIDE DEF P
  <2> QED BY <1>5
<1>7. BasePoint[s] = MulScalar(UnpackPoint(buff), 8)
  <2>1. BasePoint[s] = ComputeBasePoint(s)
    BY <1>1 DEF BasePoint
  <2> QED BY <2>1 DEF ComputeBasePoint
<1> HIDE DEF first
<1>8. buff \in [y : Nat, sign : BOOLEAN]
  BY <1>2, <1>3, <1>6, ElementOfSeq
<1>9. UnpackPoint(buff) # NoPoint /\ InSubgroup(MulScalar(UnpackPoint(buff), 8))
  BY <1>6 DEF Usable
<1>10. UnpackPoint(buff) \in Points
  BY <1>8, <1>9, UnpackIsPoint
<1>11. MulScalar(UnpackPoint(buff), 8) \in Points
  <2>1. 8 \in Int /\ Magnitude(8) = 8
    BY DEF Magnitude
  <2>2. Magnitude(8) < TwoTo[WIDTH]
    <3>1. TwoTo[WIDTH] \in Nat
      BY ScalarAssumption, TwoToIs
    <3> QED BY <3>1, <2>1, ScalarAssumption
  <2> QED BY <2>1, <2>2, <1>10, MulScalarIsPoint
<1> QED BY <1>7, <1>9, <1>11 DEF Subgroup

\* What unpack_point divides by, and the square it looks for.
Divisor(y) == Minus(A, Times(D, Square(y)))
\* The square it takes the root of.
SquareOf(y) == Times(Minus(1, Square(y)), Inverses[Divisor(y)])

\* The x of a point is a root that is found.
LEMMA PointIsRoot ==
  ASSUME NEW q \in Points
  PROVE  Divisor(q.y) # 0 /\ Square(q.x) = SquareOf(q.y)
<1> DEFINE x == q.x  y == q.y  y2 == Square(y)  dy == Times(D, y2)  divisor == Minus(A, dy)
           inverse == Inverses[divisor]  rest == Minus(1, y2)  x2 == Times(rest, inverse)
<1>1. /\ x \in Fr /\ y \in Fr /\ x \in Int /\ y \in Int /\ A \in Int /\ D \in Int /\ 1 \in Int
      /\ Cong(A * (x * x) + y * y, 1 + D * ((x * y) * (x * y)))
  BY PointIsOn, FieldIs
<1>2. Divisor(q.y) = divisor /\ SquareOf(q.y) = x2
  BY DEF Divisor, SquareOf
<1> HIDE DEF x, y
<1>3. y2 \in Int /\ Cong(y2, y * y)
  BY <1>1, CongRefl, TimesIs DEF Square
<1> DEFINE yy == y * y  xx == x * x
<1>4. yy \in Int /\ D * yy \in Int /\ xx \in Int
  BY <1>1
<1> HIDE DEF y2, yy
<1>5. dy \in Int /\ Cong(dy, D * yy)
  BY <1>1, <1>3, <1>4, CongRefl, TimesIs DEF yy
<1> HIDE DEF dy
<1>6. divisor \in Fr /\ divisor \in Int /\ Cong(divisor, A - D * yy)
  BY <1>1, <1>4, <1>5, CongRefl, MinusIs
<1> HIDE DEF divisor
<1>7. rest \in Int /\ Cong(rest, 1 - yy)
  BY <1>1, <1>3, <1>4, CongRefl, MinusIs DEF yy
<1> HIDE DEF rest
<1>8. divisor # 0
  <2> SUFFICES ASSUME divisor = 0 PROVE FALSE
    OBVIOUS
  <2> DEFINE dyy == D * yy
  <2>1. Cong(A, dyy) /\ dyy \in Int
    <3>1. PICK k \in Int : divisor = (A - D * yy) + k * Q
      BY <1>6 DEF Cong
    <3>2. A = dyy + (-k) * Q /\ -k \in Int /\ dyy \in Int
      BY <3>1, <1>1, <1>4, FieldIs
    <3> QED BY <3>2 DEF Cong
  <2>2. PICK r \in Int : Cong(r * r, A) /\ ~ Cong(r, 0)
    BY RootIs
  <2>3. r * r \in Int
    OBVIOUS
  <2> DEFINE rr == r * r
  <2> HIDE DEF dyy, rr
  <2>4. Cong(rr, dyy)
    BY <2>1, <2>2, <2>3, <1>1, CongTrans DEF rr
  <2>5. Cong(y, 0)
    BY <2>4, <1>1, NoRoot DEF dyy, rr, yy
  <2>6. Cong(dyy, 0) /\ 0 \in Int
    <3>1. Cong(yy, 0)
      BY <2>5, <1>1, CongZero DEF yy
    <3>2. Cong(D * yy, 0)
      BY <3>1, <1>1, <1>4, CongZero
    <3> QED BY <3>2 DEF dyy
  <2>7. Cong(rr, 0)
    BY <2>1, <2>3, <2>4, <2>6, CongTrans DEF rr
  <2>8. Cong(r, 0)
    BY <2>7, NoZeroDivisors DEF rr
  <2> QED BY <2>2, <2>8
<1>9. inverse \in Int /\ Cong(divisor * inverse, 1)
  BY <1>6, <1>8, InverseIs
<1> HIDE DEF inverse
<1>10. x2 \in Fr /\ x2 \in Int /\ Cong(x2, rest * inverse)
  BY <1>7, <1>9, CongRefl, TimesIs
<1> HIDE DEF x2, xx
<1> DEFINE f == A - D * yy  g == 1 - yy  xf == xx * f  xd == xx * divisor  ri == rest * inverse
           di == divisor * inverse  x2d == x2 * divisor  rid == ri * divisor  rdi == rest * di
<1>11. /\ f \in Int /\ g \in Int /\ xf \in Int /\ xd \in Int /\ ri \in Int /\ di \in Int
       /\ x2d \in Int /\ rid \in Int /\ rdi \in Int
  <2>1. f \in Int /\ g \in Int /\ xd \in Int /\ ri \in Int /\ di \in Int /\ x2d \in Int
    BY <1>1, <1>4, <1>6, <1>7, <1>9, <1>10
  <2> HIDE DEF f, g, ri, di
  <2> QED BY <2>1, <1>4, <1>6, <1>7
<1>12. Cong(xf, g)
  <2>1. PICK k \in Int : A * (x * x) + y * y = (1 + D * ((x * y) * (x * y))) + k * Q
    BY <1>1 DEF Cong
  <2>2. (x * y) * (x * y) = xx * yy /\ x * x = xx /\ y * y = yy
    BY <1>1 DEF xx, yy
  <2> DEFINE kq == k * Q
  <2>3. kq \in Int
    BY FieldIs
  <2>4. A * xx + yy = (1 + D * (xx * yy)) + kq
    BY <2>1, <2>2
  <2> HIDE DEF kq
  <2>5. xx * (A - D * yy) = (1 - yy) + kq
    BY <2>3, <2>4, <1>1, <1>4
  <2> QED BY <2>5 DEF kq, Cong
<1>13. Cong(xd, xf)
  <2>1. Cong(divisor, f)
    BY <1>6
  <2> HIDE DEF f
  <2> QED BY <2>1, <1>4, <1>6, <1>11, CongRefl, CongTimes
<1>14. Cong(x2d, rid)
  <2>1. Cong(x2, ri)
    BY <1>10
  <2> HIDE DEF ri
  <2> QED BY <2>1, <1>6, <1>10, <1>11, CongRefl, CongTimes
<1>15. rid = rdi
  BY <1>6, <1>7, <1>9
<1>16. Cong(rdi, rest)
  <2> DEFINE one == 1
  <2>1. Cong(di, one) /\ one \in Int /\ Cong(rest, rest)
    BY <1>7, <1>9, CongRefl
  <2> HIDE DEF one, di
  <2>2. Cong(rest * di, rest * one)
    BY <2>1, <1>7, <1>11, CongTimes
  <2>3. rest * one = rest
    BY <1>7 DEF one
  <2> QED BY <2>2, <2>3
<1> HIDE DEF f, xf, xd, ri, di, x2d, rid, rdi
<1>17. Cong(xd, x2d)
  <2>1. Cong(xf, g) /\ Cong(g, rest) /\ Cong(rest, rdi) /\ Cong(rdi, x2d)
    <3>1. Cong(rest, g) /\ Cong(rdi, rest) /\ Cong(x2d, rdi)
      BY <1>7, <1>14, <1>15, <1>16
    <3> HIDE DEF g
    <3> QED BY <3>1, <1>7, <1>11, <1>12, CongSym
  <2> HIDE DEF g
  <2>2. Cong(xd, g)
    BY <2>1, <1>11, <1>13, CongTrans
  <2>3. Cong(xd, rest)
    BY <2>1, <2>2, <1>7, <1>11, CongTrans
  <2>4. Cong(xd, rdi)
    BY <2>1, <2>3, <1>7, <1>11, CongTrans
  <2> QED BY <2>1, <2>4, <1>11, CongTrans
<1>18. ~ Cong(divisor, 0)
  <2> SUFFICES ASSUME Cong(divisor, 0) PROVE FALSE
    OBVIOUS
  <2>1. divisor = 0
    BY <1>6, FieldIs, CongSame
  <2> QED BY <2>1, <1>8
<1>19. Cong(xx, x2)
  BY <1>4, <1>6, <1>10, <1>17, <1>18, Cancel DEF xd, x2d
<1>20. Square(x) \in Fr /\ Square(x) \in Int /\ Cong(Square(x), xx)
  BY <1>1, CongRefl, TimesIs DEF Square, xx
<1>21. Cong(Square(x), x2)
  BY <1>4, <1>10, <1>19, <1>20, CongTrans
<1>22. Square(x) = x2
  BY <1>10, <1>20, <1>21, CongSame
<1> QED BY <1>2, <1>8, <1>22 DEF x

\* On every such curve, a compressed point is the point with that y on the side of the
\* sign, whichever root the field returns, and there is none exactly if no point has that
\* y; the divisor is never zero (unpack_point).
THEOREM UnpackIsInverseHolds == UnpackIsInverse
<1> SUFFICES ASSUME NEW y \in 0..(2 * Q - 1), NEW sign \in BOOLEAN
             PROVE  LET p == UnpackPoint([y |-> y, sign |-> sign])
                    IN  IF p = NoPoint THEN ~ \E q \in Points : q.y = y
                        ELSE p \in Points /\ p.y = y /\ (p.x # 0 => (p.x > Q \div 2 <=> sign))
  BY DEF UnpackIsInverse
<1> DEFINE buff == [y |-> y, sign |-> sign]  p == UnpackPoint(buff)
<1>1. Q \in Nat /\ Q > 2 /\ Q % 2 = 1 /\ y \in Nat /\ buff \in [y : Nat, sign : BOOLEAN]
  BY FieldIs, CurveAssumption
<1>2. ASSUME p = NoPoint, NEW q \in Points, q.y = y PROVE FALSE
  <2>1. y < Q
    BY <1>2, PointIsOn, FieldIs
  <2>2. Divisor(y) # 0 /\ Square(q.x) = SquareOf(y)
    BY <1>2, PointIsRoot
  <2>3. Roots(SquareOf(y)) # {}
    BY <2>2, PointIsOn DEF Roots
  <2> DEFINE x == Normal(Sqrt(SquareOf(y)))
  <2>4. p = [x |-> IF sign THEN Minus(0, x) ELSE x, y |-> y]
    BY <1>1, <2>1, <2>2, <2>3 DEF UnpackPoint, Divisor, SquareOf
  <2>5. p # NoPoint
    <3>1. SquareOf(y) \in Fr /\ y \in Fr
      <4>1. Square(q.x) \in Fr /\ y \in Fr
        BY <1>2, PointIsOn, CongRefl, TimesIs DEF Square
      <4> QED BY <4>1, <2>2
    <3>2. Sqrt(SquareOf(y)) \in Fr
      BY <2>3, <3>1, SqrtIs
    <3>3. x \in Fr
      BY <3>2, <1>1 DEF Normal, Fr
    <3>4. Minus(0, x) \in Fr
      BY <3>3, NegatedIs
    <3> HIDE DEF x, p
    <3>5. p \in [x : Fr, y : Fr]
      BY <2>4, <3>1, <3>3, <3>4
    <3> QED BY <3>5, PedersenAssumption
  <2> QED BY <1>2, <2>5
<1>3. ASSUME p # NoPoint PROVE p \in Points /\ p.y = y /\ (p.x # 0 => (p.x > Q \div 2 <=> sign))
  <2>1. p \in Points /\ p.y = y
    BY <1>1, <1>3, UnpackIsPoint
  <2> DEFINE r == Sqrt(SquareOf(y))  x == Normal(r)
  <2>2. ~ (y >= Q) /\ Divisor(y) # 0 /\ Roots(SquareOf(y)) # {}
        /\ p = [x |-> IF sign THEN Minus(0, x) ELSE x, y |-> y]
    BY <1>3 DEF UnpackPoint, Divisor, SquareOf
  <2>3. SquareOf(y) \in Fr
    <3>1. \A a, b \in Int : Times(a, b) \in Fr /\ Minus(a, b) \in Fr
      BY CongRefl, TimesIs, MinusIs
    <3>2. Square(y) \in Int /\ A \in Int /\ D \in Int /\ 1 \in Int
      BY <1>1, <3>1, FieldIs DEF Square
    <3>3. Times(D, Square(y)) \in Int /\ Minus(1, Square(y)) \in Int
      BY <3>1, <3>2, FieldIs
    <3>4. Divisor(y) \in Fr
      BY <3>1, <3>2, <3>3 DEF Divisor
    <3>5. Inverses[Divisor(y)] \in Int
      BY <3>4, <2>2, InverseIs
    <3> QED BY <3>1, <3>3, <3>5 DEF SquareOf
  <2>4. r \in Fr
    BY <2>2, <2>3, SqrtIs
  <2> HIDE DEF r
  <2>5. x \in 0..(Q \div 2)
    BY <1>1, <2>4 DEF Normal, Fr
  <2> HIDE DEF x, p
  <2>6. Minus(0, x) = IF x = 0 THEN 0 ELSE Q - x
    <3>1. CASE x = 0
      <4>1. 0 % Q = 0
        BY <1>1
      <4> QED BY <3>1, <4>1 DEF Minus
    <3>2. CASE x # 0
      <4>1. (0 - x) % Q = Q - x
        BY <3>2, <1>1, <2>5
      <4> QED BY <3>2, <4>1 DEF Minus
    <3> QED BY <3>1, <3>2
  <2>7. p.x = IF sign THEN Minus(0, x) ELSE x
    BY <2>2
  <2>8. p.x # 0 => (p.x > Q \div 2 <=> sign)
    <3>1. CASE sign
      <4>1. p.x = IF x = 0 THEN 0 ELSE Q - x
        BY <3>1, <2>6, <2>7
      <4> QED BY <3>1, <4>1, <1>1, <2>5
    <3>2. CASE ~ sign
      <4>1. p.x = x
        BY <3>2, <2>7
      <4> QED BY <3>2, <4>1, <1>1, <2>5
    <3> QED BY <3>1, <3>2
  <2> QED BY <2>1, <2>8
<1> QED BY <1>2, <1>3
-----------------------------------------------------------------------------
(* Windows, segments and the hash. *)

\* Powers of two multiply.
LEMMA TwoToPlus ==
  ASSUME NEW a \in Nat, NEW b \in Nat, a + b <= WIDTH
  PROVE  TwoTo[a + b] = TwoTo[a] * TwoTo[b]
<1> DEFINE f == [k \in 0..b |-> TwoTo[a + k]]  g == [k \in 0..b |-> TwoTo[a] * TwoTo[k]]
<1>1. WIDTH \in Nat /\ \A k \in 0..WIDTH : TwoTo[k] \in Nat
  BY ScalarAssumption, TwoToIs
<1>2. f[0] = g[0]
  <2>1. a \in 0..WIDTH /\ a + 0 = a
    BY <1>1
  <2>2. TwoTo[a] * TwoTo[0] = TwoTo[a]
    BY <1>1, <2>1, TwoToIs
  <2> QED BY <2>1, <2>2
<1>3. ASSUME NEW l \in 1..b, f[l - 1] = g[l - 1] PROVE f[l] = g[l]
  <2> DEFINE k == l - 1  x == TwoTo[a]  y == TwoTo[k]
  <2>1. k \in 0..b /\ l \in 1..WIDTH /\ a + l \in 1..WIDTH /\ (a + l) - 1 = a + k /\ a \in 0..WIDTH /\ k \in 0..WIDTH
    BY <1>1
  <2>2. TwoTo[a + l] = 2 * TwoTo[a + k] /\ TwoTo[l] = 2 * y
    BY <2>1, TwoToIs
  <2>3. TwoTo[a + k] = x * y
    BY <1>3, <2>1
  <2>4. x \in Nat /\ y \in Nat
    BY <1>1, <2>1
  <2> HIDE DEF x, y
  <2>5. 2 * (x * y) = x * (2 * y)
    BY <2>4
  <2>6. TwoTo[a + l] = x * TwoTo[l]
    BY <2>2, <2>3, <2>5
  <2> QED BY <2>6 DEF x
<1> HIDE DEF f, g
<1>4. \A k \in 0..b : f[k] = g[k]
  BY <1>2, <1>3, SameByLevel
<1>5. b \in 0..b
  OBVIOUS
<1> QED BY <1>4, <1>5 DEF f, g

\* The sizes of windows and segments.
LEMMA PedersenIs ==
  /\ WINDOW_SIZE \in Nat /\ WINDOW_SIZE >= 2 /\ N_WINDOWS_PER_SEGMENT \in Nat /\ N_WINDOWS_PER_SEGMENT >= 1
  /\ WINDOW_SIZE <= WIDTH /\ Exponent = WINDOW_SIZE + 1 /\ WIDTH \in Nat
  /\ BITS_PER_SEGMENT = WINDOW_SIZE * N_WINDOWS_PER_SEGMENT /\ BITS_PER_SEGMENT \in Nat \ {0}
<1>1. /\ WINDOW_SIZE \in Nat /\ WINDOW_SIZE >= 2 /\ N_WINDOWS_PER_SEGMENT \in Nat /\ N_WINDOWS_PER_SEGMENT >= 1
      /\ Exponent = WINDOW_SIZE + 1 /\ WIDTH \in Nat /\ Exponent * N_WINDOWS_PER_SEGMENT <= WIDTH
      /\ BITS_PER_SEGMENT = WINDOW_SIZE * N_WINDOWS_PER_SEGMENT
  BY PedersenAssumption, ScalarAssumption DEF Exponent, BITS_PER_SEGMENT
<1> DEFINE e == Exponent  n == N_WINDOWS_PER_SEGMENT
<1>2. e * n >= e
  <2>1. e \in Nat /\ n \in Nat /\ n >= 1
    BY <1>1
  <2> HIDE DEF e, n
  <2> QED BY <2>1
<1>3. WINDOW_SIZE * n \in Nat \ {0}
  BY <1>1
<1>4. e * n \in Nat
  BY <1>1
<1> QED BY <1>1, <1>2, <1>3, <1>4

\* A window's bits, and what the code and the reference make of them.
BitsAt(bits, at) == [i \in 1..WINDOW_SIZE |-> Bit(bits, at + i)]
\* The code, from the lowest bit up.
IsUpward(acc, m) ==
  /\ acc[0] = 1
  /\ \A i \in 1..(WINDOW_SIZE - 1) : acc[i] = acc[i - 1] + (IF m[i] THEN TwoTo[i - 1] ELSE 0)
\* The reference, from the highest bit down.
IsDownward(value, m) ==
  /\ value[0] = 0
  /\ \A k \in 1..(WINDOW_SIZE - 1) : value[k] = 2 * value[k - 1] + (IF m[WINDOW_SIZE - k] THEN 1 ELSE 0)

\* segment_scalar reads a window upward.
LEMMA WindowExists ==
  ASSUME NEW bits, NEW at \in Nat
  PROVE  LET m == BitsAt(bits, at)
         IN  \E acc : /\ IsUpward(acc, m)
                      /\ Window(bits, at) = IF m[WINDOW_SIZE] THEN -acc[WINDOW_SIZE - 1] ELSE acc[WINDOW_SIZE - 1]
<1> DEFINE m == BitsAt(bits, at)
           d == WINDOW_SIZE - 1
           next(i, x) == x + (IF Bit(bits, at + i) THEN TwoTo[i - 1] ELSE 0)
           step == [i \in 1..d |-> [x \in Int |-> next(i, x)]]
           Eq(f) == f = [b \in 0..d |-> IF b = 0 THEN 1 ELSE f[b - 1] + (IF Bit(bits, at + b) THEN TwoTo[b - 1] ELSE 0)]
           acc == CHOOSE f : Eq(f)
<1>1. d \in Nat /\ d <= WIDTH /\ \A i \in 1..d : TwoTo[i - 1] \in Int
  BY PedersenIs, TwoToIs
<1>2. step \in [1..d -> [Int -> Int]]
  BY <1>1
<1>3. PICK f : Solves(f, d, Int, 1, step)
  <2> HIDE DEF step
  <2>1. 1 \in Int
    OBVIOUS
  <2> QED BY <1>1, <1>2, <2>1, Recursion
<1>4. f \in [0..d -> Int] /\ f[0] = 1
  BY <1>3 DEF Solves
<1>5. \A b \in 1..d : f[b] = f[b - 1] + (IF Bit(bits, at + b) THEN TwoTo[b - 1] ELSE 0)
  <2> TAKE b \in 1..d
  <2> HIDE DEF step, d
  <2>1. f[b - 1] \in Int /\ f[b] = step[b][f[b - 1]]
    BY <1>1, <1>3 DEF Solves
  <2> QED BY <2>1 DEF step
<1>6. Eq(f)
  <2>1. \A b \in 0..d : f[b] = IF b = 0 THEN 1 ELSE f[b - 1] + (IF Bit(bits, at + b) THEN TwoTo[b - 1] ELSE 0)
    BY <1>4, <1>5
  <2> QED BY <2>1, <1>4
<1>7. Eq(acc)
  <2> HIDE DEF Eq
  <2> QED BY <1>6
<1>8. \A b \in 0..d : acc[b] = IF b = 0 THEN 1 ELSE acc[b - 1] + (IF Bit(bits, at + b) THEN TwoTo[b - 1] ELSE 0)
  <2> HIDE DEF acc
  <2> QED BY <1>7
<1>9. Window(bits, at) = IF Bit(bits, at + WINDOW_SIZE) THEN -acc[d] ELSE acc[d]
  BY DEF Window
<1> HIDE DEF acc, Eq, step
<1>10. WINDOW_SIZE \in 1..WINDOW_SIZE /\ 1..d \subseteq 1..WINDOW_SIZE
  BY PedersenIs
<1>11. IsUpward(acc, m)
  <2>1. acc[0] = 1
    BY <1>1, <1>8
  <2>2. ASSUME NEW i \in 1..(WINDOW_SIZE - 1) PROVE acc[i] = acc[i - 1] + (IF m[i] THEN TwoTo[i - 1] ELSE 0)
    <3>1. m[i] = Bit(bits, at + i)
      BY <1>10 DEF BitsAt
    <3>2. i \in 0..d /\ i # 0
      BY <1>1
    <3> HIDE DEF m
    <3> QED BY <3>1, <3>2, <1>8
  <2> QED BY <2>1, <2>2 DEF IsUpward
<1>12. m[WINDOW_SIZE] = Bit(bits, at + WINDOW_SIZE)
  BY <1>10 DEF BitsAt
<1> HIDE DEF m
<1>13. Window(bits, at) = IF m[WINDOW_SIZE] THEN -acc[WINDOW_SIZE - 1] ELSE acc[WINDOW_SIZE - 1]
  BY <1>9, <1>12
<1> QED BY <1>11, <1>13 DEF m

\* The reference reads it downward.
LEMMA WindowPointExists ==
  ASSUME NEW bits, NEW w \in Nat
  PROVE  LET m == BitsAt(bits, WINDOW_SIZE * w)
         IN  \E value :
               /\ IsDownward(value, m)
               /\ WindowPoint(bits, w) =
                    Turned(BasePoint[w \div N_WINDOWS_PER_SEGMENT + 1],
                           (IF m[WINDOW_SIZE] THEN -(1 + value[WINDOW_SIZE - 1]) ELSE 1 + value[WINDOW_SIZE - 1])
                             * TwoTo[Exponent * (w % N_WINDOWS_PER_SEGMENT)])
<1> DEFINE at == WINDOW_SIZE * w
           m == BitsAt(bits, at)
           d == WINDOW_SIZE - 1
           next(k, x) == 2 * x + (IF Bit(bits, at + WINDOW_SIZE - k) THEN 1 ELSE 0)
           step == [k \in 1..d |-> [x \in Int |-> next(k, x)]]
           Eq(f) == f = [k \in 0..d |-> IF k = 0 THEN 0 ELSE 2 * f[k - 1] + (IF Bit(bits, at + WINDOW_SIZE - k) THEN 1 ELSE 0)]
           value == CHOOSE f : Eq(f)
<1>1. d \in Nat
  BY PedersenIs
<1>2. step \in [1..d -> [Int -> Int]]
  OBVIOUS
<1>3. PICK f : Solves(f, d, Int, 0, step)
  <2> HIDE DEF step
  <2>1. 0 \in Int
    OBVIOUS
  <2> QED BY <1>1, <1>2, <2>1, Recursion
<1>4. f \in [0..d -> Int] /\ f[0] = 0
  BY <1>3 DEF Solves
<1>5. \A k \in 1..d : f[k] = 2 * f[k - 1] + (IF Bit(bits, at + WINDOW_SIZE - k) THEN 1 ELSE 0)
  <2> TAKE k \in 1..d
  <2> HIDE DEF step, d
  <2>1. f[k - 1] \in Int /\ f[k] = step[k][f[k - 1]]
    BY <1>1, <1>3 DEF Solves
  <2> QED BY <2>1 DEF step
<1>6. Eq(f)
  <2>1. \A k \in 0..d : f[k] = IF k = 0 THEN 0 ELSE 2 * f[k - 1] + (IF Bit(bits, at + WINDOW_SIZE - k) THEN 1 ELSE 0)
    BY <1>4, <1>5
  <2> QED BY <2>1, <1>4
<1>7. Eq(value)
  <2> HIDE DEF Eq
  <2> QED BY <1>6
<1>8. \A k \in 0..d : value[k] = IF k = 0 THEN 0 ELSE 2 * value[k - 1] + (IF Bit(bits, at + WINDOW_SIZE - k) THEN 1 ELSE 0)
  <2> HIDE DEF value
  <2> QED BY <1>7
<1>9. WindowPoint(bits, w) =
        Turned(BasePoint[w \div N_WINDOWS_PER_SEGMENT + 1],
               (IF Bit(bits, at + WINDOW_SIZE) THEN -(1 + value[d]) ELSE 1 + value[d])
                 * TwoTo[Exponent * (w % N_WINDOWS_PER_SEGMENT)])
  BY DEF WindowPoint, Turned
<1> HIDE DEF value, Eq, step
<1>10. WINDOW_SIZE \in 1..WINDOW_SIZE /\ WINDOW_SIZE \in Nat /\ at \in Nat
  BY PedersenIs
<1>11. m[WINDOW_SIZE] = Bit(bits, at + WINDOW_SIZE)
  BY <1>10 DEF BitsAt
<1>12. IsDownward(value, m)
  <2>1. value[0] = 0
    BY <1>1, <1>8
  <2>2. ASSUME NEW k \in 1..(WINDOW_SIZE - 1)
        PROVE  value[k] = 2 * value[k - 1] + (IF m[WINDOW_SIZE - k] THEN 1 ELSE 0)
    <3>1. WINDOW_SIZE - k \in 1..WINDOW_SIZE /\ at + (WINDOW_SIZE - k) = at + WINDOW_SIZE - k
      BY <1>10
    <3>2. m[WINDOW_SIZE - k] = Bit(bits, at + WINDOW_SIZE - k)
      BY <3>1 DEF BitsAt
    <3>3. k \in 0..d /\ k # 0
      BY <1>1
    <3> HIDE DEF m, at
    <3> QED BY <3>2, <3>3, <1>8
  <2> QED BY <2>1, <2>2 DEF IsDownward
<1> HIDE DEF m
<1>13. WindowPoint(bits, w) =
         Turned(BasePoint[w \div N_WINDOWS_PER_SEGMENT + 1],
                (IF m[WINDOW_SIZE] THEN -(1 + value[WINDOW_SIZE - 1]) ELSE 1 + value[WINDOW_SIZE - 1])
                  * TwoTo[Exponent * (w % N_WINDOWS_PER_SEGMENT)])
  BY <1>9, <1>11
<1> QED BY <1>12, <1>13 DEF m, at

\* What the code reads is within the window's size.
LEMMA UpwardIs ==
  ASSUME NEW m, NEW acc, IsUpward(acc, m)
  PROVE  \A i \in 0..(WINDOW_SIZE - 1) : acc[i] \in 1..TwoTo[i]
<1> DEFINE d == WINDOW_SIZE - 1
<1>1. d \in Nat /\ d <= WIDTH /\ WIDTH \in Nat /\ WINDOW_SIZE \in Nat
  BY PedersenIs
<1>2. \A i \in 0..WIDTH : TwoTo[i] \in Nat /\ TwoTo[i] >= 1
  BY TwoToIs
<1>3. \A i \in 0..d : acc[i] \in 1..TwoTo[i]
  <2> DEFINE f == [i \in 0..d |-> acc[i] \in 1..TwoTo[i]]  g == [i \in 0..d |-> TRUE]
  <2>1. f[0] = g[0]
    <3>1. acc[0] = 1 /\ TwoTo[0] = 1
      BY TwoToIs DEF IsUpward
    <3>2. acc[0] \in 1..TwoTo[0] /\ 0 \in 0..d
      BY <3>1, <1>1
    <3> HIDE DEF d
    <3> QED BY <3>2
  <2>2. ASSUME NEW l \in 1..d, f[l - 1] = g[l - 1] PROVE f[l] = g[l]
    <3> DEFINE t == TwoTo[l - 1]  a == acc[l - 1]
    <3>1. l - 1 \in 0..d /\ l \in 0..d /\ l - 1 \in 0..WIDTH /\ l \in 1..WIDTH
      BY <1>1
    <3>2. a \in 1..t
      BY <2>2, <3>1
    <3>3. t \in Nat /\ t >= 1 /\ TwoTo[l] = 2 * t
      BY <1>2, <3>1, TwoToIs
    <3>4. acc[l] = a + (IF m[l] THEN t ELSE 0)
      BY DEF IsUpward
    <3> HIDE DEF a, t
    <3>5. acc[l] \in 1..TwoTo[l]
      BY <3>2, <3>3, <3>4
    <3> QED BY <3>1, <3>5
  <2>3. d \in Nat /\ \A l \in 1..d : f[l - 1] = g[l - 1] => f[l] = g[l]
    <3> HIDE DEF f, g, d
    <3> QED BY <1>1, <2>2
  <2> HIDE DEF f, g, d
  <2>4. \A i \in 0..d : f[i] = g[i]
    BY <2>1, <2>3, SameByLevel
  <2> QED BY <2>4 DEF f, g
<1> QED BY <1>3

\* Both read the same number from the bits.
LEMMA DigitIs ==
  ASSUME NEW m, NEW acc, NEW value, IsUpward(acc, m), IsDownward(value, m)
  PROVE  acc[WINDOW_SIZE - 1] = 1 + value[WINDOW_SIZE - 1]
<1> DEFINE d == WINDOW_SIZE - 1
<1>1. d \in Nat /\ d <= WIDTH /\ WIDTH \in Nat /\ WINDOW_SIZE \in Nat
  BY PedersenIs
<1>2. \A i \in 0..WIDTH : TwoTo[i] \in Nat /\ TwoTo[i] >= 1
  BY TwoToIs
<1>3. \A i \in 0..d : acc[i] \in 1..TwoTo[i]
  BY UpwardIs
<1>4. \A k \in 0..d : value[k] \in Int
  <2> DEFINE f == [i \in 0..d |-> value[i] \in Int]  g == [i \in 0..d |-> TRUE]
  <2>1. f[0] = g[0]
    <3>1. value[0] = 0 /\ value[0] \in Int /\ 0 \in 0..d
      BY <1>1 DEF IsDownward
    <3> HIDE DEF d
    <3> QED BY <3>1
  <2>2. ASSUME NEW l \in 1..d, f[l - 1] = g[l - 1] PROVE f[l] = g[l]
    <3>1. l - 1 \in 0..d /\ l \in 0..d
      BY <1>1
    <3>2. value[l - 1] \in Int
      BY <2>2, <3>1
    <3>3. value[l] = 2 * value[l - 1] + (IF m[WINDOW_SIZE - l] THEN 1 ELSE 0)
      BY DEF IsDownward
    <3>4. value[l] \in Int
      BY <3>2, <3>3
    <3> QED BY <3>1, <3>4
  <2>3. d \in Nat /\ \A l \in 1..d : f[l - 1] = g[l - 1] => f[l] = g[l]
    <3> HIDE DEF f, g, d
    <3> QED BY <1>1, <2>2
  <2> HIDE DEF f, g, d
  <2>4. \A i \in 0..d : f[i] = g[i]
    BY <2>1, <2>3, SameByLevel
  <2> QED BY <2>4 DEF f, g
<1> DEFINE f == [k \in 0..d |-> acc[d - k] + TwoTo[d - k] * value[k]]  g == [k \in 0..d |-> acc[d]]
<1>5. f[0] = g[0]
  <2>1. value[0] = 0 /\ d - 0 = d /\ 0 \in 0..d
    BY <1>1 DEF IsDownward
  <2>2. TwoTo[d] \in Int /\ acc[d] \in Int
    BY <1>1, <1>2, <1>3
  <2>3. TwoTo[d] * 0 = 0
    BY <2>2
  <2>4. acc[d] + 0 = acc[d]
    BY <2>2
  <2> HIDE DEF d
  <2> QED BY <2>1, <2>3, <2>4
<1>6. ASSUME NEW l \in 1..d, f[l - 1] = g[l - 1] PROVE f[l] = g[l]
  <2> DEFINE i == d - l  t == TwoTo[i]  a == acc[i]  v == value[l - 1]
             b == IF m[i + 1] THEN 1 ELSE 0
  <2>1. l \in 0..d /\ l - 1 \in 0..d /\ i \in 0..d /\ i + 1 \in 1..d /\ d - (l - 1) = i + 1
        /\ WINDOW_SIZE - l = i + 1 /\ (i + 1) - 1 = i /\ i \in 0..WIDTH /\ i + 1 \in 1..WIDTH
    BY <1>1
  <2>2. acc[i + 1] + TwoTo[i + 1] * v = acc[d]
    BY <1>6, <2>1
  <2>3. acc[i + 1] = a + (IF m[i + 1] THEN t ELSE 0)
    BY <2>1 DEF IsUpward
  <2>4. value[l] = 2 * v + b
    <3>1. value[l] = 2 * v + (IF m[WINDOW_SIZE - l] THEN 1 ELSE 0)
      BY DEF IsDownward
    <3> QED BY <3>1, <2>1
  <2>5. TwoTo[i + 1] = 2 * t /\ t \in Int /\ a \in Int /\ v \in Int /\ b \in Int
    <3>1. TwoTo[i + 1] = 2 * t
      BY <2>1, TwoToIs
    <3>2. t \in Int /\ a \in Int
      BY <1>2, <1>3, <2>1
    <3>3. v \in Int
      BY <1>4, <2>1
    <3> QED BY <3>1, <3>2, <3>3
  <2>6. (IF m[i + 1] THEN t ELSE 0) = t * b
    BY <2>5
  <2>7. a + t * value[l] = acc[d]
    <3> HIDE DEF t, a, v, b, i
    <3>1. (a + t * b) + (2 * t) * v = acc[d]
      BY <2>2, <2>3, <2>5, <2>6
    <3>2. (a + t * b) + (2 * t) * v = a + t * (2 * v + b)
      BY <2>5
    <3> QED BY <3>1, <3>2, <2>4
  <2>8. f[l] = acc[d - l] + TwoTo[d - l] * value[l] /\ g[l] = acc[d]
    BY <2>1
  <2> QED BY <2>7, <2>8
<1>7. \A k \in 0..d : f[k] = g[k]
  <2> HIDE DEF f, g, d
  <2>1. d \in Nat
    BY <1>1
  <2>2. \A l \in 1..d : f[l - 1] = g[l - 1] => f[l] = g[l]
    BY <1>6
  <2> QED BY <2>1, <2>2, <1>5, SameByLevel
<1>8. acc[d] = 1 + value[d]
  <2>1. d \in 0..d /\ d - d = 0
    BY <1>1
  <2>2. f[d] = acc[0] + TwoTo[0] * value[d] /\ g[d] = acc[d]
    BY <2>1
  <2>3. acc[0] = 1 /\ TwoTo[0] = 1 /\ value[d] \in Int
    BY <1>4, <2>1, TwoToIs DEF IsUpward
  <2>4. TwoTo[0] * value[d] = value[d]
    BY <2>3
  <2> HIDE DEF f, g, d
  <2> QED BY <1>7, <2>1, <2>2, <2>3, <2>4
<1> QED BY <1>8

\* How a segment's scalar builds up.
IsScalar(sum, bits) ==
  /\ sum[0] = 0
  /\ \A w \in 1..N_WINDOWS_PER_SEGMENT :
       sum[w] = IF WINDOW_SIZE * (w - 1) >= Len(bits) THEN sum[w - 1]
                ELSE sum[w - 1] + Window(bits, WINDOW_SIZE * (w - 1)) * TwoTo[Exponent * (w - 1)]

\* A window's digit, in absolute value, is at most the power of two of its bits but the sign.
LEMMA WindowIs ==
  ASSUME NEW bits, NEW at \in Nat
  PROVE  Window(bits, at) \in (-TwoTo[WINDOW_SIZE - 1])..TwoTo[WINDOW_SIZE - 1]
<1> DEFINE m == BitsAt(bits, at)  d == WINDOW_SIZE - 1
<1>1. PICK acc : IsUpward(acc, m) /\ Window(bits, at) = IF m[WINDOW_SIZE] THEN -acc[d] ELSE acc[d]
  BY WindowExists
<1>2. d \in 0..d /\ TwoTo[d] \in Nat
  BY PedersenIs, TwoToIs
<1>3. acc[d] \in 1..TwoTo[d]
  BY <1>1, <1>2, UpwardIs
<1> HIDE DEF m, d
<1>4. Window(bits, at) \in (-TwoTo[d])..TwoTo[d]
  BY <1>1, <1>2, <1>3
<1> QED BY <1>4 DEF d

\* The place of each window within a segment.
LEMMA PlaceIs ==
  ASSUME NEW w \in 1..N_WINDOWS_PER_SEGMENT
  PROVE  /\ Exponent * (w - 1) \in 0..WIDTH /\ Exponent * w \in 0..WIDTH
         /\ TwoTo[Exponent * (w - 1)] \in Nat /\ TwoTo[WINDOW_SIZE] \in Nat \ {0} /\ TwoTo[WINDOW_SIZE - 1] \in Nat
         /\ TwoTo[WINDOW_SIZE] = 2 * TwoTo[WINDOW_SIZE - 1]
         /\ TwoTo[Exponent * w] = (2 * TwoTo[WINDOW_SIZE]) * TwoTo[Exponent * (w - 1)]
<1> DEFINE e == Exponent  n == N_WINDOWS_PER_SEGMENT
<1>1. e \in Nat /\ n \in Nat /\ e = WINDOW_SIZE + 1 /\ WINDOW_SIZE \in Nat /\ WINDOW_SIZE >= 2 /\ WIDTH \in Nat /\ e * n <= WIDTH
  BY PedersenIs, PedersenAssumption
<1>2. e * (w - 1) \in Nat /\ e * w \in Nat /\ e * w <= e * n /\ e * w = e * (w - 1) + e
  <2> HIDE DEF e, n
  <2>1. e * w = e * (w - 1) + e /\ e * (w - 1) \in Nat /\ e * w \in Nat
    BY <1>1
  <2>2. e * n = e * w + e * (n - w) /\ e * (n - w) \in Nat
    BY <1>1 DEF n
  <2>3. e * n \in Nat
    BY <1>1
  <2> QED BY <2>1, <2>2, <2>3
<1> HIDE DEF e
<1>3. e * (w - 1) \in 0..WIDTH /\ e * w \in 0..WIDTH /\ e <= WIDTH
  <2> DEFINE x == e * (w - 1)  y == e * w  z == e * n
  <2>1. x \in Nat /\ y \in Nat /\ y <= z /\ y = x + e /\ z <= WIDTH
    BY <1>1, <1>2
  <2>2. z \in Nat
    BY <1>1
  <2> HIDE DEF x, y, z
  <2>3. x \in 0..WIDTH /\ y \in 0..WIDTH /\ e <= WIDTH
    BY <1>1, <2>1, <2>2
  <2> QED BY <2>3 DEF x, y
<1>4. TwoTo[e * (w - 1) + e] = TwoTo[e * (w - 1)] * TwoTo[e]
  <2> DEFINE x == e * (w - 1)
  <2>1. x \in Nat /\ x + e <= WIDTH
    BY <1>1, <1>2, <1>3
  <2> HIDE DEF x
  <2>2. TwoTo[x + e] = TwoTo[x] * TwoTo[e]
    BY <2>1, <1>1, TwoToPlus
  <2> QED BY <2>2 DEF x
<1>5. TwoTo[e] = 2 * TwoTo[WINDOW_SIZE] /\ TwoTo[WINDOW_SIZE] = 2 * TwoTo[WINDOW_SIZE - 1]
  <2>1. e \in 1..WIDTH /\ e - 1 = WINDOW_SIZE /\ WINDOW_SIZE \in 1..WIDTH
    BY <1>1, <1>3
  <2> QED BY <2>1, TwoToIs
<1>6. TwoTo[e * (w - 1)] \in Nat /\ TwoTo[WINDOW_SIZE] \in Nat \ {0} /\ TwoTo[WINDOW_SIZE - 1] \in Nat
  <2>1. WINDOW_SIZE \in 0..WIDTH /\ WINDOW_SIZE - 1 \in 0..WIDTH
    BY <1>1, <1>3
  <2> QED BY <2>1, <1>3, TwoToIs
<1>7. TwoTo[e * w] = (2 * TwoTo[WINDOW_SIZE]) * TwoTo[e * (w - 1)]
  <2> DEFINE x == TwoTo[e * (w - 1)]  y == TwoTo[WINDOW_SIZE]
  <2>1. TwoTo[e * w] = x * (2 * y)
    BY <1>2, <1>4, <1>5
  <2>2. x \in Nat /\ y \in Nat
    BY <1>6
  <2> HIDE DEF x, y
  <2>3. x * (2 * y) = (2 * y) * x
    BY <2>2
  <2>4. TwoTo[e * w] = (2 * y) * x
    BY <2>1, <2>3
  <2> QED BY <2>4 DEF x, y
<1> QED BY <1>3, <1>5, <1>6, <1>7 DEF e

\* A segment's scalar is the sum of its windows.
LEMMA ScalarExists ==
  ASSUME NEW bits \in Seq(BOOLEAN)
  PROVE  \E sum : /\ IsScalar(sum, bits) /\ SegmentScalar(bits) = sum[N_WINDOWS_PER_SEGMENT]
                  /\ \A w \in 0..N_WINDOWS_PER_SEGMENT : sum[w] \in Int
<1> DEFINE d == N_WINDOWS_PER_SEGMENT
           digit(w) == Window(bits, WINDOW_SIZE * (w - 1)) * TwoTo[Exponent * (w - 1)]
           next(w, x) == IF WINDOW_SIZE * (w - 1) >= Len(bits) THEN x ELSE x + digit(w)
           step == [w \in 1..d |-> [x \in Int |-> next(w, x)]]
           Eq(f) == f = [w \in 0..d |->
             IF w = 0 THEN 0
             ELSE IF WINDOW_SIZE * (w - 1) >= Len(bits) THEN f[w - 1]
             ELSE f[w - 1] + Window(bits, WINDOW_SIZE * (w - 1)) * TwoTo[Exponent * (w - 1)]]
           sum == CHOOSE f : Eq(f)
<1>1. d \in Nat /\ \A w \in 1..d : digit(w) \in Int
  <2>1. d \in Nat /\ WINDOW_SIZE \in Nat
    BY PedersenIs
  <2>2. ASSUME NEW w \in 1..d PROVE digit(w) \in Int
    <3> DEFINE at == WINDOW_SIZE * (w - 1)  t == TwoTo[Exponent * (w - 1)]  x == Window(bits, at)
    <3>1. at \in Nat
      BY <2>1
    <3>2. t \in Nat /\ TwoTo[WINDOW_SIZE - 1] \in Nat
      BY PlaceIs
    <3> HIDE DEF at, t
    <3>3. x \in Int
      BY <3>1, <3>2, WindowIs
    <3> HIDE DEF x
    <3>4. x * t \in Int
      BY <3>2, <3>3
    <3> QED BY <3>4 DEF x, t, at
  <2> QED BY <2>1, <2>2
<1> HIDE DEF digit
<1>2. step \in [1..d -> [Int -> Int]]
  BY <1>1
<1>3. PICK f : Solves(f, d, Int, 0, step)
  <2> HIDE DEF step, d
  <2>1. 0 \in Int
    OBVIOUS
  <2> QED BY <1>1, <1>2, <2>1, Recursion
<1>4. f \in [0..d -> Int] /\ f[0] = 0
  BY <1>3 DEF Solves
<1>5. \A w \in 1..d : f[w] = next(w, f[w - 1])
  <2> TAKE w \in 1..d
  <2>1. f[w - 1] \in Int /\ f[w] = step[w][f[w - 1]]
    <3> HIDE DEF step, d
    <3> QED BY <1>1, <1>3 DEF Solves
  <2> HIDE DEF next
  <2> QED BY <2>1
<1>6. Eq(f)
  <2>1. \A w \in 0..d : f[w] = IF w = 0 THEN 0 ELSE next(w, f[w - 1])
    <3> HIDE DEF next
    <3> QED BY <1>4, <1>5
  <2> QED BY <2>1, <1>4 DEF digit
<1>7. Eq(sum)
  <2> HIDE DEF Eq
  <2> QED BY <1>6
<1>8. \A w \in 0..d : sum[w] = IF w = 0 THEN 0 ELSE next(w, sum[w - 1])
  <2> HIDE DEF sum
  <2> QED BY <1>7 DEF digit
<1>9. SegmentScalar(bits) = sum[d]
  BY DEF SegmentScalar
<1> HIDE DEF sum, Eq, step, next
<1>10. sum[0] = 0 /\ \A w \in 1..d : sum[w] = next(w, sum[w - 1])
  BY <1>1, <1>8
<1>11. IsScalar(sum, bits)
  BY <1>10 DEF IsScalar, next, digit
<1>12. \A w \in 0..d : sum[w] = f[w]
  <2>1. sum[0] = f[0] /\ \A w \in 1..d : sum[w - 1] = f[w - 1] => sum[w] = f[w]
    BY <1>4, <1>5, <1>10
  <2> HIDE DEF d
  <2> QED
    <3>1. Follow(sum, f, d)
      BY <2>1 DEF Follow
    <3>2. Alike(sum, f, d)
      BY ONLY <1>1, <3>1, FollowAlike
    <3> QED BY <3>2 DEF Alike
<1> QED BY <1>4, <1>9, <1>11, <1>12

\* No segment's scalar goes past the order of the subgroup.
LEMMA ScalarIs ==
  ASSUME NEW bits, NEW sum, IsScalar(sum, bits), \A w \in 0..N_WINDOWS_PER_SEGMENT : sum[w] \in Int
  PROVE  sum[N_WINDOWS_PER_SEGMENT] \in (-L)..L
<1> DEFINE d == N_WINDOWS_PER_SEGMENT
           Fits(w) == 2 * sum[w] <= TwoTo[Exponent * w] /\ -TwoTo[Exponent * w] <= 2 * sum[w]
           T == {w \in 0..d : ~ Fits(w)}
<1>1. d \in Nat /\ WINDOW_SIZE \in Nat /\ Exponent \in Nat
  BY PedersenIs
<1>2. Fits(0)
  <2>1. sum[0] = 0 /\ Exponent * 0 = 0 /\ TwoTo[0] = 1
    BY <1>1, TwoToIs DEF IsScalar
  <2> QED BY <2>1
<1>3. ASSUME NEW w \in 1..d, Fits(w - 1) PROVE Fits(w)
  <2> DEFINE at == WINDOW_SIZE * (w - 1)  t == TwoTo[Exponent * (w - 1)]  x == Window(bits, at)
             h == TwoTo[WINDOW_SIZE - 1]  u == TwoTo[WINDOW_SIZE]  big == TwoTo[Exponent * w]
             old == sum[w - 1]  new == sum[w]
  <2>1. new = IF at >= Len(bits) THEN old ELSE old + x * t
    BY DEF IsScalar
  <2>2. t \in Nat /\ h \in Nat /\ u = 2 * h /\ u \in Nat \ {0} /\ big = (2 * u) * t
    BY PlaceIs
  <2>3. old \in Int /\ new \in Int
    <3>1. w - 1 \in 0..d /\ w \in 0..d
      BY <1>1
    <3> QED BY <3>1
  <2>4. x \in (-h)..h
    <3>1. at \in Nat
      BY <1>1
    <3> QED BY <3>1, WindowIs
  <2>5. 2 * old <= t /\ -t <= 2 * old
    BY <1>3
  <2> HIDE DEF at, t, x, h, u, big, old, new
  <2>6. x * t <= h * t /\ -(h * t) <= x * t /\ x * t \in Int /\ h * t \in Nat
    <3>1. (h - x) * t \in Nat /\ (h + x) * t \in Nat
      BY <2>2, <2>4
    <3>2. (h - x) * t = h * t - x * t /\ (h + x) * t = h * t + x * t /\ x * t \in Int /\ h * t \in Nat
      BY <2>2, <2>4
    <3> DEFINE ht == h * t  xt == x * t
    <3>3. ht - xt \in Nat /\ ht + xt \in Nat /\ xt \in Int /\ ht \in Nat
      BY <3>1, <3>2
    <3> HIDE DEF ht, xt
    <3>4. xt <= ht /\ -ht <= xt
      BY <3>3
    <3> QED BY <3>2, <3>4 DEF ht, xt
  <2>7. big = 4 * (h * t) /\ t <= 2 * (h * t)
    <3>1. big = 4 * (h * t)
      BY <2>2
    <3>2. h >= 1
      BY <2>2
    <3>3. (2 * h - 1) * t \in Nat /\ (2 * h - 1) * t = 2 * (h * t) - t
      BY <2>2, <3>2
    <3> DEFINE ht == h * t
    <3>4. ht \in Nat /\ 2 * ht - t \in Nat
      BY <3>3, <2>6
    <3> HIDE DEF ht
    <3>5. t <= 2 * ht
      BY <3>4, <2>2
    <3> QED BY <3>1, <3>5 DEF ht
  <2> DEFINE ht == h * t  xt == x * t
  <2>8. ht \in Nat /\ xt \in Int /\ xt <= ht /\ -ht <= xt /\ big = 4 * ht /\ t <= 2 * ht
    BY <2>6, <2>7
  <2>9. new = IF at >= Len(bits) THEN old ELSE old + xt
    BY <2>1
  <2> HIDE DEF ht, xt
  <2>10. 2 * new <= big /\ -big <= 2 * new
    <3>1. CASE at >= Len(bits)
      BY <3>1, <2>2, <2>3, <2>5, <2>8, <2>9
    <3>2. CASE ~ (at >= Len(bits))
      BY <3>2, <2>2, <2>3, <2>5, <2>8, <2>9
    <3> QED BY <3>1, <3>2
  <2> QED BY <2>10 DEF big, new
<1> HIDE DEF Fits
<1>4. T = {}
  <2> SUFFICES ASSUME T # {} PROVE FALSE
    OBVIOUS
  <2>1. T \in SUBSET Nat
    BY <1>1
  <2>2. PICK i \in T : \A j \in T : i <= j
    <3> HIDE DEF T
    <3> QED BY <2>1, LeastOf
  <2>3. i # 0
    BY <2>2, <1>2
  <2>4. i \in 1..d /\ i - 1 \in 0..d /\ i - 1 \notin T
    BY <1>1, <2>2, <2>3
  <2> QED BY <2>2, <2>4, <1>3
<1>5. Fits(d) /\ d \in 0..d
  BY <1>1, <1>4
<1>6. TwoTo[Exponent * d] \in Nat /\ TwoTo[Exponent * d] <= 2 * L /\ L \in Nat
  <2>1. d \in 1..d
    BY PedersenIs
  <2>2. Exponent * d \in 0..WIDTH
    BY <2>1, PlaceIs
  <2> QED BY <2>2, TwoToIs, PedersenAssumption, ScalarAssumption
<1>7. sum[d] \in Int
  BY <1>5
<1>8. 2 * sum[d] <= TwoTo[Exponent * d] /\ -TwoTo[Exponent * d] <= 2 * sum[d]
  BY <1>5 DEF Fits
<1> HIDE DEF d
<1>9. sum[d] \in (-L)..L
  BY <1>6, <1>7, <1>8
<1> QED BY <1>9 DEF d

\* How many segments there are.
LEMMA SegmentsIs ==
  ASSUME NEW len \in Nat
  PROVE  /\ Segments(len) \in Nat \ {0}
         /\ Segments(len) * BITS_PER_SEGMENT >= len
         /\ \A s \in 1..Segments(len) : (s - 1) * BITS_PER_SEGMENT \in 0..len
         /\ \A v \in Nat : v * BITS_PER_SEGMENT < len => v < Segments(len)
<1> DEFINE b == BITS_PER_SEGMENT  a == IF len = 0 THEN 0 ELSE len - 1  q == a \div b
<1>1. b \in Nat \ {0} /\ a \in Nat
  BY PedersenIs
<1>2. Segments(len) = q + 1
  BY DEF Segments
<1> HIDE DEF b
<1>3. q \in Nat /\ a % b \in 0..(b - 1) /\ a = b * q + (a % b)
  <2> HIDE DEF a
  <2> QED BY <1>1, ModBounds
<1> HIDE DEF q
<1>4. (q + 1) * b = b * q + b /\ b * q \in Nat /\ b * q <= a /\ a < b * q + b
  BY <1>1, <1>3
<1>5. (q + 1) * b >= len
  <2> DEFINE z == b * q
  <2>1. z \in Nat /\ a < z + b /\ (q + 1) * b = z + b
    BY <1>4
  <2> HIDE DEF z
  <2> QED BY <2>1, <1>1
<1>6. ASSUME NEW s \in 1..(q + 1) PROVE (s - 1) * b \in 0..len
  <2> DEFINE z == b * q  y == (s - 1) * b  x == (q - (s - 1)) * b
  <2>1. x \in Nat /\ y \in Nat
    <3>1. q - (s - 1) \in Nat /\ s - 1 \in Nat
      BY <1>3
    <3> QED BY <3>1, <1>1
  <2>2. z = y + x
    BY <1>1, <1>3
  <2>3. z \in Nat /\ z <= a /\ a <= len
    BY <1>4
  <2> HIDE DEF x, y, z, a
  <2>4. y \in 0..len
    BY <2>1, <2>2, <2>3, <1>1
  <2> QED BY <2>4 DEF y
<1>7. ASSUME NEW v \in Nat, v * b < len PROVE v < q + 1
  <2> SUFFICES ASSUME v >= q + 1 PROVE FALSE
    BY <1>3
  <2> DEFINE z == b * q  y == v * b  x == (v - (q + 1)) * b
  <2>1. x \in Nat
    <3>1. v - (q + 1) \in Nat
      BY <1>3
    <3> QED BY <3>1, <1>1
  <2>2. y = z + b + x /\ y \in Nat
    BY <1>1, <1>3
  <2>3. z \in Nat /\ a < z + b /\ y < len
    BY <1>4, <1>7
  <2> HIDE DEF x, y, z
  <2> QED BY <2>1, <2>2, <2>3, <1>1
<1> QED BY <1>2, <1>3, <1>5, <1>6, <1>7 DEF b

\* A segment holds the bits from its place on.
LEMMA SegmentIs ==
  ASSUME NEW bits \in Seq(BOOLEAN), NEW s \in 1..Segments(Len(bits))
  PROVE  LET from == (s - 1) * BITS_PER_SEGMENT
         IN  /\ Segment(bits, s) \in Seq(BOOLEAN)
             /\ from \in Nat
             /\ Len(Segment(bits, s)) =
                  IF from + BITS_PER_SEGMENT < Len(bits) THEN BITS_PER_SEGMENT ELSE Len(bits) - from
             /\ \A i \in 1..Len(Segment(bits, s)) : Segment(bits, s)[i] = bits[from + i]
<1> DEFINE b == BITS_PER_SEGMENT  from == (s - 1) * b
           to == IF s * b < Len(bits) THEN s * b ELSE Len(bits)
<1>1. b \in Nat \ {0} /\ s \in Nat /\ from \in 0..Len(bits) /\ Len(bits) \in Nat
  <2>1. Len(bits) \in Nat
    OBVIOUS
  <2> QED BY <2>1, PedersenIs, SegmentsIs
<1>2. s * b = from + b
  BY <1>1
<1>3. Segment(bits, s) = SubSeq(bits, from + 1, to)
  BY DEF Segment
<1> HIDE DEF from, b
<1>4. to = (IF from + b < Len(bits) THEN from + b ELSE Len(bits)) /\ to \in from..Len(bits)
  BY <1>1, <1>2
<1> HIDE DEF to
<1>5. /\ SubSeq(bits, from + 1, to) \in Seq(BOOLEAN)
      /\ Len(SubSeq(bits, from + 1, to)) = to - from
      /\ \A i \in 1..(to - from) : SubSeq(bits, from + 1, to)[i] = bits[from + i]
  <2>1. from + 1 \in 1..(Len(bits) + 1) /\ to \in from..Len(bits) /\ from \in Nat /\ to \in Nat
    BY <1>1, <1>4
  <2>2. SubSeq(bits, from + 1, to) \in Seq(BOOLEAN)
    BY <2>1
  <2>3. Len(SubSeq(bits, from + 1, to)) = to - from
    BY <2>1
  <2>4. ASSUME NEW i \in 1..(to - from) PROVE SubSeq(bits, from + 1, to)[i] = bits[from + i]
    BY <2>1
  <2> QED BY <2>2, <2>3, <2>4
<1>6. to - from = IF from + b < Len(bits) THEN b ELSE Len(bits) - from
  BY <1>1, <1>4
<1>7. /\ Segment(bits, s) \in Seq(BOOLEAN) /\ from \in Nat
      /\ Len(Segment(bits, s)) = IF from + b < Len(bits) THEN b ELSE Len(bits) - from
      /\ \A i \in 1..Len(Segment(bits, s)) : Segment(bits, s)[i] = bits[from + i]
  BY <1>1, <1>3, <1>5, <1>6, SMTT(30)
<1> QED BY <1>7 DEF from, b

\* A segment's window is a window of the whole.
LEMMA SameWindow ==
  ASSUME NEW bits \in Seq(BOOLEAN), NEW s \in 1..Segments(Len(bits)), NEW w \in 1..N_WINDOWS_PER_SEGMENT
  PROVE  LET v == (s - 1) * N_WINDOWS_PER_SEGMENT + (w - 1)
         IN  /\ BitsAt(Segment(bits, s), WINDOW_SIZE * (w - 1)) = BitsAt(bits, WINDOW_SIZE * v)
             /\ WINDOW_SIZE * (w - 1) >= Len(Segment(bits, s)) <=> WINDOW_SIZE * v >= Len(bits)
<1> DEFINE n == N_WINDOWS_PER_SEGMENT  z == WINDOW_SIZE  b == BITS_PER_SEGMENT  from == (s - 1) * b
           v == (s - 1) * n + (w - 1)  seg == Segment(bits, s)  at == z * (w - 1)  len == Len(bits)
<1>1. /\ z \in Nat /\ z >= 2 /\ n \in Nat /\ n >= 1 /\ b = z * n /\ b \in Nat \ {0} /\ s \in Nat /\ s >= 1 /\ w \in Nat
      /\ w >= 1 /\ w <= n /\ len \in Nat /\ from \in 0..len
  <2>1. len \in Nat
    OBVIOUS
  <2> QED BY <2>1, PedersenIs, SegmentsIs
<1>2. /\ seg \in Seq(BOOLEAN)
      /\ Len(seg) = IF from + b < len THEN b ELSE len - from
      /\ \A i \in 1..Len(seg) : seg[i] = bits[from + i]
  BY SegmentIs
<1>3. at \in Nat /\ at + z <= b /\ z * v = from + at
  <2> HIDE DEF z, n, b
  <2>1. b = at + z + z * (n - w) /\ z * (n - w) \in Nat /\ at \in Nat
    <3>1. n - w \in Nat /\ w - 1 \in Nat
      BY <1>1
    <3>2. z * (n - w) \in Nat /\ at \in Nat
      BY <3>1, <1>1
    <3>3. z * n = z * (w - 1) + z + z * (n - w)
      BY <1>1
    <3> QED BY <3>2, <3>3, <1>1
  <2>2. z * v = (s - 1) * (z * n) + z * (w - 1)
    BY <1>1
  <2> DEFINE rest == z * (n - w)
  <2>3. b = at + z + rest /\ rest \in Nat
    BY <2>1
  <2> HIDE DEF rest, at
  <2>4. at + z <= b
    BY <2>1, <2>3, <1>1
  <2> QED BY <2>1, <2>2, <2>4, <1>1 DEF at
<1> HIDE DEF z, n, b, from, v, seg, at, len
<1>4. ASSUME NEW i \in 1..z PROVE Bit(seg, at + i) = Bit(bits, z * v + i)
  <2>1. at + i \in 1..b /\ from + (at + i) = z * v + i
    BY <1>1, <1>3
  <2>2. at + i <= Len(seg) <=> z * v + i <= len
    BY <2>1, <1>1, <1>2, <1>3
  <2>3. at + i <= Len(seg) => seg[at + i] = bits[z * v + i]
    BY <2>1, <1>1, <1>2, <1>3
  <2> QED BY <2>2, <2>3 DEF Bit, len
<1>5. at >= Len(seg) <=> z * v >= len
  BY <1>1, <1>2, <1>3
<1>6. BitsAt(seg, at) = BitsAt(bits, z * v)
  BY <1>4 DEF BitsAt, z
<1> QED BY <1>5, <1>6 DEF z, n, b, from, v, seg, at, len

\* What a window adds to its segment is the point of the reference.
LEMMA WindowPointIs ==
  ASSUME NEW bits \in Seq(BOOLEAN), NEW s \in 1..Segments(Len(bits)), NEW w \in 1..N_WINDOWS_PER_SEGMENT
  PROVE  WindowPoint(bits, (s - 1) * N_WINDOWS_PER_SEGMENT + (w - 1)) =
           Turned(BasePoint[s],
                  Window(Segment(bits, s), WINDOW_SIZE * (w - 1)) * TwoTo[Exponent * (w - 1)])
<1> DEFINE n == N_WINDOWS_PER_SEGMENT  z == WINDOW_SIZE  d == z - 1
           v == (s - 1) * n + (w - 1)  seg == Segment(bits, s)  at == z * (w - 1)
           m == BitsAt(bits, z * v)
<1>1. z \in Nat /\ n \in Nat \ {0} /\ v \in Nat /\ at \in Nat /\ s - 1 \in Nat /\ w - 1 \in 0..(n - 1)
  <2>1. z \in Nat /\ n \in Nat \ {0} /\ s - 1 \in Nat /\ w - 1 \in 0..(n - 1)
    BY PedersenIs
  <2>2. (s - 1) * n \in Nat /\ at \in Nat
    BY <2>1
  <2> QED BY <2>1, <2>2
<1>2. v \div n = s - 1 /\ v % n = w - 1
  <2> DEFINE a == s - 1  c == w - 1
  <2>1. a \in Nat /\ c \in 0..(n - 1) /\ v = a * n + c
    BY <1>1
  <2> HIDE DEF a, c, n, v
  <2>2. (n * a + c) \div n = a /\ (n * a + c) % n = c
    BY <2>1, <1>1, DivUnique
  <2>3. n * a = a * n
    BY <2>1, <1>1
  <2> QED BY <2>1, <2>2, <2>3 DEF a, c
<1>3. PICK value : /\ IsDownward(value, m)
                   /\ WindowPoint(bits, v) =
                        Turned(BasePoint[v \div n + 1],
                               (IF m[z] THEN -(1 + value[d]) ELSE 1 + value[d]) * TwoTo[Exponent * (v % n)])
  BY <1>1, WindowPointExists
<1>4. PICK acc : IsUpward(acc, BitsAt(seg, at)) /\ Window(seg, at) = IF BitsAt(seg, at)[z] THEN -acc[d] ELSE acc[d]
  BY <1>1, WindowExists
<1>5. BitsAt(seg, at) = m
  BY SameWindow
<1> HIDE DEF v, seg, at, m, n
<1>6. acc[d] = 1 + value[d]
  BY <1>3, <1>4, <1>5, DigitIs
<1>7. Window(seg, at) = IF m[z] THEN -(1 + value[d]) ELSE 1 + value[d]
  BY <1>4, <1>5, <1>6
<1>8. v \div n + 1 = s
  BY <1>1, <1>2
<1> HIDE DEF z, d
<1>9. WindowPoint(bits, v) = Turned(BasePoint[s], Window(seg, at) * TwoTo[Exponent * (w - 1)])
  BY <1>2, <1>3, <1>7, <1>8
<1> QED BY <1>9 DEF v, seg, at, n, z

\* What a segment adds.
LEMMA ContributionIs ==
  ASSUME NEW bits \in Seq(BOOLEAN), NEW s \in 1..Segments(Len(bits)), s <= Len(Candidates)
  PROVE  LET scalar == SegmentScalar(Segment(bits, s))
         IN  /\ scalar \in Int /\ BasePoint[s] \in Subgroup
             /\ Contribution(bits, s) = Turned(BasePoint[s], scalar)
             /\ Contribution(bits, s) \in Subgroup
<1> DEFINE seg == Segment(bits, s)  scalar == SegmentScalar(seg)
<1>1. seg \in Seq(BOOLEAN)
  BY SegmentIs
<1>2. s \in 1..Len(Candidates)
  <2>1. Len(bits) \in Nat
    OBVIOUS
  <2>2. Len(Candidates) \in Nat /\ Segments(Len(bits)) \in Nat
    BY <2>1, PedersenAssumption, SegmentsIs
  <2> QED BY <2>2
<1>3. BasePoint[s] \in Subgroup
  BY <1>2, BasePointIs
<1> HIDE DEF seg
<1>4. scalar \in (-L)..L
  BY <1>1, ScalarExists, ScalarIs
<1>5. scalar \in Int
  BY <1>4, ScalarAssumption
<1>6. Contribution(bits, s) = MulScalar(BasePoint[s], Lifted(scalar))
  BY DEF Contribution, seg
<1> HIDE DEF scalar
<1>7. Contribution(bits, s) = Turned(BasePoint[s], scalar)
  BY <1>3, <1>4, <1>6, LiftedIs
<1>8. Contribution(bits, s) \in Subgroup
  BY <1>3, <1>5, <1>7, TurnedIs
<1> QED BY <1>3, <1>5, <1>7, <1>8 DEF scalar, seg

\* How the hash and its reference build up.
Windows(bits) == (Len(bits) + WINDOW_SIZE - 1) \div WINDOW_SIZE
\* The code adds segment by segment.
IsHash(acc, bits) ==
  /\ acc[0] = Identity
  /\ \A s \in 1..Segments(Len(bits)) : acc[s] = PointSum(acc[s - 1], Contribution(bits, s))
\* The reference adds window by window.
IsReference(ref, bits) ==
  /\ ref[0] = Identity
  /\ \A w \in 1..Windows(bits) : ref[w] = PointSum(ref[w - 1], WindowPoint(bits, w - 1))

\* What the hash has added after each segment is a point of the subgroup.
LEMMA HashExists ==
  ASSUME NEW bits \in Seq(BOOLEAN), Segments(Len(bits)) <= Len(Candidates)
  PROVE  \E acc : /\ IsHash(acc, bits) /\ PedersenPoint(bits) = acc[Segments(Len(bits))]
                  /\ \A s \in 0..Segments(Len(bits)) : acc[s] \in Subgroup
<1> DEFINE d == Segments(Len(bits))
           G == Subgroup
           next(s, x) == PointSum(x, Contribution(bits, s))
           step == [s \in 1..d |-> [x \in G |-> next(s, x)]]
           Eq(f) == f = [s \in 0..d |->
             IF s = 0 THEN Identity ELSE Affine(Add(Projective(f[s - 1]), Projective(Contribution(bits, s))))]
           acc == CHOOSE f : Eq(f)
<1>1. d \in Nat /\ \A s \in 1..d : Contribution(bits, s) \in G
  <2>1. Len(bits) \in Nat /\ Len(Candidates) \in Nat
    BY PedersenAssumption
  <2>2. d \in Nat
    BY <2>1, SegmentsIs
  <2>3. ASSUME NEW s \in 1..d PROVE Contribution(bits, s) \in G
    <3>1. s <= Len(Candidates)
      BY <2>1, <2>2
    <3> QED BY <3>1, ContributionIs
  <2> QED BY <2>2, <2>3
<1>2. G \in SUBSET Points /\ Identity \in G /\ \A p, q \in G : PointSum(p, q) \in G
  BY SubgroupIs DEF IsGroup
<1> HIDE DEF G
<1>3. \A s \in 1..d : \A x \in G : next(s, x) \in G
  BY <1>1, <1>2
<1>4. \A s \in 1..d : \A x \in G : Affine(Add(Projective(x), Projective(Contribution(bits, s)))) = next(s, x)
  <2> SUFFICES ASSUME NEW s \in 1..d, NEW x \in G
               PROVE  Affine(Add(Projective(x), Projective(Contribution(bits, s)))) = PointSum(x, Contribution(bits, s))
    OBVIOUS
  <2> DEFINE c == Contribution(bits, s)
  <2>1. x \in Points /\ c \in Points
    BY <1>1, <1>2
  <2> HIDE DEF c
  <2>2. StandsFor(Projective(x), x) /\ StandsFor(Projective(c), c)
    BY <2>1, ProjectiveIs
  <2>3. StandsFor(Add(Projective(x), Projective(c)), PointSum(x, c))
    BY <2>1, <2>2, AddIs
  <2>4. PointSum(x, c) \in [x : Fr, y : Fr]
    BY <2>1, SumIsPoint DEF Points
  <2>5. Affine(Add(Projective(x), Projective(c))) = PointSum(x, c)
    BY <2>3, <2>4, AffineIs
  <2> QED BY <2>5 DEF c
<1>5. step \in [1..d -> [G -> G]]
  <2> HIDE DEF next, d
  <2> QED BY <1>3
<1>6. PICK f : Solves(f, d, G, Identity, step)
  <2> HIDE DEF step, d
  <2> QED BY <1>1, <1>2, <1>5, Recursion
<1>7. f \in [0..d -> G] /\ f[0] = Identity
  BY <1>6 DEF Solves
<1>8. \A s \in 1..d : f[s - 1] \in G /\ f[s] = next(s, f[s - 1])
  <2> TAKE s \in 1..d
  <2>1. f[s - 1] \in G /\ f[s] = step[s][f[s - 1]]
    <3> HIDE DEF step, d
    <3> QED BY <1>1, <1>6 DEF Solves
  <2> HIDE DEF next
  <2> QED BY <2>1
<1>9. Eq(f)
  <2>1. \A s \in 0..d : f[s] = IF s = 0 THEN Identity ELSE Affine(Add(Projective(f[s - 1]), Projective(Contribution(bits, s))))
    <3> HIDE DEF next, d
    <3>1. ASSUME NEW s \in 1..d
          PROVE  f[s] = Affine(Add(Projective(f[s - 1]), Projective(Contribution(bits, s))))
      BY <1>4, <1>8
    <3> QED BY <1>1, <1>7, <3>1
  <2> QED BY <2>1, <1>7
<1>10. Eq(acc)
  <2> HIDE DEF Eq
  <2> QED BY <1>9
<1>11. \A s \in 0..d : acc[s] = IF s = 0 THEN Identity ELSE Affine(Add(Projective(acc[s - 1]), Projective(Contribution(bits, s))))
  <2> HIDE DEF acc
  <2> QED BY <1>10
<1>12. PedersenPoint(bits) = acc[d]
  BY DEF PedersenPoint
<1> HIDE DEF acc, Eq, step, d
<1>13. \A s \in 0..d : acc[s] = f[s]
  <2>1. acc[0] = f[0]
    BY <1>1, <1>7, <1>11, SMTT(30)
  <2>2. ASSUME NEW s \in 1..d, acc[s - 1] = f[s - 1] PROVE acc[s] = f[s]
    <3>1. acc[s] = Affine(Add(Projective(acc[s - 1]), Projective(Contribution(bits, s))))
      BY <1>1, <1>11
    <3> HIDE DEF next
    <3> QED BY <3>1, <2>2, <1>4, <1>8
  <2> QED
    <3>1. Follow(acc, f, d)
      BY <2>1, <2>2 DEF Follow
    <3>2. Alike(acc, f, d)
      BY ONLY <1>1, <3>1, FollowAlike
    <3> QED BY <3>2 DEF Alike
<1>14. IsHash(acc, bits)
  <2>1. \A s \in 1..d : acc[s] = PointSum(acc[s - 1], Contribution(bits, s))
    BY <1>1, <1>8, <1>13
  <2>2. acc[0] = Identity
    BY <1>1, <1>11
  <2> QED BY <2>1, <2>2 DEF IsHash, d
<1>15. \A s \in 0..d : acc[s] \in G
  BY <1>7, <1>13
<1> QED BY <1>12, <1>14, <1>15 DEF d, G

\* The windows there are.
LEMMA WindowsIs ==
  ASSUME NEW bits \in Seq(BOOLEAN)
  PROVE  /\ Windows(bits) \in Nat
         /\ \A v \in Nat : v < Windows(bits) <=> WINDOW_SIZE * v < Len(bits)
<1> DEFINE z == WINDOW_SIZE  a == Len(bits) + z - 1  q == a \div z
<1>1. z \in Nat \ {0} /\ Len(bits) \in Nat /\ a \in Nat
  BY PedersenIs
<1>2. Windows(bits) = q
  BY DEF Windows
<1> DEFINE len == Len(bits)
<1> HIDE DEF z, len
<1>3. q \in Nat /\ a % z \in 0..(z - 1) /\ a = z * q + (a % z)
  <2> HIDE DEF a
  <2> QED BY <1>1, ModBounds
<1>4. len \in Nat /\ a = len + z - 1
  BY <1>1 DEF len
<1> HIDE DEF q, a
<1>5. z * q <= a /\ a < z * q + z /\ z * q \in Nat
  BY <1>1, <1>3
<1>6. ASSUME NEW v \in Nat PROVE v < q <=> z * v < len
  <2> DEFINE x == z * q  y == z * v
  <2>1. x \in Nat /\ y \in Nat /\ x <= a /\ a < x + z
    BY <1>1, <1>5
  <2>2. v < q => y + z <= x
    <3> SUFFICES ASSUME v < q PROVE y + z <= x
      OBVIOUS
    <3>1. q - v - 1 \in Nat
      BY <1>3
    <3>2. z * (q - v - 1) \in Nat /\ x = y + z + z * (q - v - 1)
      BY <3>1, <1>1, <1>3
    <3> DEFINE r == z * (q - v - 1)
    <3>3. r \in Nat /\ x = y + z + r
      BY <3>2
    <3> HIDE DEF r, x, y
    <3> QED BY <3>3, <2>1, <1>1
  <2>3. ~ (v < q) => x <= y
    <3> SUFFICES ASSUME ~ (v < q) PROVE x <= y
      OBVIOUS
    <3>1. v - q \in Nat
      BY <1>3
    <3>2. z * (v - q) \in Nat /\ y = x + z * (v - q)
      BY <3>1, <1>1, <1>3
    <3> DEFINE r == z * (v - q)
    <3>3. r \in Nat /\ y = x + r
      BY <3>2
    <3> HIDE DEF r, x, y
    <3> QED BY <3>3, <2>1
  <2> HIDE DEF x, y
  <2>4. v < q <=> y < len
    BY <2>1, <2>2, <2>3, <1>1, <1>3, <1>4
  <2> QED BY <2>4 DEF y
<1> QED BY <1>2, <1>3, <1>6 DEF len, z

\* Each window of the reference has a base point, and gives a point of the subgroup.
LEMMA ReferenceWindowIs ==
  ASSUME NEW bits \in Seq(BOOLEAN), Segments(Len(bits)) <= Len(Candidates), NEW v \in Nat, v < Windows(bits)
  PROVE  WindowPoint(bits, v) \in Subgroup
<1> DEFINE n == N_WINDOWS_PER_SEGMENT  z == WINDOW_SIZE  b == BITS_PER_SEGMENT  q == v \div n  r == v % n
           s == q + 1  w == r + 1  len == Len(bits)
<1>1. n \in Nat \ {0} /\ z \in Nat /\ b = z * n /\ len \in Nat /\ b \in Nat
  BY PedersenIs
<1>2. z * v < len
  BY WindowsIs
<1>3. q \in Nat /\ r \in 0..(n - 1) /\ v = n * q + r
  <2> HIDE DEF n
  <2> QED BY <1>1, ModBounds
<1> HIDE DEF n, z, b, q, r, len
<1>4. q * b < len
  <2>1. z * v = q * (z * n) + z * r /\ z * r \in Nat
    BY <1>1, <1>3
  <2> DEFINE x == q * (z * n)  y == z * r
  <2>2. x \in Nat /\ y \in Nat /\ x + y < len
    <3>1. z * n \in Nat
      BY <1>1
    <3>2. x \in Nat
      BY <3>1, <1>1, <1>3
    <3> QED BY <2>1, <3>2, <1>2
  <2> HIDE DEF x, y
  <2>3. x < len
    BY <2>2, <1>1
  <2> QED BY <2>3, <1>1 DEF x
<1>5. q < Segments(len) /\ Segments(len) \in Nat
  BY <1>1, <1>3, <1>4, SegmentsIs DEF b
<1>6. s \in 1..Segments(Len(bits)) /\ w \in 1..N_WINDOWS_PER_SEGMENT /\ s <= Len(Candidates) /\ s - 1 = q /\ w - 1 = r
  <2>1. Len(Candidates) \in Nat
    BY PedersenAssumption
  <2> QED BY <2>1, <1>1, <1>3, <1>5 DEF len, n
<1> HIDE DEF s, w
<1> DEFINE t == TwoTo[Exponent * (w - 1)]  x == Window(Segment(bits, s), WINDOW_SIZE * (w - 1))
<1>7. x * t \in Int
  <2>1. t \in Nat /\ TwoTo[WINDOW_SIZE - 1] \in Nat
    BY <1>6, PlaceIs
  <2>2. WINDOW_SIZE * (w - 1) \in Nat
    BY <1>1, <1>3, <1>6 DEF z
  <2> HIDE DEF t
  <2>3. x \in Int
    BY <2>1, <2>2, WindowIs
  <2> HIDE DEF x
  <2> QED BY <2>1, <2>3
<1>8. (s - 1) * N_WINDOWS_PER_SEGMENT + (w - 1) = v
  <2>1. q * n + r = v
    BY <1>1, <1>3
  <2> QED BY <2>1, <1>6 DEF n
<1>9. WindowPoint(bits, v) = Turned(BasePoint[s], x * t)
  <2>1. WindowPoint(bits, (s - 1) * N_WINDOWS_PER_SEGMENT + (w - 1)) = Turned(BasePoint[s], x * t)
    BY <1>6, WindowPointIs
  <2> QED BY <2>1, <1>8
<1>10. BasePoint[s] \in Subgroup
  BY <1>6, ContributionIs
<1> HIDE DEF x, t
<1> QED BY <1>7, <1>9, <1>10, TurnedIs

\* So is what the reference has added after each window.
LEMMA ReferenceExists ==
  ASSUME NEW bits \in Seq(BOOLEAN), Segments(Len(bits)) <= Len(Candidates)
  PROVE  \E ref : /\ IsReference(ref, bits) /\ PedersenReference(bits) = ref[Windows(bits)].x
                  /\ \A w \in 0..Windows(bits) : ref[w] \in Subgroup
<1> DEFINE d == Windows(bits)
           G == Subgroup
           next(w, x) == PointSum(x, WindowPoint(bits, w - 1))
           step == [w \in 1..d |-> [x \in G |-> next(w, x)]]
           Eq(f) == f = [w \in 0..d |-> IF w = 0 THEN Identity ELSE PointSum(f[w - 1], WindowPoint(bits, w - 1))]
           ref == CHOOSE f : Eq(f)
<1>1. d \in Nat /\ \A w \in 1..d : WindowPoint(bits, w - 1) \in G
  <2>1. d \in Nat
    BY WindowsIs
  <2>2. ASSUME NEW w \in 1..d PROVE WindowPoint(bits, w - 1) \in G
    <3>1. w - 1 \in Nat /\ w - 1 < Windows(bits)
      BY <2>1
    <3> QED BY <3>1, ReferenceWindowIs
  <2> QED BY <2>1, <2>2
<1>2. Identity \in G /\ \A p, q \in G : PointSum(p, q) \in G
  BY SubgroupIs DEF IsGroup
<1> HIDE DEF G
<1>3. \A w \in 1..d : \A x \in G : next(w, x) \in G
  BY <1>1, <1>2
<1>5. step \in [1..d -> [G -> G]]
  <2> HIDE DEF next, d
  <2> QED BY <1>3
<1>6. PICK f : Solves(f, d, G, Identity, step)
  <2> HIDE DEF step, d
  <2> QED BY <1>1, <1>2, <1>5, Recursion
<1>7. f \in [0..d -> G] /\ f[0] = Identity
  BY <1>6 DEF Solves
<1>8. \A w \in 1..d : f[w] = next(w, f[w - 1])
  <2> TAKE w \in 1..d
  <2>1. f[w - 1] \in G /\ f[w] = step[w][f[w - 1]]
    <3> HIDE DEF step, d
    <3> QED BY <1>1, <1>6 DEF Solves
  <2> HIDE DEF next
  <2> QED BY <2>1
<1>9. Eq(f)
  <2>1. \A w \in 0..d : f[w] = IF w = 0 THEN Identity ELSE next(w, f[w - 1])
    <3> HIDE DEF next, d
    <3> QED BY <1>1, <1>7, <1>8
  <2> QED BY <2>1, <1>7
<1>10. Eq(ref)
  <2> HIDE DEF Eq
  <2> QED BY <1>9
<1>11. \A w \in 0..d : ref[w] = IF w = 0 THEN Identity ELSE next(w, ref[w - 1])
  <2> HIDE DEF ref
  <2> QED BY <1>10
<1>12. PedersenReference(bits) = ref[d].x
  BY DEF PedersenReference, Windows
<1> HIDE DEF ref, Eq, step, d, next
<1>13. ref[0] = Identity /\ \A w \in 1..d : ref[w] = next(w, ref[w - 1])
  BY <1>1, <1>11
<1>14. \A w \in 0..d : ref[w] = f[w]
  <2>1. Follow(ref, f, d)
    BY <1>7, <1>8, <1>13 DEF Follow
  <2>2. d \in Nat
    BY <1>1
  <2>3. Alike(ref, f, d)
    BY ONLY <2>1, <2>2, FollowAlike
  <2> QED BY <2>3 DEF Alike
<1>15. IsReference(ref, bits)
  BY <1>13 DEF IsReference, d, next
<1>16. \A w \in 0..d : ref[w] \in G
  BY <1>7, <1>14
<1> QED BY <1>12, <1>15, <1>16 DEF d, G

\* The reference after a number of windows, those that are missing included.
After(ref, bits, v) == IF v < Windows(bits) THEN ref[v] ELSE ref[Windows(bits)]

\* A missing window adds nothing.
LEMMA AfterIs ==
  ASSUME NEW bits \in Seq(BOOLEAN), NEW ref, IsReference(ref, bits),
         \A w \in 0..Windows(bits) : ref[w] \in Subgroup
  PROVE  \A v \in Nat :
           /\ After(ref, bits, v) \in Subgroup
           /\ After(ref, bits, v + 1) =
                IF WINDOW_SIZE * v >= Len(bits) THEN After(ref, bits, v)
                ELSE PointSum(After(ref, bits, v), WindowPoint(bits, v))
<1> SUFFICES ASSUME NEW v \in Nat
             PROVE  /\ After(ref, bits, v) \in Subgroup
                    /\ After(ref, bits, v + 1) =
                         IF WINDOW_SIZE * v >= Len(bits) THEN After(ref, bits, v)
                         ELSE PointSum(After(ref, bits, v), WindowPoint(bits, v))
  OBVIOUS
<1> DEFINE d == Windows(bits)
<1>1. d \in Nat /\ (v < d <=> WINDOW_SIZE * v < Len(bits))
  BY WindowsIs
<1>2. WINDOW_SIZE * v \in Nat /\ Len(bits) \in Nat
  BY PedersenIs
<1>3. After(ref, bits, v) \in Subgroup
  BY <1>1 DEF After
<1>4. CASE v < d
  <2>1. After(ref, bits, v) = ref[v]
    BY <1>4 DEF After
  <2>2. After(ref, bits, v + 1) = ref[v + 1]
    BY <1>1, <1>4 DEF After
  <2>3. ref[v + 1] = PointSum(ref[v], WindowPoint(bits, v))
    <3>1. v + 1 \in 1..d /\ (v + 1) - 1 = v
      BY <1>1, <1>4
    <3> QED BY <3>1 DEF IsReference
  <2>4. ~ (WINDOW_SIZE * v >= Len(bits))
    BY <1>1, <1>2, <1>4
  <2> QED BY <1>3, <2>1, <2>2, <2>3, <2>4
<1>5. CASE ~ (v < d)
  <2>1. After(ref, bits, v + 1) = After(ref, bits, v)
    BY <1>1, <1>5 DEF After
  <2>2. WINDOW_SIZE * v >= Len(bits)
    BY <1>1, <1>2, <1>5
  <2> QED BY <1>3, <2>1, <2>2
<1> QED BY <1>4, <1>5

\* A segment adds what its windows do.
LEMMA SegmentAdds ==
  ASSUME NEW bits \in Seq(BOOLEAN), Segments(Len(bits)) <= Len(Candidates),
         NEW ref, IsReference(ref, bits), \A w \in 0..Windows(bits) : ref[w] \in Subgroup,
         NEW s \in 1..Segments(Len(bits))
  PROVE  After(ref, bits, s * N_WINDOWS_PER_SEGMENT) =
           PointSum(After(ref, bits, (s - 1) * N_WINDOWS_PER_SEGMENT), Contribution(bits, s))
<1> DEFINE n == N_WINDOWS_PER_SEGMENT  seg == Segment(bits, s)  p == BasePoint[s]
           from == (s - 1) * n  start == After(ref, bits, from)  scalar == SegmentScalar(seg)
<1>1. n \in Nat /\ WINDOW_SIZE \in Nat /\ s \in Nat /\ s >= 1 /\ from \in Nat
  <2>1. n \in Nat /\ WINDOW_SIZE \in Nat /\ s \in Nat /\ s >= 1 /\ s - 1 \in Nat
    BY PedersenIs
  <2>2. from \in Nat
    BY <2>1
  <2> QED BY <2>1, <2>2
<1>2. s <= Len(Candidates)
  <2>1. Len(bits) \in Nat /\ Len(Candidates) \in Nat
    BY PedersenAssumption
  <2>2. Segments(Len(bits)) \in Nat
    BY <2>1, SegmentsIs
  <2> QED BY <2>1, <2>2
<1>3. p \in Subgroup /\ Contribution(bits, s) = Turned(p, scalar)
  BY <1>2, ContributionIs
<1>4. seg \in Seq(BOOLEAN)
  BY SegmentIs
<1>5. PICK sum : /\ IsScalar(sum, seg) /\ scalar = sum[n]
                 /\ \A w \in 0..n : sum[w] \in Int
  BY <1>4, ScalarExists
<1>6. start \in Subgroup
  BY <1>1, AfterIs
<1> DEFINE f == [w \in 0..n |-> After(ref, bits, from + w)]  g == [w \in 0..n |-> PointSum(start, Turned(p, sum[w]))]
<1>7. f[0] = g[0]
  <2>1. sum[0] = 0 /\ Turned(p, 0) = Identity
    BY <1>3, <1>5, TurnedIs DEF IsScalar
  <2>2. start \in Points
    BY <1>6, SubgroupIs DEF IsGroup
  <2> HIDE DEF start
  <2>3. PointSum(start, Identity) = start
    BY <2>2, IdentityIs
  <2>4. from + 0 = from /\ 0 \in 0..n
    BY <1>1
  <2> HIDE DEF p, from, n
  <2>5. f[0] = After(ref, bits, from) /\ g[0] = PointSum(start, Identity)
    BY <2>1, <2>4
  <2> QED BY <2>3, <2>5 DEF start
<1>8. ASSUME NEW w \in 1..n, f[w - 1] = g[w - 1] PROVE f[w] = g[w]
  <2> DEFINE v == from + (w - 1)  at == WINDOW_SIZE * (w - 1)
             digit == Window(seg, at) * TwoTo[Exponent * (w - 1)]  old == sum[w - 1]
  <2>1. v \in Nat /\ v + 1 = from + w /\ w \in 0..n /\ w - 1 \in 0..n /\ at \in Nat
    BY <1>1
  <2>2. After(ref, bits, v) = PointSum(start, Turned(p, old))
    BY <1>8, <2>1
  <2>3. at >= Len(seg) <=> WINDOW_SIZE * v >= Len(bits)
    BY SameWindow
  <2>4. sum[w] = IF at >= Len(seg) THEN old ELSE old + digit
    BY <1>5 DEF IsScalar
  <2>5. WindowPoint(bits, v) = Turned(p, digit)
    BY WindowPointIs
  <2>6. digit \in Int /\ old \in Int
    <3>1. TwoTo[Exponent * (w - 1)] \in Nat /\ TwoTo[WINDOW_SIZE - 1] \in Nat
      BY PlaceIs
    <3>2. Window(seg, at) \in Int
      <4> HIDE DEF at
      <4> QED BY <2>1, <3>1, WindowIs
    <3>3. digit \in Int
      BY <3>1, <3>2
    <3>4. old \in Int
      BY <1>5, <2>1
    <3> QED BY <3>3, <3>4
  <2> HIDE DEF digit, at, old, start, p, seg
  <2>7. After(ref, bits, v + 1) = IF at >= Len(seg) THEN After(ref, bits, v)
                                  ELSE PointSum(After(ref, bits, v), Turned(p, digit))
    BY <2>1, <2>3, <2>5, AfterIs
  <2>8. After(ref, bits, v + 1) = PointSum(start, Turned(p, sum[w]))
    <3>1. CASE at >= Len(seg)
      BY <3>1, <2>2, <2>4, <2>7
    <3>2. CASE ~ (at >= Len(seg))
      <4>1. Turned(p, old + digit) = PointSum(Turned(p, old), Turned(p, digit))
        BY <1>3, <2>6, TurnedPlus
      <4>2. Turned(p, old) \in Subgroup /\ Turned(p, digit) \in Subgroup
        BY <1>3, <2>6, TurnedIs
      <4>3. PointSum(PointSum(start, Turned(p, old)), Turned(p, digit))
              = PointSum(start, PointSum(Turned(p, old), Turned(p, digit)))
        BY <1>6, <4>2, SubgroupIs DEF IsGroup
      <4> QED BY <3>2, <2>2, <2>4, <2>7, <4>1, <4>3
    <3> QED BY <3>1, <3>2
  <2> HIDE DEF n, from, v
  <2>9. f[w] = After(ref, bits, from + w) /\ g[w] = PointSum(start, Turned(p, sum[w]))
    BY <2>1
  <2> QED BY <2>1, <2>8, <2>9
<1>9. \A w \in 0..n : f[w] = g[w]
  <2>1. n \in Nat
    BY <1>1
  <2> HIDE DEF f, g, n
  <2>2. \A w \in 1..n : f[w - 1] = g[w - 1] => f[w] = g[w]
    BY <1>8
  <2> QED BY <2>1, <2>2, <1>7, SameByLevel
<1>10. n \in 0..n /\ from + n = s * n
  BY <1>1
<1> HIDE DEF start, p, scalar, from, n
<1>11. f[n] = After(ref, bits, s * n) /\ g[n] = PointSum(start, Turned(p, scalar))
  BY <1>5, <1>10
<1> HIDE DEF f, g
<1>12. After(ref, bits, s * n) = PointSum(start, Contribution(bits, s))
  BY <1>3, <1>9, <1>10, <1>11
<1> QED BY <1>12 DEF start, from, n

\* The hash of any bits for whose segments there are base points is that of the circuit:
\* the bits of a window are read to the same digit, a negative scalar is lifted to the
\* same point, no scalar goes beyond the order of the subgroup, and a last segment or
\* window may end anywhere (pedersen_hash, segment_scalar, mul_scalar).
THEOREM PedersenHashIs ==
  ASSUME NEW bits \in Seq(BOOLEAN), Segments(Len(bits)) <= Len(Candidates)
  PROVE  /\ PedersenHash(bits) = PedersenReference(bits)
         /\ PedersenHash(bits) \in Fr
<1> DEFINE d == Segments(Len(bits))  n == N_WINDOWS_PER_SEGMENT
<1>1. PICK acc : /\ IsHash(acc, bits) /\ PedersenPoint(bits) = acc[d]
                 /\ \A s \in 0..d : acc[s] \in Subgroup
  BY HashExists
<1>2. PICK ref : /\ IsReference(ref, bits) /\ PedersenReference(bits) = ref[Windows(bits)].x
                 /\ \A w \in 0..Windows(bits) : ref[w] \in Subgroup
  BY ReferenceExists
<1>3. Len(bits) \in Nat /\ n \in Nat /\ WINDOW_SIZE \in Nat /\ Windows(bits) \in Nat
  BY PedersenIs, WindowsIs
<1>4. d \in Nat /\ d * BITS_PER_SEGMENT >= Len(bits)
  BY <1>3, SegmentsIs
<1> DEFINE f == [s \in 0..d |-> acc[s]]  g == [s \in 0..d |-> After(ref, bits, s * n)]
<1>5. f[0] = g[0]
  <2>1. acc[0] = Identity /\ ref[0] = Identity /\ 0 * n = 0 /\ 0 \in 0..d
    BY <1>1, <1>2, <1>3, <1>4 DEF IsHash, IsReference
  <2>2. After(ref, bits, 0) = ref[0]
    BY <1>3 DEF After
  <2> HIDE DEF d, n
  <2> QED BY <2>1, <2>2
<1>6. ASSUME NEW s \in 1..d, f[s - 1] = g[s - 1] PROVE f[s] = g[s]
  <2>1. acc[s] = PointSum(acc[s - 1], Contribution(bits, s))
    BY <1>1 DEF IsHash
  <2>2. After(ref, bits, s * n) = PointSum(After(ref, bits, (s - 1) * n), Contribution(bits, s))
    BY <1>2, SegmentAdds
  <2>3. s - 1 \in 0..d /\ s \in 0..d
    BY <1>4
  <2> HIDE DEF d, n
  <2>4. acc[s - 1] = After(ref, bits, (s - 1) * n)
    BY <1>6, <2>3
  <2> QED BY <2>1, <2>2, <2>3, <2>4
<1>7. \A s \in 0..d : f[s] = g[s]
  <2>1. d \in Nat
    BY <1>4
  <2> HIDE DEF f, g, d
  <2>2. \A s \in 1..d : f[s - 1] = g[s - 1] => f[s] = g[s]
    BY <1>6
  <2> QED
    <3>1. Follow(f, g, d)
      BY <2>2, <1>5 DEF Follow
    <3>2. Alike(f, g, d)
      BY ONLY <2>1, <3>1, FollowAlike
    <3> QED BY <3>2 DEF Alike
<1>8. acc[d] = After(ref, bits, d * n)
  <2>1. d \in 0..d
    BY <1>4
  <2> HIDE DEF d, n
  <2> QED BY <2>1, <1>7
<1>9. After(ref, bits, d * n) = ref[Windows(bits)]
  <2> DEFINE v == d * n
  <2>1. v \in Nat /\ WINDOW_SIZE * v = d * BITS_PER_SEGMENT
    <3> HIDE DEF d
    <3>1. BITS_PER_SEGMENT = WINDOW_SIZE * n
      BY PedersenIs
    <3> HIDE DEF n
    <3> QED BY <3>1, <1>3, <1>4
  <2> HIDE DEF v, d
  <2>2. ~ (WINDOW_SIZE * v < Len(bits))
    <3>1. WINDOW_SIZE * v \in Nat
      BY <2>1, <1>3
    <3> QED BY <3>1, <2>1, <1>3, <1>4
  <2>3. ~ (v < Windows(bits))
    BY <2>1, <2>2, WindowsIs
  <2>4. After(ref, bits, v) = ref[Windows(bits)]
    BY <2>3 DEF After
  <2> QED BY <2>4 DEF v
<1>10. acc[d] \in Points
  <2>1. acc[d] \in Subgroup
    BY <1>1, <1>4
  <2> QED BY <2>1, SubgroupIs DEF IsGroup
<1> HIDE DEF d, n
<1>11. acc[d].x \in Fr
  BY <1>10, PointIsOn
<1>12. PedersenHash(bits) = acc[d].x
  BY <1>1 DEF PedersenHash
<1> QED BY <1>2, <1>8, <1>9, <1>11, <1>12

\* That is what is checked of the hash on short bit strings, for windows and segments of
\* any size.
THEOREM PedersenIsReferenceHolds == PedersenIsReference
<1> DEFINE c == Len(Candidates)  b == BITS_PER_SEGMENT
<1>1. c \in Nat /\ b \in Nat /\ b >= 2
  <2>1. WINDOW_SIZE * N_WINDOWS_PER_SEGMENT >= 2
    <3> DEFINE x == WINDOW_SIZE  y == N_WINDOWS_PER_SEGMENT
    <3>1. x \in Nat /\ y \in Nat /\ x >= 2 /\ y >= 1
      BY PedersenIs
    <3> HIDE DEF x, y
    <3>2. x * y = x + x * (y - 1) /\ x * (y - 1) \in Nat
      BY <3>1
    <3> QED BY <3>1, <3>2 DEF x, y
  <2> QED BY <2>1, PedersenIs, PedersenAssumption
<1>2. MaxBits = b * (c - 1) + 1
  BY DEF MaxBits
<1> SUFFICES ASSUME NEW n \in 0..MaxBits, NEW bits \in Bitstrings(n) PROVE PedersenHash(bits) = PedersenReference(bits)
  BY DEF PedersenIsReference
<1>3. bits \in Seq(BOOLEAN) /\ Len(bits) = n /\ n \in Nat
  BY DEF Bitstrings
<1> HIDE DEF c, b
<1>4. c >= 1
  <2> SUFFICES ASSUME c = 0 PROVE FALSE
    BY <1>1
  <2>1. b * (c - 1) = -b
    BY <1>1
  <2> QED BY <2>1, <1>1, <1>2, <1>3
<1>5. Segments(n) <= c
  <2> SUFFICES ASSUME Segments(n) > c PROVE FALSE
    <3>1. Segments(n) \in Nat
      BY <1>3, SegmentsIs
    <3> QED BY <3>1, <1>1
  <2> DEFINE s == Segments(n)  a == IF n = 0 THEN 0 ELSE n - 1  q == a \div b
  <2>1. s = q + 1 /\ a \in Nat /\ a <= b * (c - 1) /\ b \in Nat \ {0}
    BY <1>1, <1>2, <1>3, <1>4 DEF Segments, b
  <2> HIDE DEF a
  <2>2. q \in Nat /\ a % b \in 0..(b - 1) /\ a = b * q + (a % b)
    BY <2>1, ModBounds
  <2> HIDE DEF q
  <2>3. q >= c
    BY <2>1, <2>2, <1>1
  <2>4. b * q = b * (c - 1) + b + b * (q - c) /\ b * (q - c) \in Nat /\ b * (c - 1) \in Nat
    <3>1. q - c \in Nat /\ c - 1 \in Nat
      BY <2>2, <2>3, <1>1, <1>4
    <3> QED BY <3>1, <1>1, <2>2
  <2> DEFINE x == b * q  y == b * (c - 1)  z == b * (q - c)
  <2>5. x = y + b + z /\ z \in Nat /\ y \in Nat /\ a <= y /\ a >= x
    <3>1. b * q \in Nat
      BY <2>2, <1>1
    <3> QED BY <3>1, <2>1, <2>2, <2>4
  <2> HIDE DEF x, y, z
  <2> QED BY <2>1, <2>5, <1>1
<1> QED BY <1>3, <1>5, PedersenHashIs DEF c

\* What is hashed of a note: its secrets, or the first of them.
LEMMA HashedIs ==
  ASSUME NEW note \in Notes, NEW bits \in {Preimage(note), note.nullifier}
  PROVE  /\ bits \in DOMAIN Hashed
         /\ Hashed[bits] = PedersenReference(bits) /\ Hashed[bits] \in Fr
<1> DEFINE n == SECRET_BITS
<1>1. n \in Nat \ {0}
  BY NotesAssumption
<1>2. note.nullifier \in Seq(BOOLEAN) /\ Len(note.nullifier) = n /\ note.secret \in Seq(BOOLEAN) /\ Len(note.secret) = n
  BY <1>1 DEF Notes
<1>3. bits \in Seq(BOOLEAN) /\ Len(bits) \in {n, 2 * n}
  <2>1. Preimage(note) \in Seq(BOOLEAN) /\ Len(Preimage(note)) = 2 * n
    <3> DEFINE a == note.nullifier  c == note.secret
    <3> HIDE DEF a, c, n
    <3>1. a \in Seq(BOOLEAN) /\ c \in Seq(BOOLEAN) /\ Len(a) = n /\ Len(c) = n
      BY <1>2 DEF a, c
    <3>2. a \o c \in Seq(BOOLEAN) /\ Len(a \o c) = Len(a) + Len(c)
      BY <3>1
    <3> QED BY <1>1, <3>1, <3>2 DEF Preimage, a, c
  <2> QED BY <2>1, <1>2
<1> HIDE DEF n
<1>4. Segments(Len(bits)) <= Len(Candidates)
  <2>1. Segments(n) <= Segments(2 * n) /\ Segments(2 * n) \in Nat /\ Segments(n) \in Nat
    <3> DEFINE b == BITS_PER_SEGMENT  x == (n - 1) \div b  y == (2 * n - 1) \div b
    <3>1. b \in Nat \ {0}
      BY PedersenIs
    <3>2. Segments(n) = x + 1 /\ Segments(2 * n) = y + 1
      BY <1>1 DEF Segments
    <3> HIDE DEF b
    <3>3. /\ x \in Nat /\ (n - 1) % b \in 0..(b - 1) /\ n - 1 = b * x + ((n - 1) % b)
          /\ y \in Nat /\ (2 * n - 1) % b \in 0..(b - 1) /\ 2 * n - 1 = b * y + ((2 * n - 1) % b)
      <4>1. n - 1 \in Nat /\ 2 * n - 1 \in Nat
        BY <1>1
      <4> QED BY <3>1, <4>1, ModBounds
    <3> HIDE DEF x, y
    <3>4. x <= y
      <4> SUFFICES ASSUME y < x PROVE FALSE
        BY <3>3
      <4>1. x - y - 1 \in Nat
        BY <3>3
      <4>2. b * x = b * y + b + b * (x - y - 1) /\ b * (x - y - 1) \in Nat /\ b * y \in Nat
        BY <4>1, <3>1, <3>3
      <4> QED BY <4>2, <1>1, <3>1, <3>3
    <3> QED BY <3>2, <3>3, <3>4
  <2>2. Segments(2 * n) <= Len(Candidates) /\ Len(Candidates) \in Nat
    BY SegmentsAssumption, PedersenAssumption DEF n
  <2> QED BY <2>1, <2>2, <1>3
<1>5. PedersenHash(bits) = PedersenReference(bits) /\ PedersenHash(bits) \in Fr
  BY <1>3, <1>4, PedersenHashIs
<1>6. bits \in DOMAIN Hashed /\ Hashed[bits] = PedersenHash(bits)
  BY DEF Hashed
<1> QED BY <1>5, <1>6

\* So for each of the two hashes of a note.
LEMMA CommitmentOfNote ==
  ASSUME NEW note \in Notes
  PROVE  /\ Commitment(note) = CircuitHash[Preimage(note)]
         /\ NullifierHash(note) = CircuitHash[note.nullifier]
BY HashedIs DEF Commitment, NullifierHash, CircuitHash
-----------------------------------------------------------------------------
(* The invariant. *)

Stages ==
  {"written", "approved", "deposited", "imported", "miscopied", "altered", "paid", "refused", "proven"}

\* The pool may take its denomination once the depositor has approved it, and takes the
\* note's commitment.
DepositOK ==
  /\ allowance \in 0..(WORD - 1)
  /\ stage = "approved" => allowance = Units(backup.pool)
  /\ IF stage \in {"written", "approved"} THEN leaf = None ELSE leaf = Commitment(backup.note)

\* Until the note's text is read nothing is known of it; what is then read depends on
\* what has become of the text, and a withdrawal is begun of a pool of the catalogue.
ImportedOK ==
  /\ stage \in {"written", "approved", "deposited"} => imported = Unread
  /\ stage \in {"imported", "paid", "refused", "proven"} => imported = Found(backup)
  /\ stage = "miscopied" =>
       \E note \in Notes \ {backup.note} : imported = [Found(backup) EXCEPT !.note = note]
  /\ stage = "altered" =>
       /\ imported.error \in {"none", "InvalidFormat", "InvalidChainId", "InvalidHex"}
       /\ imported.error = "none" =>
            /\ imported.note = backup.note
            /\ imported.pool \in Range(POOLS) \cup {NoPool} /\ imported.pool # backup.pool
       /\ imported.error # "none" => imported.pool = NoPool
  /\ stage \in {"paid", "refused", "proven"} => backup.pool \in Range(POOLS)

\* There is no payer until one is quoted, for what the formula says and with an address.
PayerOK ==
  /\ payer.fee \in 0..(WORD - 1) /\ payer.refund \in 0..(WORD - 1)
  /\ payer.error = "none" => payer.address \in Addresses
  /\ stage \in {"paid", "proven"} => payer.error = "none"
  /\ stage \notin {"paid", "refused", "proven"} => payer = NoPayer /\ quoted = None
  /\ QuoteCovers

\* The deposits of others are counted from the proof, which was made of the tree's root.
ProofOK ==
  /\ deposits \in 0..MaxDeposits
  /\ stage # "proven" => proven = Unproven /\ deposits = 0
  /\ stage = "proven" =>
       /\ proven.root = 0
       /\ proven.error # "none" => proven.proof = None
       /\ proven.error = "none" => proven.proof # None

WithdrawalInv ==
  /\ stage \in Stages
  /\ backup \in Backups
  /\ DepositOK
  /\ ImportedOK
  /\ PayerOK
  /\ ProofOK
  /\ ProvenOK

\* The pool a note was written down for has an amount that a word holds.
LEMMA BackupIs ==
  ASSUME backup \in Backups
  PROVE  /\ backup.note \in Notes /\ backup.pool # NoPool
         /\ backup.pool.asset.native \in BOOLEAN
         /\ Units(backup.pool) \in 0..(WORD - 1) /\ 0 \in 0..(WORD - 1)
BY BackupsAssumption, QuoteAssumption

\* A commitment and a nullifier hash are elements of the field, and no None.
LEMMA HashesAreFr ==
  ASSUME NEW note \in Notes
  PROVE  /\ Commitment(note) \in Fr /\ NullifierHash(note) \in Fr
         /\ None \notin Fr /\ None # "none"
<1>1. Commitment(note) \in Fr /\ NullifierHash(note) \in Fr
  BY HashedIs DEF Commitment, NullifierHash
<1>2. None \notin Fr
  <2>1. None \notin Int
    BY BackupsAssumption
  <2> QED BY <2>1, CurveAssumption DEF Fr
<1>3. None # "none"
  BY BackupsAssumption
<1> QED BY <1>1, <1>2, <1>3

\* It holds of a note that is only written down.
LEMMA WithdrawalInvInit == WithdrawalInit => WithdrawalInv
<1> SUFFICES ASSUME WithdrawalInit PROVE WithdrawalInv
  OBVIOUS
<1>1. stage = "written" /\ backup \in Backups /\ deposits = 0
  BY DEF WithdrawalInit
<1>2. DepositOK
  BY <1>1, BackupIs DEF WithdrawalInit, DepositOK
<1>3. ImportedOK
  BY <1>1 DEF WithdrawalInit, ImportedOK
<1>4. PayerOK
  <2>1. payer = NoPayer /\ quoted = None
    BY DEF WithdrawalInit
  <2>2. payer.error = "none" /\ payer.fee = 0 /\ payer.refund = 0 /\ payer.address = "zero"
    BY <2>1 DEF NoPayer, Payer
  <2>3. payer.address \in Addresses
    BY <2>2 DEF Addresses
  <2>4. QuoteCovers
    BY <2>1 DEF QuoteCovers
  <2> QED BY <1>1, <2>1, <2>2, <2>3, <2>4, BackupIs DEF PayerOK
<1>5. ProofOK
  BY <1>1, BackupsAssumption DEF WithdrawalInit, ProofOK
<1> QED BY <1>1, <1>2, <1>3, <1>4, <1>5, ProvenInit DEF WithdrawalInv, Stages

\* The depositor approves the pool's denomination.
LEMMA ApproveInv ==
  ASSUME WithdrawalInv, Approve
  PROVE  DepositOK' /\ ImportedOK' /\ PayerOK' /\ ProofOK' /\ backup' \in Backups /\ stage' \in Stages
<1>1. /\ stage = "written" /\ stage' = "approved" /\ backup \in Backups
      /\ UNCHANGED <<backup, leaf, deposits, imported, payer, quoted, proven>>
      /\ allowance' = Units(backup.pool)
  BY DEF WithdrawalInv, Approve, Approval
<1>2. DepositOK'
  BY <1>1, BackupIs DEF WithdrawalInv, DepositOK
<1>3. ImportedOK'
  BY <1>1 DEF WithdrawalInv, ImportedOK
<1>4. PayerOK'
  BY <1>1 DEF WithdrawalInv, PayerOK, QuoteCovers
<1>5. ProofOK'
  BY <1>1 DEF WithdrawalInv, ProofOK, Unproven
<1> QED BY <1>1, <1>2, <1>3, <1>4, <1>5 DEF Stages

\* The pool takes what was approved or sent, and so the note's commitment.
LEMMA DepositInv ==
  ASSUME WithdrawalInv, Deposit
  PROVE  DepositOK' /\ ImportedOK' /\ PayerOK' /\ ProofOK' /\ backup' \in Backups /\ stage' \in Stages
<1>1. /\ stage = (IF backup.pool.asset.native THEN "written" ELSE "approved")
      /\ stage' = "deposited" /\ backup \in Backups
      /\ UNCHANGED <<backup, allowance, deposits, imported, payer, quoted, proven>>
  BY DEF WithdrawalInv, Deposit
<1> DEFINE call == DepositCall(backup.pool, backup.note)
<1>2. ~ backup.pool.asset.native => allowance >= Units(backup.pool)
  BY <1>1, BackupIs DEF WithdrawalInv, DepositOK
<1>3. call.target = backup.pool.address /\ call.commitment = Commitment(backup.note)
      /\ call.value = IF backup.pool.asset.native THEN Units(backup.pool) ELSE 0
  BY DEF DepositCall
<1>4. TakesDeposit(backup.pool, call)
  <2> HIDE DEF call
  <2> QED BY <1>2, <1>3 DEF TakesDeposit
<1>5. leaf' = Commitment(backup.note)
  BY <1>3, <1>4 DEF Deposit
<1>6. DepositOK'
  BY <1>1, <1>5 DEF WithdrawalInv, DepositOK
<1>7. ImportedOK'
  BY <1>1 DEF WithdrawalInv, ImportedOK
<1>8. PayerOK'
  BY <1>1 DEF WithdrawalInv, PayerOK, QuoteCovers
<1>9. ProofOK'
  BY <1>1 DEF WithdrawalInv, ProofOK, Unproven
<1> QED BY <1>1, <1>6, <1>7, <1>8, <1>9 DEF Stages

\* What is read is what has become of the text.
LEMMA ImportInv ==
  ASSUME WithdrawalInv, NEW text, NEW became, Import(text, became),
         \/ became = "imported" /\ text \in Copies(WrittenDown)
         \/ became = "miscopied" /\ text \in Miscopies(WrittenDown)
         \/ became = "altered" /\ text \in Alterations(WrittenDown)
  PROVE  DepositOK' /\ ImportedOK' /\ PayerOK' /\ ProofOK' /\ backup' \in Backups /\ stage' \in Stages
<1>1. /\ stage = "deposited" /\ stage' = became /\ backup \in Backups
      /\ became \in {"imported", "miscopied", "altered"}
      /\ imported' = Read(text)
      /\ UNCHANGED <<backup, allowance, leaf, deposits, payer, quoted, proven>>
  BY DEF WithdrawalInv, Import
<1>2. DepositOK'
  BY <1>1 DEF WithdrawalInv, DepositOK
<1>3. ImportedOK'
  <2>1. CASE became = "imported" /\ text \in Copies(WrittenDown)
    <3>1. imported' = Found(backup)
      BY <1>1, <2>1, ReadCopy DEF WrittenDown
    <3>2. imported' = Found(backup')
      BY <1>1, <3>1
    <3> QED BY <1>1, <2>1, <3>2 DEF ImportedOK
  <2>2. CASE became = "miscopied" /\ text \in Miscopies(WrittenDown)
    <3>1. PICK note \in Notes \ {backup.note} : imported' = [Found(backup) EXCEPT !.note = note]
      BY <1>1, <2>2, ReadMiscopy DEF WrittenDown
    <3>2. note \in Notes \ {backup'.note} /\ imported' = [Found(backup') EXCEPT !.note = note]
      BY <1>1, <3>1
    <3> QED BY <1>1, <2>2, <3>2 DEF ImportedOK
  <2>3. CASE became = "altered" /\ text \in Alterations(WrittenDown)
    <3>1. /\ imported'.error \in {"none", "InvalidFormat", "InvalidChainId", "InvalidHex"}
          /\ imported'.error = "none" =>
               /\ imported'.note = backup.note
               /\ imported'.pool \in Range(POOLS) \cup {NoPool} /\ imported'.pool # backup.pool
          /\ imported'.error # "none" => imported'.pool = NoPool
      BY <1>1, <2>3, ReadAltered DEF WrittenDown
    <3> QED BY <1>1, <2>3, <3>1 DEF ImportedOK
  <2> QED BY <2>1, <2>2, <2>3
<1>4. quoted = None /\ quoted' = None
  BY <1>1 DEF WithdrawalInv, PayerOK
<1>5. PayerOK'
  BY <1>1, <1>4 DEF WithdrawalInv, PayerOK, QuoteCovers
<1>6. ProofOK'
  BY <1>1 DEF WithdrawalInv, ProofOK, Unproven
<1> QED BY <1>1, <1>2, <1>3, <1>5, <1>6 DEF Stages

\* A withdrawal is begun only for the pool that the note was written down for.
LEMMA MayWithdrawIs ==
  ASSUME WithdrawalInv, MayWithdraw
  PROVE  /\ stage = "imported" /\ imported.error = "none" /\ imported.pool = backup.pool
         /\ backup.pool \in Range(POOLS) /\ imported.note = backup.note
BY DEF WithdrawalInv, ImportedOK, MayWithdraw, Found

\* The recipient submits the withdrawal.
LEMMA PayNobodyInv ==
  ASSUME WithdrawalInv, PayNobody
  PROVE  DepositOK' /\ ImportedOK' /\ PayerOK' /\ ProofOK' /\ backup' \in Backups /\ stage' \in Stages
<1>1. /\ stage = "imported" /\ stage' = "paid" /\ backup \in Backups
      /\ UNCHANGED <<backup, allowance, leaf, deposits, imported, payer, quoted, proven>>
  BY MayWithdrawIs DEF WithdrawalInv, PayNobody
<1>2. DepositOK'
  BY <1>1 DEF WithdrawalInv, DepositOK
<1>3. ImportedOK'
  BY <1>1, MayWithdrawIs DEF WithdrawalInv, ImportedOK, PayNobody
<1>4. PayerOK'
  <2>1. quoted = None /\ payer.error = "none"
    BY <1>1 DEF WithdrawalInv, PayerOK, NoPayer, Payer
  <2>2. /\ payer.fee \in 0..(WORD - 1) /\ payer.refund \in 0..(WORD - 1)
        /\ payer.error = "none" => payer.address \in Addresses
    BY DEF WithdrawalInv, PayerOK
  <2>3. QuoteCovers'
    BY <1>1, <2>1 DEF QuoteCovers
  <2> QED BY <1>1, <2>1, <2>2, <2>3 DEF PayerOK
<1>5. ProofOK'
  BY <1>1 DEF WithdrawalInv, ProofOK, Unproven
<1> QED BY <1>1, <1>2, <1>3, <1>4, <1>5 DEF Stages

\* A relayer's quote is of the formula's fee, or refused.
LEMMA PayRelayerInv ==
  ASSUME WithdrawalInv, NEW status \in RelayerStatuses, NEW gasPrice \in GasPrices, NEW refund \in Refunds,
         PayRelayer(status, gasPrice, refund)
  PROVE  DepositOK' /\ ImportedOK' /\ PayerOK' /\ ProofOK' /\ backup' \in Backups /\ stage' \in Stages
<1>1. /\ stage = "imported" /\ imported.error = "none" /\ imported.note = backup.note
      /\ imported.pool = backup.pool /\ backup.pool \in Range(POOLS)
      /\ stage' = (IF payer'.error = "none" THEN "paid" ELSE "refused") /\ backup \in Backups
      /\ payer' = Quote(status, imported.pool, gasPrice, refund)
      /\ quoted' = [status |-> status, gasPrice |-> gasPrice, refund |-> refund]
      /\ UNCHANGED <<backup, allowance, leaf, deposits, imported, proven>>
  BY MayWithdrawIs DEF WithdrawalInv, PayRelayer
<1>2. DepositOK'
  BY <1>1 DEF WithdrawalInv, DepositOK
<1>3. ImportedOK'
  BY <1>1 DEF WithdrawalInv, ImportedOK
<1>4. /\ payer'.fee \in 0..(WORD - 1) /\ payer'.refund \in 0..(WORD - 1)
      /\ payer'.error = "none" => /\ payer'.address \in Addresses
                                  /\ IsFee(payer'.fee, status, imported.pool, gasPrice, refund)
      /\ payer'.error = "QuoteOverflow" =>
           LET owed == (Expense(gasPrice) + refund) * Scale(imported.pool)
           IN  \/ owed >= WORD
               \/ owed \div status.ethPrices[Symbol(imported.pool)]
                    + FeePercent(status, imported.pool) >= WORD
  BY <1>1, BackupIs, QuoteIs
<1>5. QuoteCovers'
  BY <1>1, <1>4 DEF QuoteCovers
<1>6. PayerOK'
  BY <1>1, <1>4, <1>5 DEF PayerOK
<1>7. ProofOK'
  BY <1>1 DEF WithdrawalInv, ProofOK, Unproven
<1> QED BY <1>1, <1>2, <1>3, <1>6, <1>7 DEF Stages

\* A proof made without an error is of arguments, and there is no other.
LEMMA ProveInv ==
  ASSUME WithdrawalInv, NEW merkleProof \in MerkleProofs, Prove(merkleProof)
  PROVE  DepositOK' /\ ImportedOK' /\ PayerOK' /\ ProofOK' /\ backup' \in Backups /\ stage' \in Stages
<1>1. /\ stage = "paid" /\ stage' = "proven" /\ backup \in Backups
      /\ UNCHANGED <<backup, allowance, leaf, deposits, imported, payer, quoted>>
      /\ proven' = [error |-> ProofError(merkleProof), root |-> merkleProof.root,
                    proof |-> IF ProofError(merkleProof) = "none"
                              THEN PublicInputs(CircuitInputs(merkleProof)) ELSE None]
  BY DEF WithdrawalInv, Prove
<1>2. DepositOK'
  BY <1>1 DEF WithdrawalInv, DepositOK
<1>3. ImportedOK'
  BY <1>1 DEF WithdrawalInv, ImportedOK
<1>4. PayerOK'
  BY <1>1 DEF WithdrawalInv, PayerOK, QuoteCovers
<1>5. merkleProof.root = 0
  BY DEF MerkleProofs
<1>6. PublicInputs(CircuitInputs(merkleProof)) # None
  <2>1. PublicInputs(CircuitInputs(merkleProof)) =
          <<merkleProof.root, NullifierHash(imported.note), "recipient", payer.address, payer.fee,
            payer.refund>>
    BY DEF PublicInputs, CircuitInputs
  <2>2. imported.note = backup.note
    BY <1>1 DEF WithdrawalInv, ImportedOK, Found
  <2>3. NullifierHash(imported.note) \in Int
    BY <1>1, <2>2, BackupIs, HashesAreFr DEF Fr
  <2>4. payer.fee \in Int /\ payer.refund \in Int /\ payer.address \in Addresses
    BY <1>1 DEF WithdrawalInv, PayerOK
  <2>5. merkleProof.root \in Int
    BY <1>5
  <2> DEFINE T == Int \cup Addresses
  <2>6. /\ merkleProof.root \in T /\ NullifierHash(imported.note) \in T /\ "recipient" \in T
        /\ payer.address \in T /\ payer.fee \in T /\ payer.refund \in T
    <3>1. Int \subseteq T /\ Addresses \subseteq T
      OBVIOUS
    <3>2. "recipient" \in Addresses
      BY DEF Addresses
    <3> HIDE DEF T
    <3> QED BY <2>3, <2>4, <2>5, <3>1, <3>2, Zenon
  <2> HIDE DEF T
  <2>7. PublicInputs(CircuitInputs(merkleProof)) \in Seq(T)
    BY <2>1, <2>6
  <2> QED BY <2>7, BackupsAssumption DEF T
<1>7. ProofOK'
  <2>1. deposits' \in 0..MaxDeposits
    BY <1>1 DEF WithdrawalInv, ProofOK
  <2>2. proven'.root = 0
    BY <1>1, <1>5
  <2>3. proven'.error # "none" => proven'.proof = None
    BY <1>1
  <2>4. proven'.error = "none" => proven'.proof # None
    BY <1>1, <1>6
  <2> QED BY <1>1, <2>1, <2>2, <2>3, <2>4 DEF ProofOK
<1> QED BY <1>1, <1>2, <1>3, <1>4, <1>7 DEF Stages

\* Others deposit into the pool, or the relayer goes on with what it was handed.
LEMMA OthersInv ==
  ASSUME WithdrawalInv, OthersDeposit \/ UNCHANGED wvars
  PROVE  DepositOK' /\ ImportedOK' /\ PayerOK' /\ ProofOK' /\ backup' \in Backups /\ stage' \in Stages
<1>1. /\ UNCHANGED <<stage, backup, allowance, leaf, imported, payer, quoted, proven>>
      /\ \/ deposits' = deposits
         \/ stage = "proven" /\ deposits < MaxDeposits /\ deposits' = deposits + 1
      /\ backup \in Backups /\ stage \in Stages
  BY DEF WithdrawalInv, OthersDeposit, wvars
<1>2. DepositOK'
  BY <1>1 DEF WithdrawalInv, DepositOK
<1>3. ImportedOK'
  BY <1>1 DEF WithdrawalInv, ImportedOK, Unread
<1>4. PayerOK'
  BY <1>1 DEF WithdrawalInv, PayerOK, QuoteCovers
<1>5. ProofOK'
  <2>1. deposits \in 0..MaxDeposits /\ MaxDeposits \in Nat
    BY BackupsAssumption DEF WithdrawalInv, ProofOK
  <2>2. deposits' \in 0..MaxDeposits
    BY <1>1, <2>1
  <2> QED BY <1>1, <2>2 DEF WithdrawalInv, ProofOK, Unproven
<1> QED BY <1>1, <1>2, <1>3, <1>4, <1>5

\* Each action preserves it.
LEMMA WithdrawalInvStep == WithdrawalInv /\ [WithdrawalNext]_<<vars, wvars>> => WithdrawalInv'
<1> SUFFICES ASSUME WithdrawalInv, [WithdrawalNext]_<<vars, wvars>> PROVE WithdrawalInv'
  OBVIOUS
<1>1. DepositOK' /\ ImportedOK' /\ PayerOK' /\ ProofOK' /\ backup' \in Backups /\ stage' \in Stages
  <2>1. CASE Approve
    BY <2>1, ApproveInv
  <2>2. CASE Deposit
    BY <2>2, DepositInv
  <2>3. CASE \/ \E text \in Copies(WrittenDown) : Import(text, "imported")
             \/ \E text \in Miscopies(WrittenDown) : Import(text, "miscopied")
             \/ \E text \in Alterations(WrittenDown) : Import(text, "altered")
    <3>1. ASSUME NEW text, NEW became, Import(text, became),
                 \/ became = "imported" /\ text \in Copies(WrittenDown)
                 \/ became = "miscopied" /\ text \in Miscopies(WrittenDown)
                 \/ became = "altered" /\ text \in Alterations(WrittenDown)
          PROVE  /\ DepositOK' /\ ImportedOK' /\ PayerOK' /\ ProofOK'
                 /\ backup' \in Backups /\ stage' \in Stages
      BY <3>1, ImportInv
    <3> QED BY <2>3, <3>1
  <2>4. CASE PayNobody
    BY <2>4, PayNobodyInv
  <2>5. CASE \E status \in RelayerStatuses, gasPrice \in GasPrices, refund \in Refunds :
               PayRelayer(status, gasPrice, refund)
    BY <2>5, PayRelayerInv
  <2>6. CASE \E merkleProof \in MerkleProofs : Prove(merkleProof)
    BY <2>6, ProveInv
  <2>7. CASE OthersDeposit \/ UNCHANGED wvars
    BY <2>7, OthersInv
  <2> QED BY <2>1, <2>2, <2>3, <2>4, <2>5, <2>6, <2>7 DEF WithdrawalNext
<1>2. ProvenOK'
  BY ProvenStep DEF WithdrawalInv
<1> QED BY <1>1, <1>2 DEF WithdrawalInv

\* So it always holds.
LEMMA WithdrawalInvHolds == WithdrawalSpec => []WithdrawalInv
BY WithdrawalInvInit, WithdrawalInvStep, PTL DEF WithdrawalSpec
-----------------------------------------------------------------------------
\* Every variable has its type, whatever note is written down, however its text is
\* altered, whatever is quoted and for any number of jobs: what is read is a note with
\* a pool of the catalogue or none, amounts are below a word, and a proof is there
\* exactly if there was no error (from_str, quote, prove).
THEOREM WithdrawalTypeOKHolds == WithdrawalSpec => []WithdrawalTypeOK
<1>1. WithdrawalInv /\ TypeOK => WithdrawalTypeOK
  <2> SUFFICES ASSUME WithdrawalInv, TypeOK PROVE WithdrawalTypeOK
    OBVIOUS
  <2>1. backup \in Backups /\ backup.note \in Notes
    BY BackupIs DEF WithdrawalInv
  <2>2. leaf \in Fr \cup {None}
    <3>1. Commitment(backup.note) \in Fr
      BY <2>1, HashesAreFr
    <3> QED BY <3>1 DEF WithdrawalInv, DepositOK
  <2>3. None \notin {"none", "InvalidFormat", "InvalidChainId", "InvalidHex"}
    BY BackupsAssumption
  <2>4. /\ imported.error = "none" => imported.note \in Notes /\ imported.pool \in Range(POOLS) \cup {NoPool}
        /\ imported.error # "none" => imported.pool = NoPool
    <3>1. CASE stage \in {"written", "approved", "deposited"}
      BY <2>3, <3>1 DEF WithdrawalInv, ImportedOK, Unread
    <3>2. CASE stage \in {"imported", "miscopied", "paid", "refused", "proven"}
      BY <2>1, <3>2 DEF WithdrawalInv, ImportedOK, Found
    <3>3. CASE stage = "altered"
      BY <2>1, <3>3 DEF WithdrawalInv, ImportedOK
    <3> QED BY <3>1, <3>2, <3>3 DEF WithdrawalInv, Stages
  <2>5. proven.error = "none" <=> proven.proof # None
    BY <2>3 DEF WithdrawalInv, ProofOK, Unproven
  <2>6. allowance \in 0..(WORD - 1) /\ deposits \in 0..MaxDeposits
        /\ payer.fee \in 0..(WORD - 1) /\ payer.refund \in 0..(WORD - 1) /\ stage \in Stages
    BY DEF WithdrawalInv, DepositOK, ProofOK, PayerOK
  <2> QED BY <2>1, <2>2, <2>4, <2>5, <2>6 DEF WithdrawalTypeOK, Stages
<1> QED
  BY ImplementsClient, TypeCorrect, WithdrawalInvHolds, <1>1, PTL

\* From its text, with its 0x or without, a note and its pool are found again, whatever
\* note it is and for any pool; with other hex digits it is another note of that pool;
\* altered elsewhere it is refused, or does not lead to the pool.  The amount in the
\* text is exact for all numbers of digits and decimals (Display, from_str, from_note,
\* format_amount).
THEOREM FindsItsPoolHolds == WithdrawalSpec => []FindsItsPool
<1>1. WithdrawalInv => FindsItsPool
  <2> SUFFICES ASSUME WithdrawalInv PROVE FindsItsPool
    OBVIOUS
  <2>1. WritesAmount(Amount(backup.pool), backup.pool.amountWei, backup.pool.asset.decimals)
    <3>1. IsNumeral(backup.pool.amountWei) /\ backup.pool.asset.decimals \in Nat
      BY BackupsAssumption DEF WithdrawalInv
    <3> QED BY <3>1, AmountIsExact DEF Amount
  <2>2. /\ stage \in {"imported", "paid", "refused", "proven"} => imported = Found(backup)
        /\ stage = "miscopied" =>
             \E note \in Notes \ {backup.note} : imported = [Found(backup) EXCEPT !.note = note]
        /\ stage = "altered" =>
             imported.error # "none" \/ (imported.note = backup.note /\ imported.pool # backup.pool)
    BY DEF WithdrawalInv, ImportedOK
  <2> QED BY <2>1, <2>2 DEF FindsItsPool
<1> QED
  BY WithdrawalInvHolds, <1>1, PTL

\* For all prices, fees, gas and refunds whose amounts have their width, a quote's fee
\* is what the formula says, each of its divisions rounded down and nothing wrapped; and
\* the quote is refused as overflowing only if it would be (quote).
THEOREM QuoteCoversHolds == WithdrawalSpec => []QuoteCovers
<1>1. WithdrawalInv => QuoteCovers
  BY DEF WithdrawalInv, PayerOK
<1> QED
  BY WithdrawalInvHolds, <1>1, PTL

\* A deposit that is sent is taken, and a withdrawal that was proved is taken from the
\* recipient or a relayer unless the pool has forgotten its root or the fee is more than
\* the note: for every note, pool, payer and number of others' deposits (call, prove,
\* into_solidity_proof, WithdrawRequest).
THEOREM WithdrawableHolds == WithdrawalSpec => []Withdrawable
<1>1. WithdrawalInv => Withdrawable
  <2> SUFFICES ASSUME WithdrawalInv PROVE Withdrawable
    OBVIOUS
  <2>1. stage \notin {"written", "approved"} => leaf = Commitment(backup.note)
    BY DEF WithdrawalInv, DepositOK
  <2>2. ASSUME stage = "proven", proven.error = "none",
               NEW call \in {Call, RelayerCall(WithdrawRequest)}
        PROVE  TakesWithdrawal(backup.pool, call) <=>
                 deposits < RootHistory /\ payer.fee <= Units(backup.pool)
    <3>1. imported.pool = backup.pool /\ proven.root = 0
      BY <2>2 DEF WithdrawalInv, ImportedOK, ProofOK, Found
    <3>2. proven.proof = Arguments /\ (backup.pool.asset.native => payer.refund = 0)
      BY <2>2, <3>1 DEF WithdrawalInv, ProvenOK
    <3>3. /\ call.target = backup.pool.address /\ call.args = Arguments
          /\ call.proof = SolidityProof(proven.proof)
      BY <2>2, <3>1 DEF Call, RelayerCall, WithdrawRequest
    <3>4. Arguments[1] = 0 /\ Arguments[5] = payer.fee /\ Arguments[6] = payer.refund
      BY <3>1 DEF Arguments
    <3>5. call.value = payer.refund
      BY <2>2, <3>4 DEF Call, RelayerCall, WithdrawRequest
    <3>6. Verifies(call.proof, call.args)
      BY <3>2, <3>3 DEF Verifies, SolidityProof
    <3>7. KnownRoot(0) <=> deposits < RootHistory
      BY BackupsAssumption DEF WithdrawalInv, ProofOK, KnownRoot
    <3>8. IF backup.pool.asset.native THEN call.value = 0 /\ call.args[6] = 0
          ELSE call.value = call.args[6]
      BY <3>2, <3>3, <3>4, <3>5
    <3> QED BY <3>3, <3>4, <3>6, <3>7, <3>8 DEF TakesWithdrawal
  <2> QED BY <2>1, <2>2 DEF Withdrawable
<1> QED
  BY WithdrawalInvHolds, <1>1, PTL

\* A commitment and a nullifier hash are the circuit's: for every note, whatever the
\* numbers of its bits, of windows and of segments, and on every such curve (commitment,
\* nullifier_hash, pedersen_hash).
THEOREM CommitmentIsReferenceHolds == WithdrawalSpec => []CommitmentIsReference
<1>1. WithdrawalInv => CommitmentIsReference
  <2> SUFFICES ASSUME WithdrawalInv PROVE CommitmentIsReference
    OBVIOUS
  <2>1. backup.note \in Notes
    BY BackupIs DEF WithdrawalInv
  <2> QED BY <2>1, CommitmentOfNote DEF CommitmentIsReference
<1> QED
  BY WithdrawalInvHolds, <1>1, PTL
==============================================================================
