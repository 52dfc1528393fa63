---------------------------- MODULE RelayerClient ----------------------------
(***************************************************************************)
(* A wallet that withdraws a note through a relayer: it submits a job,     *)
(* polls the relayer and the chain together until the withdrawal lands,    *)
(* fails or takes too long, and may submit the note again after an error   *)
(* (crates/tornadocash/relayer/src/lib.rs).  Requests are answered late    *)
(* or with an error, and a relayer that is not honest reports what it      *)
(* likes.  A definition D_Suffix is D with a plausible bug.                *)
(***************************************************************************)
EXTENDS Naturals, Sequences

CONSTANTS
  MaxJobs,      \* bound on the times the wallet submits the note
  Timeout,      \* how long the wallet waits, in ticks
  Honest,       \* the relayer reports its jobs' status as it is
  Responsive,   \* the relayer answers every request for a job's status
  None

ASSUME RelayerAssumption ==
  /\ MaxJobs \in Nat /\ Timeout \in Nat
  /\ Honest \in BOOLEAN /\ Responsive \in BOOLEAN

VARIABLES
  jobs,       \* the status of the relayer's jobs, in order of submission
  landed,     \* the job that spent the note's nullifier on the chain, if any
  receipt,    \* the job the wallet waits for
  phase,      \* what the wallet is doing
  elapsed,    \* the time since await_confirmation began
  check,      \* the two answers of a check, and whether it began after landing
  result      \* how the last submission or wait ended

vars == <<jobs, landed, receipt, phase, elapsed, check, result>>

Statuses == {"queued", "accepted", "sent", "resubmitted", "mined", "confirmed", "failed"}
ASSUME NoneAssumption ==
  /\ None \notin Nat
  /\ None \notin Statuses \cup {"error", "spent", "unspent"}
  /\ None \notin {"ok", "failed", "timeout", "relayer", "provider"}

Waiting == phase \in {"checking", "sleeping"}

Unanswered == [job |-> None, spent |-> None, after |-> landed # None]

Init ==
  /\ jobs = <<>>
  /\ landed = None
  /\ receipt = None
  /\ phase = "idle"
  /\ elapsed = 0
  /\ check = Unanswered
  /\ result = None
-----------------------------------------------------------------------------
(* The wallet submits the note, at first or after an error. *)

Submit ==
  /\ phase = "idle" /\ receipt = None
  /\ result # "ok" /\ Len(jobs) < MaxJobs
  /\ phase' = "submitting"
  /\ UNCHANGED <<jobs, landed, receipt, elapsed, check, result>>

\* withdraw: the relayer queues a job and answers with its id.
JobId == Len(jobs) + 1
Accepted ==
  /\ phase = "submitting"
  /\ jobs' = Append(jobs, "queued")
  /\ receipt' = JobId
  /\ phase' = "idle"
  /\ UNCHANGED <<landed, elapsed, check, result>>

\* withdraw fails, before the relayer has queued a job or after.
SubmitFails ==
  /\ phase = "submitting"
  /\ jobs' \in {jobs, Append(jobs, "queued")}
  /\ phase' = "idle"
  /\ result' = "relayer"
  /\ UNCHANGED <<landed, receipt, elapsed, check>>
-----------------------------------------------------------------------------
(* The relayer works on its jobs.  A nullifier is spent once. *)

Following == [queued |-> {"accepted", "failed"}, accepted |-> {"sent", "failed"},
              sent |-> {"resubmitted", "failed"}, resubmitted |-> {"failed"},
              mined |-> {"confirmed"}, confirmed |-> {}, failed |-> {}]

Work(j, status) ==
  /\ status \in Following[jobs[j]]
  /\ jobs' = [jobs EXCEPT ![j] = status]
  /\ UNCHANGED <<landed, receipt, phase, elapsed, check, result>>

Land(j) ==
  /\ jobs[j] \in {"sent", "resubmitted"}
  /\ landed = None
  /\ jobs' = [jobs EXCEPT ![j] = "mined"]
  /\ landed' = j
  /\ UNCHANGED <<receipt, phase, elapsed, check, result>>
-----------------------------------------------------------------------------
(* await_confirmation *)

Await ==
  /\ phase = "idle" /\ receipt # None
  /\ phase' = "checking"
  /\ elapsed' = 0
  /\ check' = Unanswered
  /\ UNCHANGED <<jobs, landed, receipt, result>>

Tick ==
  /\ Waiting
  /\ elapsed <= Timeout
  /\ elapsed' = elapsed + 1
  /\ UNCHANGED <<jobs, landed, receipt, phase, check, result>>

\* job_status and is_spent, joined: each is answered when it is.
JobAnswer(answer) ==
  /\ phase = "checking" /\ check.job = None
  /\ check' = [check EXCEPT !.job = answer]
  /\ UNCHANGED <<jobs, landed, receipt, phase, elapsed, result>>

SpentAnswer(answer) ==
  /\ phase = "checking" /\ check.spent = None
  /\ check' = [check EXCEPT !.spent = answer]
  /\ UNCHANGED <<jobs, landed, receipt, phase, elapsed, result>>

\* check, once both answers are there: the chain's comes first.
JobOutcome ==
  IF check.job = "error" THEN "relayer"
  ELSE IF check.job = "failed" THEN "failed" ELSE "pending"

Outcome_JobFirst ==
  IF JobOutcome # "pending" THEN JobOutcome
  ELSE IF check.spent = "error" THEN "provider"
  ELSE IF check.spent = "spent" THEN "ok" ELSE "pending"
Outcome_JobTrusted ==
  IF check.spent = "error" THEN "provider"
  ELSE IF check.spent = "spent" \/ check.job = "confirmed" THEN "ok" ELSE JobOutcome
Outcome ==
  IF check.spent = "error" THEN "provider"
  ELSE IF check.spent = "spent" THEN "ok" ELSE JobOutcome

Answered == phase = "checking" /\ check.job # None /\ check.spent # None

End(how) ==
  /\ phase' = "idle"
  /\ receipt' = None
  /\ result' = how
  /\ UNCHANGED <<jobs, landed, elapsed, check>>

Conclude ==
  /\ Answered /\ Outcome # "pending"
  /\ End(Outcome)

\* The time is looked at after each check that found nothing.
TimedOut_Never == FALSE
TimedOut == elapsed > Timeout
GiveUp ==
  /\ Answered /\ Outcome = "pending"
  /\ TimedOut
  /\ End("timeout")

Sleep ==
  /\ Answered /\ Outcome = "pending"
  /\ ~ TimedOut
  /\ phase' = "sleeping"
  /\ UNCHANGED <<jobs, landed, receipt, elapsed, check, result>>

Wake ==
  /\ phase = "sleeping"
  /\ phase' = "checking"
  /\ check' = Unanswered
  /\ UNCHANGED <<jobs, landed, receipt, elapsed, result>>

\* What the relayer and the provider may answer now.
JobAnswers == {"error"} \cup (IF Honest THEN {jobs[receipt]} ELSE Statuses)
SpentAnswers == {"error"} \cup {IF landed # None THEN "spent" ELSE "unspent"}

JobStatus == phase = "checking" /\ \E answer \in JobAnswers : JobAnswer(answer)
IsSpent == \E answer \in SpentAnswers : SpentAnswer(answer)

Next ==
  \/ Submit \/ Accepted \/ SubmitFails
  \/ \E j \in DOMAIN jobs : Land(j) \/ \E status \in Statuses : Work(j, status)
  \/ Await \/ Tick
  \/ JobStatus \/ IsSpent
  \/ Conclude \/ GiveUp \/ Sleep \/ Wake

\* Time passes, the wallet's task is polled, the provider answers in the end;
\* so does a relayer that is responsive.
Fairness ==
  /\ WF_vars(Tick)
  /\ WF_vars(Conclude \/ GiveUp \/ Sleep \/ Wake)
  /\ WF_vars(IsSpent)
  /\ Responsive => WF_vars(JobStatus)

Spec == Init /\ [][Next]_vars /\ Fairness
-----------------------------------------------------------------------------
\* Every variable has its type, and a job is mined only if it landed.
TypeOK ==
  /\ jobs \in Seq(Statuses)
  /\ \A j \in DOMAIN jobs : jobs[j] \in {"mined", "confirmed"} <=> landed = j
  /\ landed \in {None} \cup DOMAIN jobs
  /\ receipt \in {None} \cup DOMAIN jobs
  /\ phase \in {"idle", "submitting", "checking", "sleeping"}
  /\ elapsed \in 0..(Timeout + 1)
  /\ check \in [job : {None, "error"} \cup Statuses, spent : {None, "error", "spent", "unspent"},
                after : BOOLEAN]
  /\ result \in {None, "ok", "failed", "timeout", "relayer", "provider"}

\* A withdrawal is confirmed by the chain alone: whatever a relayer reports,
\* success means that the nullifier is spent (lib.rs: "`spent` should be
\* considered authoritative").
ConfirmedByChain == result = "ok" => landed # None

\* A check that began after the withdrawal landed, by this job or by an earlier
\* one of the same note, never ends the wait as failed, refused or too late,
\* whatever the relayer answers.
LandedIsReported ==
  [][phase = "checking" /\ check.after /\ phase' = "idle" => result' \in {"ok", "provider"}]_vars

\* A wait ends: in an answer, a failure or the timeout.
AwaitEnds == Waiting ~> phase = "idle"

\* Once the chain has answered that the nullifier is spent, the job's status no
\* longer matters and the check ends (lib.rs: "we don't care about the job
\* status so early-exit").
SpentEndsCheck == check.spent = "spent" ~> phase = "idle"
===============================================================================
