------------------------ MODULE InstructionProcessor ------------------------
(***************************************************************************)
(* The Smart Account instruction jobs of the executor:                     *)
(* InstructionProcessor (instructionProcessor.ts) driving the FDC Payment  *)
(* pipeline (fdcPaymentProof.ts) and executeInstruction on Flare           *)
(* (instructionExecutor.ts).  The pipeline resembles the mint's and        *)
(* differs where it matters: every checkpoint callback runs again on a     *)
(* resume, and a job with a recorded execution executes anew.              *)
(***************************************************************************)
EXTENDS ProcessorCore

VARIABLE
  resume  \* the resume argument of requestInstructionPaymentProof: the
          \* attestation the job held when process(id) called it

vars == <<jobs, file, pc, error, fdc, flare, faults, recorded, requested, resume>>

TypeOK == CoreTypeOK /\ resume \in [Tx -> Attestations]

Init == CoreInit /\ resume = [t \in Tx |-> "none"]

(***************************************************************************)
(* observe() of a payment that carries an instruction: create the job      *)
(* unless it exists, then start process(id) without awaiting it.           *)
(***************************************************************************)
MayBeDue(job) == IF job.nextAttemptAt = "none" THEN {TRUE} ELSE BOOLEAN

Observe(t) ==
  /\ \/ /\ jobs[t].stage # "absent"
        /\ \E due \in MayBeDue(jobs[t]) : Process(t, jobs[t], due)
        /\ UNCHANGED storeVars
     \/ /\ jobs[t].stage = "absent"
        /\ \E ok \in BOOLEAN :
             Write(t, NewJob(FALSE), ok) /\ Process(t, NewJob(FALSE), ok)
  /\ UNCHANGED <<error, fdc, flare, resume>>

\* Mutant of ResumePending: only jobs that failed before are resumed.
ResumeScheduled(t) ==
  /\ pc[t] = "idle"
  /\ Pending(jobs[t])
  /\ jobs[t].nextAttemptAt # "none"
  /\ Goto(t, "claim")
  /\ UNCHANGED <<storeVars, error, fdc, flare, resume>>

ResumePending(t) ==
  /\ pc[t] = "idle"
  /\ Pending(jobs[t])
  /\ Goto(t, "claim")
  /\ UNCHANGED <<storeVars, error, fdc, flare, resume>>

InstructionCheckpoint(t, here, job, next) ==
  /\ \E ok \in BOOLEAN : Checkpoint(t, here, job, next, "retryable", ok)
  /\ UNCHANGED resume

Returns(t, here, next) == CallReturns(t, here, next) /\ UNCHANGED resume
Throws(t, here, errors) == CallThrows(t, here, errors) /\ UNCHANGED resume

(***************************************************************************)
(* After the claim, a job with its proof goes straight to the execution;   *)
(* any other calls requestInstructionPaymentProof with what it holds of    *)
(* the attestation.  With the request prepared the first call is skipped,  *)
(* its callback is not.                                                    *)
(***************************************************************************)
AfterClaim(job) ==
  IF job.proof THEN "simulate"
  ELSE IF job.attestation = "none" THEN "prepare" ELSE "prepared"

Claim(t) ==
  /\ \E ok \in BOOLEAN :
       Checkpoint(t, "claim", Claimed(jobs[t]), AfterClaim(jobs[t]), "retryable", ok)
  /\ resume' = [resume EXCEPT ![t] = jobs[t].attestation]

PrepareRequest(t) ==
  \/ Returns(t, "prepare", "prepared")
  \/ Throws(t, "prepare", {"retryable", "permanent"})

\* Mutant of OnPrepared: resume.submitted is ignored.
OnPreparedIgnoringSubmission(t) ==
  InstructionCheckpoint(t, "prepared",
    [jobs[t] EXCEPT !.stage = "confirming", !.attestation = "prepared"], "request")

OnPrepared(t) ==
  InstructionCheckpoint(t, "prepared",
    [jobs[t] EXCEPT !.stage = "confirming", !.attestation = "prepared"],
    IF resume[t] \in {"requested", "finalized"} THEN "requested" ELSE "request")

SubmitRequest(t) == RequestAttestation(t, "requested") /\ UNCHANGED resume

OnAttestationRequested(t) ==
  InstructionCheckpoint(t, "requested",
    [jobs[t] EXCEPT !.stage = "attestation_requested", !.attestation = "requested"],
    IF resume[t] = "finalized" THEN "roundFinal" ELSE "awaitRound")

IsFinalized(t) ==
  \/ Returns(t, "awaitRound", "roundFinal")
  \/ Throws(t, "awaitRound", {"retryable"})

\* Mutant of OnFinalized: the attestation is not marked finalized.
OnFinalizedUnmarked(t) ==
  InstructionCheckpoint(t, "roundFinal", [jobs[t] EXCEPT !.stage = "finalized"], "fetchProof")

OnFinalized(t) ==
  InstructionCheckpoint(t, "roundFinal",
    [jobs[t] EXCEPT !.stage = "finalized", !.attestation = "finalized"], "fetchProof")

RetrieveProof(t) ==
  \/ Returns(t, "fetchProof", "proofFetched")
  \/ Throws(t, "fetchProof", {"retryable", "permanent"})

OnProofFetched(t) ==
  InstructionCheckpoint(t, "proofFetched",
    [jobs[t] EXCEPT !.stage = "proof_fetched", !.proof = TRUE], "simulate")

(***************************************************************************)
(* executeSmartAccountInstruction: isTransactionUsed and the simulation    *)
(* stop a payment that has executed, for good; any earlier execution of    *)
(* the job is not looked at.                                               *)
(***************************************************************************)
Simulate(t) ==
  \/ ~Executed(t) /\ Returns(t, "simulate", "send")
  \/ Throws(t, "simulate", {"retryable", "permanent"})

Submit(t) == SendTransaction(t) /\ UNCHANGED resume

OnSubmitted(t) ==
  InstructionCheckpoint(t, "sent",
    [jobs[t] EXCEPT !.stage = "execution_submitted", !.proof = TRUE,
                    !.execution = Len(flare[t])],
    "receipt")

\* Mutant of WaitForReceipt: the status of the receipt is not looked at.
WaitForReceiptAnyStatus(t) ==
  /\ pc[t] = "receipt"
  /\ LET outcome == flare[t][jobs[t].execution]
     IN  \/ outcome # "pending" /\ Returns(t, "receipt", "settled")
         \/ Throws(t, "receipt", {"retryable"})

WaitForReceipt(t) ==
  /\ pc[t] = "receipt"
  /\ LET outcome == flare[t][jobs[t].execution]
     IN  \/ outcome = "executed" /\ Returns(t, "receipt", "settled")
         \/ outcome = "reverted" /\ Throws(t, "receipt", {"permanent"})
         \/ Throws(t, "receipt", {"retryable"})

OnSettled(t) ==
  InstructionCheckpoint(t, "settled",
    [jobs[t] EXCEPT !.stage = "instruction_executed", !.proof = TRUE,
                    !.settlement = TRUE, !.lastError = "none", !.nextAttemptAt = "none"],
    "idle")

RecordFailure(t) ==
  /\ \E ok \in BOOLEAN : Fail(t, Failure(jobs[t], error[t], MaxAttempts), ok)
  /\ UNCHANGED resume

(***************************************************************************)
(* The chain executes the instruction of a payment once, or reverts.       *)
(***************************************************************************)
Mine(t, i) ==
  /\ \E outcome \in {"executed", "reverted"} : Mined(t, i, outcome)
  /\ UNCHANGED resume

Crash == Restart /\ resume' = [t \in Tx |-> "none"]

(***************************************************************************)
(* One await of process(id) completes.                                     *)
(***************************************************************************)
Step(t) ==
  \/ Claim(t)
  \/ PrepareRequest(t) \/ OnPrepared(t)
  \/ SubmitRequest(t) \/ OnAttestationRequested(t)
  \/ IsFinalized(t) \/ OnFinalized(t)
  \/ RetrieveProof(t) \/ OnProofFetched(t)
  \/ Simulate(t) \/ Submit(t) \/ OnSubmitted(t)
  \/ WaitForReceipt(t) \/ OnSettled(t)
  \/ RecordFailure(t)

Next ==
  \/ \E t \in Tx :
       \/ Observe(t) \/ ResumePending(t) \/ Step(t)
       \/ \E i \in DOMAIN flare[t] : Mine(t, i)
  \/ Crash

Spec == Init /\ [][Next]_vars

(***************************************************************************)
(* Fairness: every await of process(id) settles and the retry timer keeps  *)
(* firing.                                                                 *)
(***************************************************************************)
FairSpec == Spec /\ \A t \in Tx : WF_vars(Step(t)) /\ WF_vars(ResumePending(t))

-----------------------------------------------------------------------------
(***************************************************************************)
(* A settlement is only ever recorded, in memory or in the file, for a     *)
(* transaction that executed on Flare, however many were sent.             *)
(***************************************************************************)
SettlementsAreReal ==
  \A t \in Tx : \A job \in {jobs[t], file[t]} : job.settlement => RanOnChain(t, job)

(***************************************************************************)
(* A stage is backed by the data its checkpoint stored, in memory and in   *)
(* the file alike, through every resume that rewrites the attestation.     *)
(***************************************************************************)
Backed(job) ==
  /\ job.stage = "attestation_requested" => job.attestation \in {"requested", "finalized"}
  /\ job.stage = "finalized" => job.attestation = "finalized"
  /\ job.stage \in {"proof_fetched", "execution_submitted"} => job.proof
  /\ job.stage = "execution_submitted" => job.execution # 0
  /\ job.stage = "instruction_executed" => job.settlement /\ job.execution # 0

StagesAreBacked == \A t \in Tx : Backed(jobs[t]) /\ Backed(file[t])

(***************************************************************************)
(* MAX_JOB_ATTEMPTS is exact for instructions: a pending job has an        *)
(* attempt left, and no job is ever attempted more often.                  *)
(***************************************************************************)
AttemptsAreBounded ==
  \A t \in Tx : \A job \in {jobs[t], file[t]} :
    /\ job.attempts <= MaxAttempts
    /\ Pending(job) => job.attempts < MaxAttempts

(***************************************************************************)
(* As long as nothing crashed and no write failed, an FDC request that was *)
(* checkpointed is never sent again, although each resume writes the       *)
(* attestation back to `prepared' first.                                   *)
(***************************************************************************)
NoRepeatedRequestWithoutFaults ==
  [][\A t \in Tx : faults = 0 => ~RequestRepeated(t)]_vars

(***************************************************************************)
(* Every instruction whose job reached the file is brought to a terminal   *)
(* stage, whatever fails.                                                  *)
(***************************************************************************)
EveryJobEnds == \A t \in Tx : file[t].stage # "absent" ~> Terminal(jobs[t])

(***************************************************************************)
(* ARCHITECTURE.md:45 of every job: restarts resume from the latest        *)
(* checkpoint, so an FDC request that was checkpointed is not sent again.  *)
(***************************************************************************)
ResumesFromLatestCheckpoint == [][\A t \in Tx : ~RequestRepeated(t)]_vars

(***************************************************************************)
(* ARCHITECTURE.md:46 of every job: submitted Flare transactions are       *)
(* recovered by hash rather than blindly resubmitted.                      *)
(***************************************************************************)
NoBlindResubmission == [][\A t \in Tx : ~BlindResubmission(t)]_vars
=============================================================================
