--------------------------- MODULE MintProcessor ---------------------------
(***************************************************************************)
(* The mint jobs of the FlareRamp executor: TransactionProcessor           *)
(* (transactionProcessor.ts) driving the FDC pipeline (fdcProof.ts) and    *)
(* the direct mint on Flare (flareExecutor.ts), as wired by index.ts.      *)
(* Jobs interleave with each other, with duplicate XRPL events, with the   *)
(* chain and with a crash at any await.                                    *)
(***************************************************************************)
EXTENDS ProcessorCore

CONSTANT NeedsUserOp  \* payments whose memo is a 0xFE user-operation hash

ASSUME NeedsUserOpAssumption == NeedsUserOp \subseteq Tx

VARIABLES
  userOp,      \* userOpData of the local `job' of process(id)
  resolving,   \* what resolveUserOp answered an observe(id) in progress
  registered,  \* payments whose user operation the web backend has registered
  window       \* the AssetManager's minting delay for the payment

mintVars == <<userOp, resolving, registered, window>>
vars == <<jobs, file, pc, error, fdc, flare, faults, recorded, requested, mintVars>>

TypeOK ==
  /\ CoreTypeOK
  /\ userOp \in [Tx -> BOOLEAN]
  /\ resolving \in [Tx -> {"none", "without", "with"}]
  /\ registered \in SUBSET Tx
  /\ window \in [Tx -> {"none", "closed", "open"}]

Init ==
  /\ CoreInit
  /\ userOp = [t \in Tx |-> FALSE]
  /\ resolving = [t \in Tx |-> "none"]
  /\ registered = {}
  /\ window = [t \in Tx |-> "none"]

(***************************************************************************)
(* Mutant of MayBeDue: executionAllowedAt scaled to milliseconds twice.    *)
(***************************************************************************)
MayBeDueScaledTwice(t, job) ==
  CASE job.nextAttemptAt = "none"      -> {TRUE}
    [] job.nextAttemptAt = "backoff"   -> BOOLEAN
    [] job.nextAttemptAt = "allowedAt" -> {FALSE}

(***************************************************************************)
(* What the clock can say of nextAttemptAt.  The chain's delay is over     *)
(* once its window is open; a backoff may or may not be.                   *)
(***************************************************************************)
MayBeDue(t, job) ==
  CASE job.nextAttemptAt = "none"      -> {TRUE}
    [] job.nextAttemptAt = "backoff"   -> BOOLEAN
    [] job.nextAttemptAt = "allowedAt" -> IF window[t] = "closed" THEN {FALSE} ELSE BOOLEAN

(***************************************************************************)
(* The web backend posts the user operation of a 0xFE payment.             *)
(***************************************************************************)
RegisterUserOp(t) ==
  /\ t \in NeedsUserOp \ registered
  /\ registered' = registered \cup {t}
  /\ UNCHANGED <<storeVars, pc, error, fdc, flare, userOp, resolving, window>>

(***************************************************************************)
(* observe(), up to its first await: an XRPL event, possibly a duplicate,  *)
(* looks the user operation up.                                            *)
(***************************************************************************)
ResolveUserOp(t) ==
  /\ resolving[t] = "none"
  /\ resolving' = [resolving EXCEPT ![t] = IF t \in registered THEN "with" ELSE "without"]
  /\ UNCHANGED <<storeVars, pc, error, fdc, flare, userOp, registered, window>>

(***************************************************************************)
(* observe(), the rest: create the job, or add the user operation to one   *)
(* that lacks it, then start process(id) without awaiting it.              *)
(***************************************************************************)
Observed(t) ==
  LET found == resolving[t] = "with"
  IN  IF jobs[t].stage = "absent" THEN NewJob(found)
      ELSE [jobs[t] EXCEPT !.userOpData = @ \/ found]

Observe(t) ==
  /\ resolving[t] # "none"
  /\ \/ /\ Observed(t) = jobs[t]
        /\ \E due \in MayBeDue(t, jobs[t]) : Process(t, jobs[t], due)
        /\ UNCHANGED storeVars
     \/ /\ Observed(t) # jobs[t]
        /\ \E ok \in BOOLEAN :
             /\ Write(t, Observed(t), ok)
             /\ \E due \in MayBeDue(t, Observed(t)) : Process(t, Observed(t), due /\ ok)
  /\ resolving' = [resolving EXCEPT ![t] = "none"]
  /\ UNCHANGED <<error, fdc, flare, userOp, registered, window>>

(***************************************************************************)
(* resumePending(), from the retry timer or at startup.                    *)
(***************************************************************************)
ResumePending(t) ==
  /\ pc[t] = "idle"
  /\ Pending(jobs[t])
  /\ TRUE \in MayBeDue(t, jobs[t])
  /\ Goto(t, "claim")
  /\ UNCHANGED <<storeVars, error, fdc, flare, mintVars>>

(***************************************************************************)
(* checkpoint(): as in the core, and the local `job' is the record written *)
(* (it ends with the last checkpoint).                                     *)
(***************************************************************************)
MintCheckpoint(t, here, job, next, thrown) ==
  /\ \E ok \in BOOLEAN :
       /\ Checkpoint(t, here, job, next, thrown, ok)
       /\ userOp' = IF ok THEN [userOp EXCEPT ![t] = next # "idle" /\ job.userOpData]
                          ELSE userOp
  /\ UNCHANGED <<resolving, registered, window>>

Returns(t, here, next) == CallReturns(t, here, next) /\ UNCHANGED mintVars
Throws(t, here, errors) == CallThrows(t, here, errors) /\ UNCHANGED mintVars

(***************************************************************************)
(* Mutants of Execution and AfterClaim: the resume of the instruction      *)
(* processor, which looks at no earlier execution and reruns onPrepared.   *)
(***************************************************************************)
ExecutionAnew(job) == "simulate"

AfterClaimAnew(job) ==
  CASE job.proof                               -> IF job.execution # 0 THEN "receipt" ELSE "simulate"
    [] ~job.proof /\ job.attestation = "none"  -> "prepare"
    [] ~job.proof /\ job.attestation # "none"  -> "prepared"

(***************************************************************************)
(* Where process(id) goes after the claim: with the proof stored it skips  *)
(* the FDC, otherwise requestPaymentProof resumes from the attestation.    *)
(***************************************************************************)
Execution(job) == IF job.execution # 0 THEN "receipt" ELSE "simulate"

AfterClaim(job) ==
  CASE job.proof                                   -> Execution(job)
    [] ~job.proof /\ job.attestation = "none"      -> "prepare"
    [] ~job.proof /\ job.attestation = "prepared"  -> "request"
    [] ~job.proof /\ job.attestation = "requested" -> "awaitRound"
    [] ~job.proof /\ job.attestation = "finalized" -> "fetchProof"

Claim(t) == MintCheckpoint(t, "claim", Claimed(jobs[t]), AfterClaim(jobs[t]), "retryable")

(***************************************************************************)
(* requestPaymentProof: the four calls, and the callback after each.       *)
(***************************************************************************)
PrepareRequest(t) ==
  \/ Returns(t, "prepare", "prepared")
  \/ Throws(t, "prepare", {"retryable", "permanent"})

OnPrepared(t) ==
  MintCheckpoint(t, "prepared",
    [jobs[t] EXCEPT !.stage = "confirming", !.attestation = "prepared"],
    "request", "retryable")

SubmitRequest(t) == RequestAttestation(t, "requested") /\ UNCHANGED mintVars

OnAttestationRequested(t) ==
  MintCheckpoint(t, "requested",
    [jobs[t] EXCEPT !.stage = "attestation_requested", !.attestation = "requested"],
    "awaitRound", "retryable")

IsFinalized(t) ==
  \/ Returns(t, "awaitRound", "roundFinal")
  \/ Throws(t, "awaitRound", {"retryable"})

\* Mutant of OnFinalized: the attestation is not marked finalized.
OnFinalizedUnmarked(t) ==
  MintCheckpoint(t, "roundFinal", [jobs[t] EXCEPT !.stage = "finalized"],
    "fetchProof", "retryable")

OnFinalized(t) ==
  MintCheckpoint(t, "roundFinal",
    [jobs[t] EXCEPT !.stage = "finalized", !.attestation = "finalized"],
    "fetchProof", "retryable")

RetrieveProof(t) ==
  \/ Returns(t, "fetchProof", "proofFetched")
  \/ Throws(t, "fetchProof", {"retryable", "permanent"})

OnProofFetched(t) ==
  MintCheckpoint(t, "proofFetched",
    [jobs[t] EXCEPT !.stage = "proof_fetched", !.proof = TRUE],
    Execution(jobs[t]), "retryable")

(***************************************************************************)
(* executeDirectMinting.  The simulation passes only when the payment is   *)
(* not executed yet, the delay is over and the user operation its memo     *)
(* commits to is passed along.                                             *)
(***************************************************************************)
Simulate(t) ==
  \/ /\ ~Executed(t) /\ window[t] # "closed"
     /\ t \in NeedsUserOp => userOp[t]
     /\ Returns(t, "simulate", "send")
  \/ Throws(t, "simulate", {"retryable", "permanent"})

Submit(t) == SendTransaction(t) /\ UNCHANGED mintVars

OnSubmitted(t) ==
  MintCheckpoint(t, "sent",
    [jobs[t] EXCEPT !.stage = "execution_submitted", !.proof = TRUE,
                    !.execution = Len(flare[t])],
    "receipt", "checkpointFailed")

(***************************************************************************)
(* Mutants of WaitForReceipt: the status of the receipt is not looked at;  *)
(* a receipt that does not come in time is a permanent error.              *)
(***************************************************************************)
WaitForReceiptAnyStatus(t) ==
  /\ pc[t] = "receipt"
  /\ LET outcome == flare[t][jobs[t].execution]
     IN  \/ outcome \in {"executed", "reverted"} /\ Returns(t, "receipt", "settled")
         \/ outcome = "delayed" /\ Throws(t, "receipt", {"delayed"})
         \/ Throws(t, "receipt", {"retryable"})

WaitForReceiptImpatient(t) ==
  /\ pc[t] = "receipt"
  /\ LET outcome == flare[t][jobs[t].execution]
     IN  \/ outcome = "executed" /\ Returns(t, "receipt", "settled")
         \/ outcome = "delayed" /\ Throws(t, "receipt", {"delayed"})
         \/ Throws(t, "receipt", {"permanent"})

(***************************************************************************)
(* waitForReceipt and decodeDirectMintingSettlement, for the transaction   *)
(* just sent (executeDirectMinting) and for one found in the job           *)
(* (recoverSubmittedDirectMinting).                                        *)
(***************************************************************************)
WaitForReceipt(t) ==
  /\ pc[t] = "receipt"
  /\ LET outcome == flare[t][jobs[t].execution]
     IN  \/ outcome = "executed" /\ Returns(t, "receipt", "settled")
         \/ outcome = "delayed" /\ Throws(t, "receipt", {"delayed"})
         \/ outcome = "reverted" /\ Throws(t, "receipt", {"permanent"})
         \/ Throws(t, "receipt", {"retryable"})

OnSettled(t) ==
  MintCheckpoint(t, "settled",
    [jobs[t] EXCEPT !.stage = "minted", !.proof = TRUE, !.settlement = TRUE,
                    !.lastError = "none", !.nextAttemptAt = "none"],
    "idle", "retryable")

(***************************************************************************)
(* Mutants of FailedJob: CHECKPOINT_FAILED sends the job back to           *)
(* proof_fetched without its hash; CHECKPOINT_FAILED is left a permanent   *)
(* error.                                                                  *)
(***************************************************************************)
FailedJobWithoutHash(t, e) ==
  LET failure == Failure(jobs[t], e, MaxAttempts)
  IN  CASE e = "delayed" /\ failure.stage # "failed" ->
             [failure EXCEPT !.stage = "proof_fetched", !.execution = 0,
                             !.nextAttemptAt = "allowedAt"]
        [] e = "checkpointFailed" ->
             [failure EXCEPT !.stage = "proof_fetched", !.execution = 0,
                             !.nextAttemptAt = "backoff"]
        [] OTHER -> failure

FailedJobPermanent(t, e) ==
  LET failure == Failure(jobs[t], e, MaxAttempts)
  IN  CASE e = "delayed" /\ failure.stage # "failed" ->
             [failure EXCEPT !.stage = "proof_fetched", !.execution = 0,
                             !.nextAttemptAt = "allowedAt"]
        [] OTHER -> failure

(***************************************************************************)
(* recordFailure.  A delayed mint forgets its execution and waits for the  *)
(* chain's window; a failed checkpoint after a submission keeps the hash   *)
(* and is always rescheduled.                                              *)
(***************************************************************************)
FailedJob(t, e) ==
  LET failure == Failure(jobs[t], e, MaxAttempts)
  IN  CASE e = "delayed" /\ failure.stage # "failed" ->
             [failure EXCEPT !.stage = "proof_fetched", !.execution = 0,
                             !.nextAttemptAt = "allowedAt"]
        [] e = "checkpointFailed" ->
             [failure EXCEPT !.stage = "execution_submitted",
                             !.execution = Len(flare[t]), !.nextAttemptAt = "backoff"]
        [] OTHER -> failure

RecordFailure(t) ==
  /\ \E ok \in BOOLEAN : Fail(t, FailedJob(t, error[t]), ok)
  /\ userOp' = [userOp EXCEPT ![t] = FALSE]
  /\ UNCHANGED <<resolving, registered, window>>

(***************************************************************************)
(* The chain: the first mint of a payment may be delayed by the minting    *)
(* limits, then nothing executes before the delay is over; any             *)
(* transaction may revert or settle as too small.                          *)
(***************************************************************************)
Mine(t, i) ==
  /\ \/ window[t] # "closed" /\ Mined(t, i, "executed") /\ UNCHANGED window
     \/ /\ window[t] = "none" /\ Mined(t, i, "delayed")
        /\ window' = [window EXCEPT ![t] = "closed"]
     \/ Mined(t, i, "reverted") /\ UNCHANGED window
  /\ UNCHANGED <<userOp, resolving, registered>>

OpenWindow(t) ==
  /\ window[t] = "closed"
  /\ window' = [window EXCEPT ![t] = "open"]
  /\ UNCHANGED <<storeVars, pc, error, fdc, flare, userOp, resolving, registered>>

Crash ==
  /\ Restart
  /\ userOp' = [t \in Tx |-> FALSE]
  /\ resolving' = [t \in Tx |-> "none"]
  /\ UNCHANGED <<registered, window>>

(***************************************************************************)
(* One await of process(id) completes.                                     *)
(***************************************************************************)
Step(t) ==
  \/ Claim(t)
  \/ PrepareRequest(t) \/ OnPrepared(t)
  \/ SubmitRequest(t) \/ OnAttestationRequested(t)
  \/ IsFinalized(t) \/ OnFinalized(t)
  \/ RetrieveProof(t) \/ OnProofFetched(t)
  \/ Simulate(t) \/ Submit(t) \/ OnSubmitted(t)
  \/ WaitForReceipt(t) \/ OnSettled(t)
  \/ RecordFailure(t)

Next ==
  \/ \E t \in Tx :
       \/ RegisterUserOp(t) \/ ResolveUserOp(t) \/ Observe(t)
       \/ ResumePending(t) \/ Step(t)
       \/ \E i \in DOMAIN flare[t] : Mine(t, i)
       \/ OpenWindow(t)
  \/ Crash

Spec == Init /\ [][Next]_vars

(***************************************************************************)
(* Fairness.  Every await of process(id) settles (the polls have           *)
(* deadlines, the clients time out), the retry timer keeps firing, and the *)
(* AssetManager's delay ends.  Nothing else is owed: no XRPL event, no     *)
(* mined transaction, no successful write.                                 *)
(***************************************************************************)
FairSpec ==
  /\ Spec
  /\ \A t \in Tx : WF_vars(Step(t)) /\ WF_vars(ResumePending(t)) /\ WF_vars(OpenWindow(t))

-----------------------------------------------------------------------------
(***************************************************************************)
(* A stage is backed by the data its checkpoint stored, in memory and in   *)
(* the file alike, so that a resume at that stage finds what it skips to.  *)
(***************************************************************************)
Backed(job) ==
  /\ job.stage = "attestation_requested" => job.attestation \in {"requested", "finalized"}
  /\ job.stage = "finalized" => job.attestation = "finalized"
  /\ job.stage = "proof_fetched" => job.proof
  /\ job.stage \in {"execution_submitted", "minted"} => job.execution # 0
  /\ job.stage = "minted" => job.settlement
  /\ job.execution # 0 \/ job.settlement => job.proof

StagesAreBacked == \A t \in Tx : Backed(jobs[t]) /\ Backed(file[t])

(***************************************************************************)
(* A settlement is only ever recorded, in memory or in the file, for the   *)
(* very transaction that minted on Flare, whatever crashes, resubmissions  *)
(* and failed writes came before.                                          *)
(***************************************************************************)
SettlementsAreReal ==
  \A t \in Tx : \A job \in {jobs[t], file[t]} : job.settlement => RanOnChain(t, job)

(***************************************************************************)
(* ARCHITECTURE.md:46: submitted Flare transactions are recovered by hash  *)
(* rather than blindly resubmitted.  Once the file has held the hash of a  *)
(* transaction, no other one is sent for the payment, across any crash,    *)
(* unless the chain answered that the mint is delayed.                     *)
(***************************************************************************)
NoBlindResubmission == [][\A t \in Tx : ~BlindResubmission(t)]_vars

(***************************************************************************)
(* ARCHITECTURE.md:45: restarts resume from the latest checkpoint.  What   *)
(* the file holds of the attestation and the proof never regresses, and an *)
(* FDC request that was checkpointed is never sent again.                  *)
(***************************************************************************)
AttestationIsKept == [][\A t \in Tx : ~AttestationLost(t) /\ ~RequestRepeated(t)]_vars

(***************************************************************************)
(* A job handed to an operator as recovery_required has no checkpointed    *)
(* transaction that minted: only a transaction whose hash was lost can     *)
(* have executed behind such a job.                                        *)
(***************************************************************************)
RecoveryHidesNoMint ==
  \A t \in Tx :
    jobs[t].stage = "recovery_required" =>
      \A i \in recorded[t] : flare[t][i] # "executed"

(***************************************************************************)
(* MAX_JOB_ATTEMPTS bounds the attempts with one exception: the reschedule *)
(* after CHECKPOINT_FAILED ignores it once, and then only to recover a     *)
(* transaction by hash.                                                    *)
(***************************************************************************)
AttemptsAreBounded ==
  \A t \in Tx : \A job \in {jobs[t], file[t]} :
    /\ job.attempts <= MaxAttempts + 1
    /\ Pending(job) /\ job.attempts >= MaxAttempts => job.execution # 0

(***************************************************************************)
(* Every payment whose job reached the file is brought to a terminal       *)
(* stage, whatever fails.                                                  *)
(***************************************************************************)
EveryJobEnds == \A t \in Tx : file[t].stage # "absent" ~> Terminal(jobs[t])

(***************************************************************************)
(* proofReceipt.ts:303 and :315 tell the reader of a minted job that       *)
(* public evidence confirms the mint and no recovery action is required: a *)
(* job served as minted is not handed to an operator later.                *)
(***************************************************************************)
MintedNeedsNoRecovery ==
  [][\A t \in Tx :
       jobs[t].stage = "minted" => jobs'[t].stage \notin {"failed", "recovery_required"}]_vars
=============================================================================
