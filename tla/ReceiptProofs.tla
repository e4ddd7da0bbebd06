---------------------------- MODULE ReceiptProofs ----------------------------
(***************************************************************************)
(* Proof that the receipts of mint jobs are true, for every set of         *)
(* payments and every bound.                                               *)
(***************************************************************************)
EXTENDS MintProofs, Receipt

(***************************************************************************)
(* Besides IInv: a job that holds an FDC submission has paid for one, no   *)
(* mint job ever has the final stage of an instruction, and none needs     *)
(* recovery because it was delayed.                                        *)
(***************************************************************************)
PaidFor(t) == Submitted(jobs[t]) \/ pc[t] = "requested" => fdc[t] > 0

MintStage(job) ==
  /\ job.stage # "instruction_executed"
  /\ job.stage = "recovery_required" => job.lastError # "delayed"

ReceiptInv == \A t \in Tx : PaidFor(t) /\ MintStage(jobs[t]) /\ MintStage(file[t])

(***************************************************************************)
(* The shape of a step of one payment, told by what it makes of its job    *)
(* and where process(id) goes.                                             *)
(***************************************************************************)
Moves(t, job, point) ==
  /\ jobs' = [jobs EXCEPT ![t] = job]
  /\ file' = file \/ file' = jobs'
  /\ pc' = [pc EXCEPT ![t] = point]

\* A step of one payment keeps the invariant if its new job does.
LEMMA MovesKeepReceiptInv ==
  ASSUME IInv, ReceiptInv, NEW t \in Tx, NEW job, NEW point, Moves(t, job, point),
         \A x \in Tx : fdc[x] > 0 => fdc'[x] > 0,
         MintStage(job),
         Submitted(job) => fdc'[t] > 0,
         point = "requested" => fdc'[t] > 0
  PROVE  ReceiptInv'
<1>1. jobs \in [Tx -> Job] /\ pc \in [Tx -> Points]
  BY DEF IInv, TypeOK, CoreTypeOK
<1>2. /\ jobs'[t] = job /\ pc'[t] = point
      /\ \A x \in Tx \ {t} : jobs'[x] = jobs[x] /\ pc'[x] = pc[x]
  BY <1>1 DEF Moves
<1>3. \A x \in Tx : PaidFor(x)'
  BY <1>2 DEF ReceiptInv, PaidFor
<1>4. \A x \in Tx : MintStage(jobs'[x])
  BY <1>2 DEF ReceiptInv
<1>5. \A x \in Tx : MintStage(file'[x])
  BY <1>4 DEF ReceiptInv, Moves
<1>6. QED
  BY <1>3, <1>4, <1>5 DEF ReceiptInv

\* A checkpoint moves to its next await or to the catch block.
LEMMA CheckpointMoves ==
  ASSUME NEW t \in Tx, NEW here, NEW job, NEW next, NEW thrown,
         MintCheckpoint(t, here, job, next, thrown)
  PROVE  /\ pc[t] = here /\ fdc' = fdc
         /\ \E point \in {next, "failing"} : Moves(t, job, point)
BY DEF MintCheckpoint, Checkpoint, Write, Goto, Throw, Moves

\* A checkpoint that makes no FDC submission appear keeps the invariant.
LEMMA CheckpointKeepsReceiptInv ==
  ASSUME IInv, ReceiptInv, NEW t \in Tx, NEW here, NEW job, NEW next, NEW thrown,
         MintCheckpoint(t, here, job, next, thrown),
         MintStage(job),
         Submitted(job) => Submitted(jobs[t]) \/ here = "requested",
         next # "requested"
  PROVE  ReceiptInv'
<1>1. PICK point \in {next, "failing"} : Moves(t, job, point)
  BY CheckpointMoves
<1>2. fdc' = fdc /\ pc[t] = here
  BY CheckpointMoves
<1>3. Submitted(job) => fdc'[t] > 0
  BY <1>2 DEF ReceiptInv, PaidFor
<1>4. QED
  BY <1>1, <1>2, <1>3, MovesKeepReceiptInv

\* A step that changes no job and no request, and does not get to "requested".
LEMMA QuietKeepsReceiptInv ==
  ASSUME IInv, ReceiptInv, NEW t \in Tx, NEW point, UNCHANGED <<jobs, file, fdc>>,
         pc' = [pc EXCEPT ![t] = point], point = "requested" => point = pc[t]
  PROVE  ReceiptInv'
BY DEF IInv, TypeOK, CoreTypeOK, ReceiptInv, PaidFor

\* A call that only returns or throws changes no job.
LEMMA CallKeepsReceiptInv ==
  ASSUME IInv, ReceiptInv, NEW t \in Tx, NEW here, NEW next, NEW errors,
         Returns(t, here, next) \/ Throws(t, here, errors), next # "requested"
  PROVE  ReceiptInv'
<1>1. UNCHANGED <<jobs, file, fdc>>
  BY DEF Returns, Throws, CallReturns, CallThrows, storeVars
<1>2. \E point \in {next, "failing"} : pc' = [pc EXCEPT ![t] = point]
  BY DEF Returns, Throws, CallReturns, CallThrows, Goto, Throw
<1>3. QED
  BY <1>1, <1>2, QuietKeepsReceiptInv

\* No claim resumes right behind an FDC submission.
LEMMA AfterClaimPoints ==
  \A job \in Job : AfterClaim(job) # "requested" /\ Execution(job) # "requested"
BY DEF AfterClaim, Execution, Job, Attestations

(***************************************************************************)
(* One await of process(id).                                               *)
(***************************************************************************)
LEMMA StepKeepsReceiptInv == ASSUME IInv, ReceiptInv, NEW t \in Tx, Step(t) PROVE ReceiptInv'
<1> DEFINE job == jobs[t]
<1>1. job \in Job /\ MintStage(job) /\ fdc \in [Tx -> Nat]
  BY DEF IInv, TypeOK, CoreTypeOK, ReceiptInv
<1>2. CASE Claim(t)
  <2>1. MintStage(Claimed(job)) /\ Claimed(job).attestation = job.attestation
    BY <1>1 DEF Claimed, Job, MintStage
  <2>2. QED
    BY <1>1, <1>2, <2>1, AfterClaimPoints, CheckpointKeepsReceiptInv DEF Claim, Submitted
<1>3. CASE OnPrepared(t)
  <2> DEFINE new == [job EXCEPT !.stage = "confirming", !.attestation = "prepared"]
  <2>1. MintStage(new) /\ ~Submitted(new)
    BY <1>1 DEF Job, MintStage, Submitted, Progress
  <2>2. QED
    BY <1>3, <2>1, CheckpointKeepsReceiptInv DEF OnPrepared
<1>4. CASE SubmitRequest(t)
  <2>1. /\ pc[t] = "request" /\ UNCHANGED <<jobs, file>>
        /\ \A x \in Tx : fdc[x] > 0 => fdc'[x] > 0
    BY <1>1, <1>4 DEF SubmitRequest, RequestAttestation, storeVars
  <2>2. PICK point \in {"requested", "failing"} :
          pc' = [pc EXCEPT ![t] = point] /\ (point = "requested" => fdc'[t] > 0)
    BY <1>1, <1>4 DEF SubmitRequest, RequestAttestation, Goto, Throw
  <2>3. jobs' = [jobs EXCEPT ![t] = job]
    BY <2>1 DEF IInv, TypeOK, CoreTypeOK
  <2>4. Submitted(job) => fdc'[t] > 0
    BY <2>1 DEF ReceiptInv, PaidFor
  <2>5. QED
    BY <1>1, <2>1, <2>2, <2>3, <2>4, MovesKeepReceiptInv DEF Moves
<1>5. CASE OnAttestationRequested(t)
  <2> DEFINE new == [job EXCEPT !.stage = "attestation_requested", !.attestation = "requested"]
  <2>1. MintStage(new)
    BY <1>1 DEF Job, MintStage
  <2>2. QED
    BY <1>5, <2>1, CheckpointKeepsReceiptInv DEF OnAttestationRequested
<1>6. CASE OnFinalized(t)
  <2> DEFINE new == [job EXCEPT !.stage = "finalized", !.attestation = "finalized"]
  <2>1. pc[t] = "roundFinal"
    BY <1>6, CheckpointMoves DEF OnFinalized
  <2>2. Submitted(job)
    BY <2>1 DEF IInv, PaymentInv, Located, AttestedAt, Submitted, Progress
  <2>3. MintStage(new)
    BY <1>1 DEF Job, MintStage
  <2>4. QED
    BY <1>6, <2>2, <2>3, CheckpointKeepsReceiptInv DEF OnFinalized
<1>7. CASE OnProofFetched(t)
  <2> DEFINE new == [job EXCEPT !.stage = "proof_fetched", !.proof = TRUE]
  <2>1. MintStage(new) /\ new.attestation = job.attestation
    BY <1>1 DEF Job, MintStage
  <2>2. QED
    BY <1>1, <1>7, <2>1, AfterClaimPoints, CheckpointKeepsReceiptInv DEF OnProofFetched, Submitted
<1>8. CASE OnSubmitted(t)
  <2> DEFINE new == [job EXCEPT !.stage = "execution_submitted", !.proof = TRUE,
                                !.execution = Len(flare[t])]
  <2>1. MintStage(new) /\ new.attestation = job.attestation
    BY <1>1 DEF Job, MintStage
  <2>2. QED
    BY <1>8, <2>1, CheckpointKeepsReceiptInv DEF OnSubmitted, Submitted
<1>9. CASE OnSettled(t)
  <2> DEFINE new == [job EXCEPT !.stage = "minted", !.proof = TRUE, !.settlement = TRUE,
                                !.lastError = "none", !.nextAttemptAt = "none"]
  <2>1. MintStage(new) /\ new.attestation = job.attestation
    BY <1>1 DEF Job, MintStage
  <2>2. QED
    BY <1>9, <2>1, CheckpointKeepsReceiptInv DEF OnSettled, Submitted
<1>10. CASE RecordFailure(t)
  <2> DEFINE new == FailedJob(t, error[t])
  <2>1. MintStage(new) /\ new.attestation = job.attestation
    BY <1>1 DEF FailedJob, Failure, Job, MintStage
  <2>2. Moves(t, new, "idle") /\ fdc' = fdc
    BY <1>10 DEF RecordFailure, Fail, Write, Goto, Moves
  <2>3. Submitted(new) => fdc'[t] > 0
    BY <2>1, <2>2 DEF ReceiptInv, PaidFor, Submitted
  <2>4. QED
    BY <2>1, <2>2, <2>3, MovesKeepReceiptInv
<1>11. CASE PrepareRequest(t) \/ IsFinalized(t) \/ RetrieveProof(t)
  BY <1>11, CallKeepsReceiptInv DEF PrepareRequest, IsFinalized, RetrieveProof
<1>12. CASE Simulate(t) \/ WaitForReceipt(t)
  BY <1>12, CallKeepsReceiptInv DEF Simulate, WaitForReceipt
<1>13. CASE Submit(t)
  <2>1. UNCHANGED <<jobs, file, fdc>>
    BY <1>13 DEF Submit, SendTransaction, storeVars
  <2>2. \E point \in {"sent", "failing"} : pc' = [pc EXCEPT ![t] = point]
    BY <1>13 DEF Submit, SendTransaction, Goto, Throw
  <2>3. QED
    BY <2>1, <2>2, QuietKeepsReceiptInv
<1>14. QED
  BY <1>2, <1>3, <1>4, <1>5, <1>6, <1>7, <1>8, <1>9, <1>10, <1>11, <1>12, <1>13 DEF Step

(***************************************************************************)
(* observe starts process(id) or not, and may write the job it made.       *)
(***************************************************************************)
LEMMA ProcessMoves ==
  ASSUME IInv, NEW t \in Tx, NEW job, NEW due, Process(t, job, due)
  PROVE  \E point \in {pc[t], "claim"} : pc' = [pc EXCEPT ![t] = point]
BY DEF Process, Goto, IInv, TypeOK, CoreTypeOK

\* A new job holds nothing, and a known one gains its user operation.
LEMMA ObserveKeepsReceiptInv == ASSUME IInv, ReceiptInv, NEW t \in Tx, Observe(t) PROVE ReceiptInv'
<1>1. fdc' = fdc
  BY DEF Observe
<1>2. PICK point \in {pc[t], "claim"} : pc' = [pc EXCEPT ![t] = point]
  BY ProcessMoves DEF Observe
<1>3. CASE UNCHANGED storeVars
  BY <1>1, <1>2, <1>3, QuietKeepsReceiptInv DEF storeVars
<1>4. CASE \E ok \in BOOLEAN : Write(t, Observed(t), ok)
  <2>1. jobs[t] \in Job
    BY DEF IInv, TypeOK, CoreTypeOK
  <2>2. /\ MintStage(Observed(t))
        /\ Submitted(Observed(t)) => Submitted(jobs[t])
    BY <2>1 DEF Observed, NewJob, NoJob, Job, ReceiptInv, MintStage, Submitted, Progress
  <2>3. Moves(t, Observed(t), point)
    BY <1>2, <1>4 DEF Write, Moves
  <2>4. (Submitted(Observed(t)) => fdc'[t] > 0) /\ (point = "requested" => fdc'[t] > 0)
    BY <1>1, <2>2 DEF ReceiptInv, PaidFor
  <2>5. QED
    BY <1>1, <2>2, <2>3, <2>4, MovesKeepReceiptInv
<1>5. QED
  BY <1>3, <1>4 DEF Observe

\* After a restart the map is the file, whose submissions the map had.
LEMMA CrashKeepsReceiptInv == ASSUME IInv, ReceiptInv, Crash PROVE ReceiptInv'
<1>1. ASSUME NEW t \in Tx, Submitted(file[t]) PROVE Submitted(jobs[t])
  <2>1. /\ NotBehind(jobs[t], file[t])
        /\ jobs[t].attestation \in Attestations /\ file[t].attestation \in Attestations
    BY DEF IInv, TypeOK, CoreTypeOK, Job, PaymentInv, StoreInv
  <2>2. QED
    BY <1>1, <2>1 DEF NotBehind, Submitted, Progress, Attestations
<1>2. QED
  BY <1>1 DEF Crash, Restart, ReceiptInv, PaidFor

\* Every step keeps the invariant.
LEMMA NextKeepsReceiptInv == IInv /\ ReceiptInv /\ [Next]_vars => ReceiptInv'
<1> SUFFICES ASSUME IInv, ReceiptInv, [Next]_vars PROVE ReceiptInv'
  OBVIOUS
<1>1. ASSUME NEW t \in Tx,
             \/ RegisterUserOp(t) \/ ResolveUserOp(t) \/ OpenWindow(t)
             \/ \E i \in DOMAIN flare[t] : Mine(t, i)
      PROVE  ReceiptInv'
  <2>1. UNCHANGED <<jobs, file, pc, fdc>>
    BY <1>1 DEF RegisterUserOp, ResolveUserOp, OpenWindow, Mine, Mined, storeVars
  <2>2. QED
    BY <2>1 DEF ReceiptInv, PaidFor
<1>2. ASSUME NEW t \in Tx, ResumePending(t) PROVE ReceiptInv'
  BY <1>2, QuietKeepsReceiptInv DEF ResumePending, Goto, storeVars
<1>3. CASE UNCHANGED vars
  BY <1>3 DEF vars, storeVars, ReceiptInv, PaidFor
<1>4. QED
  BY <1>1, <1>2, <1>3, StepKeepsReceiptInv, ObserveKeepsReceiptInv, CrashKeepsReceiptInv DEF Next

(***************************************************************************)
(* What a receipt says of a mint job is true on the chains: see            *)
(* ReceiptsAreTrue in Receipt.                                             *)
(***************************************************************************)
THEOREM ReceiptsTrue == Spec => []ReceiptsAreTrue
<1>1. Init => ReceiptInv
  BY DEF Init, CoreInit, ReceiptInv, PaidFor, MintStage, NoJob, Submitted, Progress
<1>2. IInv /\ ReceiptInv => ReceiptsAreTrue
  <2> SUFFICES ASSUME IInv, ReceiptInv, NEW t \in Tx,
                      NEW reachable \in BOOLEAN, NEW late \in BOOLEAN, NEW rejected \in BOOLEAN
               PROVE  LET job == jobs[t]
                          diagnosis == Diagnosis(job, reachable, late, rejected)
                      IN  /\ Complete(job, diagnosis) => RanOnChain(t, job)
                          /\ FlareLink(job) # 0 => FlareLink(job) \in DOMAIN flare[t]
                          /\ FdcLink(job) => fdc[t] > 0
                          /\ MerkleProofStatus(job, rejected) = "available" => job.proof
                          /\ diagnosis.severity = "info" =>
                               \/ Pending(job) \/ RanOnChain(t, job)
                               \/ job.stage = "failed" /\ job.lastError = "delayed"
    BY DEF ReceiptsAreTrue
  <2> DEFINE job == jobs[t]
             diagnosis == Diagnosis(job, reachable, late, rejected)
  <2>1. job \in Job /\ Sound(job, flare[t], recorded[t]) /\ MintStage(job)
    BY DEF IInv, TypeOK, CoreTypeOK, PaymentInv, StoreInv, ReceiptInv
  <2>2. job.stage = "minted" => RanOnChain(t, job)
    BY <2>1 DEF Sound, Backed, KnownHashes, RanOnChain
  <2>3. Phase(job) = "complete" => job.stage = "minted"
    BY <2>1 DEF Phase, MintStage
  <2>4. Complete(job, diagnosis) => job.stage = "minted"
    BY <2>3 DEF Complete, Listed, Diagnosis
  <2>5. FlareLink(job) # 0 => FlareLink(job) \in DOMAIN flare[t]
    BY <2>1 DEF FlareLink, Sound, KnownHashes
  <2>6. FdcLink(job) => fdc[t] > 0
    BY DEF FdcLink, ReceiptInv, PaidFor
  <2>7. MerkleProofStatus(job, rejected) = "available" => job.proof
    BY <2>1 DEF MerkleProofStatus, HasProof, Sound, Backed, MintStage
  <2>8. diagnosis.severity = "info" =>
          \/ Pending(job) \/ job.stage = "minted"
          \/ job.stage = "failed" /\ job.lastError = "delayed"
    BY <2>1 DEF Diagnosis, Stopped, Pending, Terminal, TerminalStages, MintStage
  <2>9. QED
    BY <2>2, <2>4, <2>5, <2>6, <2>7, <2>8
<1>3. IInv /\ ReceiptInv /\ [Next]_vars => ReceiptInv'
  BY NextKeepsReceiptInv
<1>4. QED
  BY <1>1, <1>2, <1>3, Invariance, PTL DEF Spec
=============================================================================
