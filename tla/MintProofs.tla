----------------------------- MODULE MintProofs -----------------------------
(***************************************************************************)
(* Proofs about MintProcessor, for every set of payments and every bound:  *)
(* IInv is inductive, and the safety properties follow from it.            *)
(***************************************************************************)
EXTENDS MintInvariant, TLAPS

(***************************************************************************)
(* A sound job stays sound when the file learns its hash, when another     *)
(* transaction is sent for its payment, and when the chain settles one.    *)
(***************************************************************************)
LEMMA SoundHeld ==
  ASSUME NEW job \in Job, NEW sent \in Seq(Outcomes), NEW held \in SUBSET Nat,
         Sound(job, sent, held)
  PROVE  Sound(job, sent, held \cup ({job.execution} \ {0}))
BY DEF Sound, KnownHashes

\* Sending one more transaction changes the fate of none that was sent before.
LEMMA SoundSent ==
  ASSUME NEW job \in Job, NEW sent \in Seq(Outcomes), NEW held \in SUBSET Nat,
         Sound(job, sent, held)
  PROVE  Sound(job, Append(sent, "pending"), held)
BY DEF Sound, KnownHashes, Outcomes

\* The chain settles a transaction that no sound job depends on being pending.
LEMMA SoundMined ==
  ASSUME NEW job \in Job, NEW sent \in Seq(Outcomes), NEW held \in SUBSET Nat,
         Sound(job, sent, held),
         NEW i \in DOMAIN sent, sent[i] = "pending", NEW outcome \in Outcomes
  PROVE  Sound(job, [sent EXCEPT ![i] = outcome], held)
BY DEF Sound, KnownHashes, Outcomes

(***************************************************************************)
(* A store write of a sound job that loses nothing of the attestation      *)
(* keeps every payment's copies sound, although a successful write also    *)
(* carries the rejected changes of the other payments into the file.       *)
(***************************************************************************)
LEMMA WriteTypes ==
  ASSUME CoreTypeOK, NEW t \in Tx, NEW job \in Job, NEW ok \in BOOLEAN, Write(t, job, ok)
  PROVE  /\ jobs' \in [Tx -> Job]
         /\ file' \in [Tx -> Job]
         /\ faults' \in 0..MaxFaults
         /\ recorded' \in [Tx -> SUBSET Nat]
         /\ requested' \in SUBSET Tx
         /\ jobs'[t] = job
         /\ \A x \in Tx \ {t} : jobs'[x] = jobs[x]
<1>1. /\ jobs' \in [Tx -> Job]
      /\ jobs'[t] = job
      /\ \A x \in Tx \ {t} : jobs'[x] = jobs[x]
  BY DEF CoreTypeOK, Write
<1>2. file' \in [Tx -> Job] /\ requested' \in SUBSET Tx
  BY <1>1 DEF CoreTypeOK, Write
<1>3. faults' \in 0..MaxFaults
  BY CoreAssumption DEF CoreTypeOK, Write
<1>4. recorded' \in [Tx -> SUBSET Nat]
  <2>1. \A x \in Tx : jobs'[x].execution \in Nat
    BY <1>1 DEF Job
  <2>2. QED
    BY <2>1 DEF CoreTypeOK, Write
<1>5. QED
  BY <1>1, <1>2, <1>3, <1>4

(***************************************************************************)
(* What the lemmas below prove of a step: it keeps the invariant and loses *)
(* nothing the file holds of an attestation.                               *)
(***************************************************************************)
FileKept == \A x \in Tx : NotBehind(file'[x], file[x])

SafeStep == IInv' /\ FileKept

\* The progress of an attestation is a number.
LEMMA ProgressNat == \A a \in Attestations : Progress(a) \in Nat
BY DEF Attestations, Progress

\* A write of a sound job keeps StoreInv of every payment, and the file loses nothing.
LEMMA WriteKeepsStore ==
  ASSUME CoreTypeOK, \A x \in Tx : StoreInv(x),
         NEW t \in Tx, NEW job \in Job, NEW ok \in BOOLEAN, Write(t, job, ok),
         UNCHANGED flare,
         Sound(job, flare[t], recorded[t]), NotBehind(job, jobs[t])
  PROVE  (\A x \in Tx : StoreInv(x)') /\ FileKept
<1>1. /\ jobs' \in [Tx -> Job]
      /\ jobs'[t] = job
      /\ \A x \in Tx \ {t} : jobs'[x] = jobs[x]
  BY WriteTypes
<1>2. SUFFICES ASSUME NEW x \in Tx
               PROVE  StoreInv(x)' /\ NotBehind(file'[x], file[x])
  BY DEF FileKept
<1>3. /\ jobs[x] \in Job /\ file[x] \in Job /\ jobs'[x] \in Job
      /\ flare[x] \in Seq(Outcomes)
      /\ recorded[x] \in SUBSET Nat
  BY <1>1 DEF CoreTypeOK
<1>4. Sound(jobs'[x], flare[x], recorded[x])
  BY <1>1 DEF StoreInv
<1>5. NotBehind(jobs'[x], file[x])
  <2>1. NotBehind(jobs[x], file[x])
    BY DEF StoreInv
  <2>2. CASE x = t
    BY <1>1, <1>3, <2>1, <2>2, ProgressNat DEF NotBehind, Job
  <2>3. CASE x # t
    BY <1>1, <2>1, <2>3
  <2>4. QED
    BY <2>2, <2>3
<1>6. CASE ok
  <2>1. /\ file'[x] = jobs'[x]
        /\ recorded'[x] = recorded[x] \cup ({jobs'[x].execution} \ {0})
        /\ requested' = requested \cup {y \in Tx : Submitted(jobs'[y])}
    BY <1>6 DEF Write
  <2>2. Sound(jobs'[x], flare[x], recorded'[x])
    BY <1>3, <1>4, <2>1, SoundHeld
  <2>3. NotBehind(jobs'[x], jobs'[x])
    BY <1>3, ProgressNat DEF NotBehind, Job
  <2>4. x \in requested' => Submitted(jobs'[x])
    <3>1. x \in requested => Submitted(jobs'[x])
      <4>1. x \in requested => Submitted(file[x])
        BY DEF StoreInv
      <4>2. Submitted(file[x]) => Submitted(jobs'[x])
        <5>1. /\ jobs'[x].attestation \in Attestations
              /\ file[x].attestation \in Attestations
              /\ "requested" \in Attestations
          BY <1>3 DEF Job, Attestations
        <5>2. QED
          BY <1>5, <5>1, ProgressNat DEF NotBehind, Submitted
      <4>3. QED
        BY <4>1, <4>2
    <3>2. QED
      BY <2>1, <3>1
  <2>5. QED
    BY <1>5, <2>1, <2>2, <2>3, <2>4 DEF StoreInv
<1>7. CASE ~ok
  <2>1. file' = file /\ recorded' = recorded /\ requested' = requested
    BY <1>7 DEF Write
  <2>2. NotBehind(file[x], file[x])
    BY <1>3, ProgressNat DEF NotBehind, Job
  <2>3. QED
    BY <1>4, <1>5, <2>1, <2>2 DEF StoreInv
<1>8. QED
  BY <1>6, <1>7

\* A step that leaves the file alone loses nothing of it.
LEMMA SameFileKept == ASSUME CoreTypeOK, UNCHANGED file PROVE FileKept
BY ProgressNat DEF FileKept, NotBehind, CoreTypeOK, Job

(***************************************************************************)
(* The four shapes of step: a checkpoint, a call that returns, a call that *)
(* throws, and the failure handler.  Each needs to be told only what       *)
(* process(id) knows at the await it gets to.                              *)
(***************************************************************************)
LEMMA CheckpointKeepsInv ==
  ASSUME IInv, NEW t \in Tx, NEW here, NEW job \in Job,
         NEW next \in Points \ {"failing"}, NEW thrown \in Errors,
         NEW ok \in BOOLEAN, Checkpoint(t, here, job, next, thrown, ok),
         userOp' \in [Tx -> BOOLEAN], UNCHANGED <<resolving, registered, window>>,
         Sound(job, flare[t], recorded[t]), NotBehind(job, jobs[t]),
         AttestedAt(next, job), ExecutionAt(next, job, flare[t]), ActiveAt(next, job),
         FailureAt("failing", thrown, job, flare[t]), ActiveAt("failing", job)
  PROVE  SafeStep
<1>1. CoreTypeOK /\ (\A x \in Tx : StoreInv(x)) /\ Write(t, job, ok) /\ UNCHANGED flare
  BY DEF IInv, TypeOK, PaymentInv, Checkpoint
<1>2. (\A x \in Tx : StoreInv(x)') /\ FileKept
  BY <1>1, WriteKeepsStore
<1>3. /\ jobs' \in [Tx -> Job]
      /\ file' \in [Tx -> Job]
      /\ faults' \in 0..MaxFaults
      /\ recorded' \in [Tx -> SUBSET Nat]
      /\ requested' \in SUBSET Tx
      /\ jobs'[t] = job
      /\ \A x \in Tx \ {t} : jobs'[x] = jobs[x]
  BY <1>1, WriteTypes
<1>4. pc' \in [Tx -> Points] /\ error' \in [Tx -> Errors \cup {"none"}]
  BY <1>1 DEF CoreTypeOK, Checkpoint, Goto, Throw, Points
<1>5. TypeOK'
  BY <1>1, <1>3, <1>4 DEF IInv, TypeOK, CoreTypeOK, Checkpoint
<1>6. ASSUME NEW x \in Tx
      PROVE  Located(pc'[x], error'[x], jobs'[x], flare'[x])
  <2>1. CASE x # t
    <3>1. pc'[x] = pc[x] /\ error'[x] = error[x] /\ jobs'[x] = jobs[x] /\ flare'[x] = flare[x]
      BY <1>1, <1>3, <2>1 DEF CoreTypeOK, Checkpoint, Goto, Throw
    <3>2. QED
      BY <3>1 DEF IInv, PaymentInv
  <2>2. CASE x = t /\ ok
    <3>1. pc'[t] = next
      BY <1>1, <2>2 DEF CoreTypeOK, Checkpoint, Goto
    <3>2. FailureAt(next, error'[t], job, flare[t])
      BY DEF FailureAt
    <3>3. QED
      BY <1>1, <1>3, <2>2, <3>1, <3>2 DEF Located
  <2>3. CASE x = t /\ ~ok
    <3>1. pc'[t] = "failing" /\ error'[t] = thrown
      BY <1>1, <2>3 DEF CoreTypeOK, Checkpoint, Goto, Throw
    <3>2. AttestedAt("failing", job) /\ ExecutionAt("failing", job, flare[t])
      BY DEF AttestedAt, ExecutionAt, BeforeExecution
    <3>3. QED
      BY <1>1, <1>3, <2>3, <3>1, <3>2 DEF Located
  <2>4. QED
    BY <2>1, <2>2, <2>3
<1>7. QED
  BY <1>2, <1>5, <1>6 DEF SafeStep, IInv, PaymentInv

\* checkpoint() of the mint processor, which also sets the local job's user operation.
LEMMA MintCheckpointKeepsInv ==
  ASSUME IInv, NEW t \in Tx, NEW here, NEW job \in Job,
         NEW next \in Points \ {"failing"}, NEW thrown \in Errors,
         MintCheckpoint(t, here, job, next, thrown),
         Sound(job, flare[t], recorded[t]), NotBehind(job, jobs[t]),
         AttestedAt(next, job), ExecutionAt(next, job, flare[t]), ActiveAt(next, job),
         FailureAt("failing", thrown, job, flare[t]), ActiveAt("failing", job)
  PROVE  SafeStep
<1>1. PICK ok \in BOOLEAN :
        /\ Checkpoint(t, here, job, next, thrown, ok)
        /\ userOp' = IF ok THEN [userOp EXCEPT ![t] = next # "idle" /\ job.userOpData]
                           ELSE userOp
  BY DEF MintCheckpoint
<1>2. userOp' \in [Tx -> BOOLEAN]
  <2>1. userOp \in [Tx -> BOOLEAN]
    BY DEF IInv, TypeOK
  <2>2. (next # "idle" /\ job.userOpData) \in BOOLEAN
    OBVIOUS
  <2>3. QED
    BY <1>1, <2>1, <2>2
<1>3. UNCHANGED <<resolving, registered, window>>
  BY DEF MintCheckpoint
<1>4. QED
  BY <1>1, <1>2, <1>3, CheckpointKeepsInv

(***************************************************************************)
(* A step that leaves the store and the transactions alone and moves       *)
(* process(id) from one await to another.                                  *)
(***************************************************************************)
LEMMA MoveKeepsInv ==
  ASSUME IInv, NEW t \in Tx, NEW point \in Points, NEW e \in Errors \cup {"none"},
         pc' = [pc EXCEPT ![t] = point], error' = [error EXCEPT ![t] = e],
         fdc' \in [Tx -> Nat], UNCHANGED <<storeVars, flare, mintVars>>,
         Located(point, e, jobs[t], flare[t])
  PROVE  SafeStep
<1>1. TypeOK'
  BY DEF IInv, TypeOK, CoreTypeOK, storeVars, mintVars
<1>2. ASSUME NEW x \in Tx
      PROVE  PaymentInv(x)'
  <2>1. StoreInv(x)'
    BY DEF IInv, PaymentInv, StoreInv, storeVars
  <2>2. Located(pc[x], error[x], jobs[x], flare[x])'
    BY DEF IInv, PaymentInv, storeVars, TypeOK, CoreTypeOK
  <2>3. QED
    BY <2>1, <2>2 DEF PaymentInv
<1>3. FileKept
  BY SameFileKept DEF IInv, TypeOK, storeVars
<1>4. QED
  BY <1>1, <1>2, <1>3 DEF SafeStep, IInv

\* A call that returns: process(id) knows at `next' what it knew at `here'.
LEMMA ReturnsKeepsInv ==
  ASSUME IInv, NEW t \in Tx, NEW here, NEW next \in Points \ {"failing"},
         Returns(t, here, next),
         AttestedAt(next, jobs[t]), ExecutionAt(next, jobs[t], flare[t]),
         ActiveAt(next, jobs[t])
  PROVE  SafeStep
<1>1. error[t] \in Errors \cup {"none"} /\ error = [error EXCEPT ![t] = error[t]]
  BY DEF IInv, TypeOK, CoreTypeOK
<1>2. fdc \in [Tx -> Nat]
  BY DEF IInv, TypeOK, CoreTypeOK
<1>3. Located(next, error[t], jobs[t], flare[t])
  BY DEF Located, FailureAt
<1>4. QED
  BY <1>1, <1>2, <1>3, MoveKeepsInv DEF Returns, CallReturns, Goto

\* Leaving through the catch block needs only that the error fits the job.
LEMMA FailingLocated ==
  ASSUME IInv, NEW t \in Tx, pc[t] # "idle", NEW e \in Errors,
         FailureAt("failing", e, jobs[t], flare[t])
  PROVE  Located("failing", e, jobs[t], flare[t])
<1>1. ActiveAt("failing", jobs[t])
  BY DEF IInv, PaymentInv, Located, ActiveAt
<1>2. QED
  BY <1>1 DEF Located, AttestedAt, ExecutionAt, BeforeExecution

\* A call that throws one of `errors', each of which fits the job.
LEMMA ThrowsKeepsInv ==
  ASSUME IInv, NEW t \in Tx, NEW here, here # "idle", NEW errors \in SUBSET Errors,
         Throws(t, here, errors),
         \A e \in errors : FailureAt("failing", e, jobs[t], flare[t])
  PROVE  SafeStep
<1>1. PICK e \in errors : Throw(t, e)
  BY DEF Throws, CallThrows
<1>2. Located("failing", e, jobs[t], flare[t])
  BY FailingLocated DEF Throws, CallThrows
<1>3. fdc \in [Tx -> Nat] /\ "failing" \in Points
  BY DEF IInv, TypeOK, CoreTypeOK, Points
<1>4. QED
  BY <1>1, <1>2, <1>3, MoveKeepsInv DEF Throws, CallThrows, Throw, Goto

(***************************************************************************)
(* What IInv says of one payment, spelled out.                             *)
(***************************************************************************)
LEMMA PaymentFacts ==
  ASSUME IInv, NEW t \in Tx
  PROVE  /\ jobs[t] \in Job /\ file[t] \in Job
         /\ flare[t] \in Seq(Outcomes)
         /\ recorded[t] \in SUBSET Nat
         /\ Sound(jobs[t], flare[t], recorded[t])
         /\ AttestedAt(pc[t], jobs[t])
         /\ ExecutionAt(pc[t], jobs[t], flare[t])
         /\ FailureAt(pc[t], error[t], jobs[t], flare[t])
         /\ ActiveAt(pc[t], jobs[t])
BY DEF IInv, TypeOK, CoreTypeOK, PaymentInv, StoreInv, Located

\* The claim: the job's own data decide where process(id) resumes.
LEMMA ClaimKeepsInv == ASSUME IInv, NEW t \in Tx, Claim(t) PROVE SafeStep
<1> DEFINE job == Claimed(jobs[t])
           next == AfterClaim(jobs[t])
<1>1. pc[t] = "claim" /\ MintCheckpoint(t, "claim", job, next, "retryable")
  BY DEF Claim, MintCheckpoint, Checkpoint
<1>2. jobs[t] \in Job /\ Sound(jobs[t], flare[t], recorded[t]) /\ ActiveAt("claim", jobs[t])
  BY <1>1, PaymentFacts
<1>3. /\ job \in Job
      /\ job.execution = jobs[t].execution /\ job.attestation = jobs[t].attestation
      /\ job.proof = jobs[t].proof /\ job.settlement = jobs[t].settlement
      /\ job.attempts = jobs[t].attempts
      /\ job.stage = IF jobs[t].stage = "observed" THEN "confirming" ELSE jobs[t].stage
  BY <1>2 DEF Claimed, Job, Stages, Deadlines
<1>4. Sound(job, flare[t], recorded[t])
  BY <1>2, <1>3 DEF Sound, KnownHashes, Backed, Pending, Terminal, TerminalStages, ActiveAt
<1>5. NotBehind(job, jobs[t])
  BY <1>2, <1>3, ProgressNat DEF NotBehind, Job
<1>6. /\ next \in Points \ {"failing"}
      /\ AttestedAt(next, job)
      /\ ExecutionAt(next, job, flare[t])
  <2>1. ~job.proof => job.execution = 0
    BY <1>3, <1>4 DEF Sound, Backed, Job
  <2>2. CASE jobs[t].proof
    BY <1>3, <2>2 DEF AfterClaim, Execution, Points, AttestedAt, ExecutionAt, BeforeExecution, Job
  <2>3. CASE ~jobs[t].proof
    <3>1. /\ jobs[t].attestation \in {"none", "prepared", "requested", "finalized"}
          /\ job.execution = 0
      BY <1>2, <1>3, <2>1, <2>3 DEF Job, Attestations
    <3>2. /\ jobs[t].attestation = "none" => next = "prepare"
          /\ jobs[t].attestation = "prepared" => next = "request"
          /\ jobs[t].attestation = "requested" => next = "awaitRound"
          /\ jobs[t].attestation = "finalized" => next = "fetchProof"
      BY <2>3 DEF AfterClaim
    <3>3. QED
      BY <1>3, <3>1, <3>2 DEF Points, AttestedAt, ExecutionAt, BeforeExecution
  <2>4. QED
    BY <2>2, <2>3
<1>7. ActiveAt(next, job) /\ ActiveAt("failing", job)
  BY <1>2, <1>3 DEF ActiveAt
<1>8. FailureAt("failing", "retryable", job, flare[t]) /\ "retryable" \in Errors
  BY DEF FailureAt, Errors
<1>9. QED
  BY <1>1, <1>3, <1>4, <1>5, <1>6, <1>7, <1>8, MintCheckpointKeepsInv

\* prepareRequest: nothing is stored before its callback.
LEMMA PrepareRequestKeepsInv == ASSUME IInv, NEW t \in Tx, PrepareRequest(t) PROVE SafeStep
<1>1. CASE Returns(t, "prepare", "prepared")
  <2>1. pc[t] = "prepare" /\ "prepared" \in Points \ {"failing"}
    BY <1>1 DEF Returns, CallReturns, Points
  <2>2. /\ AttestedAt("prepared", jobs[t])
        /\ ExecutionAt("prepared", jobs[t], flare[t])
        /\ ActiveAt("prepared", jobs[t])
    BY <2>1, PaymentFacts DEF AttestedAt, ExecutionAt, ActiveAt, BeforeExecution
  <2>3. QED
    BY <1>1, <2>1, <2>2, ReturnsKeepsInv
<1>2. CASE Throws(t, "prepare", {"retryable", "permanent"})
  <2>1. pc[t] = "prepare" /\ {"retryable", "permanent"} \subseteq Errors
    BY <1>2 DEF Throws, CallThrows, Errors
  <2>2. jobs[t].execution = 0
    BY <2>1, PaymentFacts DEF ExecutionAt, BeforeExecution
  <2>3. \A e \in {"retryable", "permanent"} : FailureAt("failing", e, jobs[t], flare[t])
    BY <2>2 DEF FailureAt
  <2>4. QED
    BY <1>2, <2>1, <2>3, ThrowsKeepsInv
<1>3. QED
  BY <1>1, <1>2 DEF PrepareRequest

\* onPrepared: the attestation goes from none to prepared.
LEMMA OnPreparedKeepsInv == ASSUME IInv, NEW t \in Tx, OnPrepared(t) PROVE SafeStep
<1> DEFINE job == [jobs[t] EXCEPT !.stage = "confirming", !.attestation = "prepared"]
<1>1. pc[t] = "prepared" /\ MintCheckpoint(t, "prepared", job, "request", "retryable")
  BY DEF OnPrepared, MintCheckpoint, Checkpoint
<1>2. /\ jobs[t] \in Job /\ Sound(jobs[t], flare[t], recorded[t])
      /\ AttestedAt("prepared", jobs[t]) /\ ActiveAt("prepared", jobs[t])
      /\ jobs[t].execution = 0
  BY <1>1, PaymentFacts DEF ExecutionAt, BeforeExecution
<1>3. /\ job \in Job /\ job.stage = "confirming"
      /\ job.attestation = "prepared" /\ job.proof = jobs[t].proof
      /\ job.execution = jobs[t].execution /\ job.settlement = jobs[t].settlement
      /\ job.attempts = jobs[t].attempts /\ job.attempts \in Nat
  BY <1>2 DEF Job, Stages, Attestations
<1>4. Sound(job, flare[t], recorded[t])
  BY <1>2, <1>3, CoreAssumption
  DEF Sound, KnownHashes, Backed, Pending, Terminal, TerminalStages, ActiveAt
<1>5. NotBehind(job, jobs[t])
  BY <1>2, <1>3, ProgressNat DEF NotBehind, Job, AttestedAt, Progress
<1>6. /\ "request" \in Points \ {"failing"}
      /\ AttestedAt("request", job) /\ ExecutionAt("request", job, flare[t])
      /\ ActiveAt("request", job) /\ ActiveAt("failing", job)
  BY <1>2, <1>3 DEF Points, AttestedAt, ExecutionAt, ActiveAt, BeforeExecution, Job
<1>7. FailureAt("failing", "retryable", job, flare[t]) /\ "retryable" \in Errors
  BY DEF FailureAt, Errors
<1>8. QED
  BY <1>1, <1>3, <1>4, <1>5, <1>6, <1>7, MintCheckpointKeepsInv

\* submitRequest: an FDC request is sent, the job still being `prepared'.
LEMMA SubmitRequestKeepsInv == ASSUME IInv, NEW t \in Tx, SubmitRequest(t) PROVE SafeStep
<1>1. pc[t] = "request" /\ UNCHANGED <<storeVars, flare, mintVars>>
  BY DEF SubmitRequest, RequestAttestation
<1>2. fdc \in [Tx -> Nat] /\ fdc' \in [Tx -> Nat]
  <2>1. fdc \in [Tx -> Nat] /\ fdc[t] + 1 \in Nat
    BY DEF IInv, TypeOK, CoreTypeOK
  <2>2. fdc' = fdc \/ fdc' = [fdc EXCEPT ![t] = fdc[t] + 1]
    BY DEF SubmitRequest, RequestAttestation
  <2>3. QED
    BY <2>1, <2>2
<1>3. jobs[t].execution = 0
  BY <1>1, PaymentFacts DEF ExecutionAt, BeforeExecution
<1>4. CASE Goto(t, "requested") /\ UNCHANGED error
  <2>1. error[t] \in Errors \cup {"none"} /\ error = [error EXCEPT ![t] = error[t]]
    BY DEF IInv, TypeOK, CoreTypeOK
  <2>2. Located("requested", error[t], jobs[t], flare[t])
    BY <1>1, PaymentFacts DEF Located, AttestedAt, ExecutionAt, FailureAt, ActiveAt, BeforeExecution
  <2>3. QED
    BY <1>1, <1>2, <1>4, <2>1, <2>2, MoveKeepsInv DEF Goto, Points
<1>5. CASE Throw(t, "retryable")
  <2>1. Located("failing", "retryable", jobs[t], flare[t])
    BY <1>1, FailingLocated DEF FailureAt, Errors
  <2>2. QED
    BY <1>1, <1>2, <1>5, <2>1, MoveKeepsInv DEF Throw, Goto, Points, Errors
<1>6. QED
  BY <1>4, <1>5 DEF SubmitRequest, RequestAttestation

\* onAttestationRequested: the attestation goes from prepared to requested.
LEMMA OnAttestationRequestedKeepsInv == ASSUME IInv, NEW t \in Tx, OnAttestationRequested(t) PROVE SafeStep
<1> DEFINE job == [jobs[t] EXCEPT !.stage = "attestation_requested", !.attestation = "requested"]
<1>1. pc[t] = "requested" /\ MintCheckpoint(t, "requested", job, "awaitRound", "retryable")
  BY DEF OnAttestationRequested, MintCheckpoint, Checkpoint
<1>2. /\ jobs[t] \in Job /\ Sound(jobs[t], flare[t], recorded[t])
      /\ AttestedAt("requested", jobs[t]) /\ ActiveAt("requested", jobs[t])
      /\ jobs[t].execution = 0
  BY <1>1, PaymentFacts DEF ExecutionAt, BeforeExecution
<1>3. /\ job \in Job /\ job.stage = "attestation_requested"
      /\ job.attestation = "requested" /\ job.proof = jobs[t].proof
      /\ job.execution = jobs[t].execution /\ job.settlement = jobs[t].settlement
      /\ job.attempts = jobs[t].attempts /\ job.attempts \in Nat
  BY <1>2 DEF Job, Stages, Attestations
<1>4. Sound(job, flare[t], recorded[t])
  BY <1>2, <1>3, CoreAssumption
  DEF Sound, KnownHashes, Backed, Pending, Terminal, TerminalStages, ActiveAt
<1>5. NotBehind(job, jobs[t])
  BY <1>2, <1>3, ProgressNat DEF NotBehind, Job, AttestedAt, Progress
<1>6. /\ "awaitRound" \in Points \ {"failing"}
      /\ AttestedAt("awaitRound", job) /\ ExecutionAt("awaitRound", job, flare[t])
      /\ ActiveAt("awaitRound", job) /\ ActiveAt("failing", job)
  BY <1>2, <1>3 DEF Points, AttestedAt, ExecutionAt, ActiveAt, BeforeExecution, Job
<1>7. FailureAt("failing", "retryable", job, flare[t]) /\ "retryable" \in Errors
  BY DEF FailureAt, Errors
<1>8. QED
  BY <1>1, <1>3, <1>4, <1>5, <1>6, <1>7, MintCheckpointKeepsInv

\* The poll for the voting round changes no job.
LEMMA IsFinalizedKeepsInv == ASSUME IInv, NEW t \in Tx, IsFinalized(t) PROVE SafeStep
<1>1. CASE Returns(t, "awaitRound", "roundFinal")
  <2>1. pc[t] = "awaitRound" /\ "roundFinal" \in Points \ {"failing"}
    BY <1>1 DEF Returns, CallReturns, Points
  <2>2. /\ AttestedAt("roundFinal", jobs[t])
        /\ ExecutionAt("roundFinal", jobs[t], flare[t])
        /\ ActiveAt("roundFinal", jobs[t])
    BY <2>1, PaymentFacts DEF AttestedAt, ExecutionAt, ActiveAt, BeforeExecution
  <2>3. QED
    BY <1>1, <2>1, <2>2, ReturnsKeepsInv
<1>2. CASE Throws(t, "awaitRound", {"retryable"})
  <2>1. pc[t] = "awaitRound" /\ {"retryable"} \subseteq Errors
    BY <1>2 DEF Throws, CallThrows, Errors
  <2>2. jobs[t].execution = 0
    BY <2>1, PaymentFacts DEF ExecutionAt, BeforeExecution
  <2>3. \A e \in {"retryable"} : FailureAt("failing", e, jobs[t], flare[t])
    BY <2>2 DEF FailureAt
  <2>4. QED
    BY <1>2, <2>1, <2>3, ThrowsKeepsInv
<1>3. QED
  BY <1>1, <1>2 DEF IsFinalized

\* onFinalized: the attestation goes from requested to finalized.
LEMMA OnFinalizedKeepsInv == ASSUME IInv, NEW t \in Tx, OnFinalized(t) PROVE SafeStep
<1> DEFINE job == [jobs[t] EXCEPT !.stage = "finalized", !.attestation = "finalized"]
<1>1. pc[t] = "roundFinal" /\ MintCheckpoint(t, "roundFinal", job, "fetchProof", "retryable")
  BY DEF OnFinalized, MintCheckpoint, Checkpoint
<1>2. /\ jobs[t] \in Job /\ Sound(jobs[t], flare[t], recorded[t])
      /\ AttestedAt("roundFinal", jobs[t]) /\ ActiveAt("roundFinal", jobs[t])
      /\ jobs[t].execution = 0
  BY <1>1, PaymentFacts DEF ExecutionAt, BeforeExecution
<1>3. /\ job \in Job /\ job.stage = "finalized"
      /\ job.attestation = "finalized" /\ job.proof = jobs[t].proof
      /\ job.execution = jobs[t].execution /\ job.settlement = jobs[t].settlement
      /\ job.attempts = jobs[t].attempts /\ job.attempts \in Nat
  BY <1>2 DEF Job, Stages, Attestations
<1>4. Sound(job, flare[t], recorded[t])
  BY <1>2, <1>3, CoreAssumption
  DEF Sound, KnownHashes, Backed, Pending, Terminal, TerminalStages, ActiveAt
<1>5. NotBehind(job, jobs[t])
  BY <1>2, <1>3, ProgressNat DEF NotBehind, Job, AttestedAt, Progress
<1>6. /\ "fetchProof" \in Points \ {"failing"}
      /\ AttestedAt("fetchProof", job) /\ ExecutionAt("fetchProof", job, flare[t])
      /\ ActiveAt("fetchProof", job) /\ ActiveAt("failing", job)
  BY <1>2, <1>3 DEF Points, AttestedAt, ExecutionAt, ActiveAt, BeforeExecution, Job
<1>7. FailureAt("failing", "retryable", job, flare[t]) /\ "retryable" \in Errors
  BY DEF FailureAt, Errors
<1>8. QED
  BY <1>1, <1>3, <1>4, <1>5, <1>6, <1>7, MintCheckpointKeepsInv

\* The poll of the DA layer changes no job.
LEMMA RetrieveProofKeepsInv == ASSUME IInv, NEW t \in Tx, RetrieveProof(t) PROVE SafeStep
<1>1. CASE Returns(t, "fetchProof", "proofFetched")
  <2>1. pc[t] = "fetchProof" /\ "proofFetched" \in Points \ {"failing"}
    BY <1>1 DEF Returns, CallReturns, Points
  <2>2. /\ AttestedAt("proofFetched", jobs[t])
        /\ ExecutionAt("proofFetched", jobs[t], flare[t])
        /\ ActiveAt("proofFetched", jobs[t])
    BY <2>1, PaymentFacts DEF AttestedAt, ExecutionAt, ActiveAt, BeforeExecution
  <2>3. QED
    BY <1>1, <2>1, <2>2, ReturnsKeepsInv
<1>2. CASE Throws(t, "fetchProof", {"retryable", "permanent"})
  <2>1. pc[t] = "fetchProof" /\ {"retryable", "permanent"} \subseteq Errors
    BY <1>2 DEF Throws, CallThrows, Errors
  <2>2. jobs[t].execution = 0
    BY <2>1, PaymentFacts DEF ExecutionAt, BeforeExecution
  <2>3. \A e \in {"retryable", "permanent"} : FailureAt("failing", e, jobs[t], flare[t])
    BY <2>2 DEF FailureAt
  <2>4. QED
    BY <1>2, <2>1, <2>3, ThrowsKeepsInv
<1>3. QED
  BY <1>1, <1>2 DEF RetrieveProof

\* onProofFetched: the proof is stored before anything is executed.
LEMMA OnProofFetchedKeepsInv == ASSUME IInv, NEW t \in Tx, OnProofFetched(t) PROVE SafeStep
<1> DEFINE job == [jobs[t] EXCEPT !.stage = "proof_fetched", !.proof = TRUE]
<1>1. pc[t] = "proofFetched" /\ MintCheckpoint(t, "proofFetched", job, Execution(jobs[t]), "retryable")
  BY DEF OnProofFetched, MintCheckpoint, Checkpoint
<1>2. /\ jobs[t] \in Job /\ Sound(jobs[t], flare[t], recorded[t])
      /\ AttestedAt("proofFetched", jobs[t]) /\ ActiveAt("proofFetched", jobs[t])
      /\ jobs[t].execution = 0
  BY <1>1, PaymentFacts DEF ExecutionAt, BeforeExecution
<1>3. /\ job \in Job /\ job.stage = "proof_fetched"
      /\ job.attestation = jobs[t].attestation /\ job.proof = TRUE
      /\ job.execution = jobs[t].execution /\ job.settlement = jobs[t].settlement
      /\ job.attempts = jobs[t].attempts /\ job.attempts \in Nat
  BY <1>2 DEF Job, Stages, Attestations
<1>4. Sound(job, flare[t], recorded[t])
  BY <1>2, <1>3, CoreAssumption
  DEF Sound, KnownHashes, Backed, Pending, Terminal, TerminalStages, ActiveAt
<1>5. NotBehind(job, jobs[t])
  BY <1>2, <1>3, ProgressNat DEF NotBehind, Job, AttestedAt, Progress
<1>6. /\ Execution(jobs[t]) \in Points \ {"failing"}
      /\ AttestedAt(Execution(jobs[t]), job) /\ ExecutionAt(Execution(jobs[t]), job, flare[t])
      /\ ActiveAt(Execution(jobs[t]), job) /\ ActiveAt("failing", job)
  BY <1>2, <1>3 DEF Points, AttestedAt, ExecutionAt, ActiveAt, BeforeExecution, Job, Execution
<1>7. FailureAt("failing", "retryable", job, flare[t]) /\ "retryable" \in Errors
  BY DEF FailureAt, Errors
<1>8. QED
  BY <1>1, <1>3, <1>4, <1>5, <1>6, <1>7, MintCheckpointKeepsInv

\* The simulation changes no job; only a job without execution gets to it.
LEMMA SimulateKeepsInv == ASSUME IInv, NEW t \in Tx, Simulate(t) PROVE SafeStep
<1>1. CASE Returns(t, "simulate", "send")
  <2>1. pc[t] = "simulate" /\ "send" \in Points \ {"failing"}
    BY <1>1 DEF Returns, CallReturns, Points
  <2>2. /\ AttestedAt("send", jobs[t])
        /\ ExecutionAt("send", jobs[t], flare[t])
        /\ ActiveAt("send", jobs[t])
    BY <2>1, PaymentFacts DEF AttestedAt, ExecutionAt, ActiveAt, BeforeExecution
  <2>3. QED
    BY <1>1, <2>1, <2>2, ReturnsKeepsInv
<1>2. CASE Throws(t, "simulate", {"retryable", "permanent"})
  <2>1. pc[t] = "simulate" /\ {"retryable", "permanent"} \subseteq Errors
    BY <1>2 DEF Throws, CallThrows, Errors
  <2>2. jobs[t].execution = 0
    BY <2>1, PaymentFacts DEF ExecutionAt, BeforeExecution
  <2>3. \A e \in {"retryable", "permanent"} : FailureAt("failing", e, jobs[t], flare[t])
    BY <2>2 DEF FailureAt
  <2>4. QED
    BY <1>2, <2>1, <2>3, ThrowsKeepsInv
<1>3. QED
  BY <1>1, <1>2 DEF Simulate

\* A transaction is sent: its job has no execution, so every hash held is delayed.
LEMMA SubmitKeepsInv == ASSUME IInv, NEW t \in Tx, Submit(t) PROVE SafeStep
<1>1. pc[t] = "send" /\ UNCHANGED <<storeVars, fdc, mintVars>>
  BY DEF Submit, SendTransaction
<1>2. /\ flare \in [Tx -> Seq(Outcomes)] /\ fdc \in [Tx -> Nat]
      /\ pc \in [Tx -> Points] /\ error \in [Tx -> Errors \cup {"none"}]
  BY DEF IInv, TypeOK, CoreTypeOK
<1>3. jobs[t].execution = 0
  BY <1>1, PaymentFacts DEF ExecutionAt, BeforeExecution
<1>4. CASE UNCHANGED flare /\ Throw(t, "retryable")
  <2>1. Located("failing", "retryable", jobs[t], flare[t])
    BY <1>1, FailingLocated DEF FailureAt, Errors
  <2>2. QED
    BY <1>1, <1>2, <1>4, <2>1, MoveKeepsInv DEF Throw, Goto, Points, Errors
<1>5. CASE Sent(t) /\ ((Goto(t, "sent") /\ UNCHANGED error) \/ Throw(t, "retryable"))
  <2>1. /\ Append(flare[t], "pending") \in Seq(Outcomes)
        /\ Append(flare[t], "pending") # <<>>
    <3>1. flare[t] \in Seq(Outcomes) /\ "pending" \in Outcomes
      BY <1>2 DEF Outcomes
    <3>2. Append(flare[t], "pending") \in Seq(Outcomes)
      BY <3>1
    <3>3. Len(Append(flare[t], "pending")) = Len(flare[t]) + 1 /\ Len(flare[t]) \in Nat
      BY <3>1
    <3>4. QED
      BY <3>2, <3>3
  <2>2. /\ flare' \in [Tx -> Seq(Outcomes)]
        /\ flare'[t] = Append(flare[t], "pending")
        /\ \A x \in Tx \ {t} : flare'[x] = flare[x]
    BY <1>2, <1>5, <2>1 DEF Sent
  <2>3. /\ pc' \in [Tx -> Points] /\ error' \in [Tx -> Errors \cup {"none"}]
        /\ \A x \in Tx \ {t} : pc'[x] = pc[x] /\ error'[x] = error[x]
        /\ pc'[t] = "sent" \/ (pc'[t] = "failing" /\ error'[t] = "retryable")
    BY <1>2, <1>5 DEF Goto, Throw, Points, Errors
  <2>4. TypeOK'
    BY <1>1, <2>2, <2>3 DEF IInv, TypeOK, CoreTypeOK, storeVars, mintVars
  <2>5. ASSUME NEW x \in Tx
        PROVE  StoreInv(x)'
    <3>1. /\ Sound(jobs[x], flare'[x], recorded[x])
          /\ Sound(file[x], flare'[x], recorded[x])
      <4>1. StoreInv(x)
        BY DEF IInv, PaymentInv
      <4>2. CASE x = t
        BY <2>2, <4>1, <4>2, PaymentFacts, SoundSent DEF StoreInv
      <4>3. CASE x # t
        BY <2>2, <4>1, <4>3 DEF StoreInv
      <4>4. QED
        BY <4>2, <4>3
    <3>2. QED
      BY <1>1, <3>1 DEF IInv, PaymentInv, StoreInv, storeVars
  <2>6. ASSUME NEW x \in Tx
        PROVE  Located(pc'[x], error'[x], jobs'[x], flare'[x])
    <3>1. jobs' = jobs
      BY <1>1 DEF storeVars
    <3>2. CASE x = t
      <4>1. ActiveAt("send", jobs[t])
        BY <1>1, PaymentFacts
      <4>2. CASE pc'[t] = "sent"
        BY <1>3, <2>1, <2>2, <3>1, <3>2, <4>1, <4>2
        DEF Located, AttestedAt, ExecutionAt, FailureAt, ActiveAt
      <4>3. CASE pc'[t] = "failing" /\ error'[t] = "retryable"
        BY <3>1, <3>2, <4>1, <4>3
        DEF Located, AttestedAt, ExecutionAt, FailureAt, ActiveAt, BeforeExecution
      <4>4. QED
        BY <2>3, <4>2, <4>3
    <3>3. CASE x # t
      BY <2>2, <2>3, <3>1, <3>3 DEF IInv, PaymentInv
    <3>4. QED
      BY <3>2, <3>3
  <2>7. FileKept
    BY <1>1, SameFileKept DEF IInv, TypeOK, storeVars
  <2>8. QED
    BY <2>4, <2>5, <2>6, <2>7 DEF SafeStep, IInv, PaymentInv
<1>6. QED
  BY <1>4, <1>5 DEF Submit, SendTransaction

\* onSubmitted: the hash is stored, or thrown on as CHECKPOINT_FAILED.
LEMMA OnSubmittedKeepsInv == ASSUME IInv, NEW t \in Tx, OnSubmitted(t) PROVE SafeStep
<1> DEFINE job == [jobs[t] EXCEPT !.stage = "execution_submitted", !.proof = TRUE,
                                  !.execution = Len(flare[t])]
<1>1. pc[t] = "sent" /\ MintCheckpoint(t, "sent", job, "receipt", "checkpointFailed")
  BY DEF OnSubmitted, MintCheckpoint, Checkpoint
<1>2. /\ jobs[t] \in Job /\ Sound(jobs[t], flare[t], recorded[t])
      /\ ActiveAt("sent", jobs[t])
      /\ jobs[t].execution = 0 /\ flare[t] \in Seq(Outcomes) /\ flare[t] # <<>>
      /\ recorded[t] \in SUBSET Nat
  BY <1>1, PaymentFacts DEF ExecutionAt, BeforeExecution
<1>3. Len(flare[t]) \in Nat \ {0} /\ DOMAIN flare[t] = 1..Len(flare[t])
  BY <1>2
<1>4. /\ job \in Job /\ job.stage = "execution_submitted"
      /\ job.attestation = jobs[t].attestation /\ job.proof = TRUE
      /\ job.execution = Len(flare[t]) /\ job.settlement = jobs[t].settlement
      /\ job.attempts = jobs[t].attempts /\ job.attempts \in Nat
  BY <1>2, <1>3 DEF Job, Stages
<1>5. job.attempts < MaxAttempts
  BY <1>2, <1>4, CoreAssumption DEF ActiveAt
<1>6. Sound(job, flare[t], recorded[t])
  <2>1. ~job.settlement
    BY <1>2, <1>4 DEF Sound
  <2>2. Backed(job)
    BY <1>3, <1>4, <2>1 DEF Backed
  <2>3. KnownHashes(job, recorded[t]) \subseteq DOMAIN flare[t]
    BY <1>2, <1>3, <1>4 DEF Sound, KnownHashes
  <2>4. \A i \in recorded[t] : flare[t][i] = "delayed"
    BY <1>2, <1>3 DEF Sound, KnownHashes
  <2>5. QED
    BY <1>4, <1>5, <2>1, <2>2, <2>3, <2>4, CoreAssumption DEF Sound
<1>7. NotBehind(job, jobs[t])
  BY <1>2, <1>4, ProgressNat DEF NotBehind, Job
<1>8. /\ "receipt" \in Points \ {"failing"} /\ "checkpointFailed" \in Errors
      /\ AttestedAt("receipt", job) /\ ExecutionAt("receipt", job, flare[t])
      /\ ActiveAt("receipt", job) /\ ActiveAt("failing", job)
      /\ FailureAt("failing", "checkpointFailed", job, flare[t])
  BY <1>3, <1>4, <1>5, CoreAssumption
  DEF Points, Errors, AttestedAt, ExecutionAt, ActiveAt, FailureAt, BeforeExecution
<1>9. QED
  BY <1>1, <1>4, <1>6, <1>7, <1>8, MintCheckpointKeepsInv

\* The receipt decides between the settlement and the three kinds of error.
LEMMA WaitForReceiptKeepsInv == ASSUME IInv, NEW t \in Tx, WaitForReceipt(t) PROVE SafeStep
<1> DEFINE outcome == flare[t][jobs[t].execution]
<1>1. pc[t] = "receipt" /\ jobs[t].execution # 0 /\ ActiveAt("receipt", jobs[t])
  <2>1. pc[t] = "receipt"
    BY DEF WaitForReceipt
  <2>2. QED
    BY <2>1, PaymentFacts DEF ExecutionAt
<1>2. CASE outcome = "executed" /\ Returns(t, "receipt", "settled")
  <2>1. /\ "settled" \in Points \ {"failing"}
        /\ AttestedAt("settled", jobs[t])
        /\ ExecutionAt("settled", jobs[t], flare[t])
        /\ ActiveAt("settled", jobs[t])
    BY <1>1, <1>2 DEF Points, AttestedAt, ExecutionAt, ActiveAt, BeforeExecution
  <2>2. QED
    BY <1>2, <2>1, ReturnsKeepsInv
<1>3. CASE \E e \in Errors : /\ Throws(t, "receipt", {e})
                              /\ FailureAt("failing", e, jobs[t], flare[t])
  BY <1>3, ThrowsKeepsInv
<1>4. QED
  <2>1. outcome = "delayed" => FailureAt("failing", "delayed", jobs[t], flare[t])
    BY <1>1 DEF FailureAt
  <2>2. outcome = "reverted" => FailureAt("failing", "permanent", jobs[t], flare[t])
    BY <1>1 DEF FailureAt
  <2>3. FailureAt("failing", "retryable", jobs[t], flare[t])
    BY DEF FailureAt
  <2>4. {"retryable", "permanent", "delayed"} \subseteq Errors
    BY DEF Errors
  <2>5. QED
    BY <1>2, <1>3, <2>1, <2>2, <2>3, <2>4 DEF WaitForReceipt

\* The final checkpoint: the transaction the job points at has executed.
LEMMA OnSettledKeepsInv == ASSUME IInv, NEW t \in Tx, OnSettled(t) PROVE SafeStep
<1> DEFINE job == [jobs[t] EXCEPT !.stage = "minted", !.proof = TRUE, !.settlement = TRUE,
                                  !.lastError = "none", !.nextAttemptAt = "none"]
<1>1. pc[t] = "settled" /\ MintCheckpoint(t, "settled", job, "idle", "retryable")
  BY DEF OnSettled, MintCheckpoint, Checkpoint
<1>2. /\ jobs[t] \in Job /\ Sound(jobs[t], flare[t], recorded[t])
      /\ ActiveAt("settled", jobs[t])
      /\ jobs[t].execution # 0 /\ flare[t][jobs[t].execution] = "executed"
  BY <1>1, PaymentFacts DEF ExecutionAt
<1>3. /\ job \in Job /\ job.stage = "minted"
      /\ job.attestation = jobs[t].attestation /\ job.proof = TRUE
      /\ job.execution = jobs[t].execution /\ job.settlement = TRUE
      /\ job.attempts = jobs[t].attempts /\ job.attempts \in Nat
  BY <1>2 DEF Job, Stages, Deadlines
<1>4. Sound(job, flare[t], recorded[t])
  <2>1. Backed(job) /\ ~Pending(job)
    BY <1>2, <1>3 DEF Backed, Pending, Terminal, TerminalStages
  <2>2. QED
    BY <1>2, <1>3, <2>1 DEF Sound, KnownHashes
<1>5. NotBehind(job, jobs[t])
  BY <1>2, <1>3, ProgressNat DEF NotBehind, Job
<1>6. /\ "idle" \in Points \ {"failing"} /\ "retryable" \in Errors
      /\ AttestedAt("idle", job) /\ ExecutionAt("idle", job, flare[t])
      /\ ActiveAt("idle", job) /\ ActiveAt("failing", job)
      /\ FailureAt("failing", "retryable", job, flare[t])
  BY <1>2, <1>3
  DEF Points, Errors, AttestedAt, ExecutionAt, ActiveAt, FailureAt, BeforeExecution
<1>7. QED
  BY <1>1, <1>3, <1>4, <1>5, <1>6, MintCheckpointKeepsInv

(***************************************************************************)
(* What the failure handler shared by both processors does to a job.       *)
(***************************************************************************)
LEMMA FailureFacts ==
  ASSUME NEW job \in Job, NEW e \in Errors, NEW max \in Nat
  PROVE  LET failure == Failure(job, e, max)
         IN  /\ failure \in Job
             /\ failure.execution = job.execution /\ failure.attestation = job.attestation
             /\ failure.proof = job.proof /\ failure.settlement = job.settlement
             /\ failure.attempts = job.attempts + 1
             /\ failure.stage = IF e \notin {"retryable", "delayed"} THEN "recovery_required"
                                ELSE IF job.attempts + 1 >= max THEN "failed" ELSE job.stage
<1> DEFINE retryable == e \in {"retryable", "delayed"}
           exhausted == job.attempts + 1 >= max
           stage == IF ~retryable THEN "recovery_required"
                    ELSE IF exhausted THEN "failed" ELSE job.stage
           deadline == IF retryable /\ ~exhausted THEN "backoff" ELSE "none"
<1>1. /\ stage \in Stages /\ deadline \in Deadlines /\ job.attempts + 1 \in Nat
      /\ e \in Errors \cup {"none"}
  BY DEF Job, Stages, Deadlines
<1>2. Failure(job, e, max) = [job EXCEPT !.attempts = job.attempts + 1, !.stage = stage,
                                         !.nextAttemptAt = deadline, !.lastError = e]
  BY DEF Failure
<1>3. stage = IF e \notin {"retryable", "delayed"} THEN "recovery_required"
              ELSE IF job.attempts + 1 >= max THEN "failed" ELSE job.stage
  OBVIOUS
<1> HIDE DEF stage, deadline
<1>4. QED
  BY <1>1, <1>2, <1>3 DEF Job

(***************************************************************************)
(* recordFailure leaves a sound job: it forgets only an execution the      *)
(* chain delayed, gives a job up for manual recovery only when its known   *)
(* transactions failed, and reschedules past the limit only to recover.    *)
(***************************************************************************)
LEMMA FailedJobSound ==
  ASSUME IInv, NEW t \in Tx, pc[t] = "failing"
  PROVE  /\ FailedJob(t, error[t]) \in Job
         /\ Sound(FailedJob(t, error[t]), flare[t], recorded[t])
         /\ NotBehind(FailedJob(t, error[t]), jobs[t])
<1> DEFINE e == error[t]
           old == jobs[t]
           failure == Failure(old, e, MaxAttempts)
           job == FailedJob(t, e)
<1>1. /\ old \in Job /\ Sound(old, flare[t], recorded[t])
      /\ ActiveAt("failing", old) /\ FailureAt("failing", e, old, flare[t])
      /\ recorded[t] \in SUBSET Nat /\ flare[t] \in Seq(Outcomes)
  BY PaymentFacts
<1>2. e \in Errors
  <2>1. e \in Errors \cup {"none"}
    BY DEF IInv, TypeOK, CoreTypeOK
  <2>2. QED
    BY <1>1, <2>1 DEF FailureAt
<1>3. /\ failure \in Job
      /\ failure.execution = old.execution /\ failure.attestation = old.attestation
      /\ failure.proof = old.proof /\ failure.settlement = old.settlement
      /\ failure.attempts = old.attempts + 1
      /\ failure.stage = IF e \notin {"retryable", "delayed"} THEN "recovery_required"
                         ELSE IF old.attempts + 1 >= MaxAttempts THEN "failed" ELSE old.stage
  BY <1>1, <1>2, CoreAssumption, FailureFacts
<1>4. old.attempts \in Nat /\ MaxAttempts \in Nat /\ old.attempts <= MaxAttempts /\ old.stage # "absent"
  BY <1>1, CoreAssumption DEF ActiveAt, Job
<1>5. CASE e = "delayed" /\ failure.stage # "failed"
  <2>1. /\ old.execution # 0 /\ flare[t][old.execution] = "delayed"
        /\ old.attempts + 1 < MaxAttempts
    BY <1>1, <1>3, <1>4, <1>5 DEF FailureAt
  <2>2. old.proof /\ ~old.settlement
    BY <1>1, <2>1 DEF Sound, Backed
  <2>3. job = [failure EXCEPT !.stage = "proof_fetched", !.execution = 0,
                              !.nextAttemptAt = "allowedAt"]
    BY <1>5 DEF FailedJob
  <2>4. /\ job \in Job /\ job.stage = "proof_fetched" /\ job.execution = 0
        /\ job.attestation = old.attestation /\ job.proof = old.proof
        /\ job.settlement = old.settlement /\ job.attempts = old.attempts + 1
    <3>1. /\ "proof_fetched" \in Stages /\ "allowedAt" \in Deadlines /\ failure \in Job
      BY <1>3 DEF Stages, Deadlines
    <3> HIDE DEF failure, job
    <3>2. job \in Job
      BY <2>3, <3>1 DEF Job
    <3>3. /\ job.stage = "proof_fetched" /\ job.execution = 0
          /\ job.attestation = failure.attestation /\ job.proof = failure.proof
          /\ job.settlement = failure.settlement /\ job.attempts = failure.attempts
      BY <2>3, <3>1 DEF Job
    <3>4. QED
      BY <1>3, <3>2, <3>3
  <2>5. Sound(job, flare[t], recorded[t])
    <3>1. Backed(job)
      BY <2>2, <2>4 DEF Backed
    <3>2. KnownHashes(job, recorded[t]) \subseteq DOMAIN flare[t]
      BY <1>1, <2>4 DEF Sound, KnownHashes
    <3>3. \A i \in recorded[t] : flare[t][i] = "delayed"
      BY <1>1, <2>1 DEF Sound
    <3>4. QED
      BY <1>4, <2>1, <2>2, <2>4, <3>1, <3>2, <3>3 DEF Sound
  <2>6. NotBehind(job, old)
    BY <1>1, <2>4, ProgressNat DEF NotBehind, Job
  <2>7. QED
    BY <2>4, <2>5, <2>6
<1>6. CASE e = "checkpointFailed"
  <2>1. /\ old.execution # 0 /\ old.execution = Len(flare[t])
        /\ old.attempts < MaxAttempts
    BY <1>1, <1>6 DEF FailureAt
  <2>2. old.proof
    BY <1>1, <2>1 DEF Sound, Backed
  <2>3. job = [failure EXCEPT !.stage = "execution_submitted",
                              !.execution = Len(flare[t]), !.nextAttemptAt = "backoff"]
    BY <1>6 DEF FailedJob
  <2>4. /\ job \in Job /\ job.stage = "execution_submitted"
        /\ job.execution = old.execution
        /\ job.attestation = old.attestation /\ job.proof = old.proof
        /\ job.settlement = old.settlement /\ job.attempts = old.attempts + 1
    BY <1>1, <1>3, <2>1, <2>3 DEF Job, Stages, Deadlines
  <2>5. Sound(job, flare[t], recorded[t])
    <3>1. Backed(job)
      BY <2>1, <2>2, <2>4 DEF Backed
    <3>2. QED
      BY <1>1, <1>4, <2>1, <2>4, <3>1 DEF Sound, KnownHashes
  <2>6. NotBehind(job, old)
    BY <1>1, <2>4, ProgressNat DEF NotBehind, Job
  <2>7. QED
    BY <2>4, <2>5, <2>6
<1>7. CASE ~(e = "delayed" /\ failure.stage # "failed") /\ e # "checkpointFailed"
  <2>1. job = failure
    BY <1>7 DEF FailedJob
  <2>2. Sound(failure, flare[t], recorded[t])
    <3>1. CASE failure.stage = "recovery_required" /\ e = "permanent"
      <4>1. \A i \in KnownHashes(failure, recorded[t]) : flare[t][i] \in {"delayed", "reverted"}
        BY <1>1, <1>3, <3>1 DEF Sound, KnownHashes, FailureAt
      <4>2. Backed(failure) /\ ~Pending(failure)
        BY <1>1, <1>3, <3>1 DEF Sound, Backed, Pending, Terminal, TerminalStages
      <4>3. QED
        BY <1>1, <1>3, <1>4, <3>1, <4>1, <4>2 DEF Sound, KnownHashes
    <3>2. CASE failure.stage = "failed"
      <4>1. Backed(failure) /\ ~Pending(failure)
        BY <1>1, <1>3, <3>2 DEF Sound, Backed, Pending, Terminal, TerminalStages
      <4>2. QED
        BY <1>1, <1>3, <1>4, <3>2, <4>1 DEF Sound, KnownHashes
    <3>3. CASE failure.stage = old.stage /\ old.attempts + 1 < MaxAttempts
      <4>1. Backed(failure)
        BY <1>1, <1>3, <3>3 DEF Sound, Backed
      <4>2. QED
        BY <1>1, <1>3, <1>4, <3>3, <4>1 DEF Sound, KnownHashes
    <3>4. QED
      BY <1>2, <1>3, <1>4, <1>7, <3>1, <3>2, <3>3 DEF Errors
  <2>3. NotBehind(failure, old)
    BY <1>1, <1>3, ProgressNat DEF NotBehind, Job
  <2>4. QED
    BY <1>3, <2>1, <2>2, <2>3
<1>8. QED
  BY <1>5, <1>6, <1>7

\* The catch block, written or not, leaves a sound job and an idle id.
LEMMA RecordFailureKeepsInv == ASSUME IInv, NEW t \in Tx, RecordFailure(t) PROVE SafeStep
<1> DEFINE job == FailedJob(t, error[t])
<1>1. PICK ok \in BOOLEAN : Fail(t, job, ok)
  BY DEF RecordFailure
<1>2. /\ Write(t, job, ok)
      /\ pc[t] = "failing" /\ pc' = [pc EXCEPT ![t] = "idle"]
      /\ error' = [error EXCEPT ![t] = "none"] /\ UNCHANGED <<fdc, flare>>
      /\ userOp' = [userOp EXCEPT ![t] = FALSE] /\ UNCHANGED <<resolving, registered, window>>
  BY <1>1 DEF Fail, Goto, RecordFailure
<1>3. job \in Job /\ Sound(job, flare[t], recorded[t]) /\ NotBehind(job, jobs[t])
  BY <1>2, FailedJobSound
<1>4. CoreTypeOK /\ \A x \in Tx : StoreInv(x)
  BY DEF IInv, TypeOK, PaymentInv
<1>5. (\A x \in Tx : StoreInv(x)') /\ FileKept
  BY <1>2, <1>3, <1>4, WriteKeepsStore
<1>6. /\ jobs' \in [Tx -> Job] /\ file' \in [Tx -> Job] /\ faults' \in 0..MaxFaults
      /\ recorded' \in [Tx -> SUBSET Nat] /\ requested' \in SUBSET Tx
      /\ \A x \in Tx \ {t} : jobs'[x] = jobs[x]
  BY <1>2, <1>3, <1>4, WriteTypes
<1>7. TypeOK'
  BY <1>2, <1>4, <1>6 DEF IInv, TypeOK, CoreTypeOK, Points
<1>8. ASSUME NEW x \in Tx
      PROVE  Located(pc'[x], error'[x], jobs'[x], flare'[x])
  <2>1. CASE x = t
    <3>1. pc'[x] = "idle"
      BY <1>2, <1>4, <2>1 DEF CoreTypeOK
    <3>2. QED
      BY <3>1 DEF Located, AttestedAt, ExecutionAt, FailureAt, ActiveAt, BeforeExecution
  <2>2. CASE x # t
    <3>1. pc'[x] = pc[x] /\ error'[x] = error[x] /\ jobs'[x] = jobs[x] /\ flare'[x] = flare[x]
      BY <1>2, <1>4, <1>6, <2>2 DEF CoreTypeOK
    <3>2. QED
      BY <3>1 DEF IInv, PaymentInv
  <2>3. QED
    BY <2>1, <2>2
<1>9. QED
  BY <1>5, <1>7, <1>8 DEF SafeStep, IInv, PaymentInv

\* Starting process(id) on a pending job puts it at the claim.
LEMMA ClaimLocated ==
  ASSUME NEW job \in Job, NEW sent \in Seq(Outcomes), NEW held, NEW e,
         Sound(job, sent, held), Pending(job)
  PROVE  Located("claim", e, job, sent)
<1>1. job.attempts \in Nat /\ MaxAttempts \in Nat
  BY CoreAssumption DEF Job
<1>2. ActiveAt("claim", job)
  BY <1>1 DEF ActiveAt, Sound, Pending
<1>3. QED
  BY <1>2 DEF Located, AttestedAt, ExecutionAt, FailureAt, BeforeExecution

\* observe() creates or completes a job, and disturbs nothing else of it.
LEMMA ObservedSound ==
  ASSUME IInv, NEW t \in Tx
  PROVE  /\ Observed(t) \in Job
         /\ Sound(Observed(t), flare[t], recorded[t])
         /\ NotBehind(Observed(t), jobs[t])
         /\ pc[t] # "idle" => /\ Observed(t).attestation = jobs[t].attestation
                              /\ Observed(t).execution = jobs[t].execution
                              /\ Observed(t).attempts = jobs[t].attempts
                              /\ Observed(t).stage = jobs[t].stage
<1> DEFINE found == resolving[t] = "with"
           job == Observed(t)
<1>1. /\ jobs[t] \in Job /\ Sound(jobs[t], flare[t], recorded[t])
      /\ ActiveAt(pc[t], jobs[t]) /\ recorded[t] \in SUBSET Nat
  BY PaymentFacts
<1>2. CASE jobs[t].stage = "absent"
  <2>1. job = NewJob(found) /\ jobs[t] = NoJob /\ pc[t] = "idle"
    BY <1>1, <1>2 DEF Observed, Sound, ActiveAt
  <2>2. /\ job \in Job /\ job.stage = "observed" /\ job.attempts = 0
        /\ job.attestation = "none" /\ job.proof = FALSE /\ job.execution = 0
        /\ job.settlement = FALSE
    <3>1. found \in BOOLEAN
      OBVIOUS
    <3> HIDE DEF found, job
    <3>2. job = [stage |-> "observed", attempts |-> 0, nextAttemptAt |-> "none",
                 attestation |-> "none", proof |-> FALSE, execution |-> 0,
                 settlement |-> FALSE, userOpData |-> found, lastError |-> "none"]
      BY <2>1 DEF NewJob, NoJob
    <3>3. QED
      BY <3>1, <3>2 DEF Job, Stages, Deadlines, Attestations
  <2>3. jobs[t].execution = 0 /\ jobs[t].attestation = "none" /\ jobs[t].proof = FALSE
    BY <2>1 DEF NoJob
  <2>4. Sound(job, flare[t], recorded[t])
    BY <1>1, <2>2, <2>3, CoreAssumption DEF Sound, KnownHashes, Backed
  <2>5. NotBehind(job, jobs[t])
    BY <2>2, <2>3, ProgressNat DEF NotBehind, Attestations
  <2>6. QED
    BY <2>1, <2>2, <2>4, <2>5
<1>3. CASE jobs[t].stage # "absent"
  <2>1. job = [jobs[t] EXCEPT !.userOpData = @ \/ found]
    BY <1>3 DEF Observed
  <2>2. (jobs[t].userOpData \/ found) \in BOOLEAN
    OBVIOUS
  <2> HIDE DEF found, job
  <2>3. /\ job \in Job /\ job.stage = jobs[t].stage /\ job.attempts = jobs[t].attempts
        /\ job.attestation = jobs[t].attestation /\ job.proof = jobs[t].proof
        /\ job.execution = jobs[t].execution /\ job.settlement = jobs[t].settlement
    BY <1>1, <2>1, <2>2 DEF Job
  <2>4. Sound(job, flare[t], recorded[t])
    BY <1>1, <1>3, <2>3 DEF Sound, KnownHashes, Backed, Pending, Terminal
  <2>5. NotBehind(job, jobs[t])
    BY <1>1, <2>3, ProgressNat DEF NotBehind, Job
  <2>6. QED
    BY <2>3, <2>4, <2>5 DEF job
<1>4. QED
  BY <1>2, <1>3

\* observe(), with its write and without it.
LEMMA ObserveKeepsInv == ASSUME IInv, NEW t \in Tx, Observe(t) PROVE SafeStep
<1> DEFINE job == Observed(t)
<1>1. /\ job \in Job /\ Sound(job, flare[t], recorded[t]) /\ NotBehind(job, jobs[t])
  BY ObservedSound
<1>2. CoreTypeOK /\ \A x \in Tx : StoreInv(x)
  BY DEF IInv, TypeOK, PaymentInv
<1>3. UNCHANGED <<error, fdc, flare, userOp, registered, window>>
  BY DEF Observe
<1>4. /\ (\A x \in Tx : StoreInv(x)') /\ FileKept
      /\ jobs' \in [Tx -> Job] /\ file' \in [Tx -> Job] /\ faults' \in 0..MaxFaults
      /\ recorded' \in [Tx -> SUBSET Nat] /\ requested' \in SUBSET Tx
      /\ jobs'[t] = job
      /\ \A x \in Tx \ {t} : jobs'[x] = jobs[x]
      /\ \/ pc' = pc
         \/ pc[t] = "idle" /\ Pending(job) /\ pc' = [pc EXCEPT ![t] = "claim"]
  <2>1. CASE /\ job = jobs[t]
             /\ \E due \in MayBeDue(t, jobs[t]) : Process(t, jobs[t], due)
             /\ UNCHANGED storeVars
    <3>1. pc' = pc \/ (pc[t] = "idle" /\ Pending(job) /\ pc' = [pc EXCEPT ![t] = "claim"])
      BY <2>1 DEF Process, Goto
    <3>2. QED
      BY <1>2, <1>3, <2>1, <3>1, SameFileKept DEF storeVars, CoreTypeOK, StoreInv
  <2>2. CASE \E ok \in BOOLEAN :
               /\ Write(t, job, ok)
               /\ \E due \in MayBeDue(t, job) : Process(t, job, due /\ ok)
    <3>1. PICK ok \in BOOLEAN :
            /\ Write(t, job, ok)
            /\ \E due \in MayBeDue(t, job) : Process(t, job, due /\ ok)
      BY <2>2
    <3>2. pc' = pc \/ (pc[t] = "idle" /\ Pending(job) /\ pc' = [pc EXCEPT ![t] = "claim"])
      BY <3>1 DEF Process, Goto
    <3>3. (\A x \in Tx : StoreInv(x)') /\ FileKept
      BY <1>1, <1>2, <1>3, <3>1, WriteKeepsStore
    <3>4. QED
      BY <1>1, <1>2, <3>1, <3>2, <3>3, WriteTypes
  <2>3. QED
    BY <2>1, <2>2 DEF Observe
<1>5. TypeOK'
  <2>1. pc' \in [Tx -> Points]
    BY <1>2, <1>4 DEF CoreTypeOK, Points
  <2>2. resolving' \in [Tx -> {"none", "without", "with"}]
    BY DEF IInv, TypeOK, Observe
  <2>3. QED
    BY <1>2, <1>3, <1>4, <2>1, <2>2 DEF IInv, TypeOK, CoreTypeOK
<1>6. ASSUME NEW x \in Tx
      PROVE  Located(pc'[x], error'[x], jobs'[x], flare'[x])
  <2>1. Located(pc[x], error[x], jobs[x], flare[x])
    BY DEF IInv, PaymentInv
  <2>2. CASE x # t
    <3>1. pc'[x] = pc[x] /\ jobs'[x] = jobs[x]
      BY <1>2, <1>4, <2>2 DEF CoreTypeOK
    <3>2. QED
      BY <1>3, <2>1, <3>1
  <2>3. CASE x = t /\ pc' = pc
    <3>1. CASE pc[t] = "idle"
      BY <2>3, <3>1 DEF Located, AttestedAt, ExecutionAt, FailureAt, ActiveAt, BeforeExecution
    <3>2. CASE pc[t] # "idle"
      <4>1. /\ job.attestation = jobs[t].attestation /\ job.execution = jobs[t].execution
            /\ job.attempts = jobs[t].attempts /\ job.stage = jobs[t].stage
        BY <3>2, ObservedSound
      <4>2. QED
        BY <1>3, <1>4, <2>1, <2>3, <4>1
        DEF Located, AttestedAt, ExecutionAt, FailureAt, ActiveAt
    <3>3. QED
      BY <3>1, <3>2
  <2>4. CASE x = t /\ pc[t] = "idle" /\ Pending(job) /\ pc' = [pc EXCEPT ![t] = "claim"]
    <3>1. pc'[t] = "claim" /\ flare[t] \in Seq(Outcomes)
      BY <1>2, <2>4 DEF CoreTypeOK
    <3>2. Located("claim", error'[t], job, flare[t])
      BY <1>1, <2>4, <3>1, ClaimLocated
    <3>3. QED
      BY <1>3, <1>4, <2>4, <3>1, <3>2
  <2>5. QED
    BY <1>4, <2>2, <2>3, <2>4
<1>7. QED
  BY <1>4, <1>5, <1>6 DEF SafeStep, IInv, PaymentInv

\* The retry timer starts process(id) on a pending job.
LEMMA ResumePendingKeepsInv == ASSUME IInv, NEW t \in Tx, ResumePending(t) PROVE SafeStep
<1>1. /\ Pending(jobs[t]) /\ Goto(t, "claim")
      /\ UNCHANGED <<storeVars, error, fdc, flare, mintVars>>
  BY DEF ResumePending
<1>2. /\ error[t] \in Errors \cup {"none"} /\ error = [error EXCEPT ![t] = error[t]]
      /\ fdc \in [Tx -> Nat] /\ "claim" \in Points
  BY DEF IInv, TypeOK, CoreTypeOK, Points
<1>3. Located("claim", error[t], jobs[t], flare[t])
  BY <1>1, PaymentFacts, ClaimLocated
<1>4. QED
  BY <1>1, <1>2, <1>3, MoveKeepsInv DEF Goto

(***************************************************************************)
(* The steps that touch only the user operations and the window.           *)
(***************************************************************************)
LEMMA OtherKeepsInv ==
  ASSUME IInv, TypeOK', UNCHANGED <<storeVars, pc, error, flare>>
  PROVE  SafeStep
<1>1. IInv'
  BY DEF IInv, PaymentInv, StoreInv, storeVars
<1>2. FileKept
  BY SameFileKept DEF IInv, TypeOK, storeVars
<1>3. QED
  BY <1>1, <1>2 DEF SafeStep

\* The chain settles a pending transaction: one mint per payment, one delay.
LEMMA MineKeepsInv ==
  ASSUME IInv, NEW t \in Tx, NEW i \in DOMAIN flare[t], Mine(t, i)
  PROVE  SafeStep
<1>1. PICK outcome \in Outcomes : Mined(t, i, outcome)
  BY DEF Mine, Outcomes
<1>2. /\ flare[t][i] = "pending"
      /\ flare' = [flare EXCEPT ![t][i] = outcome]
      /\ UNCHANGED <<storeVars, pc, error, fdc>>
  BY <1>1 DEF Mined
<1>3. flare \in [Tx -> Seq(Outcomes)] /\ flare[t] \in Seq(Outcomes)
  BY DEF IInv, TypeOK, CoreTypeOK
<1> DEFINE sent == [flare[t] EXCEPT ![i] = outcome]
<1>4. /\ sent \in Seq(Outcomes) /\ Len(sent) = Len(flare[t])
      /\ DOMAIN sent = DOMAIN flare[t]
      /\ \A j \in DOMAIN flare[t] : flare[t][j] # "pending" => sent[j] = flare[t][j]
  BY <1>2, <1>3
<1>5. flare'[t] = sent /\ \A x \in Tx \ {t} : flare'[x] = flare[x]
  BY <1>2, <1>3
<1>6. TypeOK'
  <2>1. flare' \in [Tx -> Seq(Outcomes)]
    BY <1>2, <1>3, <1>4
  <2>2. window' \in [Tx -> {"none", "closed", "open"}]
    BY DEF IInv, TypeOK, Mine
  <2>3. QED
    BY <1>2, <2>1, <2>2 DEF IInv, TypeOK, CoreTypeOK, Mine, storeVars
<1>7. ASSUME NEW x \in Tx
      PROVE  StoreInv(x)'
  <2>1. StoreInv(x) /\ jobs[x] \in Job /\ file[x] \in Job /\ recorded[x] \in SUBSET Nat
    BY DEF IInv, TypeOK, CoreTypeOK, PaymentInv
  <2>2. Sound(jobs[x], flare'[x], recorded[x]) /\ Sound(file[x], flare'[x], recorded[x])
    <3>1. CASE x = t
      BY <1>2, <1>3, <1>5, <2>1, <3>1, SoundMined DEF StoreInv
    <3>2. CASE x # t
      BY <1>5, <2>1, <3>2 DEF StoreInv
    <3>3. QED
      BY <3>1, <3>2
  <2>3. QED
    BY <1>2, <2>1, <2>2 DEF StoreInv, storeVars
<1>8. ASSUME NEW x \in Tx
      PROVE  Located(pc'[x], error'[x], jobs'[x], flare'[x])
  <2>1. Located(pc[x], error[x], jobs[x], flare[x])
    BY DEF IInv, PaymentInv
  <2>2. Located(pc[x], error[x], jobs[x], flare'[x])
    <3>1. CASE x = t
      <4>1. jobs[t].execution # 0 => jobs[t].execution \in DOMAIN flare[t]
        BY PaymentFacts DEF Sound, KnownHashes
      <4>2. ExecutionAt(pc[t], jobs[t], sent)
        <5>1. pc[t] = "sent" => sent # <<>>
          BY <1>3, <1>4, <2>1, <3>1 DEF Located, ExecutionAt
        <5>2. QED
          BY <1>4, <2>1, <3>1, <4>1, <5>1 DEF Located, ExecutionAt
      <4>3. FailureAt(pc[t], error[t], jobs[t], sent)
        BY <1>4, <2>1, <3>1, <4>1 DEF Located, FailureAt
      <4>4. QED
        BY <1>5, <2>1, <3>1, <4>2, <4>3 DEF Located
    <3>2. CASE x # t
      BY <1>5, <2>1, <3>2
    <3>3. QED
      BY <3>1, <3>2
  <2>3. QED
    BY <1>2, <2>2 DEF storeVars
<1>9. FileKept
  BY <1>2, SameFileKept DEF IInv, TypeOK, storeVars
<1>10. QED
  BY <1>6, <1>7, <1>8, <1>9 DEF SafeStep, IInv, PaymentInv

(***************************************************************************)
(* A crash loses the map and every call in flight; the file alone is sound.*)
(***************************************************************************)
LEMMA CrashKeepsInv == ASSUME IInv, Crash PROVE SafeStep
<1>1. /\ jobs' = file /\ UNCHANGED <<file, recorded, requested, fdc, flare>>
      /\ pc' = [t \in Tx |-> "idle"] /\ error' = [t \in Tx |-> "none"]
      /\ faults < MaxFaults /\ faults' = faults + 1
      /\ userOp' = [t \in Tx |-> FALSE] /\ resolving' = [t \in Tx |-> "none"]
      /\ UNCHANGED <<registered, window>>
  BY DEF Crash, Restart
<1>2. TypeOK'
  <2>1. faults' \in 0..MaxFaults
    BY <1>1, CoreAssumption DEF IInv, TypeOK, CoreTypeOK
  <2>2. QED
    BY <1>1, <2>1 DEF IInv, TypeOK, CoreTypeOK, Points
<1>3. ASSUME NEW x \in Tx
      PROVE  PaymentInv(x)'
  <2>1. StoreInv(x) /\ file[x] \in Job
    BY DEF IInv, TypeOK, CoreTypeOK, PaymentInv
  <2>2. NotBehind(file[x], file[x])
    BY <2>1, ProgressNat DEF NotBehind, Job
  <2>3. StoreInv(x)'
    BY <1>1, <2>1, <2>2 DEF StoreInv
  <2>4. Located(pc'[x], error'[x], jobs'[x], flare'[x])
    BY <1>1 DEF Located, AttestedAt, ExecutionAt, FailureAt, ActiveAt, BeforeExecution
  <2>5. QED
    BY <2>3, <2>4 DEF PaymentInv
<1>4. FileKept
  BY <1>1, SameFileKept DEF IInv, TypeOK
<1>5. QED
  BY <1>2, <1>3, <1>4 DEF SafeStep, IInv

\* Every await of process(id) keeps the invariant.
LEMMA StepKeepsInv == ASSUME IInv, NEW t \in Tx, Step(t) PROVE SafeStep
BY ClaimKeepsInv, PrepareRequestKeepsInv, OnPreparedKeepsInv, SubmitRequestKeepsInv,
   OnAttestationRequestedKeepsInv, IsFinalizedKeepsInv, OnFinalizedKeepsInv,
   RetrieveProofKeepsInv, OnProofFetchedKeepsInv, SimulateKeepsInv, SubmitKeepsInv,
   OnSubmittedKeepsInv, WaitForReceiptKeepsInv, OnSettledKeepsInv, RecordFailureKeepsInv
   DEF Step

\* The invariant holds of the empty store.
LEMMA InitInv == Init => IInv
<1> SUFFICES ASSUME Init PROVE IInv
  OBVIOUS
<1>1. NoJob \in Job
  BY DEF NoJob, Job, Stages, Deadlines, Attestations
<1>2. TypeOK
  BY <1>1, CoreAssumption DEF Init, CoreInit, TypeOK, CoreTypeOK, Points
<1>3. Sound(NoJob, <<>>, {})
  BY CoreAssumption DEF Sound, NoJob, Backed, KnownHashes, Pending
<1>4. NotBehind(NoJob, NoJob)
  BY <1>1, ProgressNat DEF NotBehind, Job
<1>5. Located("idle", "none", NoJob, <<>>)
  BY DEF Located, AttestedAt, ExecutionAt, FailureAt, ActiveAt, BeforeExecution
<1>6. QED
  BY <1>2, <1>3, <1>4, <1>5 DEF IInv, PaymentInv, StoreInv, Init, CoreInit

\* The invariant is inductive, and no step makes the file lose an attestation.
LEMMA NextKeepsInv == IInv /\ [Next]_vars => SafeStep
<1> SUFFICES ASSUME IInv, [Next]_vars PROVE SafeStep
  OBVIOUS
<1>1. ASSUME NEW t \in Tx, RegisterUserOp(t) \/ ResolveUserOp(t) \/ OpenWindow(t)
      PROVE  SafeStep
  <2>1. TypeOK' /\ UNCHANGED <<storeVars, pc, error, flare>>
    BY <1>1 DEF IInv, TypeOK, CoreTypeOK, RegisterUserOp, ResolveUserOp, OpenWindow,
                storeVars, NeedsUserOpAssumption
  <2>2. QED
    BY <2>1, OtherKeepsInv
<1>2. CASE UNCHANGED vars
  <2>1. TypeOK' /\ UNCHANGED <<storeVars, pc, error, flare>>
    BY <1>2 DEF vars, mintVars, IInv, TypeOK, CoreTypeOK, storeVars
  <2>2. QED
    BY <2>1, OtherKeepsInv
<1>3. QED
  BY <1>1, <1>2, ObserveKeepsInv, ResumePendingKeepsInv, StepKeepsInv, MineKeepsInv,
     CrashKeepsInv DEF Next

(***************************************************************************)
(* Requests and transactions are sent at one await each.                   *)
(***************************************************************************)
LEMMA SentOnlyThere ==
  ASSUME IInv, [Next]_vars, NEW t \in Tx
  PROVE  /\ fdc'[t] # fdc[t] => pc[t] = "request"
         /\ Len(flare'[t]) # Len(flare[t]) => pc[t] = "send"
<1>1. fdc \in [Tx -> Nat] /\ flare \in [Tx -> Seq(Outcomes)]
  BY DEF IInv, TypeOK, CoreTypeOK
<1>2. ASSUME NEW x \in Tx, SubmitRequest(x)
      PROVE  /\ fdc'[t] # fdc[t] => pc[t] = "request"
             /\ flare' = flare
  BY <1>1, <1>2 DEF SubmitRequest, RequestAttestation
<1>3. ASSUME NEW x \in Tx, Submit(x)
      PROVE  /\ Len(flare'[t]) # Len(flare[t]) => pc[t] = "send"
             /\ fdc' = fdc
  BY <1>1, <1>3 DEF Submit, SendTransaction, Sent
<1>4. ASSUME NEW x \in Tx, NEW i \in DOMAIN flare[x], Mine(x, i)
      PROVE  Len(flare'[t]) = Len(flare[t]) /\ fdc' = fdc
  <2>1. PICK outcome \in Outcomes : Mined(x, i, outcome)
    BY <1>4 DEF Mine, Outcomes
  <2>2. fdc' = fdc /\ flare' = [flare EXCEPT ![x][i] = outcome]
    BY <2>1 DEF Mined
  <2>3. Len([flare[x] EXCEPT ![i] = outcome]) = Len(flare[x])
    BY <1>1
  <2>4. QED
    BY <1>1, <2>2, <2>3
<1>5. ASSUME NEW x \in Tx, Step(x), ~SubmitRequest(x), ~Submit(x)
      PROVE  UNCHANGED <<fdc, flare>>
  BY <1>5 DEF Step, Claim, PrepareRequest, OnPrepared, OnAttestationRequested, IsFinalized,
     OnFinalized, RetrieveProof, OnProofFetched, Simulate, OnSubmitted, WaitForReceipt,
     OnSettled, RecordFailure, MintCheckpoint, Checkpoint, Returns, Throws, CallReturns,
     CallThrows, Fail
<1>6. CASE Crash \/ UNCHANGED vars
  BY <1>6 DEF Crash, Restart, vars
<1>7. ASSUME NEW x \in Tx,
             \/ RegisterUserOp(x) \/ ResolveUserOp(x) \/ Observe(x)
             \/ ResumePending(x) \/ OpenWindow(x)
      PROVE  UNCHANGED <<fdc, flare>>
  BY <1>7 DEF RegisterUserOp, ResolveUserOp, Observe, ResumePending, OpenWindow
<1>8. QED
  BY <1>2, <1>3, <1>4, <1>5, <1>6, <1>7 DEF Next

(***************************************************************************)
(* The theorems.                                                           *)
(***************************************************************************)

(***************************************************************************)
(* The inductive invariant holds in every reachable state, whatever crashes*)
(* and failed writes happen.                                               *)
(***************************************************************************)
THEOREM Invariance == Spec => []IInv
<1>1. IInv /\ [Next]_vars => IInv'
  BY NextKeepsInv DEF SafeStep
<1>2. QED
  BY <1>1, InitInv, PTL DEF Spec

(***************************************************************************)
(* Type correctness of the mint processor.                                 *)
(***************************************************************************)
THEOREM TypeCorrect == Spec => []TypeOK
<1>1. IInv => TypeOK
  BY DEF IInv
<1>2. QED
  BY <1>1, Invariance, PTL

(***************************************************************************)
(* Every stage of a stored job is backed by the data of its checkpoint.    *)
(***************************************************************************)
THEOREM StagesBacked == Spec => []StagesAreBacked
<1>1. IInv => StagesAreBacked
  BY DEF IInv, PaymentInv, StoreInv, Sound, StagesAreBacked
<1>2. QED
  BY <1>1, Invariance, PTL

(***************************************************************************)
(* A settlement is only recorded for the transaction that minted.          *)
(***************************************************************************)
THEOREM SettlementsReal == Spec => []SettlementsAreReal
<1>1. IInv => SettlementsAreReal
  BY DEF IInv, PaymentInv, StoreInv, Sound, KnownHashes, SettlementsAreReal, RanOnChain
<1>2. QED
  BY <1>1, Invariance, PTL

(***************************************************************************)
(* A job handed to an operator hides no checkpointed mint.                 *)
(***************************************************************************)
THEOREM RecoveryHonest == Spec => []RecoveryHidesNoMint
<1>1. IInv => RecoveryHidesNoMint
  BY DEF IInv, PaymentInv, StoreInv, Sound, KnownHashes, RecoveryHidesNoMint
<1>2. QED
  BY <1>1, Invariance, PTL

(***************************************************************************)
(* The attempts of a job are bounded, up to one recovery past the limit.   *)
(***************************************************************************)
THEOREM AttemptsBounded == Spec => []AttemptsAreBounded
<1>1. IInv => AttemptsAreBounded
  BY DEF IInv, PaymentInv, StoreInv, Sound, AttemptsAreBounded
<1>2. QED
  BY <1>1, Invariance, PTL

(***************************************************************************)
(* Once the file has held the hash of a Flare transaction, no other one is *)
(* sent for the payment unless the chain delayed the first.                *)
(***************************************************************************)
THEOREM NeverBlindlyResubmits == Spec => NoBlindResubmission
<1>1. IInv /\ [Next]_vars => \A t \in Tx : ~BlindResubmission(t)
  <2> SUFFICES ASSUME IInv, [Next]_vars, NEW t \in Tx,
                      Len(flare'[t]) > Len(flare[t])
               PROVE  \A i \in recorded[t] : flare[t][i] = "delayed"
    BY DEF BlindResubmission
  <2>1. Len(flare[t]) \in Nat
    BY PaymentFacts
  <2>2. Len(flare'[t]) # Len(flare[t])
    BY <2>1
  <2>3. pc[t] = "send"
    BY <2>2, SentOnlyThere
  <2>4. jobs[t].execution = 0
    BY <2>3, PaymentFacts DEF ExecutionAt, BeforeExecution
  <2>5. QED
    BY <2>4, PaymentFacts DEF Sound, KnownHashes
<1>2. QED
  BY <1>1, Invariance, PTL DEF Spec, NoBlindResubmission

(***************************************************************************)
(* What the file holds of the attestation and the proof never regresses,   *)
(* and a checkpointed FDC request is never sent again.                     *)
(***************************************************************************)
THEOREM AttestationKept == Spec => AttestationIsKept
<1>1. IInv /\ [Next]_vars => \A t \in Tx : ~AttestationLost(t) /\ ~RequestRepeated(t)
  <2> SUFFICES ASSUME IInv, [Next]_vars, NEW t \in Tx
               PROVE  ~AttestationLost(t) /\ ~RequestRepeated(t)
    OBVIOUS
  <2>1. ~AttestationLost(t)
    <3>1. NotBehind(file'[t], file[t]) /\ IInv'
      BY NextKeepsInv DEF SafeStep, FileKept
    <3>2. file[t].attestation \in Attestations /\ file'[t].attestation \in Attestations
      BY <3>1 DEF IInv, TypeOK, CoreTypeOK, Job
    <3>3. QED
      BY <3>1, <3>2, ProgressNat DEF AttestationLost, NotBehind
  <2>2. ~RequestRepeated(t)
    <3> SUFFICES ASSUME fdc'[t] > fdc[t], t \in requested PROVE FALSE
      BY DEF RequestRepeated
    <3>1. fdc[t] \in Nat
      BY DEF IInv, TypeOK, CoreTypeOK
    <3>2. fdc'[t] # fdc[t]
      BY <3>1
    <3>3. jobs[t].attestation = "prepared"
      BY <3>2, SentOnlyThere, PaymentFacts DEF AttestedAt
    <3>4. Submitted(file[t]) /\ NotBehind(jobs[t], file[t])
      BY DEF IInv, PaymentInv, StoreInv
    <3>5. file[t].attestation \in Attestations
      BY PaymentFacts DEF Job
    <3>6. QED
      BY <3>3, <3>4, <3>5, ProgressNat DEF Submitted, NotBehind, Progress, Attestations
  <2>3. QED
    BY <2>1, <2>2
<1>2. QED
  BY <1>1, Invariance, PTL DEF Spec, AttestationIsKept
=============================================================================
