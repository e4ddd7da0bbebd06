-------------------------- MODULE InstructionProofs --------------------------
(***************************************************************************)
(* Proofs about InstructionProcessor, for every set of payments and every  *)
(* bound: IInv is inductive, and the safety properties follow from it.     *)
(***************************************************************************)
EXTENDS InstructionInvariant, Receipt, TLAPS

(***************************************************************************)
(* The transactions of a payment are only added to, and what has executed  *)
(* stays executed.                                                         *)
(***************************************************************************)
Grown(sent, before) ==
  /\ Len(before) <= Len(sent)
  /\ \A i \in DOMAIN before : before[i] = "executed" => sent[i] = "executed"

\* A copy of a job stays sound when more is sent and requested for its payment.
LEMMA SoundGrown ==
  ASSUME NEW job \in Job, NEW before \in Seq(Outcomes), NEW sent \in Seq(Outcomes),
         NEW cost \in Nat, NEW spent \in Nat,
         Grown(sent, before), spent <= cost, Sound(job, before, spent)
  PROVE  Sound(job, sent, cost)
<1>1. job.execution \in Nat /\ Len(before) \in Nat /\ Len(sent) \in Nat
  BY DEF Job
<1>2. job.execution <= Len(before) /\ job.execution <= Len(sent)
  BY <1>1 DEF Sound, Grown
<1>3. job.execution # 0 => job.execution \in DOMAIN before
  BY <1>1, <1>2
<1>4. QED
  BY <1>1, <1>2, <1>3 DEF Sound, Grown

\* Nothing is lost by sending nothing.
LEMMA GrownSame == ASSUME NEW sent \in Seq(Outcomes) PROVE Grown(sent, sent)
BY DEF Grown

(***************************************************************************)
(* What a step of the payment t does to the store: nothing, or a write of  *)
(* `job', which may fail.                                                  *)
(***************************************************************************)
StoreStep(t, job) ==
  \/ UNCHANGED storeVars /\ job = jobs[t]
  \/ \E ok \in BOOLEAN : Write(t, job, ok)

\* The types of the store after such a step, and what it leaves alone.
LEMMA StoreStepTypes ==
  ASSUME CoreTypeOK, NEW t \in Tx, NEW job \in Job, StoreStep(t, job)
  PROVE  /\ jobs' \in [Tx -> Job] /\ jobs'[t] = job
         /\ \A x \in Tx \ {t} : jobs'[x] = jobs[x]
         /\ file' \in [Tx -> Job] /\ (file' = file \/ file' = jobs')
         /\ recorded' \in [Tx -> SUBSET Nat]
         /\ requested' \in SUBSET Tx
         /\ requested' \subseteq requested \cup {x \in Tx : Submitted(jobs'[x])}
         /\ faults' \in 0..MaxFaults /\ (faults' = 0 => faults = 0)
<1>1. CASE UNCHANGED storeVars /\ job = jobs[t]
  BY <1>1 DEF storeVars, CoreTypeOK
<1>2. ASSUME NEW ok \in BOOLEAN, Write(t, job, ok)
      PROVE  /\ jobs' \in [Tx -> Job] /\ jobs'[t] = job
             /\ \A x \in Tx \ {t} : jobs'[x] = jobs[x]
             /\ file' \in [Tx -> Job] /\ (file' = file \/ file' = jobs')
             /\ recorded' \in [Tx -> SUBSET Nat]
             /\ requested' \in SUBSET Tx
             /\ requested' \subseteq requested \cup {x \in Tx : Submitted(jobs'[x])}
             /\ faults' \in 0..MaxFaults /\ (faults' = 0 => faults = 0)
  <2>1. /\ jobs' \in [Tx -> Job] /\ jobs'[t] = job
        /\ \A x \in Tx \ {t} : jobs'[x] = jobs[x]
    BY <1>2 DEF Write, CoreTypeOK
  <2>2. file' \in [Tx -> Job] /\ (file' = file \/ file' = jobs')
    BY <1>2, <2>1 DEF Write, CoreTypeOK
  <2>3. recorded' \in [Tx -> SUBSET Nat]
    <3>1. \A x \in Tx : jobs'[x].execution \in Nat
      BY <2>1 DEF Job
    <3>2. QED
      BY <1>2, <3>1 DEF Write, CoreTypeOK
  <2>4. /\ requested' \in SUBSET Tx
        /\ requested' \subseteq requested \cup {x \in Tx : Submitted(jobs'[x])}
    BY <1>2 DEF Write, CoreTypeOK
  <2>5. faults' \in 0..MaxFaults /\ (faults' = 0 => faults = 0)
    BY <1>2, CoreAssumption DEF Write, CoreTypeOK
  <2>6. QED
    BY <2>1, <2>2, <2>3, <2>4, <2>5
<1>3. QED
  BY <1>1, <1>2 DEF StoreStep

(***************************************************************************)
(* The shape of every step of one payment: its job, its await, the error   *)
(* on its way, the resume argument, the requests and the transactions      *)
(* become the given ones.                                                  *)
(***************************************************************************)
PaymentStep(t, job, point, e, held, cost, sent) ==
  /\ StoreStep(t, job)
  /\ pc' = [pc EXCEPT ![t] = point]
  /\ error' = [error EXCEPT ![t] = e]
  /\ resume' = [resume EXCEPT ![t] = held]
  /\ fdc' = [fdc EXCEPT ![t] = cost]
  /\ flare' = [flare EXCEPT ![t] = sent]

(***************************************************************************)
(* Such a step keeps the invariant if the new values of the payment are    *)
(* fit for each other: the copies of the other payments stay sound, also   *)
(* when a write carries their rejected changes into the file.              *)
(***************************************************************************)
LEMMA PaymentStepKeepsInv ==
  ASSUME IInv, NEW t \in Tx, NEW job \in Job, NEW point \in Points,
         NEW e \in Errors \cup {"none"}, NEW held \in Attestations,
         NEW cost \in Nat, NEW sent \in Seq(Outcomes),
         PaymentStep(t, job, point, e, held, cost, sent),
         fdc[t] <= cost, Grown(sent, flare[t]),
         Sound(job, sent, cost), Located(point, held, job, sent, cost), e # "delayed",
         faults' = 0 /\ t \in requested => Submitted(job) \/ point = "requested"
  PROVE  IInv'
<1>1. CoreTypeOK /\ StoreStep(t, job) /\ resume \in [Tx -> Attestations]
  BY DEF IInv, TypeOK, PaymentStep
<1>2. /\ jobs' \in [Tx -> Job] /\ jobs'[t] = job
      /\ \A x \in Tx \ {t} : jobs'[x] = jobs[x]
      /\ file' \in [Tx -> Job] /\ (file' = file \/ file' = jobs')
      /\ recorded' \in [Tx -> SUBSET Nat]
      /\ requested' \in SUBSET Tx
      /\ requested' \subseteq requested \cup {x \in Tx : Submitted(jobs'[x])}
      /\ faults' \in 0..MaxFaults /\ (faults' = 0 => faults = 0)
  BY <1>1, StoreStepTypes
<1>3. /\ pc' \in [Tx -> Points] /\ error' \in [Tx -> Errors \cup {"none"}]
      /\ resume' \in [Tx -> Attestations] /\ fdc' \in [Tx -> Nat]
      /\ flare' \in [Tx -> Seq(Outcomes)]
  BY <1>1 DEF CoreTypeOK, PaymentStep
<1>4. TypeOK'
  BY <1>2, <1>3 DEF TypeOK, CoreTypeOK
<1>5. /\ pc'[t] = point /\ error'[t] = e /\ resume'[t] = held /\ fdc'[t] = cost
      /\ flare'[t] = sent
      /\ \A x \in Tx \ {t} : /\ pc'[x] = pc[x] /\ error'[x] = error[x]
                             /\ resume'[x] = resume[x] /\ fdc'[x] = fdc[x]
                             /\ flare'[x] = flare[x]
  BY <1>1 DEF CoreTypeOK, PaymentStep
<1>6. ASSUME NEW x \in Tx PROVE PaymentInv(x)'
  <2>1. PaymentInv(x) /\ fdc[x] \in Nat /\ flare[x] \in Seq(Outcomes) /\ file[x] \in Job
    BY <1>1 DEF IInv, CoreTypeOK
  <2>2. Sound(jobs'[x], flare'[x], fdc'[x])
    BY <1>2, <1>5, <2>1 DEF PaymentInv
  <2>3. Sound(file[x], flare'[x], fdc'[x])
    <3>1. CASE x = t
      BY <1>5, <2>1, <3>1, SoundGrown DEF PaymentInv
    <3>2. CASE x # t
      BY <1>5, <2>1, <3>2 DEF PaymentInv
    <3>3. QED
      BY <3>1, <3>2
  <2>4. Sound(file'[x], flare'[x], fdc'[x])
    BY <1>2, <2>2, <2>3
  <2>5. Located(pc'[x], resume'[x], jobs'[x], flare'[x], fdc'[x]) /\ error'[x] # "delayed"
    BY <1>2, <1>5, <2>1 DEF PaymentInv
  <2>6. SubmissionKept(x)'
    <3> SUFFICES ASSUME faults' = 0, x \in requested', ~Submitted(jobs'[x])
                 PROVE  pc'[x] = "requested"
      BY DEF SubmissionKept
    <3>1. faults = 0 /\ x \in requested
      BY <1>2
    <3>2. CASE x = t
      BY <1>2, <1>5, <3>1, <3>2
    <3>3. CASE x # t
      BY <1>2, <1>5, <2>1, <3>1, <3>3 DEF PaymentInv, SubmissionKept
    <3>4. QED
      BY <3>2, <3>3
  <2>7. QED
    BY <2>2, <2>4, <2>5, <2>6 DEF PaymentInv
<1>7. QED
  BY <1>4, <1>6 DEF IInv

\* What IInv says of one payment, spelled out.
LEMMA PaymentFacts ==
  ASSUME IInv, NEW t \in Tx
  PROVE  /\ jobs[t] \in Job /\ pc[t] \in Points /\ error[t] \in Errors \cup {"none"}
         /\ resume[t] \in Attestations /\ fdc[t] \in Nat /\ flare[t] \in Seq(Outcomes)
         /\ jobs = [jobs EXCEPT ![t] = jobs[t]]
         /\ pc = [pc EXCEPT ![t] = pc[t]]
         /\ error = [error EXCEPT ![t] = error[t]]
         /\ resume = [resume EXCEPT ![t] = resume[t]]
         /\ fdc = [fdc EXCEPT ![t] = fdc[t]]
         /\ flare = [flare EXCEPT ![t] = flare[t]]
         /\ Sound(jobs[t], flare[t], fdc[t])
         /\ AttestedAt(pc[t], resume[t], jobs[t], fdc[t])
         /\ ExecutionAt(pc[t], jobs[t], flare[t])
         /\ ActiveAt(pc[t], jobs[t])
         /\ error[t] # "delayed"
         /\ SubmissionKept(t)
         /\ faults \in Nat
BY DEF IInv, TypeOK, CoreTypeOK, PaymentInv, Located

(***************************************************************************)
(* The shapes of a step of process(id): a checkpoint, a call that returns  *)
(* and a call that throws.  Each needs to be told only what process(id)    *)
(* knows at the await it gets to.                                          *)
(***************************************************************************)
LEMMA CheckpointKeepsInv ==
  ASSUME IInv, NEW t \in Tx, NEW here, NEW job \in Job, NEW next \in Points,
         NEW held \in Attestations, NEW ok \in BOOLEAN,
         Checkpoint(t, here, job, next, "retryable", ok),
         resume' = [resume EXCEPT ![t] = held],
         Sound(job, flare[t], fdc[t]),
         Located(next, held, job, flare[t], fdc[t]), ActiveAt("failing", job),
         faults = 0 /\ t \in requested => Submitted(job) \/ next = "requested"
  PROVE  IInv'
<1>1. /\ Write(t, job, ok) /\ UNCHANGED <<fdc, flare>>
      /\ fdc' = [fdc EXCEPT ![t] = fdc[t]] /\ flare' = [flare EXCEPT ![t] = flare[t]]
      /\ fdc[t] \in Nat /\ flare[t] \in Seq(Outcomes) /\ error[t] \in Errors \cup {"none"}
      /\ fdc[t] <= fdc[t] /\ Grown(flare[t], flare[t])
  BY PaymentFacts, GrownSame DEF Checkpoint
<1>2. CASE ok
  <2>1. PaymentStep(t, job, next, error[t], held, fdc[t], flare[t])
    BY <1>1, <1>2, PaymentFacts DEF Checkpoint, Goto, PaymentStep, StoreStep
  <2>2. faults' = 0 => faults = 0
    BY <1>1, <1>2 DEF Write
  <2>3. QED
    BY <1>1, <2>1, <2>2, PaymentFacts, PaymentStepKeepsInv
<1>3. CASE ~ok
  <2>1. PaymentStep(t, job, "failing", "retryable", held, fdc[t], flare[t])
    BY <1>1, <1>3 DEF Checkpoint, Goto, Throw, PaymentStep, StoreStep
  <2>2. faults' # 0
    <3>1. faults \in Nat
      BY PaymentFacts
    <3>2. faults' = faults + 1
      BY <1>1, <1>3 DEF Write
    <3>3. QED
      BY <3>1, <3>2
  <2>3. Located("failing", held, job, flare[t], fdc[t])
    BY DEF Located, AttestedAt, ExecutionAt
  <2>4. "failing" \in Points /\ "retryable" \in Errors \cup {"none"}
    BY DEF Points, Errors
  <2>5. QED
    BY <1>1, <2>1, <2>2, <2>3, <2>4, PaymentStepKeepsInv
<1>4. QED
  BY <1>2, <1>3

\* A checkpoint of the instruction processor leaves the resume argument alone.
LEMMA InstructionCheckpointKeepsInv ==
  ASSUME IInv, NEW t \in Tx, NEW here, NEW job \in Job, NEW next \in Points,
         InstructionCheckpoint(t, here, job, next),
         Sound(job, flare[t], fdc[t]),
         Located(next, resume[t], job, flare[t], fdc[t]), ActiveAt("failing", job),
         faults = 0 /\ t \in requested => Submitted(job) \/ next = "requested"
  PROVE  IInv'
<1>1. PICK ok \in BOOLEAN : Checkpoint(t, here, job, next, "retryable", ok)
  BY DEF InstructionCheckpoint
<1>2. resume' = [resume EXCEPT ![t] = resume[t]] /\ resume[t] \in Attestations
  BY PaymentFacts DEF InstructionCheckpoint
<1>3. QED
  BY <1>1, <1>2, CheckpointKeepsInv

(***************************************************************************)
(* A step that leaves the store, the requests and the transactions alone   *)
(* and moves process(id) from one await to another.                        *)
(***************************************************************************)
LEMMA MoveKeepsInv ==
  ASSUME IInv, NEW t \in Tx, NEW point \in Points, NEW e \in Errors \cup {"none"},
         pc' = [pc EXCEPT ![t] = point], error' = [error EXCEPT ![t] = e],
         UNCHANGED <<storeVars, fdc, flare, resume>>,
         Located(point, resume[t], jobs[t], flare[t], fdc[t]), e # "delayed",
         faults = 0 /\ t \in requested => Submitted(jobs[t]) \/ point = "requested"
  PROVE  IInv'
<1>1. PaymentStep(t, jobs[t], point, e, resume[t], fdc[t], flare[t])
  BY PaymentFacts DEF PaymentStep, StoreStep
<1>2. fdc[t] <= fdc[t] /\ Grown(flare[t], flare[t]) /\ faults' = faults
  BY PaymentFacts, GrownSame DEF storeVars
<1>3. QED
  BY <1>1, <1>2, PaymentFacts, PaymentStepKeepsInv

\* A call that returns: process(id) knows at `next' what it knew at `here'.
LEMMA ReturnsKeepsInv ==
  ASSUME IInv, NEW t \in Tx, NEW here, NEW next \in Points, here # "requested",
         Returns(t, here, next),
         Located(next, resume[t], jobs[t], flare[t], fdc[t])
  PROVE  IInv'
<1>1. pc[t] = here /\ UNCHANGED <<storeVars, error, fdc, flare, resume>>
  BY DEF Returns, CallReturns
<1>2. pc' = [pc EXCEPT ![t] = next] /\ error' = [error EXCEPT ![t] = error[t]]
  BY PaymentFacts DEF Returns, CallReturns, Goto
<1>3. faults = 0 /\ t \in requested => Submitted(jobs[t])
  BY <1>1, PaymentFacts DEF SubmissionKept
<1>4. QED
  BY <1>1, <1>2, <1>3, PaymentFacts, MoveKeepsInv

\* A call that throws: the catch block asks only for a job that is active.
LEMMA ThrowsKeepsInv ==
  ASSUME IInv, NEW t \in Tx, NEW here, here \notin {"idle", "requested"},
         NEW errors \in SUBSET {"retryable", "permanent"},
         Throws(t, here, errors)
  PROVE  IInv'
<1>1. pc[t] = here /\ UNCHANGED <<storeVars, fdc, flare, resume>>
  BY DEF Throws, CallThrows
<1>2. PICK e \in errors : Throw(t, e)
  BY DEF Throws, CallThrows
<1>3. /\ "failing" \in Points /\ e \in Errors \cup {"none"} /\ e # "delayed"
      /\ pc' = [pc EXCEPT ![t] = "failing"] /\ error' = [error EXCEPT ![t] = e]
  BY <1>2 DEF Points, Errors, Throw, Goto
<1>4. Located("failing", resume[t], jobs[t], flare[t], fdc[t])
  BY <1>1, PaymentFacts DEF Located, AttestedAt, ExecutionAt, ActiveAt
<1>5. faults = 0 /\ t \in requested => Submitted(jobs[t])
  BY <1>1, PaymentFacts DEF SubmissionKept
<1>6. QED
  BY <1>1, <1>3, <1>4, <1>5, MoveKeepsInv

(***************************************************************************)
(* One lemma for each action.                                              *)
(***************************************************************************)

\* The claim: the job's own data decide where process(id) resumes, and what it resumes with.
LEMMA ClaimKeepsInv == ASSUME IInv, NEW t \in Tx, Claim(t) PROVE IInv'
<1> DEFINE job == Claimed(jobs[t])
           next == AfterClaim(jobs[t])
           held == jobs[t].attestation
<1>1. PICK ok \in BOOLEAN : Checkpoint(t, "claim", job, next, "retryable", ok)
  BY DEF Claim
<1>2. pc[t] = "claim" /\ resume' = [resume EXCEPT ![t] = held]
  BY <1>1 DEF Claim, Checkpoint
<1>3. /\ jobs[t] \in Job /\ Sound(jobs[t], flare[t], fdc[t]) /\ ActiveAt("claim", jobs[t])
      /\ faults = 0 /\ t \in requested => Submitted(jobs[t])
  BY <1>2, PaymentFacts DEF SubmissionKept
<1>4. /\ job \in Job /\ held \in Attestations
      /\ job.execution = jobs[t].execution /\ job.attestation = held
      /\ job.proof = jobs[t].proof /\ job.settlement = jobs[t].settlement
      /\ job.attempts = jobs[t].attempts /\ job.lastError = jobs[t].lastError
      /\ job.stage = IF jobs[t].stage = "observed" THEN "confirming" ELSE jobs[t].stage
  BY <1>3 DEF Claimed, Job, Stages, Deadlines
<1>5. /\ Sound(job, flare[t], fdc[t])
      /\ Submitted(jobs[t]) => Submitted(job)
  BY <1>3, <1>4 DEF Sound, Backed, Pending, Terminal, TerminalStages, Submitted, ActiveAt
<1>6. next \in {"prepare", "prepared", "simulate"} /\ (next = "prepare" => held = "none")
  BY DEF AfterClaim
<1>7. /\ next \in Points
      /\ AttestedAt(next, held, job, fdc[t]) /\ ExecutionAt(next, job, flare[t])
  BY <1>4, <1>6 DEF Points, AttestedAt, ExecutionAt
<1>8. ActiveAt(next, job) /\ ActiveAt("failing", job)
  BY <1>3, <1>4 DEF ActiveAt, Terminal, TerminalStages
<1>9. Located(next, held, job, flare[t], fdc[t])
  BY <1>7, <1>8 DEF Located
<1> HIDE DEF job, next, held
<1>10. QED
  BY <1>1, <1>2, <1>3, <1>4, <1>5, <1>7, <1>8, <1>9, CheckpointKeepsInv

\* prepareRequest, isFinalized and the retrieval of the proof store nothing themselves.
LEMMA CallsKeepInv ==
  ASSUME IInv, NEW t \in Tx, PrepareRequest(t) \/ IsFinalized(t) \/ RetrieveProof(t)
  PROVE  IInv'
<1>1. ASSUME NEW here, NEW next,
             <<here, next>> \in {<<"prepare", "prepared">>, <<"awaitRound", "roundFinal">>,
                                <<"fetchProof", "proofFetched">>},
             Returns(t, here, next)
      PROVE  IInv'
  <2>1. pc[t] = here /\ next \in Points /\ here # "requested"
    BY <1>1 DEF Returns, CallReturns, Points
  <2>2. Located(next, resume[t], jobs[t], flare[t], fdc[t])
    BY <1>1, <2>1, PaymentFacts DEF Located, AttestedAt, ExecutionAt, ActiveAt
  <2>3. QED
    BY <1>1, <2>1, <2>2, ReturnsKeepsInv
<1>2. ASSUME NEW here \in {"prepare", "awaitRound", "fetchProof"},
             NEW errors \in SUBSET {"retryable", "permanent"}, Throws(t, here, errors)
      PROVE  IInv'
  BY <1>2, ThrowsKeepsInv
<1>3. QED
  BY <1>1, <1>2 DEF PrepareRequest, IsFinalized, RetrieveProof

\* onPrepared: the attestation goes back to prepared, and the resume argument says whether
\* it was further.
LEMMA OnPreparedKeepsInv == ASSUME IInv, NEW t \in Tx, OnPrepared(t) PROVE IInv'
<1> DEFINE job == [jobs[t] EXCEPT !.stage = "confirming", !.attestation = "prepared"]
           next == IF resume[t] \in {"requested", "finalized"} THEN "requested" ELSE "request"
<1>1. pc[t] = "prepared" /\ InstructionCheckpoint(t, "prepared", job, next)
  BY DEF OnPrepared, InstructionCheckpoint, Checkpoint
<1>2. /\ jobs[t] \in Job /\ Sound(jobs[t], flare[t], fdc[t]) /\ ActiveAt("prepared", jobs[t])
      /\ resume[t] = jobs[t].attestation
      /\ faults = 0 /\ t \in requested => Submitted(jobs[t])
  BY <1>1, PaymentFacts DEF AttestedAt, SubmissionKept
<1>3. /\ job \in Job /\ job.stage = "confirming" /\ job.attestation = "prepared"
      /\ job.execution = jobs[t].execution
      /\ job.proof = jobs[t].proof /\ job.settlement = jobs[t].settlement
      /\ job.attempts = jobs[t].attempts /\ job.lastError = jobs[t].lastError
  BY <1>2 DEF Job, Stages, Attestations
<1>4. Submitted(jobs[t]) <=> next = "requested"
  BY <1>2 DEF Submitted, Progress, Job, Attestations
<1>5. /\ Sound(job, flare[t], fdc[t])
      /\ next = "requested" => fdc[t] > 0
  BY <1>2, <1>3, <1>4
     DEF Sound, Backed, Pending, Terminal, TerminalStages, Submitted, Progress, ActiveAt
<1>6. ActiveAt(next, job) /\ ActiveAt("failing", job)
  BY <1>2, <1>3 DEF ActiveAt, Terminal, TerminalStages
<1>7. next \in Points /\ Located(next, resume[t], job, flare[t], fdc[t])
  BY <1>3, <1>5, <1>6 DEF Points, Located, AttestedAt, ExecutionAt
<1> HIDE DEF job, next
<1>8. QED
  BY <1>1, <1>2, <1>3, <1>4, <1>5, <1>6, <1>7, InstructionCheckpointKeepsInv

\* submitRequest: with the request prepared, the file has held none before the first fault.
LEMMA SubmitRequestKeepsInv == ASSUME IInv, NEW t \in Tx, SubmitRequest(t) PROVE IInv'
<1>1. /\ pc[t] = "request" /\ UNCHANGED <<storeVars, flare, resume>>
      /\ fdc[t] \in Nat /\ fdc[t] + 1 \in Nat
  BY PaymentFacts DEF SubmitRequest, RequestAttestation
<1>2. PICK cost \in {fdc[t], fdc[t] + 1}, point \in {"requested", "failing"},
           e \in {error[t], "retryable"} :
        /\ point = "requested" => cost = fdc[t] + 1
        /\ fdc' = [fdc EXCEPT ![t] = cost] /\ pc' = [pc EXCEPT ![t] = point]
        /\ error' = [error EXCEPT ![t] = e]
  BY PaymentFacts DEF SubmitRequest, RequestAttestation, Goto, Throw
<1>3. ~Submitted(jobs[t])
  BY <1>1, PaymentFacts DEF AttestedAt, Submitted, Progress
<1>4. ~(faults = 0 /\ t \in requested)
  BY <1>1, <1>3, PaymentFacts DEF SubmissionKept
<1>5. /\ cost \in Nat /\ fdc[t] <= cost /\ (point = "requested" => cost > 0)
      /\ point \in Points /\ e \in Errors \cup {"none"} /\ e # "delayed"
  BY <1>1, <1>2, PaymentFacts DEF Points, Errors
<1>6. Sound(jobs[t], flare[t], cost)
  BY <1>5, GrownSame, SoundGrown, PaymentFacts
<1>7. Located(point, resume[t], jobs[t], flare[t], cost)
  BY <1>1, <1>2, <1>5, PaymentFacts DEF Located, AttestedAt, ExecutionAt, ActiveAt
<1>8. PaymentStep(t, jobs[t], point, e, resume[t], cost, flare[t])
  BY <1>1, <1>2, PaymentFacts DEF PaymentStep, StoreStep
<1>9. faults' = faults
  BY <1>1 DEF storeVars
<1>10. QED
  BY <1>4, <1>5, <1>6, <1>7, <1>8, <1>9, GrownSame, PaymentFacts, PaymentStepKeepsInv

\* onAttestationRequested: the request has been paid for, now or before the resume.
LEMMA OnAttestationRequestedKeepsInv ==
  ASSUME IInv, NEW t \in Tx, OnAttestationRequested(t) PROVE IInv'
<1> DEFINE job == [jobs[t] EXCEPT !.stage = "attestation_requested",
                                  !.attestation = "requested"]
           next == IF resume[t] = "finalized" THEN "roundFinal" ELSE "awaitRound"
<1>1. pc[t] = "requested" /\ InstructionCheckpoint(t, "requested", job, next)
  BY DEF OnAttestationRequested, InstructionCheckpoint, Checkpoint
<1>2. /\ jobs[t] \in Job /\ Sound(jobs[t], flare[t], fdc[t]) /\ ActiveAt("requested", jobs[t])
      /\ fdc[t] > 0
  BY <1>1, PaymentFacts DEF AttestedAt
<1>3. /\ job \in Job /\ job.stage = "attestation_requested" /\ job.attestation = "requested"
      /\ job.execution = jobs[t].execution
      /\ job.proof = jobs[t].proof /\ job.settlement = jobs[t].settlement
      /\ job.attempts = jobs[t].attempts /\ job.lastError = jobs[t].lastError
  BY <1>2 DEF Job, Stages, Attestations
<1>4. Sound(job, flare[t], fdc[t]) /\ Submitted(job)
  BY <1>2, <1>3 DEF Sound, Backed, Pending, Terminal, TerminalStages, Submitted, Progress, ActiveAt
<1>5. ActiveAt(next, job) /\ ActiveAt("failing", job)
  BY <1>2, <1>3 DEF ActiveAt, Terminal, TerminalStages
<1>6. next \in Points /\ Located(next, resume[t], job, flare[t], fdc[t])
  BY <1>3, <1>5 DEF Points, Located, AttestedAt, ExecutionAt
<1> HIDE DEF job, next
<1>7. QED
  BY <1>1, <1>3, <1>4, <1>5, <1>6, InstructionCheckpointKeepsInv

\* onFinalized: the job still holds the submission whose round it is.
LEMMA OnFinalizedKeepsInv == ASSUME IInv, NEW t \in Tx, OnFinalized(t) PROVE IInv'
<1> DEFINE job == [jobs[t] EXCEPT !.stage = "finalized", !.attestation = "finalized"]
<1>1. pc[t] = "roundFinal" /\ InstructionCheckpoint(t, "roundFinal", job, "fetchProof")
  BY DEF OnFinalized, InstructionCheckpoint, Checkpoint
<1>2. /\ jobs[t] \in Job /\ Sound(jobs[t], flare[t], fdc[t]) /\ ActiveAt("roundFinal", jobs[t])
      /\ jobs[t].attestation = "requested"
  BY <1>1, PaymentFacts DEF AttestedAt
<1>3. /\ job \in Job /\ job.stage = "finalized" /\ job.attestation = "finalized"
      /\ job.execution = jobs[t].execution
      /\ job.proof = jobs[t].proof /\ job.settlement = jobs[t].settlement
      /\ job.attempts = jobs[t].attempts /\ job.lastError = jobs[t].lastError
  BY <1>2 DEF Job, Stages, Attestations
<1>4. Sound(job, flare[t], fdc[t]) /\ Submitted(job)
  BY <1>2, <1>3 DEF Sound, Backed, Pending, Terminal, TerminalStages, Submitted, Progress, ActiveAt
<1>5. ActiveAt("fetchProof", job) /\ ActiveAt("failing", job)
  BY <1>2, <1>3 DEF ActiveAt, Terminal, TerminalStages
<1>6. "fetchProof" \in Points /\ Located("fetchProof", resume[t], job, flare[t], fdc[t])
  BY <1>5 DEF Points, Located, AttestedAt, ExecutionAt
<1> HIDE DEF job
<1>7. QED
  BY <1>1, <1>3, <1>4, <1>5, <1>6, InstructionCheckpointKeepsInv

\* onProofFetched: from here on a resume goes straight to the execution.
LEMMA OnProofFetchedKeepsInv == ASSUME IInv, NEW t \in Tx, OnProofFetched(t) PROVE IInv'
<1> DEFINE job == [jobs[t] EXCEPT !.stage = "proof_fetched", !.proof = TRUE]
<1>1. pc[t] = "proofFetched" /\ InstructionCheckpoint(t, "proofFetched", job, "simulate")
  BY DEF OnProofFetched, InstructionCheckpoint, Checkpoint
<1>2. /\ jobs[t] \in Job /\ Sound(jobs[t], flare[t], fdc[t]) /\ ActiveAt("proofFetched", jobs[t])
      /\ faults = 0 /\ t \in requested => Submitted(jobs[t])
  BY <1>1, PaymentFacts DEF SubmissionKept
<1>3. /\ job \in Job /\ job.stage = "proof_fetched" /\ job.proof
      /\ job.execution = jobs[t].execution
      /\ job.attestation = jobs[t].attestation /\ job.settlement = jobs[t].settlement
      /\ job.attempts = jobs[t].attempts /\ job.lastError = jobs[t].lastError
  BY <1>2 DEF Job, Stages
<1>4. Sound(job, flare[t], fdc[t]) /\ (Submitted(jobs[t]) => Submitted(job))
  BY <1>2, <1>3 DEF Sound, Backed, Pending, Terminal, TerminalStages, Submitted, ActiveAt
<1>5. ActiveAt("simulate", job) /\ ActiveAt("failing", job)
  BY <1>2, <1>3 DEF ActiveAt, Terminal, TerminalStages
<1>6. "simulate" \in Points /\ Located("simulate", resume[t], job, flare[t], fdc[t])
  BY <1>5 DEF Points, Located, AttestedAt, ExecutionAt
<1> HIDE DEF job
<1>7. QED
  BY <1>1, <1>2, <1>3, <1>4, <1>5, <1>6, InstructionCheckpointKeepsInv

\* isTransactionUsed and the simulation let through only what has not executed.
LEMMA SimulateKeepsInv == ASSUME IInv, NEW t \in Tx, Simulate(t) PROVE IInv'
<1>1. CASE Returns(t, "simulate", "send")
  <2>1. pc[t] = "simulate" /\ "send" \in Points
    BY <1>1 DEF Returns, CallReturns, Points
  <2>2. Located("send", resume[t], jobs[t], flare[t], fdc[t])
    BY <2>1, PaymentFacts DEF Located, AttestedAt, ExecutionAt, ActiveAt
  <2>3. QED
    BY <1>1, <2>1, <2>2, ReturnsKeepsInv
<1>2. CASE Throws(t, "simulate", {"retryable", "permanent"})
  BY <1>2, ThrowsKeepsInv
<1>3. QED
  BY <1>1, <1>2 DEF Simulate

\* One more transaction is of no harm to what has executed.
LEMMA GrownAppend ==
  ASSUME NEW before \in Seq(Outcomes)
  PROVE  /\ Append(before, "pending") \in Seq(Outcomes)
         /\ Append(before, "pending") # <<>>
         /\ Grown(Append(before, "pending"), before)
BY DEF Grown, Outcomes

\* writeContract sends a transaction, or fails before or after it was sent.
LEMMA SubmitKeepsInv == ASSUME IInv, NEW t \in Tx, Submit(t) PROVE IInv'
<1>1. /\ pc[t] = "send" /\ UNCHANGED <<storeVars, fdc, resume>>
      /\ flare[t] \in Seq(Outcomes)
  BY PaymentFacts DEF Submit, SendTransaction
<1>2. PICK sent \in {flare[t], Append(flare[t], "pending")}, point \in {"sent", "failing"},
           e \in {error[t], "retryable"} :
        /\ point = "sent" => sent = Append(flare[t], "pending")
        /\ flare' = [flare EXCEPT ![t] = sent] /\ pc' = [pc EXCEPT ![t] = point]
        /\ error' = [error EXCEPT ![t] = e]
  BY PaymentFacts DEF Submit, SendTransaction, Sent, Goto, Throw
<1>3. /\ sent \in Seq(Outcomes) /\ Grown(sent, flare[t]) /\ (point = "sent" => sent # <<>>)
      /\ point \in Points /\ e \in Errors \cup {"none"} /\ e # "delayed"
  BY <1>1, <1>2, PaymentFacts, GrownAppend, GrownSame DEF Points, Errors
<1>4. fdc[t] \in Nat /\ fdc[t] <= fdc[t]
  BY PaymentFacts
<1>5. Sound(jobs[t], sent, fdc[t])
  BY <1>1, <1>3, <1>4, SoundGrown, PaymentFacts
<1>6. Located(point, resume[t], jobs[t], sent, fdc[t])
  BY <1>1, <1>2, <1>3, PaymentFacts DEF Located, AttestedAt, ExecutionAt, ActiveAt
<1>7. faults' = 0 /\ t \in requested => Submitted(jobs[t])
  BY <1>1, PaymentFacts DEF SubmissionKept, storeVars
<1>8. PaymentStep(t, jobs[t], point, e, resume[t], fdc[t], sent)
  BY <1>1, <1>2, PaymentFacts DEF PaymentStep, StoreStep
<1>9. QED
  BY <1>3, <1>4, <1>5, <1>6, <1>7, <1>8, PaymentFacts, PaymentStepKeepsInv

\* onSubmitted: the hash is that of the last transaction sent.
LEMMA OnSubmittedKeepsInv == ASSUME IInv, NEW t \in Tx, OnSubmitted(t) PROVE IInv'
<1> DEFINE job == [jobs[t] EXCEPT !.stage = "execution_submitted", !.proof = TRUE,
                                  !.execution = Len(flare[t])]
<1>1. pc[t] = "sent" /\ InstructionCheckpoint(t, "sent", job, "receipt")
  BY DEF OnSubmitted, InstructionCheckpoint, Checkpoint
<1>2. /\ jobs[t] \in Job /\ Sound(jobs[t], flare[t], fdc[t]) /\ ActiveAt("sent", jobs[t])
      /\ faults = 0 /\ t \in requested => Submitted(jobs[t])
      /\ Len(flare[t]) \in Nat /\ Len(flare[t]) # 0
  BY <1>1, PaymentFacts DEF SubmissionKept, ExecutionAt
<1>3. /\ job \in Job /\ job.stage = "execution_submitted" /\ job.proof
      /\ job.execution = Len(flare[t])
      /\ job.attestation = jobs[t].attestation /\ job.settlement = jobs[t].settlement
      /\ job.attempts = jobs[t].attempts /\ job.lastError = jobs[t].lastError
  BY <1>2 DEF Job, Stages
<1>4. ~jobs[t].settlement
  BY <1>2 DEF Sound, ActiveAt
<1>5. Sound(job, flare[t], fdc[t]) /\ (Submitted(jobs[t]) => Submitted(job))
  BY <1>2, <1>3, <1>4
     DEF Sound, Backed, Pending, Terminal, TerminalStages, Submitted, ActiveAt
<1>6. ActiveAt("receipt", job) /\ ActiveAt("failing", job)
  BY <1>2, <1>3 DEF ActiveAt, Terminal, TerminalStages
<1>7. "receipt" \in Points /\ Located("receipt", resume[t], job, flare[t], fdc[t])
  BY <1>2, <1>3, <1>6 DEF Points, Located, AttestedAt, ExecutionAt
<1> HIDE DEF job
<1>8. QED
  BY <1>1, <1>2, <1>3, <1>5, <1>6, <1>7, InstructionCheckpointKeepsInv

\* waitForTransactionReceipt returns only for a transaction that executed.
LEMMA WaitForReceiptKeepsInv == ASSUME IInv, NEW t \in Tx, WaitForReceipt(t) PROVE IInv'
<1>1. CASE flare[t][jobs[t].execution] = "executed" /\ Returns(t, "receipt", "settled")
  <2>1. pc[t] = "receipt" /\ "settled" \in Points
    BY DEF WaitForReceipt, Points
  <2>2. Located("settled", resume[t], jobs[t], flare[t], fdc[t])
    BY <1>1, <2>1, PaymentFacts DEF Located, AttestedAt, ExecutionAt, ActiveAt
  <2>3. QED
    BY <1>1, <2>1, <2>2, ReturnsKeepsInv
<1>2. CASE \E errors \in {{"permanent"}, {"retryable"}} : Throws(t, "receipt", errors)
  BY <1>2, ThrowsKeepsInv
<1>3. QED
  BY <1>1, <1>2 DEF WaitForReceipt

\* onSettled: the settlement is of the execution the job holds the hash of.
LEMMA OnSettledKeepsInv == ASSUME IInv, NEW t \in Tx, OnSettled(t) PROVE IInv'
<1> DEFINE job == [jobs[t] EXCEPT !.stage = "instruction_executed", !.proof = TRUE,
                                  !.settlement = TRUE, !.lastError = "none",
                                  !.nextAttemptAt = "none"]
<1>1. pc[t] = "settled" /\ InstructionCheckpoint(t, "settled", job, "idle")
  BY DEF OnSettled, InstructionCheckpoint, Checkpoint
<1>2. /\ jobs[t] \in Job /\ Sound(jobs[t], flare[t], fdc[t]) /\ ActiveAt("settled", jobs[t])
      /\ faults = 0 /\ t \in requested => Submitted(jobs[t])
      /\ jobs[t].execution # 0 /\ flare[t][jobs[t].execution] = "executed"
  BY <1>1, PaymentFacts DEF SubmissionKept, ExecutionAt
<1>3. /\ job \in Job /\ job.stage = "instruction_executed" /\ job.proof /\ job.settlement
      /\ job.execution = jobs[t].execution
      /\ job.attestation = jobs[t].attestation
      /\ job.attempts = jobs[t].attempts /\ job.lastError = "none"
  BY <1>2 DEF Job, Stages, Deadlines
<1>4. Sound(job, flare[t], fdc[t]) /\ (Submitted(jobs[t]) => Submitted(job))
  BY <1>2, <1>3 DEF Sound, Backed, Pending, Terminal, TerminalStages, Submitted, ActiveAt
<1>5. ActiveAt("idle", job) /\ ActiveAt("failing", job)
  BY <1>2, <1>3 DEF ActiveAt
<1>6. "idle" \in Points /\ Located("idle", resume[t], job, flare[t], fdc[t])
  BY <1>5 DEF Points, Located, AttestedAt, ExecutionAt
<1> HIDE DEF job
<1>7. QED
  BY <1>1, <1>2, <1>3, <1>4, <1>5, <1>6, InstructionCheckpointKeepsInv

\* What Failure makes of each field of a job.
LEMMA FailureFields ==
  ASSUME NEW old \in Job, NEW e \in Errors \cup {"none"}, NEW limit \in Nat
  PROVE  LET job == Failure(old, e, limit)
         IN  /\ job \in Job
             /\ job.attempts = old.attempts + 1 /\ job.lastError = e
             /\ job.execution = old.execution /\ job.attestation = old.attestation
             /\ job.proof = old.proof /\ job.settlement = old.settlement
             /\ \/ job.stage \in {"recovery_required", "failed"}
                \/ job.stage = old.stage /\ job.attempts < limit
<1> DEFINE retryable == e \in {"retryable", "delayed"}
           exhausted == old.attempts + 1 >= limit
           stage == IF ~retryable THEN "recovery_required"
                    ELSE IF exhausted THEN "failed" ELSE old.stage
           next == IF retryable /\ ~exhausted THEN "backoff" ELSE "none"
           job == [old EXCEPT !.attempts = old.attempts + 1, !.stage = stage,
                              !.nextAttemptAt = next, !.lastError = e]
<1>1. Failure(old, e, limit) = job
  BY DEF Failure, Job
<1>2. old.attempts + 1 \in Nat /\ old.attempts \in Nat
  BY DEF Job
<1>3. stage \in Stages /\ next \in Deadlines
  BY DEF Job, Stages, Deadlines
<1>4. \/ stage \in {"recovery_required", "failed"}
      \/ stage = old.stage /\ old.attempts + 1 < limit
  BY <1>2
<1> HIDE DEF stage, next
<1>5. /\ job \in Job
      /\ job.stage = stage /\ job.attempts = old.attempts + 1 /\ job.lastError = e
      /\ job.execution = old.execution /\ job.attestation = old.attestation
      /\ job.proof = old.proof /\ job.settlement = old.settlement
  BY <1>2, <1>3 DEF Job
<1>6. QED
  BY <1>1, <1>4, <1>5

\* recordFailure: the attempt just made was one the job had left.
LEMMA RecordFailureKeepsInv == ASSUME IInv, NEW t \in Tx, RecordFailure(t) PROVE IInv'
<1> DEFINE job == Failure(jobs[t], error[t], MaxAttempts)
<1>1. PICK ok \in BOOLEAN : Fail(t, job, ok)
  BY DEF RecordFailure
<1>2. /\ jobs[t] \in Job /\ Sound(jobs[t], flare[t], fdc[t]) /\ ActiveAt("failing", jobs[t])
      /\ error[t] \in Errors \cup {"none"} /\ error[t] # "delayed"
      /\ faults = 0 /\ t \in requested => Submitted(jobs[t])
  BY <1>1, PaymentFacts DEF SubmissionKept, Fail
<1>3. /\ job \in Job
      /\ job.attempts = jobs[t].attempts + 1 /\ job.lastError = error[t]
      /\ job.execution = jobs[t].execution /\ job.attestation = jobs[t].attestation
      /\ job.proof = jobs[t].proof /\ job.settlement = jobs[t].settlement
      /\ \/ job.stage \in {"recovery_required", "failed"}
         \/ job.stage = jobs[t].stage /\ job.attempts < MaxAttempts
  BY <1>2, CoreAssumption, FailureFields
<1>4. job.attempts <= MaxAttempts
  BY <1>2, <1>3, CoreAssumption DEF ActiveAt, Job
<1>5. Sound(job, flare[t], fdc[t]) /\ (Submitted(jobs[t]) => Submitted(job))
  BY <1>2, <1>3, <1>4
     DEF Sound, Backed, Pending, Terminal, TerminalStages, Submitted, ActiveAt
<1>6. "idle" \in Points /\ Located("idle", resume[t], job, flare[t], fdc[t])
  BY DEF Points, Located, AttestedAt, ExecutionAt, ActiveAt
<1> HIDE DEF job
<1>7. PaymentStep(t, job, "idle", "none", resume[t], fdc[t], flare[t])
  <2>1. StoreStep(t, job)
    BY <1>1 DEF Fail, StoreStep
  <2>2. UNCHANGED <<fdc, flare, resume>>
    BY <1>1 DEF Fail, RecordFailure
  <2>3. QED
    BY <1>1, <2>1, <2>2, PaymentFacts DEF Fail, Goto, PaymentStep
<1>8. faults' = 0 => faults = 0
  <2>1. faults \in Nat
    BY PaymentFacts
  <2>2. faults' = faults \/ faults' = faults + 1
    BY <1>1 DEF Fail, Write
  <2>3. QED
    BY <2>1, <2>2
<1>9. fdc[t] \in Nat /\ fdc[t] <= fdc[t] /\ Grown(flare[t], flare[t])
  BY PaymentFacts, GrownSame
<1>10. QED
  BY <1>2, <1>3, <1>5, <1>6, <1>7, <1>8, <1>9, PaymentFacts, PaymentStepKeepsInv

\* A pending job can be claimed.
LEMMA ClaimLocated ==
  ASSUME IInv, NEW t \in Tx, NEW job, Sound(job, flare[t], fdc[t]), Pending(job)
  PROVE  Located("claim", resume[t], job, flare[t], fdc[t])
BY DEF Located, AttestedAt, ExecutionAt, ActiveAt, Sound, Pending

\* The retry timer and the startup start process(id) on a pending job.
LEMMA ResumePendingKeepsInv == ASSUME IInv, NEW t \in Tx, ResumePending(t) PROVE IInv'
<1>1. /\ pc[t] = "idle" /\ Pending(jobs[t]) /\ pc' = [pc EXCEPT ![t] = "claim"]
      /\ error' = [error EXCEPT ![t] = error[t]]
      /\ UNCHANGED <<storeVars, fdc, flare, resume>>
  BY PaymentFacts DEF ResumePending, Goto
<1>2. "claim" \in Points /\ Located("claim", resume[t], jobs[t], flare[t], fdc[t])
  BY <1>1, PaymentFacts, ClaimLocated DEF Points
<1>3. faults = 0 /\ t \in requested => Submitted(jobs[t])
  BY <1>1, PaymentFacts DEF SubmissionKept
<1>4. QED
  BY <1>1, <1>2, <1>3, PaymentFacts, MoveKeepsInv

\* observe: a known payment may be claimed, an unknown one becomes a job.
LEMMA ObserveKeepsInv == ASSUME IInv, NEW t \in Tx, Observe(t) PROVE IInv'
<1>1. /\ error' = [error EXCEPT ![t] = error[t]] /\ resume' = [resume EXCEPT ![t] = resume[t]]
      /\ fdc' = [fdc EXCEPT ![t] = fdc[t]] /\ flare' = [flare EXCEPT ![t] = flare[t]]
      /\ UNCHANGED <<error, fdc, flare, resume>>
  BY PaymentFacts DEF Observe
<1>2. ASSUME NEW due \in BOOLEAN, Process(t, jobs[t], due), UNCHANGED storeVars
      PROVE  IInv'
  <2>1. CASE pc' = pc
    <3>1. pc' = [pc EXCEPT ![t] = pc[t]]
      BY <2>1, PaymentFacts
    <3>2. /\ Located(pc[t], resume[t], jobs[t], flare[t], fdc[t])
          /\ faults = 0 /\ t \in requested => Submitted(jobs[t]) \/ pc[t] = "requested"
      BY PaymentFacts DEF SubmissionKept, Located
    <3>3. pc[t] \in Points /\ error[t] \in Errors \cup {"none"} /\ error[t] # "delayed"
      BY PaymentFacts
    <3>4. QED
      BY <1>1, <1>2, <3>1, <3>2, <3>3, MoveKeepsInv
  <2>2. CASE pc' # pc
    <3>1. pc[t] = "idle" /\ Pending(jobs[t]) /\ pc' = [pc EXCEPT ![t] = "claim"]
      BY <1>2, <2>2 DEF Process, Goto
    <3>2. ResumePending(t)
      BY <1>1, <1>2, <3>1 DEF ResumePending, Goto
    <3>3. QED
      BY <3>2, ResumePendingKeepsInv
  <2>3. QED
    BY <2>1, <2>2
<1>3. ASSUME jobs[t].stage = "absent", NEW ok \in BOOLEAN, Write(t, NewJob(FALSE), ok),
             Process(t, NewJob(FALSE), ok)
      PROVE  IInv'
  <2> DEFINE job == NewJob(FALSE)
  <2>1. /\ job.stage = "observed" /\ job.attempts = 0 /\ job.attestation = "none"
        /\ job.proof = FALSE /\ job.execution = 0 /\ job.settlement = FALSE
        /\ job.lastError = "none"
    BY DEF NewJob, NoJob
  <2>2. job \in Job
    BY DEF NewJob, NoJob, Job, Stages, Deadlines, Attestations
  <2> HIDE DEF job
  <2>3. Len(flare[t]) \in Nat
    BY PaymentFacts
  <2>4. Pending(job) /\ Sound(job, flare[t], fdc[t])
    BY <2>1, <2>3, CoreAssumption
       DEF Pending, Terminal, TerminalStages, Sound, Backed, Submitted, Progress
  <2>5. pc[t] = "idle" /\ ~(faults = 0 /\ t \in requested)
    BY <1>3, PaymentFacts DEF ActiveAt, SubmissionKept, Sound
  <2>6. PICK point \in {"idle", "claim"} : pc' = [pc EXCEPT ![t] = point]
    BY <1>3, <2>5, PaymentFacts DEF Process, Goto
  <2>7. point \in Points /\ Located(point, resume[t], job, flare[t], fdc[t])
    <3>1. Located("claim", resume[t], job, flare[t], fdc[t])
      BY <2>4, ClaimLocated
    <3>2. Located("idle", resume[t], job, flare[t], fdc[t])
      BY DEF Located, AttestedAt, ExecutionAt, ActiveAt
    <3>3. QED
      BY <3>1, <3>2 DEF Points
  <2>8. PaymentStep(t, job, point, error[t], resume[t], fdc[t], flare[t])
    BY <1>1, <1>3, <2>6 DEF PaymentStep, StoreStep, job
  <2>9. faults' = 0 => faults = 0
    <3>1. faults \in Nat
      BY PaymentFacts
    <3>2. faults' = faults \/ faults' = faults + 1
      BY <1>3 DEF Write
    <3>3. QED
      BY <3>1, <3>2
  <2>10. fdc[t] <= fdc[t] /\ Grown(flare[t], flare[t])
    BY PaymentFacts, GrownSame
  <2>11. QED
    BY <2>5, <2>7, <2>8, <2>9, <2>10, <2>2, <2>4, PaymentFacts, PaymentStepKeepsInv
<1>4. QED
  BY <1>2, <1>3 DEF Observe, MayBeDue

\* The chain settles a pending transaction, which changes no settled one.
LEMMA MineKeepsInv ==
  ASSUME IInv, NEW t \in Tx, NEW i \in DOMAIN flare[t], Mine(t, i)
  PROVE  IInv'
<1>1. PICK outcome \in Outcomes : Mined(t, i, outcome)
  BY DEF Mine, Outcomes
<1> DEFINE sent == [flare[t] EXCEPT ![i] = outcome]
<1>2. /\ flare' = [flare EXCEPT ![t] = sent] /\ flare[t][i] = "pending"
      /\ UNCHANGED <<storeVars, pc, error, fdc, resume>>
  BY <1>1, PaymentFacts DEF Mined, Mine
<1>3. /\ flare[t] \in Seq(Outcomes) /\ sent \in Seq(Outcomes)
      /\ Grown(sent, flare[t]) /\ (flare[t] # <<>> => sent # <<>>)
  BY <1>2, PaymentFacts DEF Grown
<1> HIDE DEF sent
<1>4. /\ fdc[t] \in Nat /\ fdc[t] <= fdc[t] /\ jobs[t] \in Job
      /\ Sound(jobs[t], flare[t], fdc[t])
  BY PaymentFacts
<1>5. Sound(jobs[t], sent, fdc[t])
  BY <1>3, <1>4, SoundGrown
<1>6. ExecutionAt(pc[t], jobs[t], sent)
  <2>1. ExecutionAt(pc[t], jobs[t], flare[t]) /\ jobs[t].execution \in Nat
    BY <1>4, PaymentFacts DEF Job
  <2>2. jobs[t].execution <= Len(flare[t])
    BY <1>4 DEF Sound
  <2>3. jobs[t].execution # 0 => jobs[t].execution \in DOMAIN flare[t]
    BY <1>3, <2>1, <2>2
  <2>4. QED
    BY <1>3, <2>1, <2>3 DEF ExecutionAt, Grown
<1>7. Located(pc[t], resume[t], jobs[t], sent, fdc[t])
  BY <1>6, PaymentFacts DEF Located
<1>8. PaymentStep(t, jobs[t], pc[t], error[t], resume[t], fdc[t], sent)
  BY <1>2, PaymentFacts DEF PaymentStep, StoreStep
<1>9. faults' = 0 /\ t \in requested => Submitted(jobs[t]) \/ pc[t] = "requested"
  BY <1>2, PaymentFacts DEF SubmissionKept, storeVars
<1>10. QED
  BY <1>3, <1>4, <1>5, <1>7, <1>8, <1>9, PaymentFacts, PaymentStepKeepsInv

(***************************************************************************)
(* A crash loses the map and every call in flight; the file alone is sound,*)
(* and it counts as a fault.                                               *)
(***************************************************************************)
LEMMA CrashKeepsInv == ASSUME IInv, Crash PROVE IInv'
<1>1. /\ jobs' = file /\ UNCHANGED <<file, recorded, requested, fdc, flare>>
      /\ pc' = [t \in Tx |-> "idle"] /\ error' = [t \in Tx |-> "none"]
      /\ resume' = [t \in Tx |-> "none"]
      /\ faults < MaxFaults /\ faults' = faults + 1
  BY DEF Crash, Restart
<1>2. faults' \in 0..MaxFaults /\ faults' # 0
  BY <1>1, CoreAssumption DEF IInv, TypeOK, CoreTypeOK
<1>3. TypeOK'
  BY <1>1, <1>2 DEF IInv, TypeOK, CoreTypeOK, Points, Attestations
<1>4. ASSUME NEW x \in Tx PROVE PaymentInv(x)'
  <2>1. Sound(file[x], flare[x], fdc[x])
    BY DEF IInv, PaymentInv
  <2>2. Located("idle", "none", file[x], flare[x], fdc[x])
    BY DEF Located, AttestedAt, ExecutionAt, ActiveAt
  <2>3. QED
    BY <1>1, <1>2, <2>1, <2>2 DEF PaymentInv, SubmissionKept
<1>5. QED
  BY <1>3, <1>4 DEF IInv

\* Every await of process(id) keeps the invariant.
LEMMA StepKeepsInv == ASSUME IInv, NEW t \in Tx, Step(t) PROVE IInv'
BY ClaimKeepsInv, CallsKeepInv, OnPreparedKeepsInv, SubmitRequestKeepsInv,
   OnAttestationRequestedKeepsInv, OnFinalizedKeepsInv, OnProofFetchedKeepsInv,
   SimulateKeepsInv, SubmitKeepsInv, OnSubmittedKeepsInv, WaitForReceiptKeepsInv,
   OnSettledKeepsInv, RecordFailureKeepsInv
   DEF Step

\* The invariant holds of the empty store.
LEMMA InitInv == Init => IInv
<1> SUFFICES ASSUME Init PROVE IInv
  OBVIOUS
<1>1. NoJob \in Job
  BY DEF NoJob, Job, Stages, Deadlines, Attestations
<1>2. TypeOK
  BY <1>1, CoreAssumption DEF Init, CoreInit, TypeOK, CoreTypeOK, Points, Attestations
<1>3. Sound(NoJob, <<>>, 0)
  BY CoreAssumption DEF Sound, NoJob, Backed, Pending, Submitted, Progress
<1>4. Located("idle", "none", NoJob, <<>>, 0)
  BY DEF Located, AttestedAt, ExecutionAt, ActiveAt
<1>5. QED
  BY <1>2, <1>3, <1>4 DEF IInv, PaymentInv, SubmissionKept, Init, CoreInit

\* The invariant is inductive.
LEMMA NextKeepsInv == IInv /\ [Next]_vars => IInv'
<1> SUFFICES ASSUME IInv, [Next]_vars PROVE IInv'
  OBVIOUS
<1>1. CASE UNCHANGED vars
  BY <1>1 DEF vars, IInv, TypeOK, CoreTypeOK, PaymentInv, SubmissionKept
<1>2. QED
  BY <1>1, ObserveKeepsInv, ResumePendingKeepsInv, StepKeepsInv, MineKeepsInv, CrashKeepsInv
     DEF Next

(***************************************************************************)
(* The theorems.                                                           *)
(***************************************************************************)

(***************************************************************************)
(* The inductive invariant holds in every reachable state, whatever crashes*)
(* and failed writes happen.                                               *)
(***************************************************************************)
THEOREM Invariance == Spec => []IInv
<1>1. QED
  BY InitInv, NextKeepsInv, PTL DEF Spec

(***************************************************************************)
(* Type correctness of the instruction processor.                          *)
(***************************************************************************)
THEOREM TypeCorrect == Spec => []TypeOK
<1>1. IInv => TypeOK
  BY DEF IInv
<1>2. QED
  BY <1>1, Invariance, PTL

(***************************************************************************)
(* Every stage of a stored instruction job is backed by the data of its    *)
(* checkpoint, although every resume rewrites the attestation.             *)
(***************************************************************************)
THEOREM StagesBacked == Spec => []StagesAreBacked
<1>1. IInv => StagesAreBacked
  BY DEF IInv, PaymentInv, Sound, StagesAreBacked
<1>2. QED
  BY <1>1, Invariance, PTL

(***************************************************************************)
(* A settlement is only recorded for a transaction that executed.          *)
(***************************************************************************)
THEOREM SettlementsReal == Spec => []SettlementsAreReal
<1>1. IInv => SettlementsAreReal
  <2> SUFFICES ASSUME IInv, NEW t \in Tx, NEW job \in {jobs[t], file[t]}, job.settlement
               PROVE  RanOnChain(t, job)
    BY DEF SettlementsAreReal
  <2>1. Sound(job, flare[t], fdc[t]) /\ job.execution \in Nat /\ flare[t] \in Seq(Outcomes)
    BY DEF IInv, TypeOK, CoreTypeOK, PaymentInv, Job
  <2>2. QED
    BY <2>1 DEF Sound, RanOnChain
<1>2. QED
  BY <1>1, Invariance, PTL

(***************************************************************************)
(* MAX_JOB_ATTEMPTS is exact for instruction jobs.                         *)
(***************************************************************************)
THEOREM AttemptsBounded == Spec => []AttemptsAreBounded
<1>1. IInv => AttemptsAreBounded
  BY DEF IInv, PaymentInv, Sound, AttemptsAreBounded
<1>2. QED
  BY <1>1, Invariance, PTL

(***************************************************************************)
(* What a receipt says of an instruction job is true on the chains: see    *)
(* ReceiptsAreTrue in Receipt.                                             *)
(***************************************************************************)
THEOREM ReceiptsTrue == Spec => []ReceiptsAreTrue
<1>1. IInv => ReceiptsAreTrue
  <2> SUFFICES ASSUME IInv, NEW t \in Tx,
                      NEW reachable \in BOOLEAN, NEW late \in BOOLEAN, NEW rejected \in BOOLEAN
               PROVE  LET job == jobs[t]
                          diagnosis == Diagnosis(job, reachable, late, rejected)
                      IN  /\ Complete(job, diagnosis) => RanOnChain(t, job)
                          /\ FlareLink(job) # 0 => FlareLink(job) \in DOMAIN flare[t]
                          /\ FdcLink(job) => fdc[t] > 0
                          /\ MerkleProofStatus(job, rejected) = "available" => job.proof
                          /\ diagnosis.severity = "info" =>
                               \/ Pending(job) \/ RanOnChain(t, job)
                               \/ job.stage = "failed" /\ job.lastError = "delayed"
    BY DEF ReceiptsAreTrue
  <2> DEFINE job == jobs[t]
             diagnosis == Diagnosis(job, reachable, late, rejected)
  <2>1. /\ job \in Job /\ Sound(job, flare[t], fdc[t])
        /\ job.execution \in Nat /\ flare[t] \in Seq(Outcomes)
    BY PaymentFacts DEF Job
  <2>2. FlareLink(job) # 0 => FlareLink(job) \in DOMAIN flare[t]
    BY <2>1 DEF FlareLink, Sound
  <2>3. job.stage = "instruction_executed" => RanOnChain(t, job)
    BY <2>1, <2>2 DEF Sound, Backed, RanOnChain, FlareLink
  <2>4. Phase(job) = "complete" => job.stage = "instruction_executed"
    BY <2>1 DEF Phase, Sound
  <2>5. Complete(job, diagnosis) => job.stage = "instruction_executed"
    BY <2>1, <2>4 DEF Complete, Listed, Diagnosis, Sound
  <2>6. FdcLink(job) => fdc[t] > 0
    BY <2>1 DEF FdcLink, Sound
  <2>7. MerkleProofStatus(job, rejected) = "available" => job.proof
    BY <2>1 DEF MerkleProofStatus, HasProof, Sound, Backed
  <2>8. diagnosis.severity = "info" => Pending(job) \/ job.stage = "instruction_executed"
    BY <2>1 DEF Diagnosis, Stopped, Pending, Terminal, TerminalStages, Sound
  <2>9. QED
    BY <2>2, <2>3, <2>5, <2>6, <2>7, <2>8
<1>2. QED
  BY <1>1, Invariance, PTL

\* An FDC request is sent at one await only.
LEMMA RequestedOnlyThere ==
  ASSUME IInv, [Next]_vars, NEW t \in Tx, fdc'[t] # fdc[t]
  PROVE  pc[t] = "request"
<1>1. fdc \in [Tx -> Nat]
  BY DEF IInv, TypeOK, CoreTypeOK
<1>2. PICK x \in Tx : SubmitRequest(x)
  <2>1. CASE Crash \/ UNCHANGED vars
    BY <2>1 DEF Crash, Restart, vars
  <2>2. ASSUME NEW x \in Tx, Observe(x) \/ ResumePending(x) \/ \E i \in DOMAIN flare[x] : Mine(x, i)
        PROVE  FALSE
    BY <2>2 DEF Observe, ResumePending, Mine, Mined
  <2>3. ASSUME NEW x \in Tx, Step(x), ~SubmitRequest(x)
        PROVE  FALSE
    BY <2>3 DEF Step, Claim, PrepareRequest, OnPrepared, OnAttestationRequested, IsFinalized,
       OnFinalized, RetrieveProof, OnProofFetched, Simulate, Submit, SendTransaction,
       OnSubmitted, WaitForReceipt, OnSettled, RecordFailure, InstructionCheckpoint,
       Checkpoint, Returns, Throws, CallReturns, CallThrows, Fail
  <2>4. QED
    BY <2>1, <2>2, <2>3 DEF Next
<1>3. fdc' = fdc \/ fdc' = [fdc EXCEPT ![x] = fdc[x] + 1]
  BY <1>2 DEF SubmitRequest, RequestAttestation
<1>4. x = t /\ pc[x] = "request"
  BY <1>1, <1>2, <1>3 DEF SubmitRequest, RequestAttestation
<1>5. QED
  BY <1>4

(***************************************************************************)
(* Until something crashes or a write fails, no checkpointed FDC request is*)
(* sent again.                                                             *)
(***************************************************************************)
THEOREM RequestsNotRepeated == Spec => NoRepeatedRequestWithoutFaults
<1>1. IInv /\ [Next]_vars => \A t \in Tx : faults = 0 => ~RequestRepeated(t)
  <2> SUFFICES ASSUME IInv, [Next]_vars, NEW t \in Tx, faults = 0, t \in requested,
                      fdc'[t] > fdc[t]
               PROVE  FALSE
    BY DEF RequestRepeated
  <2>1. fdc'[t] # fdc[t]
    BY PaymentFacts
  <2>2. pc[t] = "request"
    BY <2>1, RequestedOnlyThere
  <2>3. ~Submitted(jobs[t])
    BY <2>2, PaymentFacts DEF AttestedAt, Submitted, Progress
  <2>4. QED
    BY <2>2, <2>3, PaymentFacts DEF SubmissionKept
<1>2. QED
  BY <1>1, Invariance, PTL DEF Spec, NoRepeatedRequestWithoutFaults
=============================================================================
