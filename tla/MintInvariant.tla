--------------------------- MODULE MintInvariant ---------------------------
(***************************************************************************)
(* The inductive invariant behind the safety properties of MintProcessor.  *)
(* Its parts are predicates on one payment, so that a step of one payment  *)
(* says nothing about the others but for the file, which every successful  *)
(* write replaces as a whole.                                              *)
(***************************************************************************)
EXTENDS MintProcessor

(***************************************************************************)
(* What holds of a copy of a job, the map's and the file's alike, given    *)
(* the transactions sent for the payment and those the file has held.      *)
(***************************************************************************)
KnownHashes(job, held) == held \cup ({job.execution} \ {0})

Sound(job, sent, held) ==
  /\ Backed(job)
  /\ job.stage = "absent" => job = NoJob
  /\ KnownHashes(job, held) \subseteq DOMAIN sent
  /\ \A i \in held : i # job.execution => sent[i] = "delayed"
  /\ job.settlement => job.execution # 0 /\ sent[job.execution] = "executed"
  /\ job.stage = "recovery_required" =>
       \A i \in KnownHashes(job, held) : sent[i] \in {"delayed", "reverted"}
  /\ job.attempts <= MaxAttempts + 1
  /\ Pending(job) /\ job.attempts >= MaxAttempts =>
       job.attempts = MaxAttempts /\ job.execution # 0

(***************************************************************************)
(* The map is never behind the file in what the FDC has cost.              *)
(***************************************************************************)
NotBehind(job, stored) ==
  /\ Progress(job.attestation) >= Progress(stored.attestation)
  /\ stored.proof => job.proof

(***************************************************************************)
(* What process(id) knows of its job at each await.                        *)
(***************************************************************************)
BeforeExecution ==
  {"prepare", "prepared", "request", "requested", "awaitRound", "roundFinal",
   "fetchProof", "proofFetched", "simulate", "send", "sent"}

AttestedAt(point, job) ==
  /\ point \in {"prepare", "prepared"} => job.attestation = "none"
  /\ point \in {"request", "requested"} => job.attestation = "prepared"
  /\ point \in {"awaitRound", "roundFinal"} => job.attestation = "requested"
  /\ point \in {"fetchProof", "proofFetched"} => job.attestation = "finalized"

ExecutionAt(point, job, sent) ==
  /\ point \in BeforeExecution => job.execution = 0
  /\ point = "sent" => sent # <<>>
  /\ point \in {"receipt", "settled"} => job.execution # 0
  /\ point = "settled" => sent[job.execution] = "executed"

FailureAt(point, e, job, sent) ==
  /\ point = "failing" => e # "none"
  /\ point = "failing" /\ e = "permanent" =>
       job.execution = 0 \/ sent[job.execution] = "reverted"
  /\ point = "failing" /\ e = "delayed" =>
       job.execution # 0 /\ sent[job.execution] = "delayed"
  /\ point = "failing" /\ e = "checkpointFailed" =>
       /\ job.execution # 0 /\ job.execution = Len(sent)
       /\ job.attempts < MaxAttempts

ActiveAt(point, job) ==
  point # "idle" =>
    /\ job.stage # "absent"
    /\ job.attempts <= MaxAttempts
    /\ job.attempts = MaxAttempts => job.execution # 0

Located(point, e, job, sent) ==
  /\ AttestedAt(point, job)
  /\ ExecutionAt(point, job, sent)
  /\ FailureAt(point, e, job, sent)
  /\ ActiveAt(point, job)

StoreInv(t) ==
  /\ Sound(jobs[t], flare[t], recorded[t])
  /\ Sound(file[t], flare[t], recorded[t])
  /\ NotBehind(jobs[t], file[t])
  /\ t \in requested => Submitted(file[t])

PaymentInv(t) == StoreInv(t) /\ Located(pc[t], error[t], jobs[t], flare[t])

(***************************************************************************)
(* The inductive invariant: it implies every safety invariant of           *)
(* MintProcessor, and each of its parts is needed for the others to be     *)
(* preserved.                                                              *)
(***************************************************************************)
IInv == TypeOK /\ \A t \in Tx : PaymentInv(t)
=============================================================================
