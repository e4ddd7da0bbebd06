------------------------ MODULE InstructionInvariant ------------------------
(***************************************************************************)
(* The inductive invariant behind the safety properties of                 *)
(* InstructionProcessor.  Unlike the mint's, a resume takes the attestation *)
(* of the map back to `prepared' before it takes it forward again, so what *)
(* the job has paid for is known at some awaits from the resume argument   *)
(* only.                                                                   *)
(***************************************************************************)
EXTENDS InstructionProcessor

(***************************************************************************)
(* What holds of a copy of a job, the map's and the file's alike, given    *)
(* the transactions and the number of FDC requests sent for the payment.   *)
(* A settled job is terminal, or a later execution could take the hash its *)
(* settlement is about.                                                    *)
(***************************************************************************)
Sound(job, sent, cost) ==
  /\ Backed(job)
  /\ job.stage # "minted"
  /\ job.stage = "instruction_executed" => job.proof
  /\ job.settlement => /\ Terminal(job)
                       /\ job.execution # 0
                       /\ sent[job.execution] = "executed"
  /\ job.execution <= Len(sent)
  /\ Submitted(job) => cost > 0 /\ job.stage # "absent"
  /\ job.attempts <= MaxAttempts
  /\ Pending(job) => job.attempts < MaxAttempts
  /\ job.lastError # "delayed"

(***************************************************************************)
(* What process(id) knows of its job at each await: `held' is the resume   *)
(* argument.                                                               *)
(***************************************************************************)
AttestedAt(point, held, job, cost) ==
  /\ point = "prepare" => job.attestation = "none" /\ held = "none"
  /\ point = "prepared" => held = job.attestation
  /\ point = "request" => job.attestation = "prepared"
  /\ point = "requested" => cost > 0
  /\ point \in {"awaitRound", "roundFinal"} => job.attestation = "requested"

ExecutionAt(point, job, sent) ==
  /\ point = "sent" => sent # <<>>
  /\ point \in {"receipt", "settled"} => job.execution # 0
  /\ point = "settled" => sent[job.execution] = "executed"

ActiveAt(point, job) ==
  /\ point # "idle" => job.stage # "absent" /\ job.attempts < MaxAttempts
  /\ point \notin {"idle", "failing"} => ~Terminal(job)

Located(point, held, job, sent, cost) ==
  /\ AttestedAt(point, held, job, cost)
  /\ ExecutionAt(point, job, sent)
  /\ ActiveAt(point, job)

(***************************************************************************)
(* Until the first fault the map has what the file has held, but between   *)
(* the two callbacks of a resume.                                          *)
(***************************************************************************)
SubmissionKept(t) ==
  faults = 0 /\ t \in requested => Submitted(jobs[t]) \/ pc[t] = "requested"

PaymentInv(t) ==
  /\ Sound(jobs[t], flare[t], fdc[t])
  /\ Sound(file[t], flare[t], fdc[t])
  /\ Located(pc[t], resume[t], jobs[t], flare[t], fdc[t])
  /\ error[t] # "delayed"
  /\ SubmissionKept(t)

IInv == TypeOK /\ \A t \in Tx : PaymentInv(t)
=============================================================================
