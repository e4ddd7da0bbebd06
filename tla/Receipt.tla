------------------------------- MODULE Receipt -------------------------------
(***************************************************************************)
(* What the public is told of a job: the status server's record of it      *)
(* (healthServer.ts), the progress of the mint page (mintStatus.ts) and    *)
(* the proof receipt with its diagnosis (proofReceipt.ts).  They are       *)
(* functions of the job in the store's map.  `reachable' is whether the    *)
(* executor answered, `late' whether the job has not changed for the time  *)
(* its stage may take, `rejected' whether a permanent error is             *)
(* MALFORMED_PROOF or PAYMENT_MISMATCH.                                    *)
(***************************************************************************)
EXTENDS ProcessorCore

(***************************************************************************)
(* The phase stagePresentation gives a stage; no job is the stage          *)
(* "waiting_for_executor".                                                 *)
(***************************************************************************)
Phase(job) ==
  CASE job.stage \in {"proof_fetched", "execution_submitted"} -> "mint"
    [] job.stage \in {"minted", "instruction_executed"}       -> "complete"
    [] job.stage \in {"failed", "recovery_required"}          -> "attention"
    [] OTHER                                                  -> "prove"

(***************************************************************************)
(* The Flare transaction linked to: the settlement's, which is the one the *)
(* job holds the hash of, or the one that was submitted; 0 for none.       *)
(***************************************************************************)
FlareLink(job) == job.execution

(***************************************************************************)
(* The public record has the FDC request's hash and round.                 *)
(***************************************************************************)
FdcLink(job) == Submitted(job)

(***************************************************************************)
(* toSettlementIndex lists the job.                                        *)
(***************************************************************************)
Listed(job) == job.stage = "minted" /\ job.settlement

(***************************************************************************)
(* Mutant of HasProof: a finalized round counts as a proof.                *)
(***************************************************************************)
HasProofOnceFinalized(job) ==
  job.stage \in {"finalized", "proof_fetched", "execution_submitted", "minted",
                 "instruction_executed"}

HasProof(job) ==
  job.stage \in {"proof_fetched", "execution_submitted", "minted", "instruction_executed"}

MerkleProofStatus(job, rejected) ==
  IF job.lastError = "permanent" /\ rejected THEN "rejected"
  ELSE IF HasProof(job) THEN "available" ELSE "pending"

(***************************************************************************)
(* Mutant of Stopped: only exhausted retries count.                        *)
(***************************************************************************)
StoppedIfExhausted(job) == job.stage = "failed"

Stopped(job) == job.stage \in {"failed", "recovery_required"}

(***************************************************************************)
(* diagnoseReceipt: the first of its cases that applies.                   *)
(***************************************************************************)
Diagnosis(job, reachable, late, rejected) ==
  LET says(severity, title) == [severity |-> severity, title |-> title] IN
  IF ~reachable THEN says("warn", "unavailable")
  ELSE IF job.stage = "absent" THEN says("warn", "not observed")
  ELSE IF job.stage = "attestation_requested" /\ late THEN says("warn", "attestation is late")
  ELSE IF job.lastError = "permanent" /\ rejected THEN says("error", "proof was rejected")
  ELSE IF \/ job.lastError = "delayed"
          \/ job.stage = "proof_fetched" /\ job.nextAttemptAt # "none"
       THEN says("info", "delayed")
  ELSE IF job.stage = "execution_submitted" /\ late THEN says("warn", "not settled")
  ELSE IF Stopped(job) THEN says("error", "stopped")
  ELSE IF Phase(job) = "complete" THEN says("info", "confirmed")
  ELSE says("info", "progressing")

-----------------------------------------------------------------------------
(***************************************************************************)
(* What a receipt says is true on the chains, whatever crashed or failed   *)
(* before: a mint or instruction said to be confirmed, shown as complete   *)
(* or listed has executed, in the transaction linked to; a linked          *)
(* transaction was sent; a request linked to was paid for; a proof said to *)
(* be available is in the job; and nobody is told to wait or that all is   *)
(* well of a job that has stopped, except for one that failed while it was *)
(* delayed.                                                                *)
(***************************************************************************)
Complete(job, diagnosis) ==
  diagnosis.title = "confirmed" \/ Phase(job) = "complete" \/ Listed(job)

ReceiptsAreTrue ==
  \A t \in Tx, reachable, late, rejected \in BOOLEAN :
    LET job       == jobs[t]
        diagnosis == Diagnosis(job, reachable, late, rejected)
    IN  /\ Complete(job, diagnosis) => RanOnChain(t, job)
        /\ FlareLink(job) # 0 => FlareLink(job) \in DOMAIN flare[t]
        /\ FdcLink(job) => fdc[t] > 0
        /\ MerkleProofStatus(job, rejected) = "available" => job.proof
        /\ diagnosis.severity = "info" =>
             \/ Pending(job) \/ RanOnChain(t, job)
             \/ job.stage = "failed" /\ job.lastError = "delayed"
=============================================================================
