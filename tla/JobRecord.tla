----------------------------- MODULE JobRecord -----------------------------
(***************************************************************************)
(* The durable job of the executor: the TransactionJob record that         *)
(* executor/src/transactionStore.ts keeps per XRPL payment, and the values *)
(* the two processors compute from it.  Only the fields that steer the     *)
(* processors are kept; timestamps, addresses and byte strings are left    *)
(* out.                                                                    *)
(***************************************************************************)
EXTENDS Naturals

(***************************************************************************)
(* TransactionStage, with "absent" for an id the store has no job for.     *)
(***************************************************************************)
Stages ==
  {"absent", "observed", "confirming", "attestation_requested", "finalized",
   "proof_fetched", "execution_submitted", "minted", "instruction_executed",
   "failed", "recovery_required"}

(***************************************************************************)
(* The stages from which no processing restarts (TERMINAL_STAGES).         *)
(***************************************************************************)
TerminalStages == {"minted", "instruction_executed", "failed", "recovery_required"}

(***************************************************************************)
(* The `attestation' object: undefined, holding the prepared request only, *)
(* holding also the FDC submission and its voting round, or also marked    *)
(* finalized.                                                              *)
(***************************************************************************)
Attestations == {"none", "prepared", "requested", "finalized"}

(***************************************************************************)
(* How far an attestation has got: a resume that lowers it repeats work.   *)
(***************************************************************************)
Progress(attestation) ==
  CASE attestation = "none"      -> 0
    [] attestation = "prepared"  -> 1
    [] attestation = "requested" -> 2
    [] OTHER                     -> 3

(***************************************************************************)
(* The job holds an FDC submission and its voting round.                   *)
(***************************************************************************)
Submitted(job) == Progress(job.attestation) >= Progress("requested")

(***************************************************************************)
(* nextAttemptAt: null, the end of the exponential backoff, or the later   *)
(* of that and the chain's executionAllowedAt.                             *)
(***************************************************************************)
Deadlines == {"none", "backoff", "allowedAt"}

(***************************************************************************)
(* The errors recordFailure tells apart: MINTING_DELAYED,                  *)
(* CHECKPOINT_FAILED, the other permanent codes, and everything that is    *)
(* retried.                                                                *)
(***************************************************************************)
Errors == {"retryable", "permanent", "delayed", "checkpointFailed"}

(***************************************************************************)
(* One job.  execution = i stands for the hash of the i-th Flare           *)
(* transaction sent for this payment, 0 for undefined.                     *)
(***************************************************************************)
Job ==
  [stage : Stages, attempts : Nat, nextAttemptAt : Deadlines,
   attestation : Attestations, proof : BOOLEAN, execution : Nat,
   settlement : BOOLEAN, userOpData : BOOLEAN, lastError : Errors \cup {"none"}]

NoJob ==
  [stage |-> "absent", attempts |-> 0, nextAttemptAt |-> "none",
   attestation |-> "none", proof |-> FALSE, execution |-> 0,
   settlement |-> FALSE, userOpData |-> FALSE, lastError |-> "none"]

(***************************************************************************)
(* The record observe() hands to createIfAbsent.                           *)
(***************************************************************************)
NewJob(userOpData) == [NoJob EXCEPT !.stage = "observed", !.userOpData = userOpData]

Terminal(job) == job.stage \in TerminalStages

(***************************************************************************)
(* A job some processor still has to work on.                              *)
(***************************************************************************)
Pending(job) == job.stage # "absent" /\ ~Terminal(job)

(***************************************************************************)
(* Mutant of Claimed: a misspelt stage, which parseJobs would load back.   *)
(***************************************************************************)
ClaimedMisspelt(job) ==
  [job EXCEPT !.stage = IF @ = "observed" THEN "confirmed" ELSE @,
              !.nextAttemptAt = "none"]

(***************************************************************************)
(* The first checkpoint of process(): an observed job becomes confirming,  *)
(* any other keeps its stage, and the deadline is cleared.                 *)
(***************************************************************************)
Claimed(job) ==
  [job EXCEPT !.stage = IF @ = "observed" THEN "confirming" ELSE @,
              !.nextAttemptAt = "none"]

(***************************************************************************)
(* Mutant of Failure: one attempt too many.                                *)
(***************************************************************************)
FailureOffByOne(job, error, maxAttempts) ==
  LET retryable == error \in {"retryable", "delayed"}
      exhausted == job.attempts + 1 > maxAttempts
  IN  [job EXCEPT
         !.attempts = @ + 1,
         !.stage = IF ~retryable THEN "recovery_required"
                   ELSE IF exhausted THEN "failed" ELSE @,
         !.nextAttemptAt = IF retryable /\ ~exhausted THEN "backoff" ELSE "none",
         !.lastError = error]

(***************************************************************************)
(* The part of recordFailure both processors share: count the attempt,     *)
(* stop on a permanent error or after the last attempt, otherwise keep the *)
(* stage and back off.                                                     *)
(***************************************************************************)
Failure(job, error, maxAttempts) ==
  LET retryable == error \in {"retryable", "delayed"}
      exhausted == job.attempts + 1 >= maxAttempts
  IN  [job EXCEPT
         !.attempts = @ + 1,
         !.stage = IF ~retryable THEN "recovery_required"
                   ELSE IF exhausted THEN "failed" ELSE @,
         !.nextAttemptAt = IF retryable /\ ~exhausted THEN "backoff" ELSE "none",
         !.lastError = error]
=============================================================================
