--------------------------- MODULE SigningService ---------------------------
(***************************************************************************)
(* What the browser sessions are about, as the web server shows it to      *)
(* them: the signing payloads kept by Xaman, the XRPL payment a signed one *)
(* submits, the executor's job for that payment, and the answers           *)
(* executor/src/xamanDirectMint.ts and the status routes compute from      *)
(* them.                                                                   *)
(***************************************************************************)
EXTENDS Naturals, FiniteSets

CONSTANTS
  Payloads,   \* Xaman payloads, numbered as they are created; p also stands
              \* for the hash of the payment p makes
  MaxFaults   \* bound on failing calls, reloads and tab switches together

ASSUME ServiceAssumption ==
  /\ Payloads \subseteq Nat \ {0}
  /\ MaxFaults \in Nat

VARIABLES
  life,   \* what became of each payload
  faults  \* failing calls, reloads and tab switches so far

(***************************************************************************)
(* A payload is open once its link or QR code is shown and then resolved:  *)
(* signed by the account the payment is from ("submitted"), refused or     *)
(* left to expire ("rejected": the pages only word the two differently),   *)
(* or cancelled.  A submitted payment is validated ("paid"), never         *)
(* answered for when LastLedgerSequence has passed, or "unusable": it      *)
(* failed on the ledger, or another account signed.  The executor ends the *)
(* job of a paid one, well or badly ("ended").                             *)
(***************************************************************************)
Unpaid == {"unused", "open", "rejected", "cancelled"}
Lives  == Unpaid \cup {"submitted", "unusable", "paid", "ended"}

ServiceInit ==
  /\ life = [p \in Payloads |-> "unused"]
  /\ faults = 0

Becomes(p, from, to) == life[p] = from /\ life' = [life EXCEPT ![p] = to]

(***************************************************************************)
(* The user in the wallet, Xaman's expiry, the XRP Ledger, the executor.   *)
(***************************************************************************)
Resolve(p)  == \E to \in {"submitted", "rejected", "unusable"} : Becomes(p, "open", to)
Validate(p) == \E to \in {"paid", "unusable"} : Becomes(p, "submitted", to)
Execute(p)  == Becomes(p, "paid", "ended")

(***************************************************************************)
(* A call that fails is one of a bounded number of faults.                 *)
(***************************************************************************)
Faulty == faults < MaxFaults /\ faults' = faults + 1

-----------------------------------------------------------------------------
(***************************************************************************)
(* status(): in the code's order, what Xaman says of the payload and then  *)
(* what the ledger says of its payment.                                    *)
(***************************************************************************)
StatusStage(p) ==
  CASE life[p] \in {"cancelled", "rejected"} -> life[p]
    [] life[p] \in {"unused", "open"}        -> "awaiting"
    [] life[p] = "unusable"                  -> "malformed"
    [] life[p] = "submitted"                 -> "submitting"
    [] OTHER                                 -> "signed"

(***************************************************************************)
(* The answer of the status route.  When a call made by status() fails it  *)
(* is "malformed" (Xaman's client returned null, or the XRPL client any    *)
(* error but txnNotFound) or an error 502.                                 *)
(***************************************************************************)
StatusAnswer(p, answer) ==
  /\ \/ answer = StatusStage(p) /\ UNCHANGED faults
     \/ answer \in {"malformed", "error"} /\ Faulty
  /\ UNCHANGED life

(***************************************************************************)
(* Mutant of CancelAnswer: the result of Xaman's cancel is not looked at.  *)
(***************************************************************************)
CancelAnswerUnread(p, answer) ==
  /\ answer = "cancelled"
  /\ UNCHANGED faults
  /\ Becomes(p, "open", "cancelled") \/ UNCHANGED life

(***************************************************************************)
(* cancel(): Xaman cancels an open payload, or refuses (the user has       *)
(* opened or resolved it) and the answer is the payload's status.          *)
(***************************************************************************)
CancelAnswer(p, answer) ==
  \/ answer = "cancelled" /\ Becomes(p, "open", "cancelled") /\ UNCHANGED faults
  \/ StatusAnswer(p, answer)

(***************************************************************************)
(* The sign routes: review, readiness, template and payload; a payload     *)
(* that was not created, or whose answer is lost, is never shown.          *)
(***************************************************************************)
Create(p) ==
  /\ \A q \in Payloads : q < p => life[q] # "unused"
  /\ Becomes(p, "unused", "open")

(***************************************************************************)
(* getMintProgress: "working" until the job has ended, also without a job  *)
(* and when the executor cannot be reached; an error when the route fails  *)
(* or the FXRP balance cannot be read.                                     *)
(***************************************************************************)
JobStage(p) == IF life[p] = "ended" THEN "ended" ELSE "working"

MintProgressAnswer(p, answer) ==
  /\ \/ answer = JobStage(p) /\ UNCHANGED faults
     \/ answer \in {"working", "error"} /\ Faulty
  /\ UNCHANGED life

(***************************************************************************)
(* The Smart Account status route: an error also when there is no job yet. *)
(***************************************************************************)
InstructionProgressAnswer(p, answer) ==
  /\ \/ answer = JobStage(p) /\ UNCHANGED faults
     \/ answer = "error" /\ life[p] # "ended" /\ UNCHANGED faults
     \/ answer = "error" /\ Faulty
  /\ UNCHANGED life
=============================================================================
