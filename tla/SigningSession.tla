--------------------------- MODULE SigningSession ---------------------------
(***************************************************************************)
(* One user, one browser: the minting page or the Smart Account page over  *)
(* the signing service.                                                    *)
(***************************************************************************)
EXTENDS MintSession, InstructionSession

CONSTANT Flows  \* the pages to look at

ASSUME FlowsAssumption == Flows \subseteq {"mint", "instruction"}

VARIABLES
  flow,
  dropped  \* observability only: the payloads the page showed when one of the
           \* steps of Drop was taken

allVars == <<vars, flow, dropped>>

Init == CoreInit /\ flow \in Flows /\ dropped = {}

User ==
  \/ OpenXaman
  \/ flow = "mint" /\ MintCancel
  \/ SwitchTab
  \/ Return
  \/ Reload

(***************************************************************************)
(* The handlers that drop the session for good: the user starts over or    *)
(* prepares another review, or Cancel is answered.                         *)
(***************************************************************************)
Drop ==
  /\ ResetFlow \/ PrepareReview \/ (flow = "mint" /\ \E r \in requests : MintCancelled(r))
  /\ dropped' = dropped \cup {page.signing}

World ==
  /\ \E p \in Payloads : Resolve(p) \/ Validate(p) \/ Execute(p)
  /\ UNCHANGED <<faults, page, storage, requests, crossed>>

PollProgress ==
  \/ flow = "mint" /\ MintPollProgress
  \/ flow = "instruction" /\ InstructionPollProgress

Handle(r) ==
  \/ Serve(r)
  \/ flow = "mint" /\ MintServeProgress(r)
  \/ flow = "instruction" /\ InstructionServeProgress(r)

Arrive(r) ==
  \/ flow = "mint" /\ MintArrives(r)
  \/ flow = "instruction" /\ InstructionArrives(r)

Next ==
  /\ \/ Drop
     \/ /\ \/ User
           \/ World
           \/ PollStatus
           \/ PollProgress
           \/ \E r \in requests : Handle(r) \/ Arrive(r)
        /\ UNCHANGED dropped
  /\ UNCHANGED flow

Spec == Init /\ [][Next]_allVars

(***************************************************************************)
(* The polling timers fire, and the polls' requests are handled and their  *)
(* answers arrive.  Nothing is assumed of the user, the wallet, the ledger *)
(* and the executor.                                                       *)
(***************************************************************************)
Polls(kind) == {r \in requests : r.kind = kind}

FairSpec ==
  /\ Spec
  /\ WF_allVars(PollStatus /\ UNCHANGED <<flow, dropped>>)
  /\ WF_allVars(PollProgress /\ UNCHANGED <<flow, dropped>>)
  /\ \A kind \in {"status", "progress"} :
       /\ WF_allVars(\E r \in Polls(kind) : Handle(r) /\ UNCHANGED <<flow, dropped>>)
       /\ WF_allVars(\E r \in Polls(kind) : Arrive(r) /\ UNCHANGED <<flow, dropped>>)

-----------------------------------------------------------------------------
(***************************************************************************)
(* Type correctness of the page, its storage and its requests.             *)
(***************************************************************************)
TypeOK ==
  /\ life \in [Payloads -> Lives]
  /\ faults \in 0..MaxFaults
  /\ page \in Page
  /\ storage \in Session
  /\ requests \in SUBSET Request
  /\ crossed \in BOOLEAN
  /\ flow \in Flows
  /\ dropped \subseteq MaybePayload

(***************************************************************************)
(* A payload the page, or an answer on its way to it, calls rejected or    *)
(* cancelled has made no payment and never will: the user is told to start *)
(* anew only when that does not pay twice.                                 *)
(***************************************************************************)
Dead == {"rejected", "cancelled"}

DeadSessionsAreUnpaid ==
  /\ page.status.stage \in Dead => life[page.status.of] \in Dead
  /\ \A r \in requests : r.answer \in Dead => life[r.of] \in Dead

(***************************************************************************)
(* The session of a payment the page follows is in localStorage, with the  *)
(* payment's hash, so that a reload does not lose it.                      *)
(***************************************************************************)
PaymentsSurviveReload ==
  page.tx # None /\ Paying(page.status.stage) /\ ~Terminal(page) /\ ~crossed
    => storage = [signing |-> page.signing, tx |-> page.tx]

(***************************************************************************)
(* What a reload would bring back is what is on the screen: neither a      *)
(* session the user has left nor one whose job has ended.                  *)
(***************************************************************************)
ReloadBringsBackTheScreen ==
  page.mounted /\ storage # NoSession /\ ~crossed
    => storage = [signing |-> page.signing, tx |-> page.tx] /\ ~Terminal(page)

(***************************************************************************)
(* The page shows the session of p and waits for its status, asks for it   *)
(* once, as after a reload, or follows its payment.                        *)
(***************************************************************************)
Asks(p) == \E r \in requests : r.live /\ r.kind = "status" /\ r.of = p

Following(p) ==
  /\ page.mounted /\ page.signing = p
  /\ page.tx = p \/ Waiting(page.status) \/ Asks(p)

(***************************************************************************)
(* Every way a payment stops being followed: another tab is shown; the     *)
(* user starts over, prepares another review, or reloads after a Cancel    *)
(* whose answer has removed the session; a status is misread as malformed, *)
(* or the one question of a restored session fails; an answer to another   *)
(* session interferes.  And a defect of cancelSigning, lines 477-480: a    *)
(* Cancel that comes too late is answered "signed", and the hash and the   *)
(* session are forgotten.                                                  *)
(***************************************************************************)
Shows(p, stages) == page.signing = p /\ page.tx = None /\ page.status.stage \in stages

CancelledTooLate(p) == p \in dropped /\ Shows(p, {"signed"})

NoLongerFollowed(p) ==
  \/ ~page.mounted
  \/ p \in dropped /\ page.signing # p
  \/ Shows(p, {"malformed"})
  \/ Shows(p, {"none"}) /\ ~Asks(p)
  \/ CancelledTooLate(p)
  \/ crossed

(***************************************************************************)
(* A signed payment whose job has ended is shown as ended, also across     *)
(* reloads and after a Cancel that was refused, but for these ways out.    *)
(***************************************************************************)
FollowedToTheEnd ==
  \A p \in Payloads :
    Following(p) /\ life[p] = "ended"
      ~> (Terminal(page) /\ page.progress.of = p) \/ NoLongerFollowed(p)

(***************************************************************************)
(* A session that ended, with its payload or with its job, is not stored:  *)
(* a refresh gives a blank form.                                           *)
(***************************************************************************)
TerminalOutcomesAreNotStored ==
  /\ page.mounted /\ ~crossed
  /\ page.status.stage \in Dead \cup {"malformed"} \/ Terminal(page)
  => storage = NoSession
=============================================================================
