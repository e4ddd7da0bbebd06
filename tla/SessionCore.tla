---------------------------- MODULE SessionCore ----------------------------
(***************************************************************************)
(* What the two signing pages have in common: their React state, the       *)
(* session they keep in localStorage, and the requests they have in        *)
(* flight.  The answer about a payload or a payment is fixed when the      *)
(* server handles the request and applied when it arrives; in between,     *)
(* anything may happen.  An error answer only sets the error message, so   *)
(* its request just ends.                                                  *)
(***************************************************************************)
EXTENDS SigningService

CONSTANT MaxInFlight  \* bound on the requests of one kind in flight

ASSUME InFlightAssumption == MaxInFlight \in Nat \ {0}

VARIABLES
  page,     \* the state of the component
  storage,  \* the session under the component's localStorage key
  requests, \* requests in flight, with the answer once there is one
  crossed   \* observability only: an answer was applied to another session
            \* than the one it was asked for

vars == <<life, faults, page, storage, requests, crossed>>

Kinds == {"review", "open", "cancel", "drop", "status", "progress"}

SigningStages  == {"awaiting", "submitting", "signed", "rejected", "cancelled", "malformed"}
ProgressStages == {"working", "ended"}
Answers        == SigningStages \cup ProgressStages \cup {"error"}

None == 0
MaybePayload == Payloads \cup {None}

Request ==
  [kind : Kinds, of : MaybePayload, live : BOOLEAN,
   answer : SigningStages \cup ProgressStages \cup {"pending"}]

(***************************************************************************)
(* review: a review all of whose checks pass is shown.  One with a failing *)
(* check allows no more than none.                                         *)
(***************************************************************************)
Page ==
  [mounted : BOOLEAN, review : BOOLEAN, signing : MaybePayload,
   status : [stage : SigningStages \cup {"none"}, of : MaybePayload], tx : MaybePayload,
   progress : [stage : ProgressStages \cup {"none"}, of : MaybePayload]]

Session   == [signing : MaybePayload, tx : MaybePayload]
NoSession == [signing |-> None, tx |-> None]
Nothing   == [stage |-> "none", of |-> None]

BlankPage ==
  [mounted |-> TRUE, review |-> FALSE, signing |-> None, status |-> Nothing,
   tx |-> None, progress |-> Nothing]

CoreInit ==
  /\ ServiceInit
  /\ page = BlankPage
  /\ storage = NoSession
  /\ requests = {}
  /\ crossed = FALSE

(***************************************************************************)
(* What the pages derive from their state.                                 *)
(***************************************************************************)
Waiting(status) == status.stage \in {"awaiting", "submitting"}
SigningActive   == page.signing # None /\ Waiting(page.status)
Locked          == SigningActive \/ page.tx # None
Busy            == \E r \in requests : r.live /\ r.kind \in {"review", "open", "cancel"}
SessionActive   == page.review \/ page.signing # None \/ page.tx # None
Terminal(p)     == p.progress.stage = "ended"

(***************************************************************************)
(* fetch: at most MaxInFlight of a kind at a time.                         *)
(***************************************************************************)
Asked(kind, of) == [kind |-> kind, of |-> of, live |-> TRUE, answer |-> "pending"]

Ask(kind, of) ==
  /\ page.mounted
  /\ Cardinality({r \in requests : r.kind = kind}) < MaxInFlight
  /\ requests' = requests \cup {Asked(kind, of)}

Pending(r, kind) == r.kind = kind /\ r.answer = "pending"
Arrived(r, kind) == r.kind = kind /\ r.answer # "pending"

(***************************************************************************)
(* The server has handled r.                                               *)
(***************************************************************************)
Answered(r, answer) ==
  requests' = (requests \ {r}) \cup
    (IF answer = "error" THEN {} ELSE {[r EXCEPT !.answer = answer]})

Serve(r) ==
  /\ UNCHANGED <<page, storage, crossed>>
  /\ \E answer \in Answers :
       \/ Pending(r, "status") /\ StatusAnswer(r.of, answer) /\ Answered(r, answer)
       \/ Pending(r, "cancel") /\ CancelAnswer(r.of, answer) /\ Answered(r, answer)
       \/ Pending(r, "drop") /\ CancelAnswer(r.of, answer) /\ requests' = requests \ {r}

(***************************************************************************)
(* An answer arrives.  The handler computes the new page and what it left  *)
(* in localStorage itself; persisted is what localStorage holds after the  *)
(* effects React runs on the commit.  When the component that asked is     *)
(* gone, only the handler's own localStorage calls count; a payload it     *)
(* stores while nothing else is shown or stored crosses nothing.           *)
(***************************************************************************)
Crosses(r) ==
  \/ ~r.live /\ (r.kind # "open" \/ page.mounted \/ storage # NoSession)
  \/ r.kind \in {"status", "cancel"} /\ r.of # page.signing
  \/ r.kind = "progress" /\ r.of # page.tx

Apply(r, new, stored, persisted) ==
  /\ requests' = requests \ {r}
  /\ page' = IF r.live THEN new ELSE page
  /\ storage' = IF r.live THEN persisted ELSE stored
  /\ crossed' = (crossed \/ Crosses(r))
  /\ UNCHANGED faults

(***************************************************************************)
(* The catch block of openXaman: only the error message is set.            *)
(***************************************************************************)
Refused(r) ==
  /\ requests' = requests \ {r}
  /\ UNCHANGED <<life, faults, page, storage, crossed>>

(***************************************************************************)
(* Mutant of Depends: transactionId is missing from the dependencies.      *)
(***************************************************************************)
DependsNotOnTx(p) == <<p.review, p.signing, p.status.stage, Terminal(p)>>

(***************************************************************************)
(* The persist effect: it runs when one of its dependencies has changed,   *)
(* clears the session of a finished job and stores one that can be         *)
(* resumed.                                                                *)
(***************************************************************************)
Depends(p) == <<p.review, p.signing, p.status.stage, Terminal(p), p.tx>>

Stored(new, stored) ==
  IF Depends(new) = Depends(page) \/ ~new.review \/ new.signing = None THEN stored
  ELSE IF Terminal(new) THEN NoSession
  ELSE IF Waiting(new.status) \/ new.tx # None
       THEN [signing |-> new.signing, tx |-> new.tx]
  ELSE stored

-----------------------------------------------------------------------------
(***************************************************************************)
(* Handlers both components have, word for word but for the storage key.   *)
(***************************************************************************)

(***************************************************************************)
(* readStatus: what its answer does to the page and to localStorage.       *)
(***************************************************************************)
Paying(stage) == stage \in {"signed", "submitting"}

WithStatus(r) ==
  [page EXCEPT !.status = [stage |-> r.answer, of |-> r.of],
               !.tx = IF Paying(r.answer) THEN r.of ELSE @]

KeptByStatus(r) ==
  IF r.answer = "awaiting" \/ Paying(r.answer) THEN storage ELSE NoSession

(***************************************************************************)
(* The 3 s signing poll.                                                   *)
(***************************************************************************)
PollStatus ==
  /\ SigningActive
  /\ Ask("status", page.signing)
  /\ UNCHANGED <<life, faults, page, storage, crossed>>

(***************************************************************************)
(* Mutant of ResetFlow: the stored session stays.                          *)
(***************************************************************************)
ResetFlowKeepingStorage ==
  /\ page.mounted /\ SessionActive
  /\ page' = BlankPage
  /\ requests' = requests \cup
       (IF SigningActive THEN {[Asked("drop", page.signing) EXCEPT !.live = FALSE]} ELSE {})
  /\ UNCHANGED <<life, faults, storage, crossed>>

(***************************************************************************)
(* resetFlow: forget the session; the payload it waited for is cancelled   *)
(* by a request nobody waits for.                                          *)
(***************************************************************************)
ResetFlow ==
  /\ page.mounted /\ SessionActive
  /\ page' = BlankPage
  /\ storage' = NoSession
  /\ requests' = requests \cup
       (IF SigningActive THEN {[Asked("drop", page.signing) EXCEPT !.live = FALSE]} ELSE {})
  /\ UNCHANGED <<life, faults, crossed>>

(***************************************************************************)
(* prepareReview, before its request.                                      *)
(***************************************************************************)
PrepareReview ==
  /\ ~Busy /\ ~Locked
  /\ Ask("review", None)
  /\ page' = [BlankPage EXCEPT !.review = page.review]
  /\ storage' = NoSession
  /\ UNCHANGED <<life, faults, crossed>>

(***************************************************************************)
(* openXaman, before its request; the button needs a review whose checks   *)
(* all pass and no payload yet.                                            *)
(***************************************************************************)
OpenXaman ==
  /\ ~Busy /\ page.review /\ page.signing = None
  /\ Ask("open", None)
  /\ UNCHANGED <<life, faults, page, storage, crossed>>

WithPayload(p) ==
  [page EXCEPT !.review = TRUE, !.signing = p, !.status = [stage |-> "awaiting", of |-> p]]

(***************************************************************************)
(* Mutant of RestoredPage: a stage no answer has.                          *)
(***************************************************************************)
RestoredPageMisspelt ==
  IF storage = NoSession THEN BlankPage
  ELSE [BlankPage EXCEPT
          !.review = TRUE, !.signing = storage.signing, !.tx = storage.tx,
          !.status = IF storage.tx = None THEN Nothing
                     ELSE [stage |-> "validated", of |-> storage.signing]]

(***************************************************************************)
(* The component mounts: the stored session comes back, as "signed" when   *)
(* its payment is known, else with one request for its status.             *)
(***************************************************************************)
RestoredPage ==
  IF storage = NoSession THEN BlankPage
  ELSE [BlankPage EXCEPT
          !.review = TRUE, !.signing = storage.signing, !.tx = storage.tx,
          !.status = IF storage.tx = None THEN Nothing
                     ELSE [stage |-> "signed", of |-> storage.signing]]

RestoreAsks ==
  IF storage # NoSession /\ storage.tx = None THEN {Asked("status", storage.signing)} ELSE {}

Return ==
  /\ ~page.mounted
  /\ page' = RestoredPage
  /\ requests' = requests \cup RestoreAsks
  /\ UNCHANGED <<life, faults, storage, crossed>>

(***************************************************************************)
(* Another tab of the page is shown: the component is gone; of its         *)
(* requests those go on to matter that change localStorage or a payload.   *)
(***************************************************************************)
SwitchTab ==
  /\ page.mounted /\ Faulty
  /\ page' = [BlankPage EXCEPT !.mounted = FALSE]
  /\ requests' = {[r EXCEPT !.live = FALSE] :
                    r \in {q \in requests : q.kind \notin {"review", "progress"}}}
  /\ UNCHANGED <<life, storage, crossed>>

(***************************************************************************)
(* The browser reloads the page: no handler of a request in flight runs    *)
(* any more, though the server may still cancel a payload.                 *)
(***************************************************************************)
Reload ==
  /\ page.mounted /\ Faulty
  /\ page' = RestoredPage
  /\ requests' = RestoreAsks \cup
       {[r EXCEPT !.kind = "drop", !.live = FALSE] :
          r \in {q \in requests : Pending(q, "cancel") \/ Pending(q, "drop")}}
  /\ UNCHANGED <<life, storage, crossed>>
=============================================================================
