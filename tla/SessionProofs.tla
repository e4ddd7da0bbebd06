---------------------------- MODULE SessionProofs ----------------------------
(***************************************************************************)
(* Proofs about both signing pages, for any number of payloads, faults and *)
(* requests in flight: a session the page calls dead has made no payment,  *)
(* also when answers cross from one session to another; while none does,   *)
(* what is stored is what is on the screen.                                *)
(***************************************************************************)
EXTENDS SigningSession, TLAPS

(***************************************************************************)
(* A status or an answer is well founded if it calls dead only what can    *)
(* never be paid; a request about a payload, or with an answer, names one. *)
(***************************************************************************)
Founded(l, stage, p) == stage \in Dead => p \in Payloads /\ l[p] \in Dead

GoodPage(l, new) == new \in Page /\ Founded(l, new.status.stage, new.status.of)

Asking == {"cancel", "drop", "status", "progress"}

AnswersTo(kind) == IF kind = "progress" THEN ProgressStages ELSE SigningStages

GoodRequest(l, r) ==
  /\ r \in Request /\ r.answer \in AnswersTo(r.kind) \cup {"pending"}
  /\ r.kind \in Asking \/ r.answer # "pending" => r.of \in Payloads
  /\ Founded(l, r.answer, r.of)

SessionInv ==
  /\ life \in [Payloads -> Lives]
  /\ faults \in 0..MaxFaults /\ crossed \in BOOLEAN /\ flow \in Flows
  /\ storage \in Session
  /\ GoodPage(life, page)
  /\ \A r \in requests : GoodRequest(life, r)

\* With the type of what was dropped the invariant is enough for two
\* properties of the runs.
DroppedInv == dropped \subseteq MaybePayload

LEMMA SessionInvSuffices ==
  /\ SessionInv /\ DroppedInv => TypeOK
  /\ SessionInv => DeadSessionsAreUnpaid
BY DEF SessionInv, DroppedInv, GoodPage, GoodRequest, Founded, TypeOK, DeadSessionsAreUnpaid

-----------------------------------------------------------------------------
(***************************************************************************)
(* What is dead stays dead: no payload leaves the stages Dead.             *)
(***************************************************************************)
Kept ==
  /\ life' \in [Payloads -> Lives]
  /\ \A p \in Payloads : life[p] \in Dead => life'[p] \in Dead

\* A payload that was alive may become anything.
LEMMA BecomesKeeps ==
  ASSUME SessionInv, NEW p \in Payloads, NEW from, from \notin Dead, NEW to \in Lives,
         Becomes(p, from, to)
  PROVE  Kept
BY DEF SessionInv, Becomes, Kept

\* The user, Xaman, the ledger and the executor.
LEMMA WorldKeeps ==
  ASSUME SessionInv, NEW p \in Payloads, Resolve(p) \/ Validate(p) \/ Execute(p)
  PROVE  Kept
<1>1. {"submitted", "rejected", "unusable", "paid", "ended"} \subseteq Lives
  BY DEF Lives, Unpaid
<1>2. {"open", "submitted", "paid"} \cap Dead = {}
  BY DEF Dead
<1>3. CASE Resolve(p)
  BY <1>1, <1>2, <1>3, BecomesKeeps DEF Resolve
<1>4. CASE Validate(p)
  BY <1>1, <1>2, <1>4, BecomesKeeps DEF Validate
<1>5. CASE Execute(p)
  BY <1>1, <1>2, <1>5, BecomesKeeps DEF Execute
<1>6. QED
  BY <1>3, <1>4, <1>5

\* A payload that is created was not dead.
LEMMA CreateKeeps ==
  ASSUME SessionInv, NEW p \in Payloads, Create(p)
  PROVE  Kept
<1>1. "unused" \notin Dead /\ "open" \in Lives
  BY DEF Dead, Lives, Unpaid
<1>2. QED
  BY <1>1, BecomesKeeps DEF Create

\* What was well founded stays so.
LEMMA KeptFounds ==
  ASSUME Kept, NEW stage, NEW p, Founded(life, stage, p)
  PROVE  Founded(life', stage, p)
BY DEF Kept, Founded

\* Nothing of the service changes.
LEMMA UnchangedKeeps ==
  ASSUME SessionInv, life' = life
  PROVE  Kept
BY DEF SessionInv, Kept

-----------------------------------------------------------------------------
(***************************************************************************)
(* The answers of the service are well founded when they are given.        *)
(***************************************************************************)
LEMMA FaultyCounts ==
  ASSUME SessionInv, Faulty \/ UNCHANGED faults
  PROVE  faults' \in 0..MaxFaults
<1>1. MaxFaults \in Nat
  BY ServiceAssumption
<1>2. faults \in 0..MaxFaults
  BY DEF SessionInv
<1>3. CASE Faulty
  BY <1>1, <1>2, <1>3 DEF Faulty
<1>4. CASE UNCHANGED faults
  BY <1>2, <1>4
<1>5. QED
  BY <1>3, <1>4

\* status() calls dead what Xaman calls rejected or cancelled.
LEMMA StatusIsFounded ==
  ASSUME SessionInv, NEW p \in Payloads, NEW answer, StatusAnswer(p, answer)
  PROVE  /\ life' = life /\ faults' \in 0..MaxFaults
         /\ answer \in SigningStages \cup {"error"}
         /\ Founded(life, answer, p)
<1>1. life' = life /\ (Faulty \/ UNCHANGED faults)
  BY DEF StatusAnswer
<1>2. life[p] \in Lives
  BY DEF SessionInv
<1>3. StatusStage(p) \in SigningStages /\ (StatusStage(p) \in Dead => life[p] \in Dead)
  BY <1>2 DEF StatusStage, Lives, Unpaid, SigningStages, Dead
<1>4. answer = StatusStage(p) \/ answer \in {"malformed", "error"}
  BY DEF StatusAnswer
<1>5. answer \in SigningStages \cup {"error"} /\ Founded(life, answer, p)
  BY <1>3, <1>4 DEF Founded, SigningStages, Dead
<1>6. QED
  BY <1>1, <1>5, FaultyCounts

\* cancel() calls dead what Xaman has cancelled just now, or what status() does.
LEMMA CancelIsFounded ==
  ASSUME SessionInv, NEW p \in Payloads, NEW answer, CancelAnswer(p, answer)
  PROVE  /\ Kept /\ faults' \in 0..MaxFaults
         /\ answer \in SigningStages \cup {"error"}
         /\ Founded(life', answer, p)
<1>1. CASE answer = "cancelled" /\ Becomes(p, "open", "cancelled") /\ UNCHANGED faults
  <2>1. "open" \notin Dead /\ "cancelled" \in Dead /\ "cancelled" \in Lives
    BY DEF Dead, Lives, Unpaid
  <2>2. Kept
    BY <1>1, <2>1, BecomesKeeps
  <2>3. life'[p] = "cancelled"
    BY <1>1 DEF Becomes, SessionInv
  <2>4. faults' \in 0..MaxFaults
    BY <1>1, FaultyCounts
  <2>5. QED
    BY <1>1, <2>1, <2>2, <2>3, <2>4 DEF Founded, SigningStages
<1>2. CASE StatusAnswer(p, answer)
  <2>1. /\ life' = life /\ faults' \in 0..MaxFaults
        /\ answer \in SigningStages \cup {"error"} /\ Founded(life, answer, p)
    BY <1>2, StatusIsFounded
  <2>2. QED
    BY <2>1, UnchangedKeeps
<1>3. QED
  BY <1>1, <1>2 DEF CancelAnswer

-----------------------------------------------------------------------------
(***************************************************************************)
(* The shapes of the steps.  One that leaves the service alone keeps the   *)
(* requests there were.                                                    *)
(***************************************************************************)
LEMMA OldRequestsStayGood ==
  ASSUME SessionInv, Kept, NEW r \in requests
  PROVE  GoodRequest(life', r)
BY KeptFounds DEF SessionInv, GoodRequest

\* So does a page that is left alone.
LEMMA OldPageStaysGood ==
  ASSUME SessionInv, Kept
  PROVE  GoodPage(life', page)
BY KeptFounds DEF SessionInv, GoodPage

\* A new request.
LEMMA AskedIsGood ==
  ASSUME NEW kind \in Kinds, NEW of \in MaybePayload, kind \in Asking => of \in Payloads, NEW l
  PROVE  /\ GoodRequest(l, Asked(kind, of))
         /\ GoodRequest(l, [Asked(kind, of) EXCEPT !.live = FALSE])
<1>1. "pending" \notin Dead
  BY DEF Dead
<1>2. Asked(kind, of) \in Request /\ [Asked(kind, of) EXCEPT !.live = FALSE] \in Request
  BY DEF Asked, Request
<1>3. QED
  BY <1>1, <1>2 DEF GoodRequest, Founded, Asked

\* So are the requests after one more is made.
LEMMA AskIsGood ==
  ASSUME SessionInv, NEW kind \in Kinds, NEW of \in MaybePayload,
         kind \in Asking => of \in Payloads, life' = life, Ask(kind, of)
  PROVE  \A r \in requests' : GoodRequest(life', r)
<1>1. requests' = requests \cup {Asked(kind, of)}
  BY DEF Ask
<1>2. GoodRequest(life', Asked(kind, of))
  BY AskedIsGood
<1>3. Kept
  BY UnchangedKeeps
<1>4. QED
  BY <1>1, <1>2, <1>3, OldRequestsStayGood

\* A request that is answered, or whose answer only says what went wrong.
LEMMA AnsweredIsGood ==
  ASSUME SessionInv, Kept, NEW r \in requests, r.kind \in Asking,
         NEW answer \in AnswersTo(r.kind) \cup {"error"},
         Founded(life', answer, r.of), Answered(r, answer)
  PROVE  \A q \in requests' : GoodRequest(life', q)
<1>1. r \in Request /\ r.of \in Payloads
  BY DEF SessionInv, GoodRequest
<1> DEFINE answered == [r EXCEPT !.answer = answer]
<1>2. requests' \subseteq requests \cup (IF answer = "error" THEN {} ELSE {answered})
  BY DEF Answered
<1>3. ASSUME answer # "error"
      PROVE  GoodRequest(life', answered)
  <2>1. answered \in Request
    BY <1>1, <1>3 DEF Request, AnswersTo
  <2>2. answered.kind = r.kind /\ answered.of = r.of /\ answered.answer = answer
    BY <1>1 DEF Request
  <2>3. QED
    BY <1>1, <1>3, <2>1, <2>2 DEF GoodRequest
<1> HIDE DEF answered
<1>4. QED
  BY <1>2, <1>3, OldRequestsStayGood

\* An answer that arrives.
LEMMA ApplyKeepsInv ==
  ASSUME SessionInv, Kept, flow' = flow, NEW r \in requests, NEW new, NEW stored, NEW persisted,
         GoodPage(life', new), stored \in Session, persisted \in Session,
         Apply(r, new, stored, persisted)
  PROVE  SessionInv'
<1>1. /\ requests' \subseteq requests
      /\ page' = new \/ page' = page
      /\ storage' = persisted \/ storage' = stored
      /\ faults' = faults
  BY DEF Apply
<1>2. crossed' \in BOOLEAN
  BY DEF Apply
<1>3. GoodPage(life', page')
  BY <1>1, OldPageStaysGood
<1>4. \A q \in requests' : GoodRequest(life', q)
  BY <1>1, OldRequestsStayGood
<1>5. QED
  BY <1>1, <1>2, <1>3, <1>4 DEF SessionInv, Kept

\* Any other step.
LEMMA StepKeepsInv ==
  ASSUME SessionInv, Kept, flow' = flow, faults' \in 0..MaxFaults, crossed' = crossed,
         storage' \in Session, GoodPage(life', page'),
         \A r \in requests' : GoodRequest(life', r)
  PROVE  SessionInv'
BY DEF SessionInv, Kept

-----------------------------------------------------------------------------
(***************************************************************************)
(* The pages the handlers make.                                            *)
(***************************************************************************)
LEMMA BlankIsGood ==
  ASSUME NEW l
  PROVE  /\ GoodPage(l, BlankPage)
         /\ GoodPage(l, [BlankPage EXCEPT !.mounted = FALSE])
         /\ \A review \in BOOLEAN : GoodPage(l, [BlankPage EXCEPT !.review = review])
<1>1. "none" \notin Dead
  BY DEF Dead
<1>2. Nothing \in [stage : SigningStages \cup {"none"}, of : MaybePayload]
      /\ Nothing \in [stage : ProgressStages \cup {"none"}, of : MaybePayload]
  BY DEF Nothing, MaybePayload
<1>3. BlankPage \in Page /\ BlankPage.status = Nothing
  BY <1>2 DEF BlankPage, Page, MaybePayload
<1>4. [BlankPage EXCEPT !.mounted = FALSE] \in Page
      /\ [BlankPage EXCEPT !.mounted = FALSE].status = Nothing
  BY <1>3 DEF Page
<1>5. ASSUME NEW review \in BOOLEAN
      PROVE  [BlankPage EXCEPT !.review = review] \in Page
             /\ [BlankPage EXCEPT !.review = review].status = Nothing
  BY <1>3 DEF Page
<1>6. QED
  BY <1>1, <1>3, <1>4, <1>5 DEF GoodPage, Founded, Nothing

\* A page whose status changes to one that is well founded.
LEMMA PageWithStatusIsGood ==
  ASSUME SessionInv, NEW l, NEW stage \in SigningStages, NEW of \in Payloads,
         Founded(l, stage, of),
         NEW new \in Page, new.status = [stage |-> stage, of |-> of]
  PROVE  GoodPage(l, new)
BY DEF GoodPage

\* A page whose status stays.
LEMMA PageWithOldStatusIsGood ==
  ASSUME SessionInv, Kept, NEW new \in Page, new.status = page.status
  PROVE  GoodPage(life', new)
BY KeptFounds DEF SessionInv, GoodPage

\* A restored page calls no session dead.
LEMMA RestoredIsGood ==
  ASSUME SessionInv, NEW l
  PROVE  GoodPage(l, RestoredPage)
<1>1. CASE storage = NoSession
  BY <1>1, BlankIsGood DEF RestoredPage
<1>2. CASE storage # NoSession
  <2> DEFINE status == IF storage.tx = None THEN Nothing
                       ELSE [stage |-> "signed", of |-> storage.signing]
  <2>1. storage.signing \in MaybePayload /\ storage.tx \in MaybePayload
    BY DEF SessionInv, Session
  <2>2. status \in [stage : SigningStages \cup {"none"}, of : MaybePayload]
        /\ status.stage \notin Dead
    BY <2>1 DEF Nothing, SigningStages, MaybePayload, Dead
  <2>3. RestoredPage = [BlankPage EXCEPT !.review = TRUE, !.signing = storage.signing,
                                         !.tx = storage.tx, !.status = status]
    BY <1>2 DEF RestoredPage
  <2>4. BlankPage \in Page
    BY BlankIsGood DEF GoodPage
  <2> HIDE DEF status
  <2>5. RestoredPage \in Page /\ RestoredPage.status = status
    BY <2>1, <2>2, <2>3, <2>4 DEF Page
  <2>6. QED
    BY <2>2, <2>5 DEF GoodPage, Founded
<1>3. QED
  BY <1>1, <1>2

\* The request a restored session begins with asks about its payload.
LEMMA RestoreAsksIsGood ==
  ASSUME SessionInv, NEW l
  PROVE  \A r \in RestoreAsks : GoodRequest(l, r)
<1>1. CASE storage # NoSession /\ storage.tx = None
  <2>1. storage.signing # None
    BY <1>1 DEF SessionInv, Session, NoSession
  <2>2. storage.signing \in Payloads /\ storage.signing \in MaybePayload
    BY <2>1 DEF SessionInv, Session, MaybePayload
  <2>3. GoodRequest(l, Asked("status", storage.signing))
    BY <2>2, AskedIsGood DEF Kinds
  <2>4. QED
    BY <1>1, <2>3 DEF RestoreAsks
<1>2. CASE ~(storage # NoSession /\ storage.tx = None)
  BY <1>2 DEF RestoreAsks
<1>3. QED
  BY <1>1, <1>2

-----------------------------------------------------------------------------
(***************************************************************************)
(* The steps of the pages that no answer starts.                           *)
(***************************************************************************)
LEMMA SigningIsPayload ==
  ASSUME SessionInv
  PROVE  /\ page \in Page /\ page.signing \in MaybePayload /\ page.tx \in MaybePayload
         /\ page.signing # None => page.signing \in Payloads
         /\ page.tx # None => page.tx \in Payloads
BY DEF SessionInv, GoodPage, Page, MaybePayload

\* A step that only asks for something.
LEMMA AskingKeepsInv ==
  ASSUME SessionInv, flow' = flow, NEW kind \in Kinds, NEW of \in MaybePayload,
         kind \in Asking => of \in Payloads, Ask(kind, of),
         UNCHANGED <<life, faults, page, storage, crossed>>
  PROVE  SessionInv'
<1>1. Kept /\ GoodPage(life', page')
  BY UnchangedKeeps DEF SessionInv
<1>2. \A r \in requests' : GoodRequest(life', r)
  BY AskIsGood
<1>3. QED
  BY <1>1, <1>2, StepKeepsInv DEF SessionInv

\* The polls, the signing button and the Cancel button only ask.
LEMMA PollsKeepInv ==
  ASSUME SessionInv, flow' = flow,
         PollStatus \/ OpenXaman \/ MintCancel \/ MintPollProgress \/ InstructionPollProgress
  PROVE  SessionInv'
<1>1. {"status", "open", "cancel", "progress"} \subseteq Kinds /\ "open" \notin Asking
  BY DEF Kinds, Asking
<1>2. CASE PollStatus
  BY <1>1, <1>2, SigningIsPayload, AskingKeepsInv DEF PollStatus, SigningActive
<1>3. CASE OpenXaman
  <2>1. None \in MaybePayload
    BY DEF MaybePayload
  <2>2. QED
    BY <1>1, <1>3, <2>1, AskingKeepsInv DEF OpenXaman
<1>4. CASE MintCancel
  BY <1>1, <1>4, SigningIsPayload, AskingKeepsInv DEF MintCancel, SigningActive
<1>5. CASE MintPollProgress
  BY <1>1, <1>5, SigningIsPayload, AskingKeepsInv DEF MintPollProgress
<1>6. CASE InstructionPollProgress
  BY <1>1, <1>6, SigningIsPayload, AskingKeepsInv DEF InstructionPollProgress
<1>7. QED
  BY <1>2, <1>3, <1>4, <1>5, <1>6

\* resetFlow asks for the cancellation of the payload it leaves.
LEMMA ResetFlowKeepsInv ==
  ASSUME SessionInv, flow' = flow, ResetFlow
  PROVE  SessionInv'
<1>1. Kept /\ crossed' = crossed /\ faults' \in 0..MaxFaults
  BY UnchangedKeeps, FaultyCounts DEF ResetFlow
<1>2. storage' \in Session
  BY DEF ResetFlow, NoSession, Session, MaybePayload
<1>3. GoodPage(life', page')
  BY BlankIsGood DEF ResetFlow
<1> DEFINE left == [Asked("drop", page.signing) EXCEPT !.live = FALSE]
<1>4. ASSUME SigningActive
      PROVE  GoodRequest(life', left)
  <2>1. page.signing \in Payloads /\ page.signing \in MaybePayload
    BY <1>4, SigningIsPayload DEF SigningActive
  <2>2. "drop" \in Kinds
    BY DEF Kinds
  <2>3. QED
    BY <2>1, <2>2, AskedIsGood
<1>5. requests' \subseteq requests \cup (IF SigningActive THEN {left} ELSE {})
  BY DEF ResetFlow
<1> HIDE DEF left
<1>6. \A r \in requests' : GoodRequest(life', r)
  BY <1>1, <1>4, <1>5, OldRequestsStayGood
<1>7. QED
  BY <1>1, <1>2, <1>3, <1>6, StepKeepsInv

\* prepareReview leaves a blank page with its review.
LEMMA PrepareReviewKeepsInv ==
  ASSUME SessionInv, flow' = flow, PrepareReview
  PROVE  SessionInv'
<1>1. Kept /\ crossed' = crossed /\ faults' \in 0..MaxFaults
  BY UnchangedKeeps, FaultyCounts DEF PrepareReview
<1>2. storage' \in Session
  BY DEF PrepareReview, NoSession, Session, MaybePayload
<1>3. page.review \in BOOLEAN
  BY SigningIsPayload DEF Page
<1>4. GoodPage(life', page')
  BY <1>3, BlankIsGood DEF PrepareReview
<1>5. "review" \in Kinds /\ "review" \notin Asking /\ None \in MaybePayload
  BY DEF Kinds, Asking, MaybePayload
<1>6. life' = life /\ Ask("review", None)
  BY DEF PrepareReview
<1>7. \A r \in requests' : GoodRequest(life', r)
  BY <1>5, <1>6, AskIsGood
<1>8. QED
  BY <1>1, <1>2, <1>4, <1>7, StepKeepsInv

\* The component mounts again.
LEMMA ReturnKeepsInv ==
  ASSUME SessionInv, flow' = flow, Return
  PROVE  SessionInv'
<1>1. Kept /\ crossed' = crossed /\ faults' \in 0..MaxFaults /\ storage' \in Session
  BY UnchangedKeeps, FaultyCounts DEF Return, SessionInv
<1>2. GoodPage(life', page')
  BY RestoredIsGood DEF Return
<1>3. requests' = requests \cup RestoreAsks
  BY DEF Return
<1>4. \A r \in requests' : GoodRequest(life', r)
  BY <1>1, <1>3, OldRequestsStayGood, RestoreAsksIsGood
<1>5. QED
  BY <1>1, <1>2, <1>4, StepKeepsInv

\* The requests of a component that is gone keep what they ask.
LEMMA SwitchTabKeepsInv ==
  ASSUME SessionInv, flow' = flow, SwitchTab
  PROVE  SessionInv'
<1>1. Kept /\ crossed' = crossed /\ faults' \in 0..MaxFaults /\ storage' \in Session
  BY UnchangedKeeps, FaultyCounts DEF SwitchTab, SessionInv
<1>2. GoodPage(life', page')
  BY BlankIsGood DEF SwitchTab
<1>3. ASSUME NEW r \in requests
      PROVE  GoodRequest(life', [r EXCEPT !.live = FALSE])
  <2> DEFINE left == [r EXCEPT !.live = FALSE]
  <2>1. GoodRequest(life', r)
    BY <1>1, OldRequestsStayGood
  <2>2. left \in Request /\ left.kind = r.kind /\ left.of = r.of /\ left.answer = r.answer
    BY <2>1 DEF GoodRequest, Request
  <2> HIDE DEF left
  <2>3. GoodRequest(life', left)
    BY <2>1, <2>2 DEF GoodRequest
  <2>4. QED
    BY <2>3 DEF left
<1>4. \A q \in requests' : \E r \in requests : q = [r EXCEPT !.live = FALSE]
  BY DEF SwitchTab
<1>5. \A q \in requests' : GoodRequest(life', q)
  BY <1>3, <1>4
<1>6. QED
  BY <1>1, <1>2, <1>5, StepKeepsInv

\* Only cancellations outlive a reload.
LEMMA ReloadKeepsInv ==
  ASSUME SessionInv, flow' = flow, Reload
  PROVE  SessionInv'
<1>1. Kept /\ crossed' = crossed /\ faults' \in 0..MaxFaults /\ storage' \in Session
  BY UnchangedKeeps, FaultyCounts DEF Reload, SessionInv
<1>2. GoodPage(life', page')
  BY RestoredIsGood DEF Reload
<1>3. ASSUME NEW r \in requests, Pending(r, "cancel") \/ Pending(r, "drop")
      PROVE  GoodRequest(life', [r EXCEPT !.kind = "drop", !.live = FALSE])
  <2> DEFINE left == [r EXCEPT !.kind = "drop", !.live = FALSE]
  <2>1. GoodRequest(life', r) /\ r.kind \in Asking
    BY <1>1, <1>3, OldRequestsStayGood DEF Pending, Asking
  <2>2. left \in Request /\ left.of = r.of /\ left.answer = r.answer
        /\ left.kind # "progress" /\ r.kind # "progress"
    BY <1>3, <2>1 DEF Pending, GoodRequest, Request, Kinds
  <2> HIDE DEF left
  <2>3. GoodRequest(life', left)
    BY <2>1, <2>2 DEF GoodRequest, AnswersTo
  <2>4. QED
    BY <2>3 DEF left
<1>4. \A q \in requests' :
        \/ q \in RestoreAsks
        \/ \E r \in requests : /\ Pending(r, "cancel") \/ Pending(r, "drop")
                               /\ q = [r EXCEPT !.kind = "drop", !.live = FALSE]
  BY DEF Reload
<1>5. \A q \in requests' : GoodRequest(life', q)
  BY <1>3, <1>4, RestoreAsksIsGood
<1>6. QED
  BY <1>1, <1>2, <1>5, StepKeepsInv

\* The user, the ledger and the executor leave the page and its requests alone.
LEMMA WorldKeepsInv ==
  ASSUME SessionInv, flow' = flow, World
  PROVE  SessionInv'
<1>1. PICK p \in Payloads : Resolve(p) \/ Validate(p) \/ Execute(p)
  BY DEF World
<1>2. Kept
  BY <1>1, WorldKeeps
<1>3. faults' \in 0..MaxFaults /\ storage' \in Session /\ crossed' = crossed
  BY FaultyCounts DEF World, SessionInv
<1>4. GoodPage(life', page')
  BY <1>2, OldPageStaysGood DEF World
<1>5. \A r \in requests' : GoodRequest(life', r)
  BY <1>2, OldRequestsStayGood DEF World
<1>6. QED
  BY <1>2, <1>3, <1>4, <1>5, StepKeepsInv

-----------------------------------------------------------------------------
(***************************************************************************)
(* The server's answers, and their arrival.                                *)
(***************************************************************************)
LEMMA AskingRequest ==
  ASSUME SessionInv, NEW r \in requests
  PROVE  /\ r \in Request
         /\ r.kind \in Asking \/ r.answer # "pending" => r.of \in Payloads
BY DEF SessionInv, GoodRequest

\* A request the server has handled.
LEMMA ServedKeepsInv ==
  ASSUME SessionInv, Kept, flow' = flow, UNCHANGED <<page, storage, crossed>>,
         faults' \in 0..MaxFaults, \A r \in requests' : GoodRequest(life', r)
  PROVE  SessionInv'
<1>1. GoodPage(life', page') /\ storage' \in Session
  BY OldPageStaysGood DEF SessionInv
<1>2. QED
  BY <1>1, StepKeepsInv

\* The server answers about a payload.
LEMMA ServeKeepsInv ==
  ASSUME SessionInv, flow' = flow, NEW r \in requests, Serve(r)
  PROVE  SessionInv'
<1>1. PICK answer \in Answers :
        \/ Pending(r, "status") /\ StatusAnswer(r.of, answer) /\ Answered(r, answer)
        \/ Pending(r, "cancel") /\ CancelAnswer(r.of, answer) /\ Answered(r, answer)
        \/ Pending(r, "drop") /\ CancelAnswer(r.of, answer) /\ requests' = requests \ {r}
  BY DEF Serve
<1>2. r.kind \in Asking /\ r.of \in Payloads /\ AnswersTo(r.kind) = SigningStages
  BY <1>1, AskingRequest DEF Pending, Asking, AnswersTo
<1>3. UNCHANGED <<page, storage, crossed>>
  BY DEF Serve
<1>4. CASE Pending(r, "status") /\ StatusAnswer(r.of, answer) /\ Answered(r, answer)
  <2>1. life' = life /\ faults' \in 0..MaxFaults /\ Founded(life, answer, r.of)
        /\ answer \in SigningStages \cup {"error"}
    BY <1>2, <1>4, StatusIsFounded
  <2>2. Kept
    BY <2>1, UnchangedKeeps
  <2>3. \A q \in requests' : GoodRequest(life', q)
    BY <1>2, <1>4, <2>1, <2>2, AnsweredIsGood
  <2>4. QED
    BY <1>3, <2>1, <2>2, <2>3, ServedKeepsInv
<1>5. CASE Pending(r, "cancel") /\ CancelAnswer(r.of, answer) /\ Answered(r, answer)
  <2>1. Kept /\ faults' \in 0..MaxFaults /\ Founded(life', answer, r.of)
        /\ answer \in SigningStages \cup {"error"}
    BY <1>2, <1>5, CancelIsFounded
  <2>2. \A q \in requests' : GoodRequest(life', q)
    BY <1>2, <1>5, <2>1, AnsweredIsGood
  <2>3. QED
    BY <1>3, <2>1, <2>2, ServedKeepsInv
<1>6. CASE Pending(r, "drop") /\ CancelAnswer(r.of, answer) /\ requests' = requests \ {r}
  <2>1. Kept /\ faults' \in 0..MaxFaults
    BY <1>2, <1>6, CancelIsFounded
  <2>2. \A q \in requests' : GoodRequest(life', q)
    BY <1>6, <2>1, OldRequestsStayGood
  <2>3. QED
    BY <1>3, <2>1, <2>2, ServedKeepsInv
<1>7. QED
  BY <1>1, <1>4, <1>5, <1>6

\* The progress of a payment says nothing of its payload.
LEMMA ServeProgressKeepsInv ==
  ASSUME SessionInv, flow' = flow, NEW r \in requests,
         MintServeProgress(r) \/ InstructionServeProgress(r)
  PROVE  SessionInv'
<1>1. PICK answer \in Answers :
        /\ MintProgressAnswer(r.of, answer) \/ InstructionProgressAnswer(r.of, answer)
        /\ Answered(r, answer)
  BY DEF MintServeProgress, InstructionServeProgress
<1>2. r.kind \in Asking /\ AnswersTo(r.kind) = ProgressStages
      /\ UNCHANGED <<page, storage, crossed>>
  BY DEF MintServeProgress, InstructionServeProgress, Pending, Asking, AnswersTo
<1>3. life' = life /\ (Faulty \/ UNCHANGED faults)
  BY <1>1 DEF MintProgressAnswer, InstructionProgressAnswer
<1>4. answer \in ProgressStages \cup {"error"}
  BY <1>1 DEF MintProgressAnswer, InstructionProgressAnswer, JobStage, ProgressStages
<1>5. Founded(life', answer, r.of)
  BY <1>4 DEF Founded, ProgressStages, Dead
<1>6. Kept /\ faults' \in 0..MaxFaults
  BY <1>3, UnchangedKeeps, FaultyCounts
<1>7. \A q \in requests' : GoodRequest(life', q)
  BY <1>1, <1>2, <1>4, <1>5, <1>6, AnsweredIsGood
<1>8. QED
  BY <1>2, <1>6, <1>7, ServedKeepsInv

\* What both pages store is a session.
LEMMA PersistedIsSession ==
  ASSUME NEW new \in Page, NEW stored \in Session
  PROVE  MintPersisted(new, stored) \in Session /\ InstructionPersisted(new, stored) \in Session
<1>1. NoSession \in Session
  BY DEF NoSession, Session, MaybePayload
<1>2. [signing |-> new.signing, tx |-> new.tx] \in Session
  BY DEF Page, Session
<1>3. Stored(new, stored) \in Session
  BY <1>1, <1>2 DEF Stored
<1>4. QED
  BY <1>1, <1>3 DEF MintPersisted, InstructionPersisted

\* An answer that arrives, on either page.
LEMMA ArrivalKeepsInv ==
  ASSUME SessionInv, Kept, flow' = flow, NEW r \in requests, NEW new, NEW stored \in Session,
         GoodPage(life', new),
         MintApply(r, new, stored) \/ InstructionApply(r, new, stored)
  PROVE  SessionInv'
<1>1. new \in Page
  BY DEF GoodPage
<1>2. MintPersisted(new, stored) \in Session /\ InstructionPersisted(new, stored) \in Session
  BY <1>1, PersistedIsSession
<1>3. QED
  BY <1>2, ApplyKeepsInv DEF MintApply, InstructionApply


\* readStatus shows the status it was given, of the payload it asked about.
LEMMA ReadStatusKeepsInv ==
  ASSUME SessionInv, flow' = flow, NEW r \in requests,
         MintReadStatus(r) \/ InstructionReadStatus(r)
  PROVE  SessionInv'
<1>1. r.kind = "status" /\ r.answer # "pending" /\ life' = life
  BY DEF MintReadStatus, InstructionReadStatus, Arrived
<1>2. r.answer \in SigningStages /\ r.of \in Payloads /\ Founded(life', r.answer, r.of)
  BY <1>1 DEF SessionInv, GoodRequest, AnswersTo, Asking
<1>3. Kept
  BY <1>1, UnchangedKeeps
<1> DEFINE status == [stage |-> r.answer, of |-> r.of]
           tx == IF Paying(r.answer) THEN r.of ELSE page.tx
<1>4. /\ status \in [stage : SigningStages \cup {"none"}, of : MaybePayload]
      /\ tx \in MaybePayload
  BY <1>2, SigningIsPayload DEF MaybePayload
<1>5. WithStatus(r) = [page EXCEPT !.status = status, !.tx = tx]
  BY DEF WithStatus
<1> HIDE DEF status, tx
<1>6. WithStatus(r) \in Page /\ WithStatus(r).status = status
  BY <1>4, <1>5, SigningIsPayload DEF Page
<1>7. GoodPage(life', WithStatus(r))
  BY <1>2, <1>6, PageWithStatusIsGood DEF status
<1>8. KeptByStatus(r) \in Session
  BY DEF KeptByStatus, NoSession, Session, MaybePayload, SessionInv
<1>9. \/ MintApply(r, WithStatus(r), KeptByStatus(r))
      \/ InstructionApply(r, WithStatus(r), KeptByStatus(r))
  BY DEF MintReadStatus, InstructionReadStatus
<1>10. QED
  BY <1>3, <1>7, <1>8, <1>9, ArrivalKeepsInv

\* An error leaves everything as it is.
LEMMA RefusedKeepsInv ==
  ASSUME SessionInv, flow' = flow, NEW r \in requests, Refused(r)
  PROVE  SessionInv'
<1>1. Kept /\ faults' \in 0..MaxFaults
  BY UnchangedKeeps, FaultyCounts DEF Refused
<1>2. \A q \in requests' : GoodRequest(life', q)
  BY <1>1, OldRequestsStayGood DEF Refused
<1>3. QED
  BY <1>1, <1>2, ServedKeepsInv DEF Refused

\* A review changes no status.
LEMMA ReviewedKeepsInv ==
  ASSUME SessionInv, flow' = flow, NEW r \in requests,
         MintReviewed(r) \/ InstructionReviewed(r)
  PROVE  SessionInv'
<1>1. CASE Refused(r)
  BY <1>1, RefusedKeepsInv
<1>2. ASSUME NEW usable \in BOOLEAN, life' = life,
             \/ MintApply(r, [page EXCEPT !.review = usable], storage)
             \/ InstructionApply(r, [page EXCEPT !.review = usable], storage)
      PROVE  SessionInv'
  <2> DEFINE new == [page EXCEPT !.review = usable]
  <2>1. new \in Page /\ new.status = page.status
    BY SigningIsPayload DEF Page
  <2>2. Kept /\ storage \in Session
    BY <1>2, UnchangedKeeps DEF SessionInv
  <2>3. MintApply(r, new, storage) \/ InstructionApply(r, new, storage)
    BY <1>2
  <2> HIDE DEF new
  <2>4. GoodPage(life', new)
    BY <2>1, <2>2, PageWithOldStatusIsGood
  <2>5. QED
    BY <2>2, <2>3, <2>4, ArrivalKeepsInv
<1>3. QED
  BY <1>1, <1>2 DEF MintReviewed, InstructionReviewed

\* A new payload is awaiting its signature.
LEMMA OpenedKeepsInv ==
  ASSUME SessionInv, flow' = flow, NEW r \in requests,
         MintOpened(r) \/ InstructionOpened(r)
  PROVE  SessionInv'
<1>1. CASE Refused(r)
  BY <1>1, RefusedKeepsInv
<1>2. ASSUME NEW p \in Payloads, Create(p),
             \/ MintApply(r, WithPayload(p), [signing |-> p, tx |-> None])
             \/ InstructionApply(r, WithPayload(p), storage)
      PROVE  SessionInv'
  <2>1. Kept
    BY <1>2, CreateKeeps
  <2> DEFINE status == [stage |-> "awaiting", of |-> p]
  <2>2. /\ p \in MaybePayload /\ "awaiting" \in SigningStages /\ "awaiting" \notin Dead
        /\ status \in [stage : SigningStages \cup {"none"}, of : MaybePayload]
    BY DEF MaybePayload, SigningStages, Dead
  <2>3. WithPayload(p) = [page EXCEPT !.review = TRUE, !.signing = p, !.status = status]
    BY DEF WithPayload
  <2> HIDE DEF status
  <2>4. WithPayload(p) \in Page /\ WithPayload(p).status = status
    BY <2>2, <2>3, SigningIsPayload DEF Page
  <2>5. GoodPage(life', WithPayload(p))
    BY <2>2, <2>4, PageWithStatusIsGood DEF Founded, status
  <2>6. storage \in Session /\ [signing |-> p, tx |-> None] \in Session
    BY <2>2 DEF SessionInv, Session, MaybePayload
  <2>7. QED
    BY <1>2, <2>1, <2>5, <2>6, ArrivalKeepsInv
<1>3. QED
  BY <1>1, <1>2 DEF MintOpened, InstructionOpened

\* cancelSigning shows the answer it was given.
LEMMA CancelledKeepsInv ==
  ASSUME SessionInv, flow' = flow, NEW r \in requests, MintCancelled(r)
  PROVE  SessionInv'
<1>1. r.kind = "cancel" /\ r.answer # "pending" /\ life' = life
  BY DEF MintCancelled, Arrived
<1>2. r.answer \in SigningStages /\ r.of \in Payloads /\ Founded(life', r.answer, r.of)
  BY <1>1 DEF SessionInv, GoodRequest, AnswersTo, Asking
<1>3. Kept
  BY <1>1, UnchangedKeeps
<1> DEFINE status == [stage |-> r.answer, of |-> r.of]
           new == [page EXCEPT !.status = status, !.tx = None, !.progress = Nothing]
<1>4. /\ status \in [stage : SigningStages \cup {"none"}, of : MaybePayload]
      /\ Nothing \in [stage : ProgressStages \cup {"none"}, of : MaybePayload]
      /\ None \in MaybePayload
  BY <1>2 DEF MaybePayload, Nothing
<1>5. MintApply(r, new, NoSession)
  BY DEF MintCancelled
<1> HIDE DEF status
<1>6. new \in Page /\ new.status = status
  BY <1>4, SigningIsPayload DEF Page
<1> HIDE DEF new
<1>7. GoodPage(life', new)
  BY <1>2, <1>6, PageWithStatusIsGood DEF status
<1>8. NoSession \in Session
  BY DEF NoSession, Session, MaybePayload
<1>9. QED
  BY <1>3, <1>5, <1>7, <1>8, ArrivalKeepsInv

\* A progress answer changes no status.
LEMMA ReadProgressKeepsInv ==
  ASSUME SessionInv, flow' = flow, NEW r \in requests,
         MintReadProgress(r) \/ InstructionReadProgress(r)
  PROVE  SessionInv'
<1>1. r.kind = "progress" /\ r.answer # "pending" /\ life' = life
  BY DEF MintReadProgress, InstructionReadProgress, Arrived
<1>2. r.answer \in ProgressStages /\ r.of \in MaybePayload
  BY <1>1 DEF SessionInv, GoodRequest, AnswersTo, Request
<1>3. Kept /\ storage \in Session
  BY <1>1, UnchangedKeeps DEF SessionInv
<1> DEFINE progress == [stage |-> r.answer, of |-> r.of]
           new == [page EXCEPT !.progress = progress]
<1>4. progress \in [stage : ProgressStages \cup {"none"}, of : MaybePayload]
  BY <1>2
<1>5. MintApply(r, new, storage) \/ InstructionApply(r, new, storage)
  BY DEF MintReadProgress, InstructionReadProgress
<1> HIDE DEF progress
<1>6. new \in Page /\ new.status = page.status
  BY <1>4, SigningIsPayload DEF Page
<1> HIDE DEF new
<1>7. GoodPage(life', new)
  BY <1>3, <1>6, PageWithOldStatusIsGood
<1>8. QED
  BY <1>3, <1>5, <1>7, ArrivalKeepsInv

-----------------------------------------------------------------------------
\* The page when it is first opened.
LEMMA InitIsGood == Init => SessionInv
<1> SUFFICES ASSUME Init PROVE SessionInv
  OBVIOUS
<1>1. life \in [Payloads -> Lives] /\ faults \in 0..MaxFaults
  BY ServiceAssumption DEF Init, CoreInit, ServiceInit, Lives, Unpaid
<1>2. crossed \in BOOLEAN /\ flow \in Flows /\ requests = {} /\ storage \in Session
  BY DEF Init, CoreInit, NoSession, Session, MaybePayload
<1>3. GoodPage(life, page)
  BY BlankIsGood DEF Init, CoreInit
<1>4. QED
  BY <1>1, <1>2, <1>3 DEF SessionInv

\* Every step keeps the invariant.
LEMMA NextKeepsInv == SessionInv /\ [Next]_allVars => SessionInv'
<1> SUFFICES ASSUME SessionInv, [Next]_allVars PROVE SessionInv'
  OBVIOUS
<1>1. CASE UNCHANGED allVars
  <2>1. UNCHANGED <<life, faults, page, storage, requests, crossed, flow>>
    BY <1>1 DEF allVars, vars
  <2>2. QED
    BY <2>1 DEF SessionInv
<1>2. CASE Next
  <2>1. flow' = flow
    BY <1>2 DEF Next
  <2>2. CASE User
    BY <2>1, <2>2, PollsKeepInv, SwitchTabKeepsInv, ReturnKeepsInv, ReloadKeepsInv DEF User
  <2>3. CASE World
    BY <2>1, <2>3, WorldKeepsInv
  <2>4. CASE PollStatus \/ PollProgress
    BY <2>1, <2>4, PollsKeepInv DEF PollProgress
  <2>5. ASSUME NEW r \in requests, Handle(r)
        PROVE  SessionInv'
    BY <2>1, <2>5, ServeKeepsInv, ServeProgressKeepsInv DEF Handle
  <2>6. ASSUME NEW r \in requests, Arrive(r)
        PROVE  SessionInv'
    <3>1. CASE MintArrives(r)
      BY <2>1, <3>1, ReadStatusKeepsInv, ReviewedKeepsInv, OpenedKeepsInv,
         ReadProgressKeepsInv DEF MintArrives
    <3>2. CASE InstructionArrives(r)
      BY <2>1, <3>2, ReadStatusKeepsInv, ReviewedKeepsInv, OpenedKeepsInv,
         ReadProgressKeepsInv DEF InstructionArrives
    <3>3. QED
      BY <2>6, <3>1, <3>2 DEF Arrive
  <2>7. CASE Drop
    BY <2>1, <2>7, ResetFlowKeepsInv, PrepareReviewKeepsInv, CancelledKeepsInv DEF Drop
  <2>8. QED
    BY <1>2, <2>2, <2>3, <2>4, <2>5, <2>6, <2>7 DEF Next
<1>3. QED
  BY <1>1, <1>2

\* Only what a page showed is dropped.
LEMMA NextKeepsDropped == SessionInv /\ DroppedInv /\ [Next]_allVars => DroppedInv'
<1> SUFFICES ASSUME SessionInv, DroppedInv, [Next]_allVars PROVE DroppedInv'
  OBVIOUS
<1>1. page.signing \in MaybePayload
  BY SigningIsPayload
<1>2. dropped' = dropped \/ dropped' = dropped \cup {page.signing}
  BY DEF Next, Drop, allVars
<1>3. QED
  BY <1>1, <1>2 DEF DroppedInv

(***************************************************************************)
(* Both theorems hold for any number of payloads, faults and requests in   *)
(* flight, and in whatever order the answers arrive.  First, type          *)
(* correctness of both pages, their storage and their requests.            *)
(***************************************************************************)
THEOREM SessionTypeCorrect == Spec => []TypeOK
<1>1. SessionInv /\ DroppedInv => TypeOK
  BY SessionInvSuffices
<1>2. Init => DroppedInv
  BY DEF Init, DroppedInv
<1>3. QED
  BY <1>1, <1>2, InitIsGood, NextKeepsInv, NextKeepsDropped, PTL DEF Spec

\* What a page calls rejected or cancelled has made no payment and never will.
THEOREM DeadSessionsUnpaid == Spec => []DeadSessionsAreUnpaid
<1>1. SessionInv => DeadSessionsAreUnpaid
  BY SessionInvSuffices
<1>2. QED
  BY <1>1, InitIsGood, NextKeepsInv, PTL DEF Spec

-----------------------------------------------------------------------------
(***************************************************************************)
(* What is on the screen and what localStorage holds.                      *)
(***************************************************************************)
Shown(p) == [signing |-> p.signing, tx |-> p.tx]

Agrees(p, s) ==
  /\ p.mounted /\ s # NoSession => s = Shown(p) /\ ~Terminal(p)
  /\ p.tx # None /\ Paying(p.status.stage) /\ ~Terminal(p) => s = Shown(p)

Screen(p, s) ==
  /\ p.signing = None => p.tx = None /\ p.progress = Nothing
  /\ p.signing # None => p.review /\ p.mounted
  /\ Agrees(p, s)

(***************************************************************************)
(* The page waits for one review or one new payload at a time, and has no  *)
(* payload while it does.                                                  *)
(***************************************************************************)
Preparing(rs) == {r \in rs : r.live /\ r.kind \in {"review", "open"}}

OneAtATime ==
  /\ \A r \in requests : r.kind \in {"review", "open"} => r.of = None /\ r.answer = "pending"
  /\ \A q, r \in Preparing(requests) : q = r
  /\ Preparing(requests) # {} => page.mounted

ScreenInv ==
  /\ storage.signing = None => storage = NoSession
  /\ OneAtATime
  /\ ~crossed => /\ Screen(page, storage)
                 /\ Preparing(requests) # {} => page.signing = None

\* The invariant holds the two properties of the runs.
LEMMA ScreenInvSuffices ==
  SessionInv /\ ScreenInv => PaymentsSurviveReload /\ ReloadBringsBackTheScreen
BY DEF ScreenInv, Screen, Agrees, Shown, PaymentsSurviveReload, ReloadBringsBackTheScreen

\* What is stored of a page names a payload, or is no session.
LEMMA PersistedNames ==
  ASSUME NEW new, NEW stored, stored.signing = None => stored = NoSession,
         NEW persisted \in {MintPersisted(new, stored), InstructionPersisted(new, stored)},
         persisted.signing = None
  PROVE  persisted = NoSession
<1>1. persisted \in {NoSession, Stored(new, stored)}
  BY DEF MintPersisted, InstructionPersisted
<1>2. CASE persisted = NoSession
  BY <1>2
<1>3. CASE persisted = Stored(new, stored)
  <2>1. ASSUME new.signing # None
        PROVE  [signing |-> new.signing, tx |-> new.tx].signing # None
    BY <2>1
  <2>2. persisted \in {stored, NoSession}
        \/ (new.signing # None /\ persisted = [signing |-> new.signing, tx |-> new.tx])
    BY <1>3 DEF Stored
  <2>3. QED
    BY <2>1, <2>2
<1>4. QED
  BY <1>1, <1>2, <1>3

(***************************************************************************)
(* The effects of either page, on one with a session and on one without.   *)
(***************************************************************************)
LEMMA PersistedWithSession ==
  ASSUME NEW new, NEW stored, new.signing # None, new.review = TRUE,
         NEW persisted \in {MintPersisted(new, stored), InstructionPersisted(new, stored)}
  PROVE  /\ Depends(new) = Depends(page) => persisted = stored
         /\ Depends(new) # Depends(page) =>
              persisted = IF Terminal(new) THEN NoSession
                          ELSE IF Waiting(new.status) \/ new.tx # None THEN Shown(new)
                          ELSE stored
BY DEF MintPersisted, InstructionPersisted, Stored, Shown

\* Without a session the effects leave localStorage alone.
LEMMA PersistedWithoutSession ==
  ASSUME NEW new, NEW stored, new.signing = None, new.tx = None,
         NEW persisted \in {MintPersisted(new, stored), InstructionPersisted(new, stored)}
  PROVE  persisted = stored
BY DEF MintPersisted, InstructionPersisted, Stored

\* What is stored of a page with a session is that session.
LEMMA PersistedIsShown ==
  ASSUME NEW new, NEW stored, new.signing # None, new.review = TRUE, new.mounted = TRUE,
         Waiting(new.status) \/ new.tx # None \/ stored = NoSession,
         Depends(new) = Depends(page) => Agrees(new, stored),
         NEW persisted \in {MintPersisted(new, stored), InstructionPersisted(new, stored)}
  PROVE  Screen(new, persisted)
<1>1. /\ Depends(new) = Depends(page) => persisted = stored
      /\ Depends(new) # Depends(page) =>
           persisted = IF Terminal(new) THEN NoSession
                       ELSE IF Waiting(new.status) \/ new.tx # None THEN Shown(new)
                       ELSE stored
  BY PersistedWithSession, Zenon
<1>2. Depends(new) # Depends(page) => Agrees(new, persisted)
  BY <1>1 DEF Agrees
<1>3. Agrees(new, persisted)
  BY <1>1, <1>2
<1>4. QED
  BY <1>3 DEF Screen

-----------------------------------------------------------------------------
(***************************************************************************)
(* An answer that arrives.                                                 *)
(***************************************************************************)
LEMMA ArrivalKeepsScreen ==
  ASSUME SessionInv, ScreenInv, NEW r \in requests, NEW new, NEW stored,
         MintApply(r, new, stored) \/ InstructionApply(r, new, stored),
         new.mounted = page.mounted,
         stored.signing = None => stored = NoSession,
         r.live /\ ~crossed /\ ~Crosses(r) =>
           \A persisted \in {MintPersisted(new, stored), InstructionPersisted(new, stored)} :
             Screen(new, persisted),
         r.live /\ ~crossed /\ ~Crosses(r) /\ Preparing(requests \ {r}) # {} =>
           new.signing = None
  PROVE  ScreenInv'
<1>1. PICK persisted \in {MintPersisted(new, stored), InstructionPersisted(new, stored)} :
        Apply(r, new, stored, persisted)
  BY DEF MintApply, InstructionApply
<1>2. /\ requests' = requests \ {r}
      /\ page' = IF r.live THEN new ELSE page
      /\ storage' = IF r.live THEN persisted ELSE stored
      /\ crossed' = (crossed \/ Crosses(r))
  BY <1>1 DEF Apply
<1>3. persisted.signing = None => persisted = NoSession
  BY PersistedNames
<1>4. storage'.signing = None => storage' = NoSession
  BY <1>2, <1>3
<1>5. page'.mounted = page.mounted
  BY <1>2
<1>6. Preparing(requests') \subseteq Preparing(requests)
  BY <1>2 DEF Preparing
<1>7. OneAtATime'
  BY <1>2, <1>5, <1>6 DEF ScreenInv, OneAtATime
<1>8. ASSUME ~crossed'
      PROVE  Screen(page', storage') /\ (Preparing(requests') # {} => page'.signing = None)
  <2>1. ~crossed /\ ~Crosses(r)
    BY <1>2, <1>8
  <2>2. CASE r.live
    <3>1. page' = new /\ storage' = persisted
      BY <1>2, <2>2
    <3>2. QED
      BY <1>2, <2>1, <2>2, <3>1
  <2>3. CASE ~r.live
    <3>1. page' = page /\ storage' = stored /\ ~page.mounted
      BY <1>2, <2>1, <2>3 DEF Crosses
    <3>2. page.signing = None /\ page.tx = None /\ page.progress = Nothing
      BY <2>1, <3>1 DEF ScreenInv, Screen
    <3>3. Screen(page, stored)
      BY <3>1, <3>2 DEF Screen, Agrees
    <3>4. QED
      BY <3>1, <3>2, <3>3
  <2>4. QED
    BY <2>2, <2>3
<1>9. QED
  BY <1>4, <1>7, <1>8 DEF ScreenInv

\* While a session is on the screen nothing is prepared.
LEMMA SessionIsAlone ==
  ASSUME ScreenInv, ~crossed, page.signing # None, NEW r
  PROVE  Preparing(requests) = {} /\ Preparing(requests \ {r}) = {}
BY DEF ScreenInv, Preparing

\* The status of the session on the screen.
LEMMA ReadStatusKeepsScreen ==
  ASSUME SessionInv, ScreenInv, NEW r \in requests,
         MintReadStatus(r) \/ InstructionReadStatus(r)
  PROVE  ScreenInv'
<1> DEFINE new == WithStatus(r)
           stored == KeptByStatus(r)
<1>1. /\ MintApply(r, new, stored) \/ InstructionApply(r, new, stored)
      /\ r.kind = "status" /\ r.answer # "pending"
  BY DEF MintReadStatus, InstructionReadStatus, Arrived
<1>2. r.answer \in SigningStages /\ r.of \in Payloads /\ r.of # None
  BY <1>1, ServiceAssumption DEF SessionInv, GoodRequest, AnswersTo, Asking, None
<1>3. page \in Page
  BY SigningIsPayload
<1>4. /\ new.mounted = page.mounted /\ new.review = page.review /\ new.signing = page.signing
      /\ new.progress = page.progress /\ new.status = [stage |-> r.answer, of |-> r.of]
      /\ new.tx = IF Paying(r.answer) THEN r.of ELSE page.tx
  BY <1>3 DEF WithStatus, Page
<1>5. new.status.stage = r.answer
  BY <1>4
<1>6. stored = IF r.answer = "awaiting" \/ Paying(r.answer) THEN storage ELSE NoSession
  BY DEF KeptByStatus
<1> HIDE DEF new, stored
<1>7. stored.signing = None => stored = NoSession
  BY <1>6 DEF ScreenInv
<1>8. ASSUME ~crossed, ~Crosses(r),
             NEW persisted \in {MintPersisted(new, stored), InstructionPersisted(new, stored)}
      PROVE  Screen(new, persisted)
  <2>1. page.signing = r.of
    BY <1>1, <1>8 DEF Crosses
  <2>2. Screen(page, storage) /\ page.review = TRUE /\ page.mounted = TRUE
    BY <1>2, <1>3, <1>8, <2>1 DEF ScreenInv, Screen, Page
  <2>3. Waiting(new.status) \/ new.tx # None \/ stored = NoSession
    BY <1>2, <1>4, <1>5, <1>6 DEF Waiting, Paying, SigningStages
  <2>4. ASSUME Depends(new) = Depends(page)
        PROVE  Agrees(new, stored)
    <3>1. new.tx = page.tx /\ new.status.stage = page.status.stage
          /\ Terminal(new) = Terminal(page) /\ Shown(new) = Shown(page)
      BY <1>4, <2>4 DEF Depends, Shown, Terminal
    <3>2. Agrees(new, storage)
      BY <1>4, <2>2, <3>1 DEF Screen, Agrees
    <3>3. CASE stored = storage
      BY <3>2, <3>3
    <3>4. CASE stored # storage
      BY <1>5, <1>6, <3>4 DEF Agrees
    <3>5. QED
      BY <3>3, <3>4
  <2>5. new.signing # None /\ new.review = TRUE /\ new.mounted = TRUE
    BY <1>2, <1>4, <2>1, <2>2
  <2>6. QED
    BY <2>3, <2>4, <2>5, PersistedIsShown
<1>9. ASSUME ~crossed, ~Crosses(r), Preparing(requests \ {r}) # {}
      PROVE  new.signing = None
  BY <1>4, <1>9, SessionIsAlone
<1>10. QED
  BY <1>1, <1>4, <1>7, <1>8, <1>9, ArrivalKeepsScreen

\* The progress of the payment on the screen.
LEMMA ReadProgressKeepsScreen ==
  ASSUME SessionInv, ScreenInv, NEW r \in requests,
         MintReadProgress(r) \/ InstructionReadProgress(r)
  PROVE  ScreenInv'
<1> DEFINE new == [page EXCEPT !.progress = [stage |-> r.answer, of |-> r.of]]
<1>1. /\ MintApply(r, new, storage) \/ InstructionApply(r, new, storage)
      /\ r.kind = "progress" /\ r.answer # "pending"
  BY DEF MintReadProgress, InstructionReadProgress, Arrived
<1>2. r.of \in Payloads /\ r.of # None
  BY <1>1, ServiceAssumption DEF SessionInv, GoodRequest, Asking, None
<1>3. page \in Page
  BY SigningIsPayload
<1>4. /\ new.mounted = page.mounted /\ new.review = page.review /\ new.signing = page.signing
      /\ new.status = page.status /\ new.tx = page.tx
  BY <1>3 DEF Page
<1> HIDE DEF new
<1>5. storage.signing = None => storage = NoSession
  BY DEF ScreenInv
<1>6. ASSUME ~crossed, ~Crosses(r),
             NEW persisted \in {MintPersisted(new, storage), InstructionPersisted(new, storage)}
      PROVE  Screen(new, persisted)
  <2>1. page.tx = r.of
    BY <1>1, <1>6 DEF Crosses
  <2>2. /\ Screen(page, storage) /\ page.signing # None
        /\ page.review = TRUE /\ page.mounted = TRUE
    BY <1>2, <1>3, <1>6, <2>1 DEF ScreenInv, Screen, Page
  <2>3. new.tx # None /\ new.signing # None /\ new.review = TRUE /\ new.mounted = TRUE
    BY <1>2, <1>4, <2>1, <2>2
  <2>4. ASSUME Depends(new) = Depends(page)
        PROVE  Agrees(new, storage)
    <3>1. Terminal(new) = Terminal(page) /\ Shown(new) = Shown(page)
      BY <1>4, <2>4 DEF Depends, Shown, Terminal
    <3>2. QED
      BY <1>4, <2>2, <3>1 DEF Screen, Agrees
  <2>5. QED
    BY <2>3, <2>4, PersistedIsShown
<1>7. ASSUME ~crossed, ~Crosses(r), Preparing(requests \ {r}) # {}
      PROVE  new.signing = None
  BY <1>4, <1>7, SessionIsAlone
<1>8. QED
  BY <1>1, <1>4, <1>5, <1>6, <1>7, ArrivalKeepsScreen

\* The answer to the Cancel button: only what is still awaited is stored.
LEMMA CancelledKeepsScreen ==
  ASSUME SessionInv, ScreenInv, NEW r \in requests, MintCancelled(r)
  PROVE  ScreenInv'
<1> DEFINE new == [page EXCEPT !.status = [stage |-> r.answer, of |-> r.of],
                               !.tx = None, !.progress = Nothing]
<1>1. MintApply(r, new, NoSession) /\ r.kind = "cancel" /\ r.answer # "pending"
  BY DEF MintCancelled, Arrived
<1>2. r.of \in Payloads /\ r.of # None
  BY <1>1, ServiceAssumption DEF SessionInv, GoodRequest, Asking, None
<1>3. page \in Page
  BY SigningIsPayload
<1>4. /\ new.mounted = page.mounted /\ new.review = page.review /\ new.signing = page.signing
      /\ new.tx = None /\ new.progress = Nothing
  BY <1>3 DEF Page
<1> HIDE DEF new
<1>5. ASSUME ~crossed, ~Crosses(r),
             NEW persisted \in {MintPersisted(new, NoSession), InstructionPersisted(new, NoSession)}
      PROVE  Screen(new, persisted)
  <2>1. page.signing = r.of
    BY <1>1, <1>5 DEF Crosses
  <2>2. new.signing # None /\ new.review = TRUE /\ new.mounted = TRUE
    BY <1>2, <1>3, <1>4, <1>5, <2>1 DEF ScreenInv, Screen, Page
  <2>3. Agrees(new, NoSession)
    BY <1>4 DEF Agrees
  <2>4. QED
    BY <2>2, <2>3, PersistedIsShown
<1>6. ASSUME ~crossed, ~Crosses(r), Preparing(requests \ {r}) # {}
      PROVE  new.signing = None
  BY <1>4, <1>6, SessionIsAlone
<1>7. QED
  BY <1>1, <1>4, <1>5, <1>6, ArrivalKeepsScreen

\* An answer that is an error, or to nothing that is on the screen.
LEMMA RefusedKeepsScreen ==
  ASSUME SessionInv, ScreenInv, NEW r \in requests, Refused(r)
  PROVE  ScreenInv'
<1>1. requests' = requests \ {r} /\ UNCHANGED <<page, storage, crossed>>
  BY DEF Refused
<1>2. Preparing(requests') \subseteq Preparing(requests)
  BY <1>1 DEF Preparing
<1>3. QED
  BY <1>1, <1>2 DEF ScreenInv, OneAtATime

\* What was prepared was the only thing that was.
LEMMA NothingElsePrepared ==
  ASSUME ScreenInv, NEW r \in requests, r.live, r.kind \in {"review", "open"}
  PROVE  Preparing(requests \ {r}) = {}
<1>1. r \in Preparing(requests)
  BY DEF Preparing
<1>2. \A q \in Preparing(requests) : q = r
  BY <1>1 DEF ScreenInv, OneAtATime
<1>3. QED
  BY <1>2 DEF Preparing

\* A review is shown on a page without a session.
LEMMA ReviewedKeepsScreen ==
  ASSUME SessionInv, ScreenInv, NEW r \in requests,
         MintReviewed(r) \/ InstructionReviewed(r)
  PROVE  ScreenInv'
<1>1. CASE Refused(r)
  BY <1>1, RefusedKeepsScreen
<1>2. ASSUME NEW usable \in BOOLEAN, r.kind = "review",
             \/ MintApply(r, [page EXCEPT !.review = usable], storage)
             \/ InstructionApply(r, [page EXCEPT !.review = usable], storage)
      PROVE  ScreenInv'
  <2> DEFINE new == [page EXCEPT !.review = usable]
  <2>1. page \in Page
    BY SigningIsPayload
  <2>2. /\ new.mounted = page.mounted /\ new.signing = page.signing /\ new.tx = page.tx
        /\ new.status = page.status /\ new.progress = page.progress
    BY <2>1 DEF Page
  <2>3. MintApply(r, new, storage) \/ InstructionApply(r, new, storage)
    BY <1>2
  <2> HIDE DEF new
  <2>4. storage.signing = None => storage = NoSession
    BY DEF ScreenInv
  <2>5. ASSUME ~crossed, ~Crosses(r),
               NEW persisted \in {MintPersisted(new, storage), InstructionPersisted(new, storage)}
        PROVE  Screen(new, persisted)
    <3>1. r \in Preparing(requests)
      BY <1>2, <2>5 DEF Crosses, Preparing
    <3>2. Screen(page, storage) /\ page.signing = None
      BY <2>5, <3>1 DEF ScreenInv
    <3>3. page.tx = None /\ page.progress = Nothing /\ Agrees(page, storage)
      BY <3>2 DEF Screen
    <3>4. persisted = storage
      BY <2>2, <3>2, <3>3, PersistedWithoutSession
    <3>5. Agrees(new, storage)
      BY <2>2, <3>3 DEF Agrees, Shown, Terminal
    <3>6. QED
      BY <2>2, <3>2, <3>3, <3>4, <3>5 DEF Screen
  <2>6. ASSUME ~crossed, ~Crosses(r), Preparing(requests \ {r}) # {}
        PROVE  new.signing = None
    <3>1. Preparing(requests) # {}
      BY <2>6 DEF Preparing
    <3>2. QED
      BY <2>2, <2>6, <3>1 DEF ScreenInv
  <2>7. QED
    BY <2>2, <2>3, <2>4, <2>5, <2>6, ArrivalKeepsScreen
<1>3. QED
  BY <1>1, <1>2 DEF MintReviewed, InstructionReviewed, Pending

\* A new payload is stored, by the handler or by the effect.
LEMMA OpenedKeepsScreen ==
  ASSUME SessionInv, ScreenInv, NEW r \in requests,
         MintOpened(r) \/ InstructionOpened(r)
  PROVE  ScreenInv'
<1>1. CASE Refused(r)
  BY <1>1, RefusedKeepsScreen
<1>2. ASSUME NEW p \in Payloads, r.kind = "open", NEW stored,
             stored \in {storage, [signing |-> p, tx |-> None]},
             MintApply(r, WithPayload(p), stored) \/ InstructionApply(r, WithPayload(p), stored)
      PROVE  ScreenInv'
  <2> DEFINE new == WithPayload(p)
  <2>1. page \in Page /\ p # None
    BY SigningIsPayload, ServiceAssumption DEF None
  <2>2. /\ new.mounted = page.mounted /\ new.signing = p /\ new.tx = page.tx
        /\ new.review = TRUE /\ new.status = [stage |-> "awaiting", of |-> p]
        /\ new.progress = page.progress
    BY <2>1 DEF WithPayload, Page
  <2>3. Waiting(new.status)
    BY <2>2 DEF Waiting
  <2>4. MintApply(r, new, stored) \/ InstructionApply(r, new, stored)
    BY <1>2
  <2> HIDE DEF new
  <2>5. stored.signing = None => stored = NoSession
    <3>1. [signing |-> p, tx |-> None].signing = p
      OBVIOUS
    <3>2. QED
      BY <1>2, <2>1, <3>1 DEF ScreenInv
  <2>6. ASSUME r.live, ~crossed, ~Crosses(r),
               NEW persisted \in {MintPersisted(new, stored), InstructionPersisted(new, stored)}
        PROVE  Screen(new, persisted)
    <3>1. r \in Preparing(requests)
      BY <1>2, <2>6 DEF Preparing
    <3>2. page.signing = None /\ page.mounted = TRUE
      BY <2>1, <2>6, <3>1 DEF ScreenInv, OneAtATime, Page
    <3>3. Depends(new) # Depends(page)
      BY <2>1, <2>2, <3>2 DEF Depends
    <3>4. QED
      BY <2>1, <2>2, <2>3, <3>2, <3>3, PersistedIsShown
  <2>7. ASSUME r.live, Preparing(requests \ {r}) # {}
        PROVE  new.signing = None
    BY <1>2, <2>7, NothingElsePrepared
  <2>8. QED
    BY <2>2, <2>4, <2>5, <2>6, <2>7, ArrivalKeepsScreen
<1>3. QED
  BY <1>1, <1>2 DEF MintOpened, InstructionOpened, Pending

-----------------------------------------------------------------------------
(***************************************************************************)
(* The steps that change neither the page nor what is stored, and add      *)
(* nothing that is prepared.                                               *)
(***************************************************************************)
LEMMA ScreenUntouched ==
  ASSUME ScreenInv, UNCHANGED <<page, storage, crossed>>,
         \A r \in requests' : r \in requests \/ r.kind \notin {"review", "open"}
  PROVE  ScreenInv'
<1>1. Preparing(requests') \subseteq Preparing(requests)
  BY DEF Preparing
<1>2. QED
  BY <1>1 DEF ScreenInv, OneAtATime

\* A request that nobody waits for.
LEMMA DroppedHas ==
  ASSUME NEW of
  PROVE  /\ [Asked("drop", of) EXCEPT !.live = FALSE].kind = "drop"
         /\ [Asked("drop", of) EXCEPT !.live = FALSE].live = FALSE
BY DEF Asked

\* The world and the server.
LEMMA ServerKeepsScreen ==
  ASSUME SessionInv, ScreenInv, World \/ \E r \in requests : Handle(r)
  PROVE  ScreenInv'
<1>1. CASE World
  BY <1>1, ScreenUntouched DEF World
<1>2. ASSUME NEW r \in requests, Handle(r)
      PROVE  ScreenInv'
  <2>1. PICK answer : /\ r.kind \in Asking
                      /\ Answered(r, answer) \/ requests' = requests \ {r}
                      /\ UNCHANGED <<page, storage, crossed>>
    BY <1>2 DEF Handle, Serve, MintServeProgress, InstructionServeProgress, Pending, Asking
  <2>2. r \in Request
    BY DEF SessionInv, GoodRequest
  <2>3. [r EXCEPT !.answer = answer].kind = r.kind
    BY <2>2 DEF Request
  <2>4. \A q \in requests' : q \in requests \/ q = [r EXCEPT !.answer = answer]
    BY <2>1 DEF Answered
  <2>5. r.kind \notin {"review", "open"}
    BY <2>1 DEF Asking
  <2>6. QED
    BY <2>1, <2>3, <2>4, <2>5, ScreenUntouched
<1>3. QED
  BY <1>1, <1>2

\* The polls and the Cancel button.
LEMMA PollsKeepScreen ==
  ASSUME ScreenInv, PollStatus \/ MintCancel \/ MintPollProgress \/ InstructionPollProgress
  PROVE  ScreenInv'
<1>1. PICK kind \in Asking :
        (\E of : Ask(kind, of)) /\ UNCHANGED <<page, storage, crossed>>
  BY DEF PollStatus, MintCancel, MintPollProgress, InstructionPollProgress, Asking
<1>2. \A r \in requests' : r \in requests \/ r.kind = kind
  BY <1>1 DEF Ask, Asked
<1>3. kind \notin {"review", "open"}
  BY DEF Asking
<1>4. QED
  BY <1>1, <1>2, <1>3, ScreenUntouched

(***************************************************************************)
(* The buttons that prepare something are disabled while something is      *)
(* prepared.                                                               *)
(***************************************************************************)
LEMMA PrepareOne ==
  ASSUME ScreenInv, ~Busy, NEW kind \in {"review", "open"}, Ask(kind, None),
         page'.mounted = page.mounted
  PROVE  /\ Preparing(requests') = {Asked(kind, None)}
         /\ OneAtATime'
<1>1. Preparing(requests) = {}
  BY DEF Preparing, Busy
<1>2. requests' = requests \cup {Asked(kind, None)} /\ page.mounted
  BY DEF Ask
<1>3. Preparing(requests') = {Asked(kind, None)}
  BY <1>1, <1>2 DEF Preparing, Asked
<1>4. \A r \in requests' :
        r.kind \in {"review", "open"} => r.of = None /\ r.answer = "pending"
  BY <1>2 DEF ScreenInv, OneAtATime, Asked
<1>5. page'.mounted
  BY <1>2
<1>6. \A q, r \in Preparing(requests') : q = r
  BY <1>3
<1>7. QED
  BY <1>3, <1>4, <1>5, <1>6 DEF OneAtATime

\* The signing button.
LEMMA OpenXamanKeepsScreen == ASSUME ScreenInv, OpenXaman PROVE ScreenInv'
<1>1. /\ ~Busy /\ page.signing = None /\ Ask("open", None)
      /\ UNCHANGED <<page, storage, crossed>>
  BY DEF OpenXaman
<1>2. OneAtATime'
  BY <1>1, PrepareOne
<1>3. QED
  BY <1>1, <1>2 DEF ScreenInv

\* A page that shows no payment and no session go together.
LEMMA EmptyScreen ==
  ASSUME NEW p, p.signing = None, p.tx = None, p.progress = Nothing
  PROVE  Screen(p, NoSession) /\ (~p.mounted => \A s : Screen(p, s))
BY DEF Screen, Agrees

\* The blank pages the handlers make.
LEMMA BlankScreens ==
  /\ BlankPage.signing = None /\ BlankPage.mounted = TRUE /\ Screen(BlankPage, NoSession)
  /\ \A review \in BOOLEAN :
       LET p == [BlankPage EXCEPT !.review = review]
       IN  p.signing = None /\ p.mounted = TRUE /\ Screen(p, NoSession)
  /\ LET p == [BlankPage EXCEPT !.mounted = FALSE]
     IN  p.signing = None /\ \A s : Screen(p, s)
<1>1. BlankPage.signing = None /\ BlankPage.mounted = TRUE /\ Screen(BlankPage, NoSession)
  <2>1. /\ BlankPage.signing = None /\ BlankPage.mounted = TRUE
        /\ BlankPage.tx = None /\ BlankPage.progress = Nothing
    BY DEF BlankPage
  <2>2. QED
    BY <2>1, EmptyScreen
<1>2. ASSUME NEW review \in BOOLEAN
      PROVE  LET p == [BlankPage EXCEPT !.review = review]
             IN  p.signing = None /\ p.mounted = TRUE /\ Screen(p, NoSession)
  <2> DEFINE p == [BlankPage EXCEPT !.review = review]
  <2>1. p.signing = None /\ p.mounted = TRUE /\ p.tx = None /\ p.progress = Nothing
    BY DEF BlankPage
  <2> HIDE DEF p
  <2>2. Screen(p, NoSession)
    BY <2>1, EmptyScreen
  <2>3. QED
    BY <2>1, <2>2 DEF p
<1>3. LET p == [BlankPage EXCEPT !.mounted = FALSE]
      IN  p.signing = None /\ \A s : Screen(p, s)
  <2> DEFINE p == [BlankPage EXCEPT !.mounted = FALSE]
  <2>1. p.signing = None /\ p.mounted = FALSE /\ p.tx = None /\ p.progress = Nothing
    BY DEF BlankPage
  <2> HIDE DEF p
  <2>2. \A s : Screen(p, s)
    BY <2>1, EmptyScreen
  <2>3. QED
    BY <2>1, <2>2 DEF p
<1>4. QED
  BY <1>1, <1>2, <1>3

\* prepareReview and resetFlow leave the session.
LEMMA LeavingKeepsScreen ==
  ASSUME SessionInv, ScreenInv, PrepareReview \/ ResetFlow
  PROVE  ScreenInv'
<1>1. NoSession.signing = None
  BY DEF NoSession
<1>2. CASE PrepareReview
  <2>1. page.review \in BOOLEAN
    BY SigningIsPayload DEF Page
  <2>2. page'.signing = None /\ page'.mounted = TRUE /\ Screen(page', NoSession)
    BY <1>2, <2>1, BlankScreens DEF PrepareReview
  <2>3. ~Busy /\ Ask("review", None) /\ storage' = NoSession
    BY <1>2 DEF PrepareReview
  <2>4. page'.mounted = page.mounted
    BY <2>2, <2>3, SigningIsPayload DEF Ask, Page
  <2>5. OneAtATime'
    BY <2>3, <2>4, PrepareOne
  <2>6. QED
    BY <1>1, <2>2, <2>3, <2>5 DEF ScreenInv
<1>3. CASE ResetFlow
  <2>1. page'.signing = None /\ page'.mounted = TRUE /\ Screen(page', NoSession)
        /\ storage' = NoSession
    BY <1>3, BlankScreens DEF ResetFlow
  <2>2. \A r \in requests' : r \in requests \/ r.kind = "drop"
    BY <1>3, DroppedHas DEF ResetFlow
  <2>3. Preparing(requests') \subseteq Preparing(requests)
    BY <2>2 DEF Preparing
  <2>4. OneAtATime'
    BY <2>1, <2>2, <2>3 DEF ScreenInv, OneAtATime
  <2>5. QED
    BY <1>1, <2>1, <2>4 DEF ScreenInv
<1>4. QED
  BY <1>2, <1>3

\* What a reload or a return brings back is what is stored.
LEMMA RestoredIsShown ==
  ASSUME SessionInv, ScreenInv
  PROVE  Screen(RestoredPage, storage) /\ RestoredPage.mounted = TRUE
<1>1. CASE storage = NoSession
  BY <1>1, BlankScreens DEF RestoredPage
<1>2. CASE storage # NoSession
  <2>1. /\ RestoredPage.signing = storage.signing /\ RestoredPage.tx = storage.tx
        /\ RestoredPage.progress = Nothing /\ RestoredPage.review = TRUE
        /\ RestoredPage.mounted = TRUE
    BY <1>2 DEF RestoredPage, BlankPage
  <2>2. storage.signing # None /\ storage = Shown(RestoredPage)
    BY <1>2, <2>1 DEF ScreenInv, SessionInv, Session, Shown
  <2>3. ~Terminal(RestoredPage)
    BY <2>1 DEF Terminal, Nothing
  <2>4. QED
    BY <2>1, <2>2, <2>3 DEF Screen, Agrees
<1>3. QED
  BY <1>1, <1>2

\* Nothing is prepared any more.
LEMMA ComingBackKeepsScreen ==
  ASSUME SessionInv, ScreenInv, Return \/ Reload
  PROVE  ScreenInv'
<1>1. page' = RestoredPage /\ UNCHANGED <<storage, crossed>>
  BY DEF Return, Reload
<1>2. Screen(page', storage')
  BY <1>1, RestoredIsShown
<1>3. \A r \in RestoreAsks : r.kind = "status"
  BY DEF RestoreAsks, Asked
<1>4. /\ \A r \in requests' : r \in requests \/ r.kind \notin {"review", "open"}
      /\ Preparing(requests') = {}
  <2>1. CASE Return
    <3>1. Preparing(requests) = {}
      BY <2>1 DEF Return, ScreenInv, OneAtATime
    <3>2. requests' = requests \cup RestoreAsks
      BY <2>1 DEF Return
    <3>3. QED
      BY <1>3, <3>1, <3>2 DEF Preparing
  <2>2. CASE Reload
    <3>1. ASSUME NEW r \in requests
          PROVE  [r EXCEPT !.kind = "drop", !.live = FALSE].kind = "drop"
      <4>1. r \in Request
        BY DEF SessionInv, GoodRequest
      <4>2. QED
        BY <4>1 DEF Request
    <3>2. \A q \in requests' :
            q \in RestoreAsks \/ \E r \in requests : q = [r EXCEPT !.kind = "drop", !.live = FALSE]
      BY <2>2 DEF Reload
    <3>3. \A q \in requests' : q.kind \in {"status", "drop"}
      BY <1>3, <3>1, <3>2
    <3>4. QED
      BY <3>3 DEF Preparing
  <2>3. QED
    BY <2>1, <2>2
<1>5. OneAtATime'
  BY <1>4 DEF ScreenInv, OneAtATime
<1>6. QED
  BY <1>1, <1>2, <1>4, <1>5 DEF ScreenInv

\* A component that is gone shows nothing and waits for nothing.
LEMMA SwitchTabKeepsScreen == ASSUME SessionInv, ScreenInv, SwitchTab PROVE ScreenInv'
<1>1. page'.signing = None /\ Screen(page', storage) /\ UNCHANGED <<storage, crossed>>
  BY BlankScreens DEF SwitchTab
<1>2. ASSUME NEW r \in requests
      PROVE  /\ [r EXCEPT !.live = FALSE].kind = r.kind
             /\ [r EXCEPT !.live = FALSE].of = r.of
             /\ [r EXCEPT !.live = FALSE].answer = r.answer
             /\ [r EXCEPT !.live = FALSE].live = FALSE
  <2>1. r \in Request
    BY DEF SessionInv, GoodRequest
  <2>2. QED
    BY <2>1 DEF Request
<1>3. \A q \in requests' : \E r \in requests :
        q.kind = r.kind /\ q.of = r.of /\ q.answer = r.answer /\ q.live = FALSE
  <2>1. \A q \in requests' : \E r \in requests : q = [r EXCEPT !.live = FALSE]
    BY DEF SwitchTab
  <2>2. QED
    BY <1>2, <2>1
<1>4. Preparing(requests') = {}
  BY <1>3 DEF Preparing
<1>5. \A q \in requests' : q.kind \in {"review", "open"} => q.of = None /\ q.answer = "pending"
  BY <1>3 DEF ScreenInv, OneAtATime
<1>6. QED
  BY <1>1, <1>4, <1>5 DEF ScreenInv, OneAtATime

-----------------------------------------------------------------------------
\* Every step keeps what is stored that of the screen.
LEMMA NextKeepsScreen == SessionInv /\ ScreenInv /\ [Next]_allVars => ScreenInv'
<1> SUFFICES ASSUME SessionInv, ScreenInv, [Next]_allVars PROVE ScreenInv'
  OBVIOUS
<1>1. CASE UNCHANGED allVars
  <2>1. UNCHANGED <<page, storage, requests, crossed>>
    BY <1>1 DEF allVars, vars
  <2>2. QED
    BY <2>1, ScreenUntouched
<1>2. CASE Next
  <2>1. CASE User
    BY <2>1, OpenXamanKeepsScreen, PollsKeepScreen, SwitchTabKeepsScreen,
       ComingBackKeepsScreen DEF User
  <2>2. CASE World
    BY <2>2, ServerKeepsScreen
  <2>3. CASE PollStatus \/ PollProgress
    BY <2>3, PollsKeepScreen DEF PollProgress
  <2>4. ASSUME NEW r \in requests, Handle(r) \/ Arrive(r)
        PROVE  ScreenInv'
    <3>1. CASE MintArrives(r)
      BY <3>1, ReadStatusKeepsScreen, ReviewedKeepsScreen, OpenedKeepsScreen,
         ReadProgressKeepsScreen DEF MintArrives
    <3>2. CASE InstructionArrives(r)
      BY <3>2, ReadStatusKeepsScreen, ReviewedKeepsScreen, OpenedKeepsScreen,
         ReadProgressKeepsScreen DEF InstructionArrives
    <3>3. CASE Handle(r)
      BY <3>3, ServerKeepsScreen
    <3>4. QED
      BY <2>4, <3>1, <3>2, <3>3 DEF Arrive
  <2>5. CASE Drop
    BY <2>5, LeavingKeepsScreen, CancelledKeepsScreen DEF Drop
  <2>6. QED
    BY <1>2, <2>1, <2>2, <2>3, <2>4, <2>5 DEF Next
<1>3. QED
  BY <1>1, <1>2

\* A page that is first opened shows and stores nothing.
LEMMA InitScreen == Init => ScreenInv
<1> SUFFICES ASSUME Init PROVE ScreenInv
  OBVIOUS
<1>1. page = BlankPage /\ storage = NoSession /\ requests = {}
  BY DEF Init, CoreInit
<1>2. Preparing(requests) = {}
  BY <1>1 DEF Preparing
<1>3. OneAtATime
  BY <1>1, <1>2 DEF OneAtATime
<1>4. QED
  BY <1>1, <1>2, <1>3, BlankScreens DEF ScreenInv

(***************************************************************************)
(* As long as no answer was applied to another session than its own: the   *)
(* session of a payment the page follows is in localStorage with the       *)
(* payment's hash, so that a reload does not lose it.                      *)
(***************************************************************************)
THEOREM PaymentsSurvive == Spec => []PaymentsSurviveReload
<1>1. Init => SessionInv /\ ScreenInv
  BY InitIsGood, InitScreen
<1>2. SessionInv /\ ScreenInv /\ [Next]_allVars => (SessionInv /\ ScreenInv)'
  BY NextKeepsInv, NextKeepsScreen
<1>3. SessionInv /\ ScreenInv => PaymentsSurviveReload
  BY ScreenInvSuffices
<1>4. QED
  BY <1>1, <1>2, <1>3, PTL DEF Spec

(***************************************************************************)
(* And what a reload would bring back is what is on the screen: neither a  *)
(* session the user has left nor one whose job has ended.                  *)
(***************************************************************************)
THEOREM ReloadBringsBack == Spec => []ReloadBringsBackTheScreen
<1>1. Init => SessionInv /\ ScreenInv
  BY InitIsGood, InitScreen
<1>2. SessionInv /\ ScreenInv /\ [Next]_allVars => (SessionInv /\ ScreenInv)'
  BY NextKeepsInv, NextKeepsScreen
<1>3. SessionInv /\ ScreenInv => ReloadBringsBackTheScreen
  BY ScreenInvSuffices
<1>4. QED
  BY <1>1, <1>2, <1>3, PTL DEF Spec
=============================================================================
