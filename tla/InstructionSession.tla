------------------------- MODULE InstructionSession -------------------------
(***************************************************************************)
(* The Smart Account page, web/components/SmartAccountActions.tsx: what    *)
(* differs from the minting page.                                          *)
(***************************************************************************)
EXTENDS SessionCore

(***************************************************************************)
(* As in the minting page, but the progress effect does not ask for a      *)
(* review.                                                                 *)
(***************************************************************************)
InstructionPersisted(new, stored) ==
  IF Depends(new) # Depends(page) /\ Terminal(new) /\ new.tx # None
  THEN NoSession ELSE Stored(new, stored)

InstructionApply(r, new, stored) == Apply(r, new, stored, InstructionPersisted(new, stored))

InstructionReadStatus(r) ==
  /\ Arrived(r, "status")
  /\ InstructionApply(r, WithStatus(r), KeptByStatus(r))
  /\ UNCHANGED life

(***************************************************************************)
(* prepareReview, once answered: an error keeps the review there was.      *)
(***************************************************************************)
InstructionReviewed(r) ==
  /\ Pending(r, "review")
  /\ \/ Refused(r)
     \/ \E usable \in BOOLEAN :
          /\ InstructionApply(r, [page EXCEPT !.review = usable], storage)
          /\ UNCHANGED life

(***************************************************************************)
(* openXaman, once answered: only the page learns of the payload, whose QR *)
(* code it then shows; without the page nobody does.                       *)
(***************************************************************************)
InstructionOpened(r) ==
  /\ Pending(r, "open")
  /\ \/ Refused(r)
     \/ \E p \in Payloads :
          /\ r.live /\ Create(p)
          /\ InstructionApply(r, WithPayload(p), storage)

(***************************************************************************)
(* The 5 s progress poll and readProgress.                                 *)
(***************************************************************************)
InstructionPollProgress ==
  /\ page.tx # None /\ ~Terminal(page)
  /\ Ask("progress", page.tx)
  /\ UNCHANGED <<life, faults, page, storage, crossed>>

InstructionServeProgress(r) ==
  /\ Pending(r, "progress")
  /\ \E answer \in Answers : InstructionProgressAnswer(r.of, answer) /\ Answered(r, answer)
  /\ UNCHANGED <<page, storage, crossed>>

InstructionReadProgress(r) ==
  /\ Arrived(r, "progress")
  /\ InstructionApply(r, [page EXCEPT !.progress = [stage |-> r.answer, of |-> r.of]],
           storage)
  /\ UNCHANGED life

InstructionArrives(r) ==
  \/ InstructionReadStatus(r) \/ InstructionReviewed(r) \/ InstructionOpened(r)
  \/ InstructionReadProgress(r)
=============================================================================
