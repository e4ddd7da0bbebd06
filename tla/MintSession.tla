---------------------------- MODULE MintSession ----------------------------
(***************************************************************************)
(* The minting page, web/components/DirectMintSigning.tsx: what differs    *)
(* from the Smart Account page.  Only this one has a Cancel button.        *)
(***************************************************************************)
EXTENDS SessionCore

(***************************************************************************)
(* The persist effect, then the progress effect, which also clears the     *)
(* session of a finished job.                                              *)
(***************************************************************************)
MintPersisted(new, stored) ==
  IF /\ Depends(new) # Depends(page)
     /\ Terminal(new) /\ new.tx # None /\ new.review
  THEN NoSession ELSE Stored(new, stored)

MintApply(r, new, stored) == Apply(r, new, stored, MintPersisted(new, stored))

MintReadStatus(r) ==
  /\ Arrived(r, "status")
  /\ MintApply(r, WithStatus(r), KeptByStatus(r))
  /\ UNCHANGED life

(***************************************************************************)
(* prepareReview, once answered: a review that may be signed or not, and   *)
(* no review after an error.                                               *)
(***************************************************************************)
MintReviewed(r) ==
  /\ Pending(r, "review")
  /\ \E usable \in BOOLEAN :
       MintApply(r, [page EXCEPT !.review = usable], storage)
  /\ UNCHANGED life

(***************************************************************************)
(* openXaman, once answered: it stores the session and opens the wallet's  *)
(* link itself, so it does so even when the component is gone.             *)
(***************************************************************************)
MintOpened(r) ==
  /\ Pending(r, "open")
  /\ \/ Refused(r)
     \/ \E p \in Payloads :
          /\ Create(p)
          /\ MintApply(r, WithPayload(p), [signing |-> p, tx |-> None])

(***************************************************************************)
(* cancelSigning: whatever the answer, the session leaves localStorage.    *)
(***************************************************************************)
MintCancel ==
  /\ SigningActive /\ ~Busy
  /\ Ask("cancel", page.signing)
  /\ UNCHANGED <<life, faults, page, storage, crossed>>

MintCancelled(r) ==
  /\ Arrived(r, "cancel")
  /\ MintApply(r, [page EXCEPT !.status = [stage |-> r.answer, of |-> r.of],
                           !.tx = None, !.progress = Nothing],
           NoSession)
  /\ UNCHANGED life

(***************************************************************************)
(* Mutant of MintPollProgress: the executor is asked only about payments   *)
(* whose status is "signed".                                               *)
(***************************************************************************)
MintPollProgressOnceSigned ==
  /\ page.tx # None /\ page.review /\ ~Terminal(page) /\ page.status.stage = "signed"
  /\ Ask("progress", page.tx)
  /\ UNCHANGED <<life, faults, page, storage, crossed>>

(***************************************************************************)
(* The 5 s progress poll and readMintProgress.                             *)
(***************************************************************************)
MintPollProgress ==
  /\ page.tx # None /\ page.review /\ ~Terminal(page)
  /\ Ask("progress", page.tx)
  /\ UNCHANGED <<life, faults, page, storage, crossed>>

MintServeProgress(r) ==
  /\ Pending(r, "progress")
  /\ \E answer \in Answers : MintProgressAnswer(r.of, answer) /\ Answered(r, answer)
  /\ UNCHANGED <<page, storage, crossed>>

MintReadProgress(r) ==
  /\ Arrived(r, "progress")
  /\ MintApply(r, [page EXCEPT !.progress = [stage |-> r.answer, of |-> r.of]], storage)
  /\ UNCHANGED life

MintArrives(r) ==
  MintReadStatus(r) \/ MintReviewed(r) \/ MintOpened(r) \/ MintReadProgress(r)
=============================================================================
