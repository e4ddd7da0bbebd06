-------------------------------- MODULE Memo --------------------------------
(***************************************************************************)
(* The memos of the site's XRPL payments, as the web writes them and as    *)
(* every reader of one takes it.  A memo is its length, what its first     *)
(* bytes say, and its fields; the hash of a user operation stands for it.  *)
(***************************************************************************)

(***************************************************************************)
(* buildDirectMintingMemo, buildFeCustomInstructionMemo, buildInstruction. *)
(***************************************************************************)
DirectMintingMemo(recipient, executor) ==
  [bytes |-> 48, prefix |-> "FBPR", recipient |-> recipient, executor |-> executor]

UserOpMemo(executorFee, userOp) ==
  [bytes |-> 42, prefix |-> "FE", executorFee |-> executorFee, userOp |-> userOp]

InstructionMemo(id, value, vaultId) ==
  [bytes |-> 32, prefix |-> id, value |-> value, vaultId |-> vaultId]

(***************************************************************************)
(* decodeMemo (mintReadiness.ts) and the routing check made of it.         *)
(***************************************************************************)
CommitsUserOp(memo) == memo.bytes = 42 /\ memo.prefix = "FE"

MintsTo(memo, recipient, executor) ==
  /\ memo.bytes = 48 /\ memo.prefix = "FBPR"
  /\ memo.recipient = recipient /\ memo.executor = executor

(***************************************************************************)
(* The filter of InstructionProcessor.observe.                             *)
(***************************************************************************)
IsInstruction(memo) ==
  memo.bytes = 32 /\ memo.prefix \notin {"FBPR", "FE", "FF", "E0", "E1", "E2"}

(***************************************************************************)
(* paymentTemplateFromPayload and verifySubmittedPayment: whether the      *)
(* payment on the ledger is the one of the signing request.                *)
(***************************************************************************)
Verified(tx, request) ==
  /\ tx.destination = request.destination
  /\ tx.amount = request.amount
  /\ tx.memo = request.memo
  /\ request.memo.bytes = 32 => ~tx.tagged
=============================================================================
