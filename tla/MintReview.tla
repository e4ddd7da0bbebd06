----------------------------- MODULE MintReview -----------------------------
(***************************************************************************)
(* The review of a mint: createMintReview (mintFlow.ts) and the quote and  *)
(* checks it takes from mintReadiness.ts.  `p' is what was read of the     *)
(* AssetManager; the minting fee and the deposit are committed to, the     *)
(* first by the payment's amount, the second in the memo's user operation. *)
(***************************************************************************)
EXTENDS Integers, FiniteSetsExt, Memo

CONSTANTS
  Executor,        \* the operator's Flare address, executorAddress()
  PersonalAccount  \* the Smart Account of the user's XRPL address

(***************************************************************************)
(* calculateDirectMintQuote.                                               *)
(***************************************************************************)
MintingFee(amount, p) ==
  Min({amount, Max({(amount * p.feeBips) \div 10000, p.minimumFee})})

ExecutorFee(amount, p) == Min({p.executorFee, amount - MintingFee(amount, p)})

ExpectedFxrp(amount, p) == amount - MintingFee(amount, p) - ExecutorFee(amount, p)

(***************************************************************************)
(* Mutant of DepositAmount: the prediction itself is deposited.            *)
(***************************************************************************)
DepositPredicted(expected) == expected

(***************************************************************************)
(* The deposit: the prediction less VAULT_DEPOSIT_HEADROOM_BIPS.           *)
(***************************************************************************)
DepositAmount(expected) == expected - (expected * 25) \div 10000

(***************************************************************************)
(* getAddress: a mistyped address gets the checksum of the other account   *)
(* it is the address of.                                                   *)
(***************************************************************************)
Rechecksummed(typed) == IF typed.checksum = "wrong" THEN "another account" ELSE typed.address

(***************************************************************************)
(* Mutant of ShareReceiver: getAddress alone.                              *)
(***************************************************************************)
ShareReceiverRechecksummed(typed) ==
  CASE typed.address = ""     -> PersonalAccount
    [] typed.address = "zero" -> "none"
    [] OTHER                  -> Rechecksummed(typed)

(***************************************************************************)
(* resolveShareReceiver: the Personal Account by default; "none" when the  *)
(* checksum is wrong or the address is zero.                               *)
(***************************************************************************)
ShareReceiver(typed) ==
  CASE typed.address = ""                                -> PersonalAccount
    [] typed.address = "zero" \/ typed.checksum = "wrong" -> "none"
    [] OTHER                                             -> typed.address

(***************************************************************************)
(* The checks of checkMintReadiness that no address or amount decides, by  *)
(* what was read: the age of the XRP/USD feed (one that cannot be read     *)
(* blocks like an old one), the operator's balance, the verifier; and the  *)
(* warning createMintReview adds for shares that go elsewhere.             *)
(***************************************************************************)
FeedStatus(age) ==
  IF age < -5 \/ age > 60 THEN "fail" ELSE IF age > 15 THEN "warn" ELSE "pass"

OperatorStatus(balance) ==
  CASE balance = "unread" -> "fail" [] balance = "empty" -> "warn" [] OTHER -> "pass"

AmountStatus(amount, p) ==
  IF amount < p.minimumFee THEN "fail"
  ELSE IF ExpectedFxrp(amount, p) = 0 THEN "warn" ELSE "pass"

Passes(condition) == IF condition THEN "pass" ELSE "fail"

MintChecks(form, payment, recipient, p, world) ==
  [feed        |-> FeedStatus(world.feedAge),
   source      |-> Passes(world.sourceValid),
   destination |-> Passes(payment.destination = p.coreVault),
   amount      |-> AmountStatus(payment.amount, p),
   routing     |-> Passes(\/ CommitsUserOp(payment.memo)
                          \/ MintsTo(payment.memo, recipient, Executor)),
   executor    |-> OperatorStatus(world.operatorBalance),
   verifier    |-> Passes(world.verifier),
   receiver    |-> IF form.destination # "wallet" /\ ShareReceiver(form.to) # PersonalAccount
                   THEN "warn" ELSE "pass"]

(***************************************************************************)
(* The user operation of a vault mint: buildVaultDepositCalls and          *)
(* buildPackedUserOperation.                                               *)
(***************************************************************************)
UserOp(form, nonce, p) ==
  [nonce |-> nonce, vault |-> form.destination, receiver |-> ShareReceiver(form.to),
   deposit |-> DepositAmount(ExpectedFxrp(form.amount, p))]

MintMemo(form, nonce, p) ==
  IF form.destination = "wallet" THEN DirectMintingMemo(Rechecksummed(form.to), Executor)
  ELSE UserOpMemo(p.executorFee, UserOp(form, nonce, p))

(***************************************************************************)
(* Mutant of MintReviewable: a deposit of nothing is not refused.          *)
(***************************************************************************)
MintReviewableEmpty(form, p) ==
  /\ form.amount > 0
  /\ form.destination = "wallet" => form.to.address # ""
  /\ form.destination # "wallet" => ShareReceiver(form.to) # "none"

(***************************************************************************)
(* The errors createMintReview throws, and the review it returns.          *)
(***************************************************************************)
MintReviewable(form, p) ==
  /\ form.amount > 0
  /\ form.destination = "wallet" => form.to.address # ""
  /\ form.destination # "wallet" =>
       /\ DepositAmount(ExpectedFxrp(form.amount, p)) > 0
       /\ ShareReceiver(form.to) # "none"

MintReview(form, nonce, p, world) ==
  LET payment   == [destination |-> p.coreVault, amount |-> form.amount,
                    memo |-> MintMemo(form, nonce, p)]
      recipient == IF form.destination = "wallet" THEN Rechecksummed(form.to)
                   ELSE PersonalAccount
  IN  [payment |-> payment, checks |-> MintChecks(form, payment, recipient, p, world)]
=============================================================================
