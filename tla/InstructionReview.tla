-------------------------- MODULE InstructionReview --------------------------
(***************************************************************************)
(* The review of a Smart Account instruction: createSmartAccountReview     *)
(* (smartAccountFlow.ts).  `p' is what was read of the controller and the  *)
(* AssetManager, `account' of the user's Personal Account.                 *)
(***************************************************************************)
EXTENDS Integers, Memo

CONSTANTS
  Whole,     \* UBA of one whole FXRP
  Lookback,  \* the periods findClaimableFirelightPeriods looks back
  MaxValue   \* the largest value that fits in ten bytes

Claims == {"firelightClaim", "upshiftClaim"}
VaultExits == {"firelightWithdraw", "upshiftWithdraw"}

(***************************************************************************)
(* resolveVault: the id of the first vault of the action's type; 0 when    *)
(* none is registered.                                                     *)
(***************************************************************************)
VaultId(action, p) ==
  IF action \in {"firelightWithdraw", "firelightClaim"} THEN p.firelight ELSE p.upshift

(***************************************************************************)
(* quoteInstructionFeeDrops.                                               *)
(***************************************************************************)
InstructionFee(p) == IF p.instructionFee > 0 THEN p.instructionFee ELSE p.defaultFee

(***************************************************************************)
(* The lots of a redemption: the ones given, or the amount's, which must   *)
(* be whole FXRP and whole lots; 0 for an error.                           *)
(***************************************************************************)
RedeemedLots(form, p) ==
  IF form.lots > 0 THEN form.lots
  ELSE IF form.amount % Whole # 0 \/ form.amount % p.lotSize # 0 THEN 0
  ELSE form.amount \div p.lotSize

(***************************************************************************)
(* The value of the instruction: lots, the period or the date of a claim,  *)
(* or whole FXRP.                                                          *)
(***************************************************************************)
InstructionValue(form, p) ==
  CASE form.action = "redeem"         -> RedeemedLots(form, p)
    [] form.action = "upshiftClaim"   -> form.date
    [] form.action = "firelightClaim" -> form.period
    [] form.action \in VaultExits     -> form.amount \div Whole

InstructionReviewable(form, p) ==
  /\ p.operator # ""
  /\ InstructionFee(p) > 0
  /\ form.action # "redeem" => VaultId(form.action, p) # 0
  /\ form.action = "redeem" => RedeemedLots(form, p) > 0
  /\ form.action \in VaultExits => form.amount > 0 /\ form.amount % Whole = 0
  /\ InstructionValue(form, p) <= MaxValue

(***************************************************************************)
(* findClaimableFirelightPeriods; a scan that fails finds nothing.         *)
(***************************************************************************)
Claimable(account, scanned) ==
  IF scanned
  THEN {c \in account.withdrawals : c < account.period /\ c + Lookback >= account.period}
  ELSE {}

BalanceStatus(form, p, account) ==
  CASE form.action = "redeem" ->
         IF account.balance < RedeemedLots(form, p) * p.lotSize THEN "fail" ELSE "pass"
    [] form.action \in VaultExits ->
         IF account.balance < form.amount THEN "warn" ELSE "pass"
    [] form.action = "upshiftClaim" -> "warn"
    [] form.action = "firelightClaim" -> "pass"

ClaimStatus(form, account, scanned) ==
  LET found == Claimable(account, scanned)
  IN  IF form.action # "firelightClaim" \/ form.period \in found THEN "pass"
      ELSE IF found # {} THEN "fail" ELSE "warn"

InstructionReview(form, p, account, scanned) ==
  [payment |-> [destination |-> p.operator, amount |-> InstructionFee(p),
                memo |-> InstructionMemo(form.action, InstructionValue(form, p),
                           IF form.action = "redeem" THEN 0 ELSE VaultId(form.action, p))],
   checks  |-> [balance |-> BalanceStatus(form, p, account),
                claim   |-> ClaimStatus(form, account, scanned)]]
=============================================================================
