--------------------------- MODULE ReviewedProofs ---------------------------
(***************************************************************************)
(* What ReviewedPayment promises for every set of payments, forms,         *)
(* settings and worlds, and every rounding: its types, that a payment      *)
(* takes the effect reviewed and typed, and that a reviewed one takes      *)
(* effect.                                                                 *)
(***************************************************************************)
EXTENDS ReviewedPayment, TLAPS

USE DEF MintForm, InstructionForm, Actions

Stages == {"idle", "reviewed", "reading", "refused", "signable", "paid", "executed", "reverted"}
Asked  == {"signable", "paid", "executed", "reverted"}
Fields == {"stage", "moved", "outdated", "form", "action", "lots", "start", "request", "warned",
           "tx", "to", "uba"}

-----------------------------------------------------------------------------
(***************************************************************************)
(* What a signing request asks for, whenever the settings were read: the   *)
(* payment of a review of the form.                                        *)
(***************************************************************************)
MintAsked(form, request) ==
  /\ request.amount = form.amount /\ form.amount > 0
  /\ IF form.destination = "wallet"
     THEN /\ request.memo.bytes = 48
          /\ request.memo.recipient = Rechecksummed(form.to) /\ form.to.address # ""
     ELSE /\ request.memo.bytes = 42 /\ request.memo.prefix = "FE"
          /\ request.memo.userOp.receiver = ShareReceiver(form.to)
          /\ ShareReceiver(form.to) # "none"
          /\ request.memo.userOp.deposit \in Nat \ {0}
          /\ request.memo.executorFee \in Nat

InstructionAsked(action, lots, form, request) ==
  /\ action \in Actions
  /\ request.amount \in Nat \ {0}
  /\ request.memo.bytes = 32 /\ request.memo.prefix = action
  /\ request.memo.value \in 0..MaxValue /\ request.memo.vaultId \in Nat
  /\ action = "redeem" => request.memo.value = lots
  /\ action = "upshiftClaim" => request.memo.value = form.date
  /\ action = "firelightClaim" => request.memo.value = form.period
  /\ action \in VaultExits => request.memo.value * Whole = form.amount

AskedFor(x) ==
  IF IsMint(x.form) THEN MintAsked(x.form, x.request)
  ELSE InstructionAsked(x.action, x.lots, x.form, x.request)

(***************************************************************************)
(* AsTyped and the conclusion of ReviewedPaymentsTakeEffect, of a payment  *)
(* x.                                                                      *)
(***************************************************************************)
TypedBy(x) ==
  IF IsMint(x.form)
  THEN x.to = CASE x.form.destination = "wallet" -> Rechecksummed(x.form.to)
                [] x.form.to.address = ""        -> PersonalAccount
                [] OTHER                         -> x.form.to.address
  ELSE /\ x.tx.memo.prefix = x.action
       /\ CASE x.tx.memo.prefix = "redeem" ->
                 /\ x.tx.memo.value = x.lots
                 /\ x.outdated \/ x.moved \/ x.uba = x.form.amount
            [] x.tx.memo.prefix = "upshiftClaim"   -> x.tx.memo.value = x.form.date
            [] x.tx.memo.prefix = "firelightClaim" -> x.tx.memo.value = x.form.period
            [] OTHER -> x.uba = x.form.amount

Excused(x) ==
  \/ x.moved \/ x.warned
  \/ NoHeadroom(x.request)
  \/ x.request.memo.prefix \in VaultExits

(***************************************************************************)
(* A payment, whatever the chain's state.                                  *)
(***************************************************************************)
Shape(x) ==
  /\ DOMAIN x = Fields /\ x.stage \in Stages
  /\ x.moved \in BOOLEAN /\ x.outdated \in BOOLEAN /\ x.warned \in BOOLEAN
  /\ x.stage # "idle" => x.form \in Forms /\ (~IsMint(x.form) => x.action \in Actions)
  /\ x.stage \in {"reviewed", "reading"} =>
       x.lots \in Nat /\ (Redeems(x) => x.lots > 0)
  /\ x.stage = "reading" => x.start \in 1..Len(Settings)
  /\ x.stage \in Asked => AskedFor(x)
  /\ x.stage \in {"paid", "executed", "reverted"} =>
       \E more \in {0, 1}, tagged \in BOOLEAN : x.tx = Submitted(x.request, more, tagged)
  /\ x.stage = "executed" => TypedBy(x)
  /\ x.stage = "reverted" /\ Verified(x.tx, x.request) => Excused(x)

(***************************************************************************)
(* What holds of a request as long as the chain has not moved from the     *)
(* settings p and the Personal Account a.                                  *)
(***************************************************************************)
LotsFit(x, lots, p) == Redeems(x) /\ ~x.outdated => lots * p.lotSize = x.form.amount

MintPromised(x, p, a) ==
  /\ x.request.destination = p.coreVault
  /\ x.request.amount >= p.minimumFee
  /\ x.form.destination # "wallet" =>
       /\ x.request.memo.userOp.nonce = a.nonce
       /\ x.request.memo.executorFee = p.executorFee
       /\ x.request.memo.userOp.deposit = DepositAmount(ExpectedFxrp(x.form.amount, p))

InstructionPromised(x, p, a) ==
  /\ LotsFit(x, x.request.memo.value, p)
  /\ x.request.amount >= InstructionFee(p)
  /\ x.action = "redeem" => x.request.memo.value * p.lotSize <= a.balance
  /\ x.warned \/ x.action # "upshiftClaim"
  /\ x.action = "firelightClaim" =>
       /\ x.request.memo.vaultId = p.firelight
       /\ x.warned \/ (x.form.period \in a.withdrawals /\ x.form.period < a.period)

Timely(x, s, a) ==
  /\ x.stage = "reviewed" => LotsFit(x, x.lots, Settings[s])
  /\ x.stage = "reading" /\ ~x.moved => x.start = s /\ LotsFit(x, x.lots, Settings[s])
  /\ x.stage \in {"signable", "paid"} /\ ~x.moved =>
       IF IsMint(x.form) THEN MintPromised(x, Settings[s], a)
       ELSE InstructionPromised(x, Settings[s], a)

(***************************************************************************)
(* The inductive invariant.                                                *)
(***************************************************************************)
IInv ==
  /\ setting \in 1..Len(Settings) /\ account \in Account
  /\ flow = [f \in Flows |-> flow[f]]
  /\ \A f \in Flows : Shape(flow[f]) /\ Timely(flow[f], setting, account)

-----------------------------------------------------------------------------
(***************************************************************************)
(* The quote.                                                              *)
(***************************************************************************)

\* The smaller of two numbers.
LEMMA MinOfTwo ==
  ASSUME NEW a \in Int, NEW b \in Int
  PROVE  Min({a, b}) = IF a <= b THEN a ELSE b
<1> DEFINE m == IF a <= b THEN a ELSE b
<1>1. m \in {a, b} /\ \A y \in {a, b} : m <= y
  OBVIOUS
<1>2. \A x \in {a, b} : (\A y \in {a, b} : x <= y) => x = m
  OBVIOUS
<1> HIDE DEF m
<1>3. Min({a, b}) = m
  BY <1>1, <1>2 DEF Min
<1>4. QED
  BY <1>3 DEF m

\* The larger of two numbers.
LEMMA MaxOfTwo ==
  ASSUME NEW a \in Int, NEW b \in Int
  PROVE  Max({a, b}) = IF a >= b THEN a ELSE b
<1> DEFINE m == IF a >= b THEN a ELSE b
<1>1. m \in {a, b} /\ \A y \in {a, b} : m >= y
  OBVIOUS
<1>2. \A x \in {a, b} : (\A y \in {a, b} : x >= y) => x = m
  OBVIOUS
<1> HIDE DEF m
<1>3. Max({a, b}) = m
  BY <1>1, <1>2 DEF Max
<1>4. QED
  BY <1>3 DEF m

\* The settings a review of a mint reads.
Quoted(p) ==
  p.coreVault \in STRING /\ p.minimumFee \in Nat /\ p.feeBips \in Nat /\ p.executorFee \in Nat

\* The fees of a mint never exceed the payment.
LEMMA QuoteIsBounded ==
  ASSUME NEW amount \in Nat, NEW p, Quoted(p)
  PROVE  ExpectedFxrp(amount, p) \in 0..amount
<1>1. (amount * p.feeBips) \div 10000 \in Nat
  BY DEF Quoted
<1>2. Max({(amount * p.feeBips) \div 10000, p.minimumFee}) \in Nat
  <2>1. p.minimumFee \in Nat
    BY DEF Quoted
  <2> DEFINE share == (amount * p.feeBips) \div 10000
             least == p.minimumFee
  <2>2. share \in Nat /\ least \in Nat
    BY <1>1, <2>1
  <2> HIDE DEF share, least
  <2>3. Max({share, least}) \in Nat
    BY <2>2, MaxOfTwo
  <2>4. QED
    BY <2>3 DEF share, least
<1>3. MintingFee(amount, p) \in 0..amount
  <2> DEFINE fee == Max({(amount * p.feeBips) \div 10000, p.minimumFee})
  <2>1. fee \in Nat
    BY <1>2
  <2> HIDE DEF fee
  <2>2. Min({amount, fee}) \in 0..amount
    BY <2>1, MinOfTwo
  <2>3. QED
    BY <2>2 DEF MintingFee, fee
<1>4. ExecutorFee(amount, p) \in 0..(amount - MintingFee(amount, p))
  <2> DEFINE rest == amount - MintingFee(amount, p)
             fee  == p.executorFee
  <2>1. rest \in Nat /\ fee \in Nat
    BY <1>3 DEF Quoted
  <2> HIDE DEF rest, fee
  <2>2. Min({fee, rest}) \in 0..rest
    BY <2>1, MinOfTwo
  <2>3. QED
    BY <2>2 DEF ExecutorFee, rest, fee
<1>5. QED
  BY <1>3, <1>4 DEF ExpectedFxrp

\* The quote is one of the fees read and of nothing else.
LEMMA QuoteOfTheFees ==
  ASSUME NEW amount, NEW p, NEW q,
         p.minimumFee = q.minimumFee, p.feeBips = q.feeBips, p.executorFee = q.executorFee
  PROVE  ExpectedFxrp(amount, p) = ExpectedFxrp(amount, q)
<1>1. MintingFee(amount, p) = MintingFee(amount, q)
  <2> DEFINE ofP == {(amount * p.feeBips) \div 10000, p.minimumFee}
             ofQ == {(amount * q.feeBips) \div 10000, q.minimumFee}
  <2>1. ofP = ofQ
    OBVIOUS
  <2>2. MintingFee(amount, p) = Min({amount, Max(ofP)})
    BY DEF MintingFee
  <2>3. MintingFee(amount, q) = Min({amount, Max(ofQ)})
    BY DEF MintingFee
  <2> HIDE DEF ofP, ofQ
  <2>4. QED
    BY <2>1, <2>2, <2>3, Zenon
<1>2. ExecutorFee(amount, p) = ExecutorFee(amount, q)
  BY <1>1, Zenon DEF ExecutorFee
<1>3. QED
  BY <1>1, <1>2, Zenon DEF ExpectedFxrp

(***************************************************************************)
(* The headroom of a deposit of at least 400 times the rounding absorbs    *)
(* the rounding: 25 of 10000.                                              *)
(***************************************************************************)
LEMMA HeadroomAbsorbs ==
  ASSUME NEW expected \in Nat, NEW lost \in 0..Rounding,
         DepositAmount(expected) >= 400 * Rounding
  PROVE  DepositAmount(expected) <= expected - lost
<1>1. Rounding \in Nat
  BY ReviewedPaymentAssumption
<1>2. expected >= 400 * Rounding
  BY <1>1 DEF DepositAmount
<1>3. expected * 25 >= 10000 * Rounding
  BY <1>1, <1>2
<1>4. (expected * 25) \div 10000 >= Rounding
  BY <1>1, <1>3
<1>5. QED
  BY <1>1, <1>4 DEF DepositAmount

\* A deposit is a number.
LEMMA DepositIsInt == ASSUME NEW expected \in Nat PROVE DepositAmount(expected) \in Int
BY DEF DepositAmount

-----------------------------------------------------------------------------
(***************************************************************************)
(* The forms, and what their reviews read.                                 *)
(***************************************************************************)

\* What the sign route is posted of an instruction.
Instructed(form) ==
  form \in [action : Actions, amount : Nat, date : Nat, period : Nat, lots : Nat]

\* A form is one of the mint page or one of the Smart Account page.
LEMMA FormKinds ==
  ASSUME NEW form \in Forms
  PROVE  /\ IsMint(form) => form \in MintForm /\ form \in MintForms
         /\ ~IsMint(form) => Instructed(form) /\ form \in InstructionForms /\ form.lots = 0
<1>1. CASE form \in MintForms
  <2>1. form \in MintForm
    BY <1>1, ReviewedPaymentAssumption
  <2>2. IsMint(form)
    BY <2>1 DEF IsMint
  <2>3. QED
    BY <1>1, <2>1, <2>2
<1>2. CASE form \in InstructionForms
  <2>1. form \in InstructionForm
    BY <1>2, ReviewedPaymentAssumption
  <2>2. ~IsMint(form)
    BY <2>1 DEF IsMint
  <2>3. QED
    BY <1>2, <2>1, <2>2 DEF Instructed
<1>3. QED
  BY <1>1, <1>2 DEF Forms

\* The settings a review of an instruction reads.
Consulted(p) ==
  /\ p.operator \in STRING /\ p.instructionFee \in Nat /\ p.defaultFee \in Nat
  /\ p.lotSize \in Nat \ {0} /\ p.firelight \in Nat /\ p.upshift \in Nat

\* A review of settled settings reads all that either review asks for.
LEMMA SettingsAreRead ==
  ASSUME NEW s \in 1..Len(Settings)
  PROVE  Settings[s] \in Setting /\ Quoted(Settings[s]) /\ Consulted(Settings[s])
<1>1. Settings[s] \in Setting
  BY ReviewedPaymentAssumption
<1>2. QED
  BY <1>1 DEF Setting, Quoted, Consulted

(***************************************************************************)
(* A review made while the settings change reads each of them from before  *)
(* or after; when they do not change, what they are.                       *)
(***************************************************************************)
LEMMA MixedReads ==
  ASSUME NEW form, NEW before \in Setting, NEW after \in Setting,
         NEW p \in Read(form, before, after)
  PROVE  /\ IsMint(form) => Quoted(p)
         /\ ~IsMint(form) => Consulted(p)
         /\ before = after => \A x \in SettingsRead(form) : p[x] = after[x]
<1>1. PICK late : p = [x \in SettingsRead(form) |-> IF x \in late THEN after[x] ELSE before[x]]
  BY DEF Read
<1>2. CASE IsMint(form)
  <2>1. SettingsRead(form) = {"coreVault", "minimumFee", "feeBips", "executorFee"}
    BY <1>2 DEF SettingsRead
  <2>2. Quoted(p)
    BY <1>1, <2>1 DEF Quoted, Setting
  <2>3. QED
    BY <1>1, <1>2, <2>2
<1>3. CASE ~IsMint(form)
  <2>1. SettingsRead(form)
          = {"operator", "instructionFee", "defaultFee", "lotSize", "firelight", "upshift"}
    BY <1>3 DEF SettingsRead
  <2>2. Consulted(p)
    BY <1>1, <2>1 DEF Consulted, Setting
  <2>3. QED
    BY <1>1, <1>3, <2>2
<1>4. QED
  BY <1>2, <1>3

-----------------------------------------------------------------------------
(***************************************************************************)
(* What a review that can be signed asks for.                              *)
(***************************************************************************)
LEMMA MintReviewPays ==
  ASSUME NEW form \in MintForm, NEW nonce \in Nat, NEW p, Quoted(p), NEW world,
         MintReviewable(form, p), NEW review, review = MintReview(form, nonce, p, world),
         ~Failed(review)
  PROVE  /\ MintAsked(form, review.payment)
         /\ review.payment.destination = p.coreVault
         /\ review.payment.amount = form.amount /\ form.amount >= p.minimumFee
         /\ form.destination # "wallet" =>
              /\ review.payment.memo.userOp.nonce = nonce
              /\ review.payment.memo.executorFee = p.executorFee
              /\ review.payment.memo.userOp.deposit = DepositAmount(ExpectedFxrp(form.amount, p))
<1> DEFINE payment == [destination |-> p.coreVault, amount |-> form.amount,
                       memo |-> MintMemo(form, nonce, p)]
<1>1. review.payment = payment
  BY DEF MintReview
<1>2. form.amount >= p.minimumFee
  <2>1. review.checks.amount = AmountStatus(form.amount, p)
    BY DEF MintReview, MintChecks
  <2>2. "amount" \in DOMAIN review.checks
    BY DEF MintReview, MintChecks
  <2>3. AmountStatus(form.amount, p) # "fail"
    BY <2>1, <2>2 DEF Failed
  <2>4. QED
    BY <2>3 DEF AmountStatus, Quoted
<1>3. payment.amount = form.amount /\ form.amount > 0 /\ payment.destination = p.coreVault
  BY DEF MintReviewable
<1>4. CASE form.destination = "wallet"
  <2>1. payment.memo.bytes = 48 /\ payment.memo.recipient = Rechecksummed(form.to)
    BY <1>4 DEF MintMemo, DirectMintingMemo
  <2>2. form.to.address # ""
    BY <1>4 DEF MintReviewable
  <2>3. QED
    BY <1>1, <1>2, <1>3, <1>4, <2>1, <2>2 DEF MintAsked
<1>5. CASE form.destination # "wallet"
  <2> DEFINE deposit == DepositAmount(ExpectedFxrp(form.amount, p))
  <2>1. /\ payment.memo.bytes = 42 /\ payment.memo.prefix = "FE"
        /\ payment.memo.userOp.receiver = ShareReceiver(form.to)
        /\ payment.memo.userOp.deposit = deposit
        /\ payment.memo.userOp.nonce = nonce
        /\ payment.memo.executorFee = p.executorFee
    BY <1>5 DEF MintMemo, UserOpMemo, UserOp
  <2>2. deposit > 0 /\ ShareReceiver(form.to) # "none"
    BY <1>5 DEF MintReviewable
  <2>3. deposit \in Nat \ {0}
    <3>1. ExpectedFxrp(form.amount, p) \in Nat
      BY QuoteIsBounded
    <3>2. deposit \in Int
      BY <3>1, DepositIsInt
    <3>3. QED
      BY <2>2, <3>2
  <2>4. payment.memo.executorFee \in Nat
    BY <2>1 DEF Quoted
  <2> HIDE DEF deposit, payment
  <2>5. MintAsked(form, payment)
    BY <1>3, <1>5, <2>1, <2>2, <2>3, <2>4 DEF MintAsked
  <2>6. QED
    BY <1>1, <1>2, <1>3, <1>5, <2>1, <2>5 DEF deposit
<1>6. QED
  BY <1>4, <1>5

\* The lots given, or those that make up the amount.
LEMMA LotsAreTheAmount ==
  ASSUME NEW form, Instructed(form), NEW p, Consulted(p)
  PROVE  /\ RedeemedLots(form, p) \in Nat
         /\ form.lots > 0 => RedeemedLots(form, p) = form.lots
         /\ form.lots = 0 /\ RedeemedLots(form, p) > 0
              => RedeemedLots(form, p) * p.lotSize = form.amount
<1>1. form.lots \in Nat /\ form.amount \in Nat /\ p.lotSize \in Nat \ {0}
  BY DEF Instructed, Consulted
<1>2. Whole \in Nat \ {0}
  BY ReviewedPaymentAssumption
<1> DEFINE a == form.amount
           l == p.lotSize
<1>3. a \in Nat /\ l \in Nat \ {0}
  BY <1>1
<1> HIDE DEF a, l
<1>4. a \div l \in Nat /\ (a % l = 0 => (a \div l) * l = a)
  BY <1>3
<1>5. QED
  BY <1>1, <1>2, <1>4 DEF RedeemedLots, a, l

\* The review of an instruction, of the lots and against the account it was shown.
LEMMA InstructionReviewPays ==
  ASSUME NEW form, Instructed(form), NEW p, Consulted(p), NEW a \in Account, NEW scanned,
         InstructionReviewable(form, p), NEW review,
         review = InstructionReview(form, p, a, scanned), ~Failed(review)
  PROVE  /\ InstructionAsked(form.action, RedeemedLots(form, p), form, review.payment)
         /\ review.payment.amount >= InstructionFee(p)
         /\ form.action = "redeem" =>
              /\ review.payment.memo.value = RedeemedLots(form, p)
              /\ RedeemedLots(form, p) * p.lotSize <= a.balance
         /\ Warned(review) \/ form.action # "upshiftClaim"
         /\ form.action = "firelightClaim" =>
              /\ review.payment.memo.vaultId = p.firelight
              /\ Warned(review) \/ (form.period \in a.withdrawals /\ form.period < a.period)
<1> DEFINE vault == IF form.action = "redeem" THEN 0 ELSE VaultId(form.action, p)
           value == InstructionValue(form, p)
           payment == [destination |-> p.operator, amount |-> InstructionFee(p),
                       memo |-> InstructionMemo(form.action, value, vault)]
           checks == [balance |-> BalanceStatus(form, p, a),
                      claim   |-> ClaimStatus(form, a, scanned)]
<1>1. review.payment = payment /\ review.checks = checks
  BY DEF InstructionReview
<1>2. /\ payment.amount = InstructionFee(p) /\ payment.memo.bytes = 32
      /\ payment.memo.prefix = form.action /\ payment.memo.value = value
      /\ payment.memo.vaultId = vault
  BY DEF InstructionMemo
<1>3. DOMAIN checks = {"balance", "claim"} /\ checks["balance"] = BalanceStatus(form, p, a)
      /\ checks["claim"] = ClaimStatus(form, a, scanned)
  OBVIOUS
<1> HIDE DEF payment, checks
<1>4. /\ form.action \in Actions
      /\ form.amount \in Nat /\ form.date \in Nat /\ form.period \in Nat
  BY DEF Instructed
<1>5. InstructionFee(p) \in Nat \ {0}
  <2>1. p.instructionFee \in Nat /\ p.defaultFee \in Nat
    BY DEF Consulted
  <2>2. InstructionFee(p) > 0
    BY DEF InstructionReviewable
  <2>3. InstructionFee(p) \in Nat
    BY <2>1 DEF InstructionFee
  <2>4. QED
    BY <2>2, <2>3
<1>6. vault \in Nat /\ (form.action = "firelightClaim" => vault = p.firelight)
  BY DEF VaultId, Consulted
<1>7. RedeemedLots(form, p) \in Nat
  BY LotsAreTheAmount
<1>8. /\ value \in 0..MaxValue
      /\ form.action = "upshiftClaim" => value = form.date
      /\ form.action = "firelightClaim" => value = form.period
      /\ form.action \in VaultExits => value * Whole = form.amount
      /\ form.action = "redeem" => value = RedeemedLots(form, p)
  <2>1. Whole \in Nat \ {0} /\ MaxValue \in Nat
    BY ReviewedPaymentAssumption
  <2>2. form.amount \div Whole \in Nat
        /\ (form.amount % Whole = 0 => (form.amount \div Whole) * Whole = form.amount)
    <3> DEFINE n == form.amount
    <3>1. n \in Nat
      BY <1>4
    <3> HIDE DEF n
    <3>2. n \div Whole \in Nat /\ (n % Whole = 0 => (n \div Whole) * Whole = n)
      BY <2>1, <3>1
    <3>3. QED
      BY <3>2 DEF n
  <2>3. value <= MaxValue /\ (form.action \in VaultExits => form.amount % Whole = 0)
    BY DEF InstructionReviewable
  <2>4. /\ form.action = "redeem" => value = RedeemedLots(form, p)
        /\ form.action = "upshiftClaim" => value = form.date
        /\ form.action = "firelightClaim" => value = form.period
        /\ form.action \in VaultExits => value = form.amount \div Whole
    BY DEF InstructionValue, Claims, VaultExits
  <2> HIDE DEF value
  <2>5. value \in Nat
    BY <1>4, <1>7, <2>2, <2>4 DEF Actions, Claims, VaultExits
  <2>6. QED
    BY <2>1, <2>2, <2>3, <2>4, <2>5
<1> HIDE DEF value, vault
<1>9. InstructionAsked(form.action, RedeemedLots(form, p), form, payment)
  BY <1>2, <1>4, <1>5, <1>6, <1>8 DEF InstructionAsked
<1>10. checks["balance"] # "fail" /\ checks["claim"] # "fail"
  BY <1>1, <1>3 DEF Failed
<1>11. checks["balance"] = "warn" \/ checks["claim"] = "warn" => Warned(review)
  BY <1>1, <1>3 DEF Warned
<1>12. form.action = "redeem" => RedeemedLots(form, p) * p.lotSize <= a.balance
  <2>1. ASSUME form.action = "redeem" PROVE ~(a.balance < RedeemedLots(form, p) * p.lotSize)
    BY <1>3, <1>10, <2>1 DEF BalanceStatus, VaultExits
  <2>2. a.balance \in Nat /\ p.lotSize \in Nat
    BY DEF Account, Consulted
  <2>3. RedeemedLots(form, p) * p.lotSize \in Nat
    BY <1>7, <2>2
  <2>4. QED
    BY <2>1, <2>2, <2>3
<1>13. form.action = "upshiftClaim" => Warned(review)
  BY <1>3, <1>11 DEF BalanceStatus, VaultExits
<1>14. form.action = "firelightClaim" =>
         Warned(review) \/ (form.period \in a.withdrawals /\ form.period < a.period)
  <2>1. SUFFICES ASSUME form.action = "firelightClaim", ~Warned(review)
                 PROVE  form.period \in a.withdrawals /\ form.period < a.period
    OBVIOUS
  <2>2. form.period \in Claimable(a, scanned)
    BY <1>3, <1>10, <1>11, <2>1 DEF ClaimStatus
  <2>3. QED
    BY <2>2 DEF Claimable
<1>15. QED
  BY <1>1, <1>2, <1>5, <1>6, <1>8, <1>9, <1>12, <1>13, <1>14

-----------------------------------------------------------------------------
(***************************************************************************)
(* The steps of the browser, the sign route and the wallet change one      *)
(* payment and nothing of the chain.                                       *)
(***************************************************************************)
LEMMA OneChanges ==
  ASSUME IInv, NEW f \in Flows, UNCHANGED <<setting, account>>,
         flow' = [g \in Flows |-> flow'[g]], \A g \in Flows \ {f} : flow'[g] = flow[g],
         Shape(flow'[f]), Timely(flow'[f], setting, account)
  PROVE  IInv'
<1>1. \A g \in Flows : Shape(flow'[g]) /\ Timely(flow'[g], setting, account)
  BY DEF IInv
<1>2. setting' = setting /\ account' = account
  OBVIOUS
<1>3. \A g \in Flows : Timely(flow'[g], setting', account')
  BY <1>1, <1>2
<1>4. QED
  BY <1>1, <1>2, <1>3 DEF IInv

\* What of a payment its shape depends on.
LEMMA FieldsOf ==
  ASSUME IInv, NEW f \in Flows
  PROVE  DOMAIN flow[f] = Fields /\ f \in DOMAIN flow
BY DEF IInv, Shape

\* The review of the page.
LEMMA ReviewKeeps == ASSUME IInv, NEW f \in Flows, Review(f) PROVE IInv'
<1>1. PICK form \in Forms :
        /\ Reviewable(form, Settings[setting])
        /\ flow' = [flow EXCEPT ![f].stage = "reviewed", ![f].form = form,
                                ![f].action = Action(form),
                                ![f].lots = Lots(form, Settings[setting])]
  BY DEF Review
<1> DEFINE lots == Lots(form, Settings[setting])
           action == Action(form)
           x == flow'[f]
<1>2. UNCHANGED <<setting, account>> /\ flow[f].stage = "idle"
  BY DEF Review
<1>3. /\ flow' = [g \in Flows |-> flow'[g]] /\ \A g \in Flows \ {f} : flow'[g] = flow[g]
      /\ DOMAIN x = Fields /\ x.stage = "reviewed" /\ x.form = form
      /\ x.action = action /\ x.lots = lots
      /\ x.moved = flow[f].moved /\ x.outdated = flow[f].outdated /\ x.warned = flow[f].warned
  <2>1. DOMAIN flow[f] = Fields /\ flow = [g \in Flows |-> flow[g]]
    BY FieldsOf DEF IInv
  <2> HIDE DEF lots, action
  <2>2. flow' = [flow EXCEPT ![f].stage = "reviewed", ![f].form = form, ![f].action = action,
                             ![f].lots = lots]
    BY <1>1 DEF lots, action
  <2>3. QED
    BY <2>1, <2>2 DEF Fields
<1>4. Consulted(Settings[setting]) /\ Shape(flow[f])
  BY SettingsAreRead DEF IInv
<1>5. /\ lots \in Nat /\ (~IsMint(form) => action \in Actions)
      /\ action = "redeem" => lots > 0 /\ lots * Settings[setting].lotSize = form.amount
  <2>1. CASE action = "redeem"
    <3>1. ~IsMint(form) /\ form.action = "redeem" /\ lots = RedeemedLots(form, Settings[setting])
      BY <2>1 DEF Action, Lots
    <3>2. Instructed(form) /\ form.lots = 0
      BY <3>1, FormKinds
    <3>3. RedeemedLots(form, Settings[setting]) > 0
      BY <1>1, <3>1 DEF Reviewable, InstructionReviewable
    <3>4. lots \in Nat /\ lots > 0 /\ lots * Settings[setting].lotSize = form.amount
      BY <1>4, <3>1, <3>2, <3>3, LotsAreTheAmount
    <3>5. QED
      BY <2>1, <3>4
  <2>2. CASE action # "redeem"
    <3>1. lots = 0
      BY <2>2 DEF Lots
    <3>2. ~IsMint(form) => action \in Actions
      BY FormKinds DEF Action, Instructed
    <3>3. QED
      BY <2>2, <3>1, <3>2
  <2>3. QED
    BY <2>1, <2>2
<1> HIDE DEF lots, action, x
<1>6. Shape(x)
  BY <1>3, <1>4, <1>5 DEF Shape, Asked, Stages, Redeems
<1>7. Timely(x, setting, account)
  BY <1>3, <1>5 DEF Timely, LotsFit, Redeems
<1>8. QED
  BY <1>2, <1>3, <1>6, <1>7, OneChanges DEF x

\* An edit changes the form and neither the action nor the lots of the review.
LEMMA EditKeeps == ASSUME IInv, NEW f \in Flows, Edit(f) PROVE IInv'
<1>1. PICK form \in Edits(flow[f].form) :
        flow' = [flow EXCEPT ![f].form = form, ![f].outdated = Redeems(flow[f])]
  BY DEF Edit
<1> DEFINE x == flow'[f]
           redeems == Redeems(flow[f])
<1>2. UNCHANGED <<setting, account>> /\ flow[f].stage = "reviewed"
  BY DEF Edit
<1>3. /\ flow' = [g \in Flows |-> flow'[g]] /\ \A g \in Flows \ {f} : flow'[g] = flow[g]
      /\ DOMAIN x = Fields /\ x.stage = "reviewed" /\ x.form = form /\ x.outdated = redeems
      /\ x.action = flow[f].action /\ x.lots = flow[f].lots
      /\ x.moved = flow[f].moved /\ x.warned = flow[f].warned
  <2>1. DOMAIN flow[f] = Fields /\ flow = [g \in Flows |-> flow[g]]
    BY FieldsOf DEF IInv
  <2> HIDE DEF redeems
  <2>2. flow' = [flow EXCEPT ![f].form = form, ![f].outdated = redeems]
    BY <1>1 DEF redeems
  <2>3. QED
    BY <1>2, <2>1, <2>2 DEF Fields
<1>4. Shape(flow[f]) /\ flow[f].form \in Forms
  BY <1>2 DEF IInv, Shape
<1>5. form \in Forms /\ (IsMint(form) <=> IsMint(flow[f].form))
  <2>1. CASE IsMint(flow[f].form)
    <3>1. form \in MintForms
      BY <1>1, <2>1 DEF Edits
    <3>2. form \in MintForm
      BY <3>1, ReviewedPaymentAssumption
    <3>3. QED
      BY <2>1, <3>1, <3>2 DEF Forms, IsMint
  <2>2. CASE ~IsMint(flow[f].form)
    <3>1. form \in InstructionForms
      BY <1>1, <2>2 DEF Edits
    <3>2. form \in InstructionForm
      BY <3>1, ReviewedPaymentAssumption
    <3>3. QED
      BY <2>2, <3>1, <3>2 DEF Forms, IsMint
  <2>3. QED
    BY <2>1, <2>2
<1>6. redeems \in BOOLEAN /\ (Redeems(x) <=> redeems)
  BY <1>3 DEF Redeems
<1> HIDE DEF x, redeems
<1>7. Shape(x)
  BY <1>2, <1>3, <1>4, <1>5, <1>6 DEF Shape, Asked, Stages, Redeems
<1>8. Timely(x, setting, account)
  BY <1>3, <1>6 DEF Timely, LotsFit
<1>9. QED
  BY <1>2, <1>3, <1>7, <1>8, OneChanges DEF x

\* The button.
LEMMA OpenXamanKeeps == ASSUME IInv, NEW f \in Flows, OpenXaman(f) PROVE IInv'
<1> DEFINE x == flow'[f]
<1>1. UNCHANGED <<setting, account>> /\ flow[f].stage = "reviewed"
  BY DEF OpenXaman
<1>2. /\ flow' = [g \in Flows |-> flow'[g]] /\ \A g \in Flows \ {f} : flow'[g] = flow[g]
      /\ DOMAIN x = Fields /\ x.stage = "reading" /\ x.start = setting /\ x.form = flow[f].form
      /\ x.action = flow[f].action /\ x.outdated = flow[f].outdated
      /\ x.moved = flow[f].moved /\ x.lots = flow[f].lots /\ x.warned = flow[f].warned
  <2>1. DOMAIN flow[f] = Fields /\ flow = [g \in Flows |-> flow[g]]
    BY FieldsOf DEF IInv
  <2>2. QED
    BY <2>1 DEF Fields, OpenXaman
<1>3. Shape(flow[f]) /\ Timely(flow[f], setting, account) /\ setting \in 1..Len(Settings)
  BY DEF IInv
<1> HIDE DEF x
<1>4. Shape(x)
  BY <1>1, <1>2, <1>3 DEF Shape, Asked, Stages, Redeems
<1>5. Timely(x, setting, account)
  BY <1>1, <1>2, <1>3 DEF Timely, LotsFit, Redeems
<1>6. QED
  BY <1>1, <1>2, <1>4, <1>5, OneChanges DEF x

\* A payment that is given up.
LEMMA RefusedKeeps ==
  ASSUME IInv, NEW f \in Flows, flow[f].stage \in {"reading", "signable"}, Becomes(f, "refused"),
         UNCHANGED <<setting, account>>
  PROVE  IInv'
<1> DEFINE x == flow'[f]
<1>1. /\ flow' = [g \in Flows |-> flow'[g]] /\ \A g \in Flows \ {f} : flow'[g] = flow[g]
      /\ DOMAIN x = Fields /\ x.stage = "refused" /\ x.form = flow[f].form
      /\ x.action = flow[f].action
      /\ x.outdated = flow[f].outdated /\ x.moved = flow[f].moved /\ x.warned = flow[f].warned
  <2>1. DOMAIN flow[f] = Fields /\ flow = [g \in Flows |-> flow[g]]
    BY FieldsOf DEF IInv
  <2>2. QED
    BY <2>1 DEF Fields, Becomes
<1>2. Shape(flow[f])
  BY DEF IInv
<1> HIDE DEF x
<1>3. Shape(x)
  BY <1>1, <1>2 DEF Shape, Asked, Stages
<1>4. Timely(x, setting, account)
  BY <1>1 DEF Timely
<1>5. QED
  BY <1>1, <1>3, <1>4, OneChanges DEF x

\* The wallet pays, perhaps another amount or with a tag.
LEMMA PayKeeps == ASSUME IInv, NEW f \in Flows, Pay(f) PROVE IInv'
<1>1. PICK more \in {0, 1}, tagged \in BOOLEAN :
        flow' = [flow EXCEPT ![f].stage = "paid",
                             ![f].tx = Submitted(flow[f].request, more, tagged)]
  BY DEF Pay
<1> DEFINE x == flow'[f]
<1>2. UNCHANGED <<setting, account>> /\ flow[f].stage = "signable"
  BY DEF Pay
<1>3. /\ flow' = [g \in Flows |-> flow'[g]] /\ \A g \in Flows \ {f} : flow'[g] = flow[g]
      /\ DOMAIN x = Fields /\ x.stage = "paid" /\ x.form = flow[f].form
      /\ x.action = flow[f].action /\ x.lots = flow[f].lots
      /\ x.tx = Submitted(x.request, more, tagged) /\ x.request = flow[f].request
      /\ x.outdated = flow[f].outdated /\ x.moved = flow[f].moved /\ x.warned = flow[f].warned
  <2>1. DOMAIN flow[f] = Fields /\ flow = [g \in Flows |-> flow[g]]
    BY FieldsOf DEF IInv
  <2> DEFINE tx == Submitted(flow[f].request, more, tagged)
  <2> HIDE DEF tx
  <2>2. flow' = [flow EXCEPT ![f].stage = "paid", ![f].tx = tx]
    BY <1>1 DEF tx
  <2>3. /\ flow' = [g \in Flows |-> flow'[g]] /\ \A g \in Flows \ {f} : flow'[g] = flow[g]
        /\ DOMAIN x = Fields /\ x.stage = "paid" /\ x.form = flow[f].form
        /\ x.action = flow[f].action /\ x.lots = flow[f].lots
        /\ x.tx = tx /\ x.request = flow[f].request
        /\ x.outdated = flow[f].outdated /\ x.moved = flow[f].moved /\ x.warned = flow[f].warned
    BY <2>1, <2>2 DEF Fields
  <2>4. QED
    BY <2>3 DEF tx
<1>4. Shape(flow[f]) /\ Timely(flow[f], setting, account)
  BY DEF IInv
<1> HIDE DEF x
<1>5. Shape(x)
  BY <1>2, <1>3, <1>4 DEF Shape, Asked, AskedFor, Stages
<1>6. Timely(x, setting, account)
  BY <1>2, <1>3, <1>4 DEF Timely, MintPromised, InstructionPromised, LotsFit, Redeems
<1>7. QED
  BY <1>2, <1>3, <1>5, <1>6, OneChanges DEF x

-----------------------------------------------------------------------------
(***************************************************************************)
(* The sign route.                                                         *)
(***************************************************************************)

\* What is posted is the form, with the action and the lots of the page's review.
LEMMA PostedIsReviewed ==
  ASSUME IInv, NEW f \in Flows, flow[f].stage = "reading"
  PROVE  /\ IsMint(Posted(f)) <=> IsMint(flow[f].form)
         /\ IsMint(flow[f].form) => Posted(f) = flow[f].form /\ flow[f].form \in MintForm
         /\ ~IsMint(flow[f].form) =>
              /\ Instructed(Posted(f)) /\ Posted(f).action = flow[f].action
              /\ Posted(f).lots = flow[f].lots /\ Posted(f).amount = flow[f].form.amount
              /\ Posted(f).date = flow[f].form.date /\ Posted(f).period = flow[f].form.period
<1>1. /\ flow[f].form \in Forms /\ flow[f].lots \in Nat
      /\ ~IsMint(flow[f].form) => flow[f].action \in Actions
  BY DEF IInv, Shape
<1>2. CASE IsMint(flow[f].form)
  BY <1>1, <1>2, FormKinds DEF Posted
<1>3. CASE ~IsMint(flow[f].form)
  <2> DEFINE form == flow[f].form
             action == flow[f].action
             lots == flow[f].lots
             posted == [form EXCEPT !.action = action, !.lots = lots]
  <2>1. Instructed(form) /\ lots \in Nat /\ action \in Actions
    BY <1>1, <1>3, FormKinds
  <2>2. Posted(f) = posted
    BY <1>3 DEF Posted
  <2> HIDE DEF form, action, lots
  <2>3. /\ Instructed(posted) /\ ~IsMint(posted)
        /\ posted.action = action /\ posted.lots = lots /\ posted.amount = form.amount
        /\ posted.date = form.date /\ posted.period = form.period
    BY <2>1 DEF Instructed, IsMint
  <2> HIDE DEF posted
  <2>4. QED
    BY <1>3, <2>2, <2>3 DEF form, action, lots
<1>4. QED
  BY <1>2, <1>3

\* The request is that of a fresh review.
LEMMA SignKeeps == ASSUME IInv, NEW f \in Flows, Sign(f) PROVE IInv'
<1> DEFINE P == Settings[setting]
           form == flow[f].form
           action == flow[f].action
           x == flow'[f]
<1>1. UNCHANGED <<setting, account>> /\ flow[f].stage = "reading"
  BY DEF Sign
<1>2. CASE Becomes(f, "refused")
  BY <1>1, <1>2, RefusedKeeps
<1>3. ASSUME NEW p \in Read(Posted(f), Settings[flow[f].start], Settings[setting]),
             Reviewable(Posted(f), p), NEW review \in Reviews(Posted(f), p), ~Failed(review),
             flow' = [flow EXCEPT ![f].stage = "signable", ![f].start = 0,
                                  ![f].request = review.payment, ![f].warned = Warned(review)]
      PROVE  IInv'
  <2>1. /\ flow' = [g \in Flows |-> flow'[g]] /\ \A g \in Flows \ {f} : flow'[g] = flow[g]
        /\ DOMAIN x = Fields /\ x.stage = "signable" /\ x.form = flow[f].form
        /\ x.action = flow[f].action /\ x.lots = flow[f].lots
        /\ x.request = review.payment /\ x.warned = Warned(review)
        /\ x.outdated = flow[f].outdated /\ x.moved = flow[f].moved
    <3>1. DOMAIN flow[f] = Fields /\ flow = [g \in Flows |-> flow[g]]
      BY FieldsOf DEF IInv
    <3> DEFINE payment == review.payment
               warned == Warned(review)
    <3> HIDE DEF payment, warned
    <3>2. flow' = [flow EXCEPT ![f].stage = "signable", ![f].start = 0,
                               ![f].request = payment, ![f].warned = warned]
      BY <1>3 DEF payment, warned
    <3>3. /\ flow' = [g \in Flows |-> flow'[g]] /\ \A g \in Flows \ {f} : flow'[g] = flow[g]
          /\ DOMAIN x = Fields /\ x.stage = "signable" /\ x.form = flow[f].form
          /\ x.action = flow[f].action /\ x.lots = flow[f].lots
          /\ x.request = payment /\ x.warned = warned
          /\ x.outdated = flow[f].outdated /\ x.moved = flow[f].moved
      BY <3>1, <3>2 DEF Fields
    <3>4. QED
      BY <3>3 DEF payment, warned
  <2>2. /\ Shape(flow[f]) /\ Timely(flow[f], setting, account)
        /\ setting \in 1..Len(Settings) /\ account \in Account
    BY DEF IInv
  <2>3. flow[f].start \in 1..Len(Settings) /\ form \in Forms
    BY <1>1, <2>2 DEF Shape
  <2>4. Settings[flow[f].start] \in Setting /\ P \in Setting
    BY <2>2, <2>3, SettingsAreRead
  <2>5. /\ IsMint(Posted(f)) => Quoted(p)
        /\ ~IsMint(Posted(f)) => Consulted(p)
        /\ ~flow[f].moved => \A y \in SettingsRead(Posted(f)) : p[y] = P[y]
    <3>1. ~flow[f].moved => Settings[flow[f].start] = P
      BY <1>1, <2>2 DEF Timely
    <3>2. QED
      BY <2>4, <3>1, MixedReads
  <2>6. Warned(review) \in BOOLEAN
    BY DEF Warned
  <2> HIDE DEF P, x
  <2>7. CASE IsMint(form)
    <3>1. Posted(f) = form /\ form \in MintForm /\ Quoted(p)
      BY <1>1, <2>5, <2>7, PostedIsReviewed
    <3>2. MintReviewable(form, p)
      BY <1>3, <2>7, <3>1 DEF Reviewable
    <3>3. PICK world \in Worlds : review = MintReview(form, account.nonce, p, world)
      BY <1>3, <2>7, <3>1 DEF Reviews
    <3>4. account.nonce \in Nat
      BY <2>2 DEF Account
    <3>5. /\ MintAsked(form, review.payment)
          /\ review.payment.destination = p.coreVault
          /\ review.payment.amount = form.amount /\ form.amount >= p.minimumFee
          /\ form.destination # "wallet" =>
              /\ review.payment.memo.userOp.nonce = account.nonce
              /\ review.payment.memo.executorFee = p.executorFee
              /\ review.payment.memo.userOp.deposit = DepositAmount(ExpectedFxrp(form.amount, p))
      BY <1>3, <3>1, <3>2, <3>3, <3>4, MintReviewPays
    <3>6. Shape(x)
      BY <1>1, <2>1, <2>2, <2>6, <2>7, <3>5 DEF Shape, Asked, Stages, AskedFor
    <3>7. ASSUME ~flow[f].moved PROVE MintPromised(x, P, account)
      <4>1. /\ p.coreVault = P.coreVault /\ p.minimumFee = P.minimumFee
            /\ p.feeBips = P.feeBips /\ p.executorFee = P.executorFee
        BY <2>5, <2>7, <3>1, <3>7 DEF SettingsRead
      <4>2. ExpectedFxrp(form.amount, p) = ExpectedFxrp(form.amount, P)
        BY <4>1, QuoteOfTheFees
      <4>3. QED
        BY <2>1, <3>5, <4>1, <4>2 DEF MintPromised
    <3>8. Timely(x, setting, account)
      BY <2>1, <2>7, <3>7 DEF Timely, P
    <3>9. QED
      BY <1>1, <2>1, <3>6, <3>8, OneChanges DEF x
  <2>8. CASE ~IsMint(form)
    <3>1. /\ Instructed(Posted(f)) /\ Posted(f).action = action /\ Posted(f).lots = flow[f].lots
          /\ Posted(f).amount = form.amount
          /\ Posted(f).date = form.date /\ Posted(f).period = form.period
          /\ ~IsMint(Posted(f)) /\ Consulted(p)
      BY <1>1, <2>5, <2>8, PostedIsReviewed
    <3>2. InstructionReviewable(Posted(f), p)
      BY <1>3, <3>1 DEF Reviewable
    <3>3. PICK scanned : review = InstructionReview(Posted(f), p, account, scanned)
      BY <1>3, <3>1 DEF Reviews
    <3>4. /\ InstructionAsked(action, RedeemedLots(Posted(f), p), form, review.payment)
          /\ review.payment.amount >= InstructionFee(p)
          /\ action = "redeem" =>
              /\ review.payment.memo.value = RedeemedLots(Posted(f), p)
              /\ RedeemedLots(Posted(f), p) * p.lotSize <= account.balance
          /\ Warned(review) \/ action # "upshiftClaim"
          /\ action = "firelightClaim" =>
              /\ review.payment.memo.vaultId = p.firelight
              /\ \/ Warned(review)
                 \/ form.period \in account.withdrawals /\ form.period < account.period
      <4> DEFINE posted == Posted(f)
      <4>1. Instructed(posted) /\ InstructionReviewable(posted, p)
            /\ review = InstructionReview(posted, p, account, scanned)
            /\ posted.action = action /\ posted.amount = form.amount
            /\ posted.date = form.date /\ posted.period = form.period
        BY <3>1, <3>2, <3>3
      <4> HIDE DEF posted
      <4>2. /\ InstructionAsked(posted.action, RedeemedLots(posted, p), posted, review.payment)
            /\ review.payment.amount >= InstructionFee(p)
            /\ posted.action = "redeem" =>
                 /\ review.payment.memo.value = RedeemedLots(posted, p)
                 /\ RedeemedLots(posted, p) * p.lotSize <= account.balance
            /\ Warned(review) \/ posted.action # "upshiftClaim"
            /\ posted.action = "firelightClaim" =>
                 /\ review.payment.memo.vaultId = p.firelight
                 /\ \/ Warned(review)
                    \/ posted.period \in account.withdrawals /\ posted.period < account.period
        BY <1>3, <2>2, <3>1, <4>1, InstructionReviewPays
      <4>3. InstructionAsked(action, RedeemedLots(posted, p), form, review.payment)
        BY <4>1, <4>2 DEF InstructionAsked
      <4>4. QED
        BY <4>1, <4>2, <4>3 DEF posted
    <3>5. action = "redeem" => RedeemedLots(Posted(f), p) = flow[f].lots
      <4>1. action = "redeem" => flow[f].lots > 0
        BY <1>1, <2>2 DEF Shape, Redeems
      <4>2. QED
        BY <3>1, <4>1, LotsAreTheAmount
    <3>6. Shape(x)
      <4>1. InstructionAsked(action, flow[f].lots, form, review.payment)
        BY <3>4, <3>5 DEF InstructionAsked
      <4>2. QED
        BY <1>1, <2>1, <2>2, <2>6, <2>8, <4>1 DEF Shape, Asked, Stages, AskedFor
    <3>7. ASSUME ~flow[f].moved PROVE InstructionPromised(x, P, account)
      <4>1. /\ p.instructionFee = P.instructionFee /\ p.defaultFee = P.defaultFee
            /\ p.lotSize = P.lotSize /\ p.firelight = P.firelight
        BY <2>5, <3>1, <3>7 DEF SettingsRead
      <4>2. InstructionFee(p) = InstructionFee(P)
        BY <4>1 DEF InstructionFee
      <4>3. LotsFit(x, review.payment.memo.value, P)
        <5>1. LotsFit(flow[f], flow[f].lots, P)
          BY <1>1, <2>2, <3>7 DEF Timely, P
        <5>2. QED
          BY <2>1, <3>4, <3>5, <5>1 DEF LotsFit, Redeems
      <4>4. QED
        BY <2>1, <3>4, <4>1, <4>2, <4>3 DEF InstructionPromised
    <3>8. Timely(x, setting, account)
      BY <2>1, <2>8, <3>7 DEF Timely, P
    <3>9. QED
      BY <1>1, <2>1, <3>6, <3>8, OneChanges DEF x
  <2>9. QED
    BY <2>7, <2>8
<1>4. QED
  BY <1>2, <1>3 DEF Sign

-----------------------------------------------------------------------------
(***************************************************************************)
(* The chain moves.                                                        *)
(***************************************************************************)
MayMove == {"reading", "signable", "paid"}

\* A payment on which the chain has moved promises nothing any more.
LEMMA MovedIsTimely ==
  ASSUME NEW x, Shape(x), x.stage \in MayMove, NEW s, NEW a
  PROVE  Shape([x EXCEPT !.moved = TRUE]) /\ Timely([x EXCEPT !.moved = TRUE], s, a)
<1> DEFINE y == [x EXCEPT !.moved = TRUE]
<1>1. DOMAIN x = Fields
  BY DEF Shape
<1>2. /\ DOMAIN y = Fields /\ y.moved = TRUE /\ y.stage = x.stage /\ y.outdated = x.outdated
      /\ y.form = x.form /\ y.action = x.action /\ y.lots = x.lots /\ y.start = x.start
      /\ y.request = x.request /\ y.warned = x.warned /\ y.tx = x.tx
  BY <1>1 DEF Fields
<1> HIDE DEF y
<1>3. Shape(y)
  BY <1>2 DEF Shape, MayMove, Stages, Asked, AskedFor, Redeems
<1>4. Timely(y, s, a)
  BY <1>2 DEF Timely, MayMove
<1>5. QED
  BY <1>3, <1>4 DEF y

\* Payments that have not begun or have ended do not look at the chain.
LEMMA EndedIsTimely ==
  ASSUME NEW x, x.stage \notin MayMove, x.stage # "reviewed", NEW s, NEW a
  PROVE  Timely(x, s, a)
BY DEF Timely, MayMove

\* Governance: reviewed redemptions are outdated.
LEMMA GovernKeeps == ASSUME IInv, Govern PROVE IInv'
<1>1. /\ setting' = setting + 1 /\ setting < Len(Settings) /\ account' = account
      /\ flow' = [f \in Flows |->
                    IF flow[f].stage = "reviewed"
                    THEN [flow[f] EXCEPT !.outdated = Redeems(flow[f])]
                    ELSE IF flow[f].stage \in MayMove THEN [flow[f] EXCEPT !.moved = TRUE]
                    ELSE flow[f]]
  BY DEF Govern, MayMove
<1>2. Len(Settings) \in Nat
  BY ReviewedPaymentAssumption
<1>3. setting' \in 1..Len(Settings) /\ account' \in Account /\ flow' = [f \in Flows |-> flow'[f]]
  BY <1>1, <1>2 DEF IInv
<1>4. ASSUME NEW f \in Flows
      PROVE  Shape(flow'[f]) /\ Timely(flow'[f], setting', account')
  <2>1. Shape(flow[f]) /\ DOMAIN flow[f] = Fields
    BY DEF IInv, Shape
  <2>2. CASE flow[f].stage = "reviewed"
    <3> DEFINE redeems == Redeems(flow[f])
               y == [flow[f] EXCEPT !.outdated = redeems]
    <3>1. redeems \in BOOLEAN /\ flow'[f] = y
      BY <1>1, <2>2 DEF Redeems
    <3> HIDE DEF redeems
    <3>2. /\ DOMAIN y = Fields /\ y.outdated = redeems /\ y.stage = "reviewed"
          /\ y.moved = flow[f].moved /\ y.form = flow[f].form /\ y.action = flow[f].action
          /\ y.lots = flow[f].lots /\ y.warned = flow[f].warned
      BY <2>1, <2>2 DEF Fields
    <3> HIDE DEF y
    <3>3. Shape(y)
      BY <2>1, <2>2, <3>1, <3>2 DEF Shape, Asked, Stages, Redeems
    <3>4. Redeems(y) <=> redeems
      BY <3>2 DEF Redeems, redeems
    <3>5. Timely(y, setting', account')
      BY <3>2, <3>4 DEF Timely, LotsFit
    <3>6. QED
      BY <3>1, <3>3, <3>5
  <2>3. CASE flow[f].stage \in MayMove
    <3>1. flow'[f] = [flow[f] EXCEPT !.moved = TRUE]
      BY <1>1, <2>3 DEF MayMove
    <3>2. QED
      BY <2>1, <2>3, <3>1, MovedIsTimely
  <2>4. CASE flow[f].stage \notin MayMove /\ flow[f].stage # "reviewed"
    <3>1. flow'[f] = flow[f]
      BY <1>1, <2>4
    <3>2. QED
      BY <2>1, <2>4, <3>1, EndedIsTimely
  <2>5. QED
    BY <2>2, <2>3, <2>4
<1>5. QED
  BY <1>3, <1>4 DEF IInv

-----------------------------------------------------------------------------
(***************************************************************************)
(* The contracts.                                                          *)
(***************************************************************************)

(***************************************************************************)
(* What took effect for one payment moved the chain for the others; those  *)
(* that are only reviewed do not look at the account.                      *)
(***************************************************************************)
LEMMA TakesEffectKeeps ==
  ASSUME IInv, NEW f \in Flows, flow[f].stage = "paid", NEW effect, TakesEffect(f, effect),
         setting' = setting, effect.account \in Account,
         \A x : /\ x.form = flow[f].form /\ x.request = flow[f].request /\ x.tx = flow[f].tx
                /\ x.action = flow[f].action /\ x.lots = flow[f].lots
                /\ x.outdated = flow[f].outdated /\ x.moved = flow[f].moved
                /\ x.to = effect.to /\ x.uba = effect.uba
                => TypedBy(x)
  PROVE  IInv'
<1> DEFINE x == flow'[f]
<1>1. /\ account' = effect.account
      /\ flow' = [Moved(f) EXCEPT ![f].stage = "executed", ![f].to = effect.to,
                                  ![f].uba = effect.uba]
  BY DEF TakesEffect
<1>2. DOMAIN Moved(f) = Flows /\ Moved(f)[f] = flow[f]
  BY DEF Moved
<1>3. Shape(flow[f]) /\ DOMAIN flow[f] = Fields
  BY DEF IInv, Shape
<1>4. /\ flow' = [g \in Flows |-> flow'[g]] /\ \A g \in Flows \ {f} : flow'[g] = Moved(f)[g]
      /\ DOMAIN x = Fields /\ x.stage = "executed" /\ x.to = effect.to /\ x.uba = effect.uba
      /\ x.form = flow[f].form /\ x.request = flow[f].request /\ x.tx = flow[f].tx
      /\ x.action = flow[f].action /\ x.lots = flow[f].lots
      /\ x.outdated = flow[f].outdated /\ x.moved = flow[f].moved /\ x.warned = flow[f].warned
  <2> DEFINE moved == Moved(f)
             to == effect.to
             uba == effect.uba
  <2>1. moved = [g \in Flows |-> moved[g]] /\ DOMAIN moved[f] = Fields /\ moved[f] = flow[f]
    BY <1>2, <1>3 DEF Moved
  <2> HIDE DEF moved, to, uba
  <2>2. flow' = [moved EXCEPT ![f].stage = "executed", ![f].to = to, ![f].uba = uba]
    BY <1>1 DEF moved, to, uba
  <2>3. /\ flow' = [g \in Flows |-> flow'[g]] /\ \A g \in Flows \ {f} : flow'[g] = moved[g]
        /\ DOMAIN x = Fields /\ x.stage = "executed" /\ x.to = to /\ x.uba = uba
        /\ x.form = flow[f].form /\ x.request = flow[f].request /\ x.tx = flow[f].tx
        /\ x.action = flow[f].action /\ x.lots = flow[f].lots
        /\ x.outdated = flow[f].outdated /\ x.moved = flow[f].moved /\ x.warned = flow[f].warned
    BY <2>1, <2>2 DEF Fields
  <2>4. QED
    BY <2>3 DEF moved, to, uba
<1> HIDE DEF x
<1>5. TypedBy(x)
  BY <1>4
<1>6. Shape(x)
  BY <1>3, <1>4, <1>5 DEF Shape, Asked, AskedFor, Stages
<1>7. Timely(x, setting', account')
  BY <1>4, EndedIsTimely DEF MayMove
<1>8. ASSUME NEW g \in Flows \ {f}
      PROVE  Shape(flow'[g]) /\ Timely(flow'[g], setting', account')
  <2>1. Shape(flow[g]) /\ Timely(flow[g], setting, account)
    BY DEF IInv
  <2>2. CASE flow[g].stage \in MayMove
    <3>1. flow'[g] = [flow[g] EXCEPT !.moved = TRUE]
      BY <1>4, <2>2 DEF Moved, MayMove
    <3>2. QED
      BY <2>1, <2>2, <3>1, MovedIsTimely
  <2>3. CASE flow[g].stage \notin MayMove
    <3>1. flow'[g] = flow[g]
      BY <1>4, <2>3 DEF Moved, MayMove
    <3>2. Timely(flow[g], setting, effect.account)
      BY <2>1, <2>3 DEF Timely, MayMove
    <3>3. QED
      BY <1>1, <2>1, <3>1, <3>2
  <2>4. QED
    BY <2>2, <2>3
<1>9. setting' \in 1..Len(Settings) /\ account' \in Account
  BY <1>1 DEF IInv
<1>10. QED
  BY <1>4, <1>6, <1>7, <1>8, <1>9 DEF IInv, x

\* A payment that reverts.
LEMMA RevertsKeeps ==
  ASSUME IInv, NEW f \in Flows, flow[f].stage = "paid", Reverts(f), setting' = setting,
         Verified(flow[f].tx, flow[f].request) => Excused(flow[f])
  PROVE  IInv'
<1> DEFINE x == flow'[f]
<1>1. /\ flow' = [g \in Flows |-> flow'[g]] /\ \A g \in Flows \ {f} : flow'[g] = flow[g]
      /\ DOMAIN x = Fields /\ x.stage = "reverted" /\ x.form = flow[f].form
      /\ x.action = flow[f].action /\ x.lots = flow[f].lots
      /\ x.request = flow[f].request /\ x.tx = flow[f].tx
      /\ x.outdated = flow[f].outdated /\ x.moved = flow[f].moved /\ x.warned = flow[f].warned
  <2>1. DOMAIN flow[f] = Fields /\ flow = [g \in Flows |-> flow[g]]
    BY FieldsOf DEF IInv
  <2>2. QED
    BY <2>1 DEF Fields, Reverts, Becomes
<1>2. Shape(flow[f]) /\ account' = account
  BY DEF IInv, Reverts
<1> HIDE DEF x
<1>3. Shape(x)
  BY <1>1, <1>2 DEF Shape, Asked, AskedFor, Stages, Excused
<1>4. Timely(x, setting, account)
  BY <1>1, EndedIsTimely DEF MayMove
<1>5. QED
  BY <1>1, <1>2, <1>3, <1>4, OneChanges DEF x

\* What is paid is what was asked, but for the amount and the tag.
LEMMA PaidIsAsked ==
  ASSUME IInv, NEW f \in Flows, flow[f].stage = "paid"
  PROVE  /\ flow[f].tx.destination = flow[f].request.destination
         /\ flow[f].tx.memo = flow[f].request.memo
         /\ \E more \in {0, 1} : flow[f].tx.amount = flow[f].request.amount + more
         /\ flow[f].form \in Forms
         /\ AskedFor(flow[f])
<1>1. PICK more \in {0, 1}, tagged \in BOOLEAN :
        flow[f].tx = Submitted(flow[f].request, more, tagged)
  BY DEF IInv, Shape
<1>2. flow[f].form \in Forms /\ AskedFor(flow[f])
  BY DEF IInv, Shape, Asked
<1>3. QED
  BY <1>1, <1>2 DEF Submitted

(***************************************************************************)
(* A direct mint.                                                          *)
(***************************************************************************)
Fees(memo, p) == IF CommitsUserOp(memo) THEN [p EXCEPT !.executorFee = memo.executorFee] ELSE p

\* What is minted is the quote less the rounding.
LEMMA MintedIsTheQuote ==
  ASSUME NEW tx, NEW p \in Setting, NEW lost \in 0..Rounding, tx.amount \in Nat,
         CommitsUserOp(tx.memo) => tx.memo.executorFee \in Nat
  PROVE  LET quote == ExpectedFxrp(tx.amount, Fees(tx.memo, p))
         IN  /\ quote \in Nat /\ Minted(tx, p, lost) \in Nat
             /\ Minted(tx, p, lost) >= quote - lost
<1> DEFINE fees == Fees(tx.memo, p)
           quote == ExpectedFxrp(tx.amount, fees)
<1>1. Quoted(fees)
  BY DEF Fees, Quoted, Setting
<1>2. Minted(tx, p, lost) = Max({0, quote - lost})
  BY Zenon DEF Minted, Fees
<1> HIDE DEF fees
<1>3. quote \in Nat
  BY <1>1, QuoteIsBounded
<1>4. lost \in Nat
  BY ReviewedPaymentAssumption
<1> HIDE DEF quote
<1>5. Max({0, quote - lost}) \in Nat /\ Max({0, quote - lost}) >= quote - lost
  BY <1>3, <1>4, MaxOfTwo
<1>6. QED
  BY <1>2, <1>3, <1>5 DEF quote, fees

\* ExecuteMint: the recipient is credited, or the deposit and its headroom fit.
LEMMA ExecuteMintKeeps == ASSUME IInv, NEW f \in Flows, ExecuteMint(f) PROVE IInv'
<1> DEFINE P == Settings[setting]
           form == flow[f].form
           request == flow[f].request
           tx == flow[f].tx
<1>1. PICK lost \in 0..Rounding :
        IF MintTakesEffect(tx, P, Minted(tx, P, lost))
        THEN TakesEffect(f, MintEffect(tx, Minted(tx, P, lost)))
        ELSE Reverts(f)
  BY Zenon DEF ExecuteMint
<1>2. flow[f].stage = "paid" /\ IsMint(form) /\ setting' = setting
  BY DEF ExecuteMint, Heard
<1>3. /\ tx.destination = request.destination /\ tx.memo = request.memo
      /\ form \in MintForm /\ MintAsked(form, request)
  BY <1>2, PaidIsAsked, FormKinds DEF AskedFor
<1>4. PICK more \in {0, 1} : tx.amount = request.amount + more
  BY <1>2, PaidIsAsked
<1>5. /\ tx.amount \in Nat /\ request.amount \in Nat
      /\ CommitsUserOp(tx.memo) <=> form.destination # "wallet"
      /\ CommitsUserOp(tx.memo) => /\ tx.memo.executorFee \in Nat
                                   /\ tx.memo.userOp.deposit \in Nat
  <2>1. form.amount \in Nat /\ request.amount = form.amount
    BY <1>3 DEF MintAsked
  <2>2. tx.amount \in Nat /\ request.amount \in Nat
    BY <1>4, <2>1
  <2>3. CASE form.destination = "wallet"
    <3>1. tx.memo.bytes = 48
      BY <1>3, <2>3 DEF MintAsked
    <3>2. ~CommitsUserOp(tx.memo)
      BY <3>1 DEF CommitsUserOp
    <3>3. QED
      BY <2>2, <2>3, <3>2
  <2>4. CASE form.destination # "wallet"
    <3>1. /\ tx.memo.bytes = 42 /\ tx.memo.prefix = "FE"
          /\ tx.memo.executorFee \in Nat /\ tx.memo.userOp.deposit \in Nat
      BY <1>3, <2>4 DEF MintAsked
    <3>2. CommitsUserOp(tx.memo)
      BY <3>1 DEF CommitsUserOp
    <3>3. QED
      BY <2>2, <2>4, <3>1, <3>2
  <2>5. QED
    BY <2>3, <2>4
<1>6. /\ P \in Setting /\ account \in Account /\ Timely(flow[f], setting, account)
      /\ flow[f].moved \in BOOLEAN
  BY SettingsAreRead DEF IInv, Shape
<1> DEFINE minted == Minted(tx, P, lost)
           quote == ExpectedFxrp(tx.amount, Fees(tx.memo, P))
<1>7. quote \in Nat /\ minted \in Nat /\ minted >= quote - lost
  BY <1>5, <1>6, MintedIsTheQuote
<1>8. CASE MintTakesEffect(tx, P, minted)
  <2> DEFINE effect == MintEffect(tx, minted)
  <2>1. TakesEffect(f, effect)
    BY <1>1, <1>8
  <2>2. effect.account \in Account
    <3> HIDE DEF tx, P, minted
    <3>1. CASE CommitsUserOp(tx.memo)
      <4>1. tx.memo.userOp.deposit \in Nat /\ tx.memo.userOp.deposit <= minted
        BY <1>5, <1>8, <3>1 DEF MintTakesEffect
      <4>2. effect.account = [account EXCEPT !.nonce = @ + 1,
                                !.balance = @ + minted - tx.memo.userOp.deposit]
        BY <3>1 DEF MintEffect
      <4>3. account.nonce + 1 \in Nat /\ account.balance + minted - tx.memo.userOp.deposit \in Nat
        BY <1>6, <1>7, <4>1 DEF Account
      <4>4. QED
        BY <1>6, <4>2, <4>3 DEF Account
    <3>2. CASE ~CommitsUserOp(tx.memo)
      BY <1>6, <3>2 DEF MintEffect
    <3>3. QED
      BY <3>1, <3>2
  <2>3. effect.to = CASE form.destination = "wallet" -> Rechecksummed(form.to)
                      [] form.to.address = ""        -> PersonalAccount
                      [] OTHER                       -> form.to.address
    <3>1. CASE form.destination = "wallet"
      <4>1. effect.to = tx.memo.recipient
        BY <1>5, <3>1 DEF MintEffect
      <4>2. QED
        BY <1>3, <3>1, <4>1 DEF MintAsked
    <3>2. CASE form.destination # "wallet"
      <4>1. effect.to = tx.memo.userOp.receiver
        BY <1>5, <3>2 DEF MintEffect
      <4>2. effect.to = ShareReceiver(form.to) /\ ShareReceiver(form.to) # "none"
        BY <1>3, <3>2, <4>1 DEF MintAsked
      <4>3. QED
        BY <3>2, <4>2 DEF ShareReceiver
    <3>3. QED
      BY <3>1, <3>2
  <2> HIDE DEF effect
  <2>4. ASSUME NEW x, x.form = form, x.to = effect.to
        PROVE  TypedBy(x)
    BY <1>2, <2>3, <2>4 DEF TypedBy
  <2>5. QED
    BY <1>2, <2>1, <2>2, <2>4, TakesEffectKeeps
<1>9. CASE ~MintTakesEffect(tx, P, minted)
  <2>1. Reverts(f)
    BY <1>1, <1>9
  <2>2. SUFFICES ASSUME Verified(tx, request), ~Excused(flow[f]) PROVE FALSE
    BY <1>2, <2>1, RevertsKeeps
  <2>3. /\ ~flow[f].moved /\ MintPromised(flow[f], P, account)
        /\ tx.amount = form.amount
    <3>1. ~flow[f].moved
      BY <2>2 DEF Excused
    <3>2. tx.amount = form.amount
      BY <1>3, <2>2 DEF Verified, MintAsked
    <3>3. QED
      BY <1>2, <1>6, <3>1, <3>2 DEF Timely
  <2>4. tx.destination = P.coreVault /\ tx.amount >= P.minimumFee
    BY <1>3, <2>2, <2>3 DEF MintPromised, Verified
  <2>5. ASSUME CommitsUserOp(tx.memo)
        PROVE  tx.memo.userOp.nonce = account.nonce /\ tx.memo.userOp.deposit <= minted
    <3>1. /\ tx.memo.userOp.nonce = account.nonce
          /\ tx.memo.executorFee = P.executorFee
          /\ tx.memo.userOp.deposit = DepositAmount(ExpectedFxrp(form.amount, P))
      BY <1>3, <1>5, <2>3, <2>5 DEF MintPromised
    <3>2. quote = ExpectedFxrp(form.amount, P)
      <4> DEFINE fees == Fees(tx.memo, P)
      <4>1. /\ fees.minimumFee = P.minimumFee /\ fees.feeBips = P.feeBips
            /\ fees.executorFee = P.executorFee
        BY <1>6, <2>5, <3>1 DEF Fees, Setting
      <4> HIDE DEF fees
      <4>2. ExpectedFxrp(form.amount, fees) = ExpectedFxrp(form.amount, P)
        BY <4>1, QuoteOfTheFees
      <4>3. QED
        BY <2>3, <4>2 DEF fees
    <3>3. tx.memo.userOp.deposit >= 400 * Rounding
      <4>1. Rounding \in Nat
        BY ReviewedPaymentAssumption
      <4>2. ~(tx.memo.userOp.deposit < 400 * Rounding)
        BY <1>3, <2>2, <2>5 DEF Excused, NoHeadroom
      <4>3. QED
        BY <1>5, <2>5, <4>1, <4>2
    <3> HIDE DEF quote, minted
    <3>4. tx.memo.userOp.deposit <= quote - lost
      BY <1>7, <3>1, <3>2, <3>3, HeadroomAbsorbs
    <3>5. lost \in Nat
      BY ReviewedPaymentAssumption
    <3>6. QED
      BY <1>5, <1>7, <2>5, <3>1, <3>4, <3>5
  <2>6. QED
    BY <1>9, <2>4, <2>5 DEF MintTakesEffect
<1>10. QED
  BY <1>8, <1>9

(***************************************************************************)
(* An instruction.                                                         *)
(***************************************************************************)
LEMMA ExecuteInstructionKeeps == ASSUME IInv, NEW f \in Flows, ExecuteInstruction(f) PROVE IInv'
<1> DEFINE P == Settings[setting]
           form == flow[f].form
           action == flow[f].action
           lots == flow[f].lots
           request == flow[f].request
           tx == flow[f].tx
<1>1. flow[f].stage = "paid" /\ tx.memo.bytes = 32 /\ setting' = setting
  BY DEF ExecuteInstruction, Heard, IsInstruction
<1>2. /\ tx.memo = request.memo /\ form \in Forms /\ AskedFor(flow[f])
      /\ \E more \in {0, 1} : tx.amount = request.amount + more
  BY <1>1, PaidIsAsked
<1>3. ~IsMint(form) /\ InstructionAsked(action, lots, form, request)
  <2>1. ASSUME IsMint(form) PROVE FALSE
    <3>1. MintAsked(form, request)
      BY <1>2, <2>1 DEF AskedFor
    <3>2. request.memo.bytes \in {48, 42}
      BY <3>1 DEF MintAsked
    <3>3. request.memo.bytes = 32
      BY <1>1, <1>2
    <3>4. QED
      BY <3>2, <3>3
  <2>2. QED
    BY <1>2, <2>1 DEF AskedFor
<1>4. Instructed(form)
  BY <1>2, <1>3, FormKinds
<1>5. /\ P \in Setting /\ Consulted(P) /\ account \in Account
      /\ flow[f].moved \in BOOLEAN /\ flow[f].warned \in BOOLEAN
      /\ ~flow[f].moved => InstructionPromised(flow[f], P, account)
  BY <1>1, <1>3, SettingsAreRead DEF IInv, Shape, Timely
<1>6. /\ tx.memo.value \in Nat /\ tx.memo.prefix = action /\ tx.amount >= request.amount
      /\ tx.amount \in Nat
      /\ action \in {"redeem"} \cup Claims \cup VaultExits
  BY <1>2, <1>3, <1>4 DEF InstructionAsked, Instructed
<1>7. Uba(tx.memo, P) \in Nat
  <2>1. Whole \in Nat /\ P.lotSize \in Nat
    BY <1>5, ReviewedPaymentAssumption DEF Consulted
  <2>2. QED
    BY <1>6, <2>1 DEF Uba
<1>8. CASE InstructionTakesEffect(tx, P) /\ TakesEffect(f, InstructionEffect(tx, P))
  <2> DEFINE effect == InstructionEffect(tx, P)
             uba == Uba(tx.memo, P)
  <2>1. effect.uba = uba
    BY DEF InstructionEffect
  <2>2. effect.account \in Account
    <3>1. effect.account =
            CASE tx.memo.prefix = "redeem" -> [account EXCEPT !.balance = @ - uba]
              [] tx.memo.prefix \in VaultExits -> [account EXCEPT !.shares = @ - uba]
              [] tx.memo.prefix = "firelightClaim" ->
                   [account EXCEPT !.withdrawals = @ \ {tx.memo.value}]
              [] OTHER -> account
      BY DEF InstructionEffect
    <3>2. /\ tx.memo.prefix = "redeem" => uba <= account.balance
          /\ tx.memo.prefix \in VaultExits => uba <= account.shares
      BY <1>8 DEF InstructionTakesEffect
    <3> HIDE DEF effect, uba, tx
    <3>3. uba \in Nat
      BY <1>7 DEF uba
    <3>4. CASE tx.memo.prefix = "redeem"
      <4>1. effect.account = [account EXCEPT !.balance = @ - uba]
        BY <3>1, <3>4 DEF VaultExits
      <4>2. account.balance - uba \in Nat
        BY <1>5, <3>2, <3>3, <3>4 DEF Account
      <4>3. QED
        BY <1>5, <4>1, <4>2 DEF Account
    <3>5. CASE tx.memo.prefix \in VaultExits
      <4>1. effect.account = [account EXCEPT !.shares = @ - uba]
        BY <3>1, <3>5 DEF VaultExits
      <4>2. account.shares - uba \in Nat
        BY <1>5, <3>2, <3>3, <3>5 DEF Account
      <4>3. QED
        BY <1>5, <4>1, <4>2 DEF Account
    <3>6. CASE tx.memo.prefix = "firelightClaim"
      <4>1. effect.account = [account EXCEPT !.withdrawals = @ \ {tx.memo.value}]
        BY <3>1, <3>6 DEF VaultExits
      <4>2. QED
        BY <1>5, <4>1 DEF Account
    <3>7. CASE tx.memo.prefix \notin {"redeem", "firelightClaim"} \cup VaultExits
      <4>1. effect.account = account
        BY <3>1, <3>7
      <4>2. QED
        BY <1>5, <4>1
    <3>8. QED
      BY <3>4, <3>5, <3>6, <3>7
  <2>3. ASSUME NEW x, x.form = form, x.tx = tx, x.outdated = flow[f].outdated,
               x.action = action, x.lots = lots, x.moved = flow[f].moved, x.uba = uba
        PROVE  TypedBy(x)
    <3>1. CASE action = "redeem"
      <4>1. ~flow[f].moved /\ ~flow[f].outdated => request.memo.value * P.lotSize = form.amount
        BY <1>3, <1>5, <3>1 DEF InstructionPromised, LotsFit, Redeems
      <4>2. uba = request.memo.value * P.lotSize
        BY <1>2, <1>6, <3>1 DEF Uba
      <4>3. x.outdated \/ x.moved \/ x.uba = x.form.amount
        BY <2>3, <4>1, <4>2
      <4>4. x.tx.memo.value = x.lots /\ x.tx.memo.prefix = x.action
        BY <1>2, <1>3, <1>6, <2>3, <3>1 DEF InstructionAsked
      <4>5. QED
        BY <1>3, <2>3, <3>1, <4>3, <4>4 DEF TypedBy
    <3>2. CASE action \in VaultExits
      <4>1. uba = request.memo.value * Whole
        BY <1>2, <1>6, <3>2 DEF Uba, VaultExits
      <4>2. x.uba = x.form.amount /\ x.tx.memo.prefix = x.action
        BY <1>3, <1>6, <2>3, <3>2, <4>1 DEF InstructionAsked
      <4>3. QED
        BY <1>3, <2>3, <3>2, <4>2 DEF TypedBy, VaultExits
    <3>3. CASE action \in Claims
      <4>1. /\ x.tx.memo.prefix = x.action
            /\ x.action = "upshiftClaim" => x.tx.memo.value = x.form.date
            /\ x.action = "firelightClaim" => x.tx.memo.value = x.form.period
        BY <1>2, <1>3, <1>6, <2>3 DEF InstructionAsked
      <4>2. QED
        BY <1>3, <2>3, <3>3, <4>1 DEF TypedBy, Claims
    <3>4. QED
      BY <1>6, <3>1, <3>2, <3>3
  <2> HIDE DEF effect, uba
  <2>4. TakesEffect(f, effect)
    BY <1>8 DEF effect
  <2>5. QED
    BY <1>1, <2>1, <2>2, <2>3, <2>4, TakesEffectKeeps
<1>9. CASE /\ ~InstructionTakesEffect(tx, P) \/ tx.memo.prefix = "upshiftClaim"
           /\ Reverts(f)
  <2>1. SUFFICES ASSUME ~Excused(flow[f]) PROVE FALSE
    BY <1>1, <1>9, RevertsKeeps
  <2>2. ~flow[f].moved /\ ~flow[f].warned /\ action \notin VaultExits
    BY <1>2, <1>6, <2>1 DEF Excused
  <2>3. InstructionPromised(flow[f], P, account)
    BY <1>5, <2>2
  <2>4. tx.memo.prefix # "upshiftClaim"
    BY <1>6, <2>2, <2>3 DEF InstructionPromised
  <2>5. tx.amount >= InstructionFee(P)
    <3>1. request.amount >= InstructionFee(P) /\ request.amount \in Nat
      BY <1>3, <2>3 DEF InstructionPromised, InstructionAsked
    <3>2. InstructionFee(P) \in Nat
      BY <1>5 DEF InstructionFee, Consulted
    <3>3. QED
      BY <1>6, <3>1, <3>2
  <2>6. tx.memo.prefix = "redeem" => Uba(tx.memo, P) <= account.balance
    BY <1>2, <1>6, <2>3 DEF InstructionPromised, Uba
  <2>7. tx.memo.prefix = "firelightClaim" =>
          /\ tx.memo.vaultId = P.firelight
          /\ tx.memo.value \in account.withdrawals /\ tx.memo.value < account.period
    BY <1>2, <1>3, <1>6, <2>2, <2>3 DEF InstructionPromised, InstructionAsked, Claims
  <2>8. QED
    BY <1>6, <1>9, <2>2, <2>4, <2>5, <2>6, <2>7 DEF InstructionTakesEffect
<1>10. QED
  BY <1>8, <1>9 DEF ExecuteInstruction

-----------------------------------------------------------------------------
\* No payment has begun.
LEMMA InitIsGood == Init => IInv
<1> SUFFICES ASSUME Init PROVE IInv
  OBVIOUS
<1>1. setting = 1 /\ account = FirstAccount /\ flow = [f \in Flows |-> Idle]
  BY DEF Init
<1>2. setting \in 1..Len(Settings) /\ account \in Account
  BY <1>1, ReviewedPaymentAssumption
<1>3. /\ DOMAIN Idle = Fields /\ Idle.stage = "idle"
      /\ Idle.moved = FALSE /\ Idle.outdated = FALSE /\ Idle.warned = FALSE
  BY DEF Idle, Fields
<1>4. Shape(Idle)
  BY <1>3 DEF Shape, Stages, Asked
<1>5. \A s, a : Timely(Idle, s, a)
  BY <1>3 DEF Timely
<1>6. QED
  BY <1>1, <1>2, <1>4, <1>5 DEF IInv

\* One lemma per action.
LEMMA NextKeeps == IInv /\ [Next]_vars => IInv'
<1> SUFFICES ASSUME IInv, [Next]_vars PROVE IInv'
  OBVIOUS
<1>1. CASE UNCHANGED vars
  BY <1>1 DEF vars, IInv
<1>2. CASE Govern
  BY <1>2, GovernKeeps
<1>3. ASSUME NEW f \in Flows,
             \/ Review(f) \/ Edit(f) \/ OpenXaman(f) \/ Sign(f) \/ Expire(f) \/ Pay(f)
             \/ ExecuteMint(f) \/ ExecuteInstruction(f)
      PROVE  IInv'
  <2>1. CASE Expire(f)
    BY <2>1, RefusedKeeps DEF Expire
  <2>2. QED
    BY <1>3, <2>1, ReviewKeeps, EditKeeps, OpenXamanKeeps, SignKeeps, PayKeeps,
       ExecuteMintKeeps, ExecuteInstructionKeeps
<1>4. QED
  BY <1>1, <1>2, <1>3 DEF Next

(***************************************************************************)
(* The invariant of the proofs.                                            *)
(***************************************************************************)
THEOREM ReviewedInvariance == Spec => []IInv
BY InitIsGood, NextKeeps, PTL DEF Spec

(***************************************************************************)
(* What can be signed pays something, for an operation on something.       *)
(***************************************************************************)
THEOREM ReviewedTypeCorrect == Spec => []TypeOK
<1>1. IInv => TypeOK
  <2> SUFFICES ASSUME IInv PROVE TypeOK
    OBVIOUS
  <2>1. setting \in 1..Len(Settings) /\ account \in Account
    BY DEF IInv
  <2>2. ASSUME NEW f \in Flows, flow[f].stage \in Asked
        PROVE  flow[f].request.amount \in Nat \ {0} /\ Operation(flow[f].request.memo)
    <3>1. flow[f].form \in Forms /\ AskedFor(flow[f])
      BY <2>2 DEF IInv, Shape, Asked
    <3> DEFINE form == flow[f].form
               action == flow[f].action
               lots == flow[f].lots
               request == flow[f].request
               memo == request.memo
    <3> HIDE DEF form, action, lots, request
    <3>2. CASE IsMint(form)
      <4>1. form \in MintForm /\ MintAsked(form, request)
        BY <3>1, <3>2, FormKinds DEF AskedFor, form, request
      <4>2. request.amount \in Nat \ {0}
        <5>1. form.amount \in Nat
          BY <4>1
        <5>2. request.amount = form.amount /\ form.amount > 0
          BY <4>1 DEF MintAsked
        <5>3. QED
          BY <5>1, <5>2
      <4>3. memo.bytes = IF form.destination = "wallet" THEN 48 ELSE 42
        BY <4>1 DEF MintAsked
      <4>4. Operation(memo)
        <5>1. memo.bytes \in {48, 42, 32} /\ memo.bytes # 32
          BY <4>3
        <5>2. ASSUME memo.bytes = 48 PROVE memo.recipient # ""
          <6>1. form.destination = "wallet"
            BY <4>3, <5>2
          <6>2. QED
            BY <4>1, <6>1 DEF MintAsked, Rechecksummed
        <5>3. ASSUME memo.bytes = 42 PROVE memo.userOp.deposit \in Nat \ {0}
          <6>1. form.destination # "wallet"
            BY <4>3, <5>3
          <6>2. QED
            BY <4>1, <6>1 DEF MintAsked
        <5> HIDE DEF memo
        <5>4. QED
          BY <5>1, <5>2, <5>3, Zenon DEF Operation
      <4>5. QED
        BY <4>2, <4>4 DEF request
    <3>3. CASE ~IsMint(form)
      <4>1. InstructionAsked(action, lots, form, request)
        BY <3>1, <3>3 DEF AskedFor, form, action, lots, request
      <4>2. /\ request.amount \in Nat \ {0} /\ memo.bytes = 32
            /\ memo.value \in 0..MaxValue /\ memo.vaultId \in Nat
        BY <4>1 DEF InstructionAsked
      <4>3. Operation(memo)
        <5> HIDE DEF memo
        <5>1. QED
          BY <4>2 DEF Operation
      <4>4. QED
        BY <4>2, <4>3 DEF request
    <3>4. QED
      BY <3>2, <3>3
  <2>3. \A f \in Flows : flow[f].stage \in Stages
    BY DEF IInv, Shape
  <2>4. QED
    BY <2>1, <2>2, <2>3 DEF TypeOK, Account, Stages, Asked
<1>2. QED
  BY <1>1, ReviewedInvariance, PTL

(***************************************************************************)
(* What was signed and executed has the effect of the page's review and of *)
(* what the user typed, whatever the edits, the action's included.         *)
(***************************************************************************)
THEOREM ExecutesAsTyped == Spec => []ExecutedAsTyped
<1>1. IInv => ExecutedAsTyped
  <2>1. ASSUME IInv, NEW f \in Flows, flow[f].stage = "executed" PROVE AsTyped(f)
    <3>1. TypedBy(flow[f])
      BY <2>1 DEF IInv, Shape
    <3>2. QED
      BY <3>1 DEF TypedBy, AsTyped
  <2>2. QED
    BY <2>1 DEF ExecutedAsTyped
<1>2. QED
  BY <1>1, ReviewedInvariance, PTL

(***************************************************************************)
(* A confirmed payment signed without a warning reverts only if the chain  *)
(* has moved, its deposit is too small for the headroom, or it is a vault  *)
(* exit.                                                                   *)
(***************************************************************************)
THEOREM ReviewedTakeEffect == Spec => []ReviewedPaymentsTakeEffect
<1>1. IInv => ReviewedPaymentsTakeEffect
  BY DEF IInv, Shape, Excused, Confirmed, ReviewedPaymentsTakeEffect
<1>2. QED
  BY <1>1, ReviewedInvariance, PTL
=============================================================================
