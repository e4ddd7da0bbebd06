--------------------------- MODULE ReviewedPayment ---------------------------
(***************************************************************************)
(* Payments of one user from the review to the Flare chain: what the web   *)
(* reviews and asks Xaman to sign, what the wallet pays, what the status   *)
(* route verifies, what the executor takes from the ledger and what the    *)
(* contracts make of it, while governance, and the user's other payments,  *)
(* move the chain.  The executor's jobs are left to the processor modules, *)
(* the registration of user operations to Ingest.                          *)
(***************************************************************************)
EXTENDS MintReview, InstructionReview, Sequences

CONSTANTS
  Flows,             \* payments the user makes
  MintForms,         \* what the user may enter on the mint page
  InstructionForms,  \* and on the Smart Account page
  Settings,          \* the contracts' settings, before and after governance
  FirstAccount,      \* the Personal Account at first
  Worlds,            \* what a readiness check may find of the rest of the world
  WatchedAddresses,  \* the XRPL addresses the executor watches
  Rounding,          \* UBA the AssetManager's rounding may take from a mint
  None               \* a field of a payment that has no value yet

(***************************************************************************)
(* A form of each page.  The Smart Account page keeps the amount, the date *)
(* and the period whichever action is selected; it posts those the action  *)
(* asks for, and no lots with its review.  What a review reads of the      *)
(* contracts, of the Personal Account and of the rest of the world.        *)
(***************************************************************************)
MintForm ==
  [destination : {"wallet", "firelight", "upshift"}, amount : Nat,
   to : [address : STRING, checksum : {"right", "wrong"}]]

Actions == {"redeem"} \cup Claims \cup VaultExits

InstructionForm ==
  [action : Actions, amount : Nat, date : Nat, period : Nat, lots : {0}]

Setting ==
  [coreVault : STRING, minimumFee : Nat, feeBips : Nat, executorFee : Nat,
   operator : STRING, instructionFee : Nat, defaultFee : Nat, lotSize : Nat \ {0},
   firelight : Nat, upshift : Nat]

Account ==
  [nonce : Nat, balance : Nat, shares : Nat, withdrawals : SUBSET Nat, period : Nat]

World ==
  [feedAge : Int, operatorBalance : {"unread", "empty", "funded"},
   sourceValid : BOOLEAN, verifier : BOOLEAN]

ASSUME ReviewedPaymentAssumption ==
  /\ Whole \in Nat \ {0} /\ Lookback \in Nat /\ MaxValue \in Nat
  /\ Rounding \in Nat
  /\ MintForms \subseteq MintForm /\ InstructionForms \subseteq InstructionForm
  /\ Settings \in Seq(Setting) /\ Settings # <<>>
  /\ FirstAccount \in Account /\ Worlds \subseteq World

VARIABLES
  setting,  \* the contracts' current settings, as an index of Settings
  account,  \* the Personal Account: nonce, FXRP, vault shares, withdrawals
  flow      \* the payments

vars == <<setting, account, flow>>

Forms == MintForms \cup InstructionForms
IsMint(form) == "destination" \in DOMAIN form

(***************************************************************************)
(* form is what the page's form says; action and lots are those of the     *)
(* page's review.  moved and outdated are observability only: the chain    *)
(* has moved since the sign route began to read it; the form or the        *)
(* settings have changed since the review gave the lots of a redemption.   *)
(***************************************************************************)
Idle ==
  [stage |-> "idle", moved |-> FALSE, outdated |-> FALSE, form |-> None,
   action |-> "none", lots |-> 0, start |-> 0, request |-> None,
   warned |-> FALSE, tx |-> None, to |-> None, uba |-> 0]

Init ==
  /\ setting = 1
  /\ account = FirstAccount
  /\ flow = [f \in Flows |-> Idle]

(***************************************************************************)
(* What the concurrent calls of a review read: each setting from before or *)
(* after a change.                                                         *)
(***************************************************************************)
SettingsRead(form) ==
  IF IsMint(form) THEN {"coreVault", "minimumFee", "feeBips", "executorFee"}
  ELSE {"operator", "instructionFee", "defaultFee", "lotSize", "firelight", "upshift"}

Read(form, before, after) ==
  {[x \in SettingsRead(form) |-> IF x \in late THEN after[x] ELSE before[x]] :
     late \in SUBSET {x \in SettingsRead(form) : before[x] # after[x]}}

Reviewable(form, p) ==
  IF IsMint(form) THEN MintReviewable(form, p) ELSE InstructionReviewable(form, p)

(***************************************************************************)
(* The review a route may make of a form.                                  *)
(***************************************************************************)
Reviews(form, p) ==
  IF IsMint(form) THEN {MintReview(form, account.nonce, p, world) : world \in Worlds}
                  ELSE {InstructionReview(form, p, account, scanned) : scanned \in BOOLEAN}

Failed(review) == \E c \in DOMAIN review.checks : review.checks[c] = "fail"

Warned(review) == \E c \in DOMAIN review.checks \ {"receiver"} : review.checks[c] = "warn"

-----------------------------------------------------------------------------
(***************************************************************************)
(* The page's review: a failed check disables the signing button.  The     *)
(* action, and the lots of a redemption, are kept for the sign route.      *)
(***************************************************************************)
Action(form) == IF IsMint(form) THEN "mint" ELSE form.action

Lots(form, p) == IF Action(form) = "redeem" THEN RedeemedLots(form, p) ELSE 0

Review(f) ==
  /\ flow[f].stage = "idle"
  /\ \E form \in Forms : LET p == Settings[setting] IN
       /\ Reviewable(form, p)
       /\ \E review \in Reviews(form, p) : ~Failed(review)
       /\ flow' = [flow EXCEPT ![f].stage = "reviewed", ![f].form = form,
                               ![f].action = Action(form), ![f].lots = Lots(form, p)]
  /\ UNCHANGED <<setting, account>>

(***************************************************************************)
(* The user edits any field of the form, the action included, and the      *)
(* review stays on the screen.  (Its fields also stay enabled while the    *)
(* sign route works, but what they say by then is posted nowhere: form is  *)
(* what it was when the button was pressed.)                               *)
(***************************************************************************)
Edits(form) == (IF IsMint(form) THEN MintForms ELSE InstructionForms) \ {form}

Redeems(x) == x.action = "redeem"

Edit(f) ==
  /\ flow[f].stage = "reviewed"
  /\ \E form \in Edits(flow[f].form) :
       flow' = [flow EXCEPT ![f].form = form, ![f].outdated = Redeems(flow[f])]
  /\ UNCHANGED <<setting, account>>

(***************************************************************************)
(* openXaman posts the form; on the Smart Account page with the action and *)
(* the lots of the review.  The route reviews it afresh; registers the     *)
(* user operation of a vault mint, which may fail; and creates the signing *)
(* request.                                                                *)
(***************************************************************************)
OpenXaman(f) ==
  /\ flow[f].stage = "reviewed"
  /\ flow' = [flow EXCEPT ![f].stage = "reading", ![f].start = setting]
  /\ UNCHANGED <<setting, account>>

Posted(f) ==
  IF IsMint(flow[f].form) THEN flow[f].form
  ELSE [flow[f].form EXCEPT !.action = flow[f].action, !.lots = flow[f].lots]

Becomes(f, stage) == flow' = [flow EXCEPT ![f].stage = stage]

Sign(f) ==
  /\ flow[f].stage = "reading"
  /\ \/ Becomes(f, "refused")
     \/ \E p \in Read(Posted(f), Settings[flow[f].start], Settings[setting]) :
          /\ Reviewable(Posted(f), p)
          /\ \E review \in Reviews(Posted(f), p) :
               /\ ~Failed(review)
               /\ flow' = [flow EXCEPT ![f].stage = "signable", ![f].start = 0,
                                       ![f].request = review.payment,
                                       ![f].warned = Warned(review)]
  /\ UNCHANGED <<setting, account>>

(***************************************************************************)
(* The signing request expires or is rejected; or it is signed.  Nothing   *)
(* but the status route compares what is paid with what was asked.         *)
(***************************************************************************)
Expire(f) ==
  flow[f].stage = "signable" /\ Becomes(f, "refused") /\ UNCHANGED <<setting, account>>

Submitted(request, more, tagged) ==
  [destination |-> request.destination, amount |-> request.amount + more,
   memo |-> request.memo, tagged |-> tagged]

Pay(f) ==
  /\ flow[f].stage = "signable"
  /\ \E more \in {0, 1}, tagged \in BOOLEAN :
       flow' = [flow EXCEPT ![f].stage = "paid",
                            ![f].tx = Submitted(flow[f].request, more, tagged)]
  /\ UNCHANGED <<setting, account>>

Confirmed(f) == Verified(flow[f].tx, flow[f].request)

-----------------------------------------------------------------------------
(***************************************************************************)
(* The contracts.  A direct mint credits its recipient; one with a user    *)
(* operation deposits into a vault, or reverts as a whole.                 *)
(***************************************************************************)
Minted(tx, p, lost) ==
  LET fees == IF CommitsUserOp(tx.memo) THEN [p EXCEPT !.executorFee = tx.memo.executorFee]
                                        ELSE p
  IN  Max({0, ExpectedFxrp(tx.amount, fees) - lost})

MintTakesEffect(tx, p, minted) ==
  /\ tx.destination = p.coreVault
  /\ tx.amount >= p.minimumFee
  /\ CommitsUserOp(tx.memo) =>
       /\ tx.memo.userOp.nonce = account.nonce
       /\ tx.memo.userOp.deposit <= minted

MintEffect(tx, minted) ==
  IF CommitsUserOp(tx.memo)
  THEN [to |-> tx.memo.userOp.receiver, uba |-> tx.memo.userOp.deposit,
        account |-> [account EXCEPT !.nonce = @ + 1,
                                    !.balance = @ + minted - tx.memo.userOp.deposit]]
  ELSE [to |-> tx.memo.recipient, uba |-> minted, account |-> account]

(***************************************************************************)
(* An instruction is paid for and then acts on the Personal Account.       *)
(***************************************************************************)
Uba(memo, p) == IF memo.prefix = "redeem" THEN memo.value * p.lotSize ELSE memo.value * Whole

InstructionTakesEffect(tx, p) ==
  /\ tx.amount >= InstructionFee(p)
  /\ tx.memo.prefix = "redeem" => Uba(tx.memo, p) <= account.balance
  /\ tx.memo.prefix \in VaultExits =>
       tx.memo.vaultId = VaultId(tx.memo.prefix, p) /\ Uba(tx.memo, p) <= account.shares
  /\ tx.memo.prefix = "firelightClaim" =>
       /\ tx.memo.vaultId = p.firelight
       /\ tx.memo.value \in account.withdrawals /\ tx.memo.value < account.period

InstructionEffect(tx, p) ==
  [to |-> PersonalAccount, uba |-> Uba(tx.memo, p), account |->
     CASE tx.memo.prefix = "redeem" -> [account EXCEPT !.balance = @ - Uba(tx.memo, p)]
       [] tx.memo.prefix \in VaultExits -> [account EXCEPT !.shares = @ - Uba(tx.memo, p)]
       [] tx.memo.prefix = "firelightClaim" -> [account EXCEPT !.withdrawals = @ \ {tx.memo.value}]
       [] OTHER -> account]

(***************************************************************************)
(* The executor hears of the payment and brings it to the contracts, which *)
(* take effect for f or not.  Others in progress now act on a chain that   *)
(* has moved.                                                              *)
(***************************************************************************)
Moved(f) ==
  [g \in Flows |-> IF g # f /\ flow[g].stage \in {"reading", "signable", "paid"}
                   THEN [flow[g] EXCEPT !.moved = TRUE] ELSE flow[g]]

TakesEffect(f, effect) ==
  /\ flow' = [Moved(f) EXCEPT ![f].stage = "executed", ![f].to = effect.to,
                              ![f].uba = effect.uba]
  /\ account' = effect.account

Reverts(f) == Becomes(f, "reverted") /\ UNCHANGED account

Heard(f) == flow[f].stage = "paid" /\ flow[f].tx.destination \in WatchedAddresses

ExecuteMint(f) ==
  /\ Heard(f) /\ IsMint(flow[f].form)
  /\ \E lost \in 0..Rounding :
       LET p      == Settings[setting]
           minted == Minted(flow[f].tx, p, lost)
       IN  IF MintTakesEffect(flow[f].tx, p, minted)
           THEN TakesEffect(f, MintEffect(flow[f].tx, minted))
           ELSE Reverts(f)
  /\ UNCHANGED setting

ExecuteInstruction(f) ==
  /\ Heard(f) /\ IsInstruction(flow[f].tx.memo) /\ ~flow[f].tx.tagged
  /\ \/ /\ InstructionTakesEffect(flow[f].tx, Settings[setting])
        /\ TakesEffect(f, InstructionEffect(flow[f].tx, Settings[setting]))
     \/ /\ \/ ~InstructionTakesEffect(flow[f].tx, Settings[setting])
           \/ flow[f].tx.memo.prefix = "upshiftClaim"
        /\ Reverts(f)
  /\ UNCHANGED setting

(***************************************************************************)
(* Governance changes the contracts' settings.                             *)
(***************************************************************************)
Govern ==
  /\ setting < Len(Settings)
  /\ setting' = setting + 1
  /\ flow' = [f \in Flows |->
                IF flow[f].stage = "reviewed"
                THEN [flow[f] EXCEPT !.outdated = Redeems(flow[f])]
                ELSE IF flow[f].stage \in {"reading", "signable", "paid"}
                     THEN [flow[f] EXCEPT !.moved = TRUE]
                ELSE flow[f]]
  /\ UNCHANGED account

Next ==
  \/ Govern
  \/ \E f \in Flows :
       \/ Review(f) \/ Edit(f) \/ OpenXaman(f) \/ Sign(f) \/ Expire(f) \/ Pay(f)
       \/ ExecuteMint(f) \/ ExecuteInstruction(f)

Spec == Init /\ [][Next]_vars

-----------------------------------------------------------------------------
(***************************************************************************)
(* Type correctness.  A payment that can be signed pays something, for an  *)
(* operation on something.                                                 *)
(***************************************************************************)
Operation(memo) ==
  /\ memo.bytes \in {48, 42, 32}
  /\ memo.bytes = 48 => memo.recipient # ""
  /\ memo.bytes = 42 => memo.userOp.deposit \in Nat \ {0}
  /\ memo.bytes = 32 => memo.value \in 0..MaxValue /\ memo.vaultId \in Nat

TypeOK ==
  /\ setting \in 1..Len(Settings)
  /\ account.nonce \in Nat /\ account.balance \in Nat /\ account.shares \in Nat
  /\ account.withdrawals \subseteq Nat
  /\ \A f \in Flows :
       /\ flow[f].stage \in {"idle", "reviewed", "reading", "refused", "signable", "paid",
                             "executed", "reverted"}
       /\ flow[f].stage \in {"signable", "paid", "executed", "reverted"} =>
            flow[f].request.amount \in Nat \ {0} /\ Operation(flow[f].request.memo)

(***************************************************************************)
(* Signed, confirmed and executed means executed as reviewed and typed,    *)
(* whatever changed on the way.  A mint goes to the address typed; vault   *)
(* shares never go to the account a mistyped address would become, though  *)
(* the FXRP of a wallet mint does.  An instruction is the action of the    *)
(* page's review, even when the form has come to say another: of the       *)
(* amount, the date or the period the form says, but a redemption is of    *)
(* the lots of the review, which are the amount on the form only when      *)
(* neither the form nor the settings have changed since.                   *)
(***************************************************************************)
AsTyped(f) ==
  LET form == flow[f].form
      memo == flow[f].tx.memo
  IN
  IF IsMint(form)
  THEN flow[f].to = CASE form.destination = "wallet" -> Rechecksummed(form.to)
                      [] form.to.address = ""        -> PersonalAccount
                      [] OTHER                       -> form.to.address
  ELSE /\ memo.prefix = flow[f].action
       /\ CASE memo.prefix = "redeem" ->
                 /\ memo.value = flow[f].lots
                 /\ flow[f].outdated \/ flow[f].moved \/ flow[f].uba = form.amount
            [] memo.prefix = "upshiftClaim"   -> memo.value = form.date
            [] memo.prefix = "firelightClaim" -> memo.value = form.period
            [] OTHER -> flow[f].uba = form.amount

ExecutedAsTyped ==
  \A f \in Flows : flow[f].stage = "executed" /\ Confirmed(f) => AsTyped(f)

(***************************************************************************)
(* A confirmed payment that was signed without a warning reverts on Flare  *)
(* only if the chain has moved since the route reviewed it, or if its      *)
(* deposit is too small for the headroom that is to absorb the rounding.   *)
(* The review of a vault exit does not read the shares it needs.           *)
(***************************************************************************)
NoHeadroom(request) ==
  CommitsUserOp(request.memo) /\ request.memo.userOp.deposit < 400 * Rounding

ReviewedPaymentsTakeEffect ==
  \A f \in Flows :
    flow[f].stage = "reverted" /\ Confirmed(f) =>
      \/ flow[f].moved \/ flow[f].warned
      \/ NoHeadroom(flow[f].request)
      \/ flow[f].request.memo.prefix \in VaultExits
=============================================================================
