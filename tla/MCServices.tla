----------------------------- MODULE MCServices -----------------------------
(***************************************************************************)
(* Instances of ReviewedPayment, Poll and RequestWindow for TLC.  The      *)
(* three share nothing, so each behaviour is one of a single subject and   *)
(* their states add up instead of multiplying.                             *)
(***************************************************************************)
EXTENDS ReviewedPayment, Poll, RequestWindow, TLC

TwoSettings ==
  << [coreVault |-> "core 1", minimumFee |-> 10, feeBips |-> 250, executorFee |-> 5,
      operator |-> "operator 1", instructionFee |-> 3, defaultFee |-> 2, lotSize |-> 20,
      firelight |-> 1, upshift |-> 2],
     [coreVault |-> "core 2", minimumFee |-> 30, feeBips |-> 500, executorFee |-> 8,
      operator |-> "operator 2", instructionFee |-> 0, defaultFee |-> 4, lotSize |-> 40,
      firelight |-> 3, upshift |-> 0] >>

Symmetry == Permutations(Flows)

TheAccount == [nonce |-> 0, balance |-> 40, shares |-> 20, withdrawals |-> {1, 4}, period |-> 5]

To(address, checksum) == [address |-> address, checksum |-> checksum]
Nowhere == To("", "right")
Minting(destination, amount, to) == [destination |-> destination, amount |-> amount, to |-> to]
Instructing(action, amount, date, period) ==
  [action |-> action, amount |-> amount, date |-> date, period |-> period, lots |-> 0]

Mints ==
  {Minting("wallet", a, To("wallet", "right")) : a \in {12, 2000}} \cup
  {Minting("wallet", 2000, To("wallet", "wrong"))} \cup
  {Minting("firelight", a, Nowhere) : a \in {12, 40, 2000}} \cup
  {Minting("upshift", 2000, To("wallet", c)) : c \in {"right", "wrong"}}

Instructions ==
  {Instructing("redeem", 40, 7, 1), Instructing("upshiftWithdraw", 20, 7, 4),
   Instructing("firelightClaim", 30, 8, 4), Instructing("upshiftClaim", 40, 7, 4)}

Found(age, balance, source, verifier) ==
  [feedAge |-> age, operatorBalance |-> balance, sourceValid |-> source, verifier |-> verifier]

FewWorlds ==
  {Found(0, "funded", TRUE, TRUE), Found(16, "empty", TRUE, TRUE), Found(61, "funded", TRUE, FALSE)}

-----------------------------------------------------------------------------
VARIABLE subject  \* "payments", "poll" or "window"

MCInit ==
  /\ subject \in {"payments", "poll", "window"}
  /\ Init /\ PollInit /\ WindowInit

MCNext ==
  /\ UNCHANGED subject
  /\ \/ subject = "payments" /\ Next /\ UNCHANGED <<pollVars, windowVars>>
     \/ subject = "poll" /\ PollNext /\ UNCHANGED <<vars, windowVars>>
     \/ subject = "window" /\ WindowNext /\ UNCHANGED <<vars, pollVars>>

MCSpec == MCInit /\ [][MCNext]_<<vars, pollVars, windowVars, subject>>
=============================================================================
