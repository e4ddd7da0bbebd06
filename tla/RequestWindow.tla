---------------------------- MODULE RequestWindow ----------------------------
(***************************************************************************)
(* The request window of one client: transactionRequestAllowed of the      *)
(* executor's status server and the web's middleware, with budgets of 10,  *)
(* 30 or 120 requests.  The browser's polls are such a client.             *)
(***************************************************************************)
EXTENDS Integers, FiniteSetsExt, Sequences

CONSTANTS
  Budget,   \* requests admitted in a window
  Window,   \* the length of a window, in ticks
  Second,   \* ticks of the clock in a second, the unit of Retry-After
  LastTick  \* bound on the clock

ASSUME WindowAssumption == {Budget, Window, Second, LastTick} \subseteq Nat \ {0}

VARIABLES
  now,       \* the clock
  window,    \* count and resetAt, if the client has a window
  retryAt,   \* when a refused client was told to come back; 0 if it was not
  admitted   \* observability only: the times of the last requests admitted

windowVars == <<now, window, retryAt, admitted>>

WindowInit ==
  /\ now = 1 /\ retryAt = 0 /\ admitted = <<>>
  /\ window = [count |-> 0, resetAt |-> 0]

(***************************************************************************)
(* Mutant of Over: the window is over one tick after its reset time.       *)
(***************************************************************************)
OverLate == window.resetAt < now

(***************************************************************************)
(* !current || current.resetAt <= now.                                     *)
(***************************************************************************)
Over == window.resetAt <= now

(***************************************************************************)
(* Mutant of Within: one request too many.                                 *)
(***************************************************************************)
WithinOffByOne(count) == count <= Budget + 1

Within(count) == count <= Budget

RetryAfter(resetAt) == Max({1, (resetAt - now + Second - 1) \div Second})

(***************************************************************************)
(* A request; a refused one counts too, and is told when to retry.         *)
(***************************************************************************)
Request ==
  /\ window' = IF Over THEN [count |-> 1, resetAt |-> now + Window]
                       ELSE [window EXCEPT !.count = Min({@ + 1, Budget + 2})]
  /\ IF Within(window'.count)
     THEN /\ retryAt' = 0
          /\ admitted' = LET a == Append(admitted, now)
                         IN  SubSeq(a, Max({1, Len(a) - 2 * Budget}), Len(a))
     ELSE /\ retryAt' = now + Second * RetryAfter(window'.resetAt)
          /\ UNCHANGED admitted
  /\ UNCHANGED now

WindowTick == now < LastTick /\ now' = now + 1 /\ UNCHANGED <<window, retryAt, admitted>>

WindowNext == Request \/ WindowTick

-----------------------------------------------------------------------------
(***************************************************************************)
(* However it times its requests, a client is admitted at most two budgets *)
(* in the time of one window.                                              *)
(***************************************************************************)
RateIsBounded ==
  Len(admitted) > 2 * Budget => now - Head(admitted) >= Window

(***************************************************************************)
(* A client that comes back when it was told to is admitted, also when it  *)
(* was impatient in between.                                               *)
(***************************************************************************)
RetriesAreAdmitted ==
  [][Request /\ retryAt # 0 /\ now >= retryAt => retryAt' = 0]_windowVars
=============================================================================
