-------------------------------- MODULE Poll --------------------------------
(***************************************************************************)
(* The polling loop of both FDC pipelines (poll in fdcProof.ts and         *)
(* fdcPaymentProof.ts): ask until there is an answer, with growing pauses, *)
(* for a limited time.  Requests to the verifier and the Data Availability *)
(* layer are given a signal that ends them with the poll's time; the       *)
(* finality of a round is read through the chain client, which has a       *)
(* timeout of its own.                                                     *)
(***************************************************************************)
EXTENDS Integers, FiniteSetsExt

CONSTANTS
  Timeout,       \* timeoutMs
  InitialDelay,  \* initialDelayMs
  MaxDelay,      \* maxDelayMs
  ClientTime,    \* the chain client's timeout
  Latency        \* how long a request in good health takes

ASSUME PollAssumption ==
  /\ {Timeout, InitialDelay, MaxDelay, ClientTime, Latency} \subseteq Nat \ {0}
  /\ InitialDelay <= MaxDelay

VARIABLES
  poll,     \* what the loop is doing, and until when
  clock,    \* time since startedAt
  answers,  \* since when the service has an answer; -1 for not yet
  healthy   \* observability only: every request so far took at most Latency,
            \* but for one that the poll's own signal ended

pollVars == <<poll, clock, answers, healthy>>

PollInit ==
  /\ poll = [step |-> "new", signal |-> FALSE, delay |-> InitialDelay, since |-> 0, until |-> 0]
  /\ clock = 0 /\ answers = -1 /\ healthy = TRUE

Ends == {"returned", "rejected", "timed out"}

(***************************************************************************)
(* Mutant of AbortAt: the signal of each request has the whole timeout.    *)
(***************************************************************************)
AbortAtWholeTimeout == clock + Timeout

(***************************************************************************)
(* createAbortSignal(Math.max(1, remaining)).                              *)
(***************************************************************************)
AbortAt == clock + Max({1, Timeout - clock})

(***************************************************************************)
(* The head of the loop: ask, or give up.                                  *)
(***************************************************************************)
AskOrGiveUp(state) ==
  IF clock < Timeout
  THEN [state EXCEPT !.step = "asking", !.since = clock,
                     !.until = IF state.signal THEN AbortAt ELSE clock + ClientTime]
  ELSE [state EXCEPT !.step = "timed out"]

StartPoll ==
  /\ poll.step = "new"
  /\ \E signal \in BOOLEAN : poll' = AskOrGiveUp([poll EXCEPT !.signal = signal])
  /\ UNCHANGED <<clock, answers, healthy>>

(***************************************************************************)
(* Mutant of NextDelay: the pause grows without its maximum.               *)
(***************************************************************************)
NextDelayUncapped(delay) == (3 * delay + 1) \div 2

(***************************************************************************)
(* Math.min(Math.ceil(delayMs * 1.5), maxDelayMs).                         *)
(***************************************************************************)
NextDelay(delay) == Min({(3 * delay + 1) \div 2, MaxDelay})

Pause == [poll EXCEPT !.step = "sleeping", !.until = clock + poll.delay,
                      !.delay = NextDelay(poll.delay)]

(***************************************************************************)
(* A request ends: with the answer if there was one when it was made,      *)
(* maybe if one came meanwhile; with null; with an error that is retried   *)
(* (also the abort and the client's timeout), or with one that is not.     *)
(***************************************************************************)
Answered ==
  /\ poll.step = "asking" /\ answers # -1
  /\ poll' = [poll EXCEPT !.step = "returned"]
  /\ healthy' = (healthy /\ clock <= poll.since + Latency)
  /\ UNCHANGED <<clock, answers>>

NoAnswer ==
  /\ poll.step = "asking" /\ (answers = -1 \/ answers > poll.since)
  /\ poll' = Pause
  /\ healthy' = (healthy /\ clock <= poll.since + Latency)
  /\ UNCHANGED <<clock, answers>>

RequestFails ==
  /\ poll.step = "asking"
  /\ \/ poll' = Pause
     \/ poll' = [poll EXCEPT !.step = "rejected"]
  /\ healthy' = (healthy /\ poll.signal /\ clock = poll.until /\ clock <= poll.since + Latency)
  /\ UNCHANGED <<clock, answers>>

WakeUp ==
  /\ poll.step = "sleeping" /\ clock = poll.until
  /\ poll' = AskOrGiveUp(poll)
  /\ UNCHANGED <<clock, answers, healthy>>

(***************************************************************************)
(* Time passes, up to the next timer; the service comes to its answer.     *)
(***************************************************************************)
PollTick ==
  /\ poll.step \in {"asking", "sleeping"} /\ clock < poll.until
  /\ clock' = clock + 1
  /\ \/ UNCHANGED answers
     \/ answers = -1 /\ answers' = clock'
  /\ UNCHANGED <<poll, healthy>>

PollNext == StartPoll \/ Answered \/ NoAnswer \/ RequestFails \/ WakeUp \/ PollTick

-----------------------------------------------------------------------------
(***************************************************************************)
(* A poll is over at most one pause after its timeout, which a job's       *)
(* attempt waits for; without a signal, also one client timeout.           *)
(***************************************************************************)
PollEndsInTime ==
  clock <= Timeout + MaxDelay + (IF poll.signal \/ poll.step = "new" THEN 0 ELSE ClientTime)

(***************************************************************************)
(* TIMEOUT means there was no answer: one that was there a pause and two   *)
(* requests before the deadline is not missed by a service in good health. *)
(***************************************************************************)
AnswersInTimeAreTaken ==
  poll.step = "timed out" /\ healthy =>
    answers = -1 \/ answers + MaxDelay + 2 * Latency >= Timeout
=============================================================================
