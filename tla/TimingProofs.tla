---------------------------- MODULE TimingProofs ----------------------------
(***************************************************************************)
(* Proofs about what goes by the clock, for every timeout, pause, latency, *)
(* budget and window: a poll ends in time and does not miss an answer that *)
(* was there in time; a request window keeps its rate and its word.        *)
(***************************************************************************)
EXTENDS Poll, RequestWindow, TLAPS

\* The polling loop alone.
PollSpec == PollInit /\ [][PollNext]_pollVars

(***************************************************************************)
(* The lesser of two numbers, as NextDelay takes it.                       *)
(***************************************************************************)
LEMMA MinOfTwo ==
  ASSUME NEW a \in Int, NEW b \in Int
  PROVE  Min({a, b}) \in {a, b} /\ Min({a, b}) <= a /\ Min({a, b}) <= b
<1>1. \E x \in {a, b} : \A y \in {a, b} : x <= y
  BY DEF Min
<1>2. QED
  BY <1>1 DEF Min

\* The greatest, as AbortAt takes it.
LEMMA MaxOfTwo ==
  ASSUME NEW a \in Int, NEW b \in Int
  PROVE  Max({a, b}) \in {a, b} /\ Max({a, b}) >= a /\ Max({a, b}) >= b
<1>1. \E x \in {a, b} : \A y \in {a, b} : x >= y
  OBVIOUS
<1>2. QED
  BY <1>1 DEF Max

(***************************************************************************)
(* No timer of the loop is set past its time: a request's not past the     *)
(* timeout, or past one client timeout more, a pause's not a whole pause   *)
(* later than that.                                                        *)
(***************************************************************************)
Steps == {"new", "asking", "sleeping"} \cup Ends

Allowed(state) == Timeout + (IF state.signal THEN 0 ELSE ClientTime)

StatesOfPoll == [step : Steps, signal : BOOLEAN, delay : Int, since : Int, until : Int]

PollTyped ==
  /\ poll \in StatesOfPoll
  /\ clock \in Nat

Timed ==
  /\ 0 <= poll.delay /\ poll.delay <= MaxDelay
  /\ poll.step = "new" => clock = 0
  /\ poll.step = "asking" => clock <= poll.until /\ poll.until <= Allowed(poll)
  /\ poll.step = "sleeping" => clock <= poll.until /\ poll.until <= Allowed(poll) + MaxDelay
  /\ poll.step \in Ends => clock <= Allowed(poll) + MaxDelay

PollInv == PollTyped /\ Timed

\* The head of the loop sets a timer that is not past the time allowed.
LEMMA AskOrGiveUpInTime ==
  ASSUME NEW state \in StatesOfPoll,
         clock \in Nat, clock <= Allowed(state) + MaxDelay, 0 <= state.delay, state.delay <= MaxDelay,
         poll' = AskOrGiveUp(state), clock' = clock
  PROVE  PollInv'
<1>1. Timeout \in Nat /\ MaxDelay \in Nat /\ ClientTime \in Nat
  BY PollAssumption
<1>2. ASSUME clock < Timeout
      PROVE  AbortAt = Timeout
  <2>1. Timeout - clock \in Int /\ Timeout - clock >= 1
    BY <1>1, <1>2
  <2> DEFINE left == Timeout - clock
  <2>2. left \in Int
    BY <2>1
  <2> HIDE DEF left
  <2>3. Max({1, left}) \in {1, left} /\ Max({1, left}) >= left
    <3>1. 1 \in Int
      OBVIOUS
    <3>2. QED
      BY <2>2, <3>1, MaxOfTwo, Zenon
  <2>4. Max({1, left}) = left
    BY <2>1, <2>2, <2>3 DEF left
  <2>5. AbortAt = clock + left
    BY <2>4 DEF AbortAt, left
  <2>6. QED
    BY <1>1, <2>5 DEF left
<1>3. CASE clock < Timeout
  <2> DEFINE timer == IF state.signal THEN Timeout ELSE clock + ClientTime
  <2>1. poll' = [state EXCEPT !.step = "asking", !.since = clock, !.until = timer]
    BY <1>2, <1>3 DEF AskOrGiveUp
  <2>2. timer \in Int /\ clock <= timer /\ timer <= Allowed(state)
    BY <1>1, <1>3 DEF Allowed
  <2> HIDE DEF timer
  <2>3. "asking" \in Steps /\ clock \in Int
    BY DEF Steps
  <2>4. poll' \in StatesOfPoll
    BY <2>1, <2>2, <2>3 DEF StatesOfPoll
  <2>5. /\ poll'.step = "asking" /\ poll'.signal = state.signal
        /\ poll'.delay = state.delay /\ poll'.until = timer
    BY <2>1, <2>2, <2>3 DEF StatesOfPoll
  <2>6. QED
    BY <1>1, <2>2, <2>4, <2>5 DEF PollInv, PollTyped, Timed, Allowed, StatesOfPoll, Ends
<1>4. CASE ~(clock < Timeout)
  <2>1. poll' = [state EXCEPT !.step = "timed out"]
    BY <1>4 DEF AskOrGiveUp
  <2>2. /\ poll' \in StatesOfPoll /\ poll'.step = "timed out"
        /\ poll'.signal = state.signal /\ poll'.delay = state.delay
    BY <2>1 DEF StatesOfPoll, Steps, Ends
  <2>3. QED
    BY <1>1, <2>2 DEF PollInv, PollTyped, Timed, Allowed, StatesOfPoll, Ends
<1>5. QED
  BY <1>3, <1>4

\* After a request the loop pauses, for no longer than the longest pause.
LEMMA PauseInTime ==
  ASSUME PollInv, poll.step = "asking", poll' = Pause, clock' = clock
  PROVE  PollInv'
<1>1. Timeout \in Nat /\ MaxDelay \in Nat /\ ClientTime \in Nat
  BY PollAssumption
<1>2. poll \in StatesOfPoll /\ poll.delay \in Int /\ clock \in Nat
  BY DEF PollInv, PollTyped, StatesOfPoll
<1>3. 0 <= poll.delay
  BY DEF PollInv, Timed
<1> DEFINE grown == (3 * poll.delay + 1) \div 2
           pause == NextDelay(poll.delay)
<1>4. pause \in Int /\ 0 <= pause /\ pause <= MaxDelay
  <2>1. grown \in Int /\ 0 <= grown /\ MaxDelay \in Int
    BY <1>1, <1>2, <1>3
  <2>2. pause = Min({grown, MaxDelay})
    BY DEF NextDelay
  <2> HIDE DEF grown, pause
  <2>3. Min({grown, MaxDelay}) \in {grown, MaxDelay} /\ Min({grown, MaxDelay}) <= MaxDelay
    BY <2>1, MinOfTwo, Zenon
  <2>4. QED
    BY <1>1, <2>1, <2>2, <2>3
<1>5. clock <= Allowed(poll) /\ poll.delay <= MaxDelay /\ Allowed(poll) \in Int
  BY <1>1, <1>2 DEF PollInv, Timed, Allowed, StatesOfPoll
<1>6. poll' = [poll EXCEPT !.step = "sleeping", !.until = clock + poll.delay, !.delay = pause]
  BY DEF Pause
<1> HIDE DEF grown, pause
<1>7. "sleeping" \in Steps /\ clock + poll.delay \in Int
  BY <1>2 DEF Steps
<1>8. poll' \in StatesOfPoll
  BY <1>2, <1>4, <1>6, <1>7 DEF StatesOfPoll
<1>9. /\ poll'.step = "sleeping" /\ poll'.signal = poll.signal
      /\ poll'.until = clock + poll.delay /\ poll'.delay = pause
  BY <1>2, <1>6 DEF StatesOfPoll
<1>10. /\ clock' \in Nat /\ clock' <= poll'.until
       /\ poll'.until <= Allowed(poll) + MaxDelay
  BY <1>1, <1>2, <1>3, <1>5, <1>9
<1>11. QED
  BY <1>4, <1>8, <1>9, <1>10 DEF PollInv, PollTyped, Timed, Allowed, Ends

\* A poll that is over is over no later than a timer would have been.
LEMMA EndInTime ==
  ASSUME PollInv, poll.step = "asking", clock' = clock,
         NEW how \in Ends, poll' = [poll EXCEPT !.step = how]
  PROVE  PollInv'
<1>1. Timeout \in Nat /\ MaxDelay \in Nat /\ ClientTime \in Nat
  BY PollAssumption
<1>2. poll \in StatesOfPoll /\ clock \in Nat /\ how \in Steps
  BY DEF PollInv, PollTyped, Steps
<1>3. poll' \in StatesOfPoll
  BY <1>2 DEF StatesOfPoll
<1>4. poll'.step = how /\ poll'.signal = poll.signal /\ poll'.delay = poll.delay
  BY <1>2 DEF StatesOfPoll
<1>5. Allowed(poll) \in Int /\ clock <= Allowed(poll)
      /\ 0 <= poll.delay /\ poll.delay <= MaxDelay
  BY <1>1, <1>2 DEF PollInv, Timed, Allowed, StatesOfPoll
<1>6. clock' \in Nat /\ clock' <= Allowed(poll) + MaxDelay
  BY <1>1, <1>2, <1>5
<1>7. how \notin {"new", "asking", "sleeping"}
  BY DEF Ends
<1>8. QED
  BY <1>3, <1>4, <1>5, <1>6, <1>7 DEF PollInv, PollTyped, Timed, Allowed

\* A poll that has not begun has no timer.
LEMMA PollStarts == PollInit => PollInv
<1>1. InitialDelay \in Nat /\ InitialDelay <= MaxDelay
  BY PollAssumption
<1>2. QED
  BY <1>1 DEF PollInit, PollInv, PollTyped, StatesOfPoll, Timed, Steps, Ends

\* What the invariant says of the timers bounds the clock.
LEMMA PollInvSuffices == PollInv => PollEndsInTime
<1> SUFFICES ASSUME PollInv PROVE PollEndsInTime
  OBVIOUS
<1>1. Timeout \in Nat /\ MaxDelay \in Nat /\ ClientTime \in Nat
  BY PollAssumption
<1>2. /\ poll.step \in Steps /\ poll.signal \in BOOLEAN /\ poll.until \in Int
      /\ clock \in Nat
  BY DEF PollInv, PollTyped, StatesOfPoll
<1>3. CASE poll.step = "new"
  BY <1>1, <1>2, <1>3 DEF PollInv, Timed, PollEndsInTime
<1>4. CASE poll.step # "new"
  <2>1. Allowed(poll) \in Int /\ clock <= Allowed(poll) + MaxDelay
    BY <1>1, <1>2, <1>4 DEF PollInv, Timed, Allowed, Steps
  <2>2. QED
    BY <1>1, <1>2, <1>4, <2>1 DEF Allowed, PollEndsInTime
<1>5. QED
  BY <1>3, <1>4

\* Every step keeps the timers in time.
LEMMA PollStepKeepsInv == PollInv /\ [PollNext]_pollVars => PollInv'
<1> SUFFICES ASSUME PollInv, [PollNext]_pollVars PROVE PollInv'
  OBVIOUS
<1>1. Timeout \in Nat /\ MaxDelay \in Nat /\ ClientTime \in Nat
  BY PollAssumption
<1>2. /\ poll \in StatesOfPoll /\ clock \in Nat /\ Allowed(poll) \in Int
      /\ 0 <= poll.delay /\ poll.delay <= MaxDelay
  BY <1>1 DEF PollInv, PollTyped, StatesOfPoll, Timed, Allowed
<1>3. CASE StartPoll
  <2>1. PICK signal \in BOOLEAN : poll' = AskOrGiveUp([poll EXCEPT !.signal = signal])
    BY <1>3 DEF StartPoll
  <2> DEFINE state == [poll EXCEPT !.signal = signal]
  <2>2. state \in StatesOfPoll /\ state.delay = poll.delay
    BY <1>2 DEF StatesOfPoll
  <2>3. clock = 0 /\ clock' = clock
    BY <1>3 DEF StartPoll, PollInv, Timed
  <2> HIDE DEF state
  <2>4. clock <= Allowed(state) + MaxDelay
    BY <1>1, <2>2, <2>3 DEF Allowed, StatesOfPoll
  <2>5. poll' = AskOrGiveUp(state)
    BY <2>1 DEF state
  <2>6. 0 <= state.delay /\ state.delay <= MaxDelay
    BY <1>2, <2>2
  <2>7. QED
    BY <1>2, <2>2, <2>3, <2>4, <2>5, <2>6, AskOrGiveUpInTime
<1>4. CASE Answered
  BY <1>4, EndInTime DEF Answered, Ends
<1>5. CASE NoAnswer
  BY <1>5, PauseInTime DEF NoAnswer
<1>6. CASE RequestFails
  BY <1>6, EndInTime, PauseInTime DEF RequestFails, Ends
<1>7. CASE WakeUp
  <2>1. clock <= Allowed(poll) + MaxDelay
    BY <1>2, <1>7 DEF WakeUp, PollInv, Timed
  <2>2. poll' = AskOrGiveUp(poll) /\ clock' = clock
    BY <1>7 DEF WakeUp
  <2>3. QED
    BY <1>2, <2>1, <2>2, AskOrGiveUpInTime
<1>8. CASE PollTick
  <2>1. poll' = poll /\ clock' = clock + 1 /\ poll.until \in Int
    BY <1>2, <1>8 DEF PollTick, StatesOfPoll
  <2>2. poll.step \in {"asking", "sleeping"} /\ clock' \in Nat /\ clock' <= poll.until
    BY <1>2, <1>8, <2>1 DEF PollTick
  <2>3. QED
    BY <1>2, <2>1, <2>2 DEF PollInv, PollTyped, Timed, Allowed, Ends
<1>9. CASE UNCHANGED pollVars
  BY <1>9 DEF pollVars, PollInv, PollTyped, Timed, Allowed
<1>10. QED
  BY <1>3, <1>4, <1>5, <1>6, <1>7, <1>8, <1>9 DEF PollNext

(***************************************************************************)
(* A poll is over at most one pause after its timeout, and without a       *)
(* signal one client timeout later, whatever its constants are.            *)
(***************************************************************************)
THEOREM PollsEndInTime == PollSpec => []PollEndsInTime
<1>1. PollInit => PollInv
  BY PollStarts
<1>2. PollInv /\ [PollNext]_pollVars => PollInv'
  BY PollStepKeepsInv
<1>3. PollInv => PollEndsInTime
  BY PollInvSuffices
<1>4. QED
  BY <1>1, <1>2, <1>3, PTL DEF PollSpec

-----------------------------------------------------------------------------
(***************************************************************************)
(* Answers in time.  The service in good health had no answer yet a        *)
(* latency before the last pause began, unless that pause follows a        *)
(* request that the poll's own signal ended, at its deadline.              *)
(***************************************************************************)
Late(time) == time <= answers + MaxDelay + Latency

TooLate == Timeout <= answers + MaxDelay + 2 * Latency

AnswerTyped == answers \in Int /\ -1 <= answers /\ answers <= clock /\ healthy \in BOOLEAN

Signalled ==
  /\ poll.since <= clock
  /\ poll.step = "asking" /\ poll.signal => poll.until = Timeout
  /\ poll.step = "sleeping" => poll.until <= clock + MaxDelay

NotMissed ==
  healthy /\ answers # -1 =>
    /\ poll.step = "asking" => Late(poll.since)
    /\ poll.step = "sleeping" => Late(poll.until) \/ (clock >= Timeout /\ TooLate)
    /\ poll.step = "timed out" => TooLate

AnswerInv == PollInv /\ AnswerTyped /\ Signalled /\ NotMissed

\* The numbers of the loop.
LEMMA Numbers ==
  ASSUME AnswerInv
  PROVE  /\ Timeout \in Nat /\ MaxDelay \in Nat /\ Latency \in Nat /\ ClientTime \in Nat
         /\ poll \in StatesOfPoll /\ poll.delay \in Int /\ poll.since \in Int /\ poll.until \in Int
         /\ clock \in Nat /\ answers \in Int /\ -1 <= answers /\ answers <= clock
         /\ poll.delay <= MaxDelay /\ poll.since <= clock
BY PollAssumption DEF AnswerInv, PollInv, PollTyped, Timed, StatesOfPoll, AnswerTyped, Signalled

\* A request is made, or the poll given up, when the last pause is over.
LEMMA AskOrGiveUpMissesNothing ==
  ASSUME AnswerInv, NEW state \in StatesOfPoll, state.since <= clock,
         healthy /\ answers # -1 => Late(clock) \/ (clock >= Timeout /\ TooLate),
         poll' = AskOrGiveUp(state), UNCHANGED <<clock, answers, healthy>>
  PROVE  (AnswerTyped /\ Signalled /\ NotMissed)'
<1>1. /\ Timeout \in Nat /\ MaxDelay \in Nat /\ Latency \in Nat /\ clock \in Nat /\ answers \in Int
  BY Numbers
<1>2. AnswerTyped'
  BY DEF AnswerInv, AnswerTyped
<1>3. CASE clock < Timeout
  <2> DEFINE timer == IF state.signal THEN AbortAt ELSE clock + ClientTime
  <2>1. poll' = [state EXCEPT !.step = "asking", !.since = clock, !.until = timer]
    BY <1>3 DEF AskOrGiveUp
  <2>2. AbortAt = Timeout
    <3>1. Timeout - clock \in Int /\ 1 \in Int /\ Timeout - clock >= 1
      BY <1>1, <1>3
    <3>2. Max({1, Timeout - clock}) \in {1, Timeout - clock}
          /\ Max({1, Timeout - clock}) >= Timeout - clock
      BY <3>1, MaxOfTwo
    <3>3. QED
      BY <1>1, <3>1, <3>2 DEF AbortAt
  <2>3. /\ poll'.step = "asking" /\ poll'.since = clock /\ poll'.signal = state.signal
        /\ poll'.until = timer
    BY <2>1 DEF StatesOfPoll
  <2>4. Signalled'
    BY <1>1, <2>2, <2>3 DEF Signalled
  <2>5. healthy /\ answers # -1 => Late(clock)
    BY <1>1, <1>3
  <2>6. NotMissed'
    BY <2>3, <2>5 DEF NotMissed, Late
  <2>7. QED
    BY <1>2, <2>4, <2>6
<1>4. CASE ~(clock < Timeout)
  <2>1. poll' = [state EXCEPT !.step = "timed out"]
    BY <1>4 DEF AskOrGiveUp
  <2>2. poll'.step = "timed out" /\ poll'.since = state.since
    BY <2>1 DEF StatesOfPoll
  <2>3. Signalled'
    BY <1>1, <2>2 DEF Signalled
  <2>4. healthy /\ answers # -1 => TooLate
    BY <1>1, <1>4 DEF Late, TooLate
  <2>5. NotMissed'
    BY <2>2, <2>4 DEF NotMissed, TooLate
  <2>6. QED
    BY <1>2, <2>3, <2>5
<1>5. QED
  BY <1>3, <1>4

(***************************************************************************)
(* A pause begins: after a request that ended in good health without the   *)
(* answer, or at the deadline.                                             *)
(***************************************************************************)
LEMMA PauseMissesNothing ==
  ASSUME AnswerInv, poll.step = "asking", poll' = Pause, UNCHANGED <<clock, answers>>,
         healthy' \in BOOLEAN,
         healthy' => healthy /\ clock <= poll.since + Latency,
         healthy' => \/ answers = -1 \/ answers > poll.since
                     \/ poll.signal /\ clock = poll.until
  PROVE  (AnswerTyped /\ Signalled /\ NotMissed)'
<1>1. /\ Timeout \in Nat /\ MaxDelay \in Nat /\ Latency \in Nat
      /\ poll \in StatesOfPoll /\ poll.delay \in Int /\ poll.since \in Int
      /\ clock \in Nat /\ answers \in Int
      /\ poll.delay <= MaxDelay /\ poll.since <= clock
  BY Numbers
<1> DEFINE pause == NextDelay(poll.delay)
<1>2. poll' = [poll EXCEPT !.step = "sleeping", !.until = clock + poll.delay, !.delay = pause]
  BY DEF Pause
<1> HIDE DEF pause
<1>3. poll'.step = "sleeping" /\ poll'.until = clock + poll.delay /\ poll'.since = poll.since
  BY <1>1, <1>2 DEF StatesOfPoll
<1>4. AnswerTyped' /\ Signalled'
  BY <1>1, <1>3 DEF AnswerInv, AnswerTyped, Signalled
<1>5. ASSUME healthy', answers # -1
      PROVE  Late(clock + poll.delay) \/ (clock >= Timeout /\ TooLate)
  <2>1. CASE answers > poll.since
    BY <1>1, <1>5, <2>1 DEF Late
  <2>2. CASE poll.signal /\ clock = poll.until
    <3>1. clock = Timeout /\ Late(poll.since)
      BY <1>5, <2>2 DEF AnswerInv, Signalled, NotMissed
    <3>2. QED
      BY <1>1, <1>5, <3>1 DEF Late, TooLate
  <2>3. QED
    BY <1>5, <2>1, <2>2
<1>6. NotMissed'
  BY <1>3, <1>5 DEF NotMissed, Late, TooLate
<1>7. QED
  BY <1>4, <1>6

\* A poll that is over for another reason has not timed out.
LEMMA OverMissesNothing ==
  ASSUME AnswerInv, NEW how \in {"returned", "rejected"}, poll' = [poll EXCEPT !.step = how],
         UNCHANGED <<clock, answers>>, healthy' \in BOOLEAN
  PROVE  (AnswerTyped /\ Signalled /\ NotMissed)'
<1>1. poll \in StatesOfPoll
  BY Numbers
<1>2. poll'.step = how /\ poll'.since = poll.since
  BY <1>1 DEF StatesOfPoll
<1>3. QED
  BY <1>2 DEF AnswerInv, AnswerTyped, Signalled, NotMissed

\* Every step of the loop.
LEMMA StepMissesNothing ==
  AnswerInv /\ [PollNext]_pollVars => (AnswerTyped /\ Signalled /\ NotMissed)'
<1> SUFFICES ASSUME AnswerInv, [PollNext]_pollVars PROVE (AnswerTyped /\ Signalled /\ NotMissed)'
  OBVIOUS
<1>1. /\ Timeout \in Nat /\ MaxDelay \in Nat /\ Latency \in Nat
      /\ poll \in StatesOfPoll /\ poll.since \in Int /\ poll.until \in Int
      /\ clock \in Nat /\ answers \in Int /\ -1 <= answers /\ answers <= clock
      /\ poll.since <= clock
  BY Numbers
<1>2. healthy \in BOOLEAN
  BY DEF AnswerInv, AnswerTyped
<1>3. CASE StartPoll
  <2>1. PICK signal \in BOOLEAN : poll' = AskOrGiveUp([poll EXCEPT !.signal = signal])
    BY <1>3 DEF StartPoll
  <2> DEFINE state == [poll EXCEPT !.signal = signal]
  <2>2. state \in StatesOfPoll /\ state.since = poll.since
    BY <1>1 DEF StatesOfPoll
  <2>3. clock = 0 /\ UNCHANGED <<clock, answers, healthy>>
    BY <1>3 DEF StartPoll, AnswerInv, PollInv, Timed
  <2>4. answers # -1 => Late(clock)
    BY <1>1, <2>3 DEF Late
  <2> HIDE DEF state
  <2>5. poll' = AskOrGiveUp(state) /\ state.since <= clock
    BY <1>1, <2>1, <2>2 DEF state
  <2>6. QED
    BY <2>2, <2>3, <2>4, <2>5, AskOrGiveUpMissesNothing
<1>4. CASE Answered
  BY <1>2, <1>4, OverMissesNothing DEF Answered
<1>5. CASE NoAnswer
  BY <1>2, <1>5, PauseMissesNothing DEF NoAnswer
<1>6. CASE RequestFails
  BY <1>2, <1>6, OverMissesNothing, PauseMissesNothing DEF RequestFails
<1>7. CASE WakeUp
  <2>1. healthy /\ answers # -1 => Late(clock) \/ (clock >= Timeout /\ TooLate)
    BY <1>7 DEF WakeUp, AnswerInv, NotMissed
  <2>2. poll' = AskOrGiveUp(poll) /\ UNCHANGED <<clock, answers, healthy>>
    BY <1>7 DEF WakeUp
  <2>3. QED
    BY <1>1, <2>1, <2>2, AskOrGiveUpMissesNothing
<1>8. CASE PollTick
  <2>1. poll' = poll /\ healthy' = healthy /\ clock' = clock + 1
    BY <1>8 DEF PollTick
  <2>2. /\ poll.step \in {"asking", "sleeping"}
        /\ answers' = answers \/ (answers = -1 /\ answers' = clock')
    BY <1>8 DEF PollTick
  <2>3. AnswerTyped'
    BY <1>1, <1>2, <2>1, <2>2 DEF AnswerTyped
  <2>4. Signalled'
    BY <1>1, <2>1 DEF AnswerInv, Signalled
  <2>5. CASE answers' = answers
    <3>1. (Late(poll.since)' <=> Late(poll.since)) /\ (Late(poll.until)' <=> Late(poll.until))
          /\ (TooLate' <=> TooLate)
      BY <2>1, <2>5 DEF Late, TooLate
    <3>2. clock >= Timeout => clock' >= Timeout
      BY <1>1, <2>1
    <3>3. NotMissed
      BY DEF AnswerInv
    <3>4. NotMissed'
      BY <2>1, <2>2, <2>5, <3>1, <3>2, <3>3 DEF NotMissed
    <3>5. QED
      BY <2>3, <2>4, <3>4
  <2>6. CASE answers = -1 /\ answers' = clock'
    <3>1. answers' = clock + 1
      BY <2>1, <2>6
    <3>2. poll.step = "sleeping" => poll.until <= clock + MaxDelay
      BY DEF AnswerInv, Signalled
    <3>3. Late(poll.since)' /\ (poll.step = "sleeping" => Late(poll.until)')
      BY <1>1, <2>1, <3>1, <3>2 DEF Late
    <3>4. QED
      BY <2>1, <2>2, <2>3, <2>4, <3>3 DEF NotMissed
  <2>7. QED
    BY <2>2, <2>3, <2>4, <2>5, <2>6
<1>9. CASE UNCHANGED pollVars
  BY <1>9 DEF pollVars, AnswerInv, AnswerTyped, Signalled, NotMissed, Late, TooLate
<1>10. QED
  BY <1>3, <1>4, <1>5, <1>6, <1>7, <1>8, <1>9 DEF PollNext

(***************************************************************************)
(* A poll that times out has not missed an answer that was there a pause   *)
(* and two requests before its deadline, whatever its constants are.       *)
(***************************************************************************)
THEOREM AnswersTaken == PollSpec => []AnswersInTimeAreTaken
<1>1. PollInit => AnswerInv
  <2>1. PollInit => AnswerTyped /\ Signalled /\ NotMissed
    BY DEF PollInit, AnswerTyped, Signalled, NotMissed
  <2>2. QED
    BY <2>1, PollStarts DEF AnswerInv
<1>2. AnswerInv /\ [PollNext]_pollVars => AnswerInv'
  BY PollStepKeepsInv, StepMissesNothing DEF AnswerInv
<1>3. AnswerInv => AnswersInTimeAreTaken
  <2> SUFFICES ASSUME AnswerInv PROVE AnswersInTimeAreTaken
    OBVIOUS
  <2>1. Timeout \in Nat /\ MaxDelay \in Nat /\ Latency \in Nat /\ answers \in Int
    BY Numbers
  <2>2. QED
    BY <2>1 DEF AnswerInv, NotMissed, TooLate, AnswersInTimeAreTaken
<1>4. QED
  BY <1>1, <1>2, <1>3, PTL DEF PollSpec

-----------------------------------------------------------------------------
(***************************************************************************)
(* The request window alone.                                               *)
(***************************************************************************)
WindowSpec == WindowInit /\ [][WindowNext]_windowVars

(***************************************************************************)
(* Of the requests admitted, the last InWindow were admitted in the        *)
(* current window; those before them came before it began, and all but a   *)
(* budget of those came before the window before it.                       *)
(***************************************************************************)
InWindow == IF window.count <= Budget THEN window.count ELSE Budget

WindowTyped ==
  /\ now \in Nat /\ retryAt \in Int
  /\ window \in [count : Nat, resetAt : Nat]
  /\ admitted \in Seq(Nat)

Admission(a, inWindow, begins) ==
  /\ inWindow <= Len(a)
  /\ \A i \in 1..(Len(a) - inWindow) : a[i] <= begins
  /\ \A i \in 1..(Len(a) - inWindow - Budget) : a[i] + Window <= begins

WindowInv ==
  /\ WindowTyped
  /\ window.resetAt <= now + Window
  /\ \A i \in 1..Len(admitted) : admitted[i] <= now
  /\ Admission(admitted, InWindow, window.resetAt - Window)

\* The constants are positive.
LEMMA WindowConstants ==
  /\ Budget \in Nat \ {0} /\ Window \in Nat \ {0} /\ Second \in Nat \ {0}
BY WindowAssumption

\* One more request admitted, in the window that began at `begins'.
LEMMA AdmitOne ==
  ASSUME NEW a \in Seq(Nat), NEW time \in Nat, NEW inWindow \in Nat, NEW begins \in Int,
         Admission(a, inWindow, begins)
  PROVE  /\ Append(a, time) \in Seq(Nat) /\ Len(Append(a, time)) = Len(a) + 1
         /\ Admission(Append(a, time), inWindow + 1, begins)
<1> DEFINE b == Append(a, time)
<1>1. b \in Seq(Nat) /\ Len(b) = Len(a) + 1 /\ \A i \in 1..Len(a) : b[i] = a[i]
  OBVIOUS
<1>2. Budget \in Nat /\ Len(a) \in Nat
  BY WindowConstants
<1> HIDE DEF b
<1>3. Admission(b, inWindow + 1, begins)
  <2>1. inWindow + 1 <= Len(b) /\ Len(b) - (inWindow + 1) = Len(a) - inWindow
    BY <1>1, <1>2 DEF Admission
  <2>2. ASSUME NEW i \in 1..(Len(a) - inWindow)
        PROVE  b[i] = a[i]
    <3>1. i \in 1..Len(a)
      BY <1>2
    <3>2. QED
      BY <1>1, <3>1
  <2>3. ASSUME NEW i \in 1..(Len(a) - inWindow - Budget)
        PROVE  b[i] = a[i]
    <3>1. i \in 1..Len(a)
      BY <1>2
    <3>2. QED
      BY <1>1, <3>1
  <2>4. QED
    BY <2>1, <2>2, <2>3 DEF Admission
<1>4. QED
  BY <1>1, <1>3 DEF b

\* Forgetting the oldest changes nothing for those that stay.
LEMMA ForgetOldest ==
  ASSUME NEW a \in Seq(Nat), NEW from \in 1..Len(a), NEW inWindow \in Nat, NEW begins \in Int,
         inWindow <= Len(a) - from + 1, Admission(a, inWindow, begins)
  PROVE  LET kept == SubSeq(a, from, Len(a)) IN
         /\ kept \in Seq(Nat)
         /\ \A i \in 1..Len(kept) : \E j \in 1..Len(a) : kept[i] = a[j]
         /\ Admission(kept, inWindow, begins)
<1> DEFINE kept == SubSeq(a, from, Len(a))
<1>1. /\ kept \in Seq(Nat) /\ Len(kept) = Len(a) - from + 1
      /\ \A i \in 1..Len(kept) : kept[i] = a[i + from - 1]
  OBVIOUS
<1>2. Budget \in Nat /\ Len(a) \in Nat /\ from \in Nat /\ from >= 1 /\ Len(kept) \in Nat
  BY <1>1, WindowConstants
<1> HIDE DEF kept
<1>3. \A i \in 1..Len(kept) : i + from - 1 \in 1..Len(a)
  BY <1>1, <1>2
<1>4. \A i \in 1..Len(kept) : \E j \in 1..Len(a) : kept[i] = a[j]
  BY <1>1, <1>3
<1>5. Admission(kept, inWindow, begins)
  <2>1. ASSUME NEW i \in 1..(Len(kept) - inWindow)
        PROVE  kept[i] <= begins
    <3>1. i \in 1..Len(kept) /\ i + from - 1 \in 1..(Len(a) - inWindow)
      BY <1>1, <1>2
    <3>2. QED
      BY <1>1, <3>1 DEF Admission
  <2>2. ASSUME NEW i \in 1..(Len(kept) - inWindow - Budget)
        PROVE  kept[i] + Window <= begins
    <3>1. i \in 1..Len(kept) /\ i + from - 1 \in 1..(Len(a) - inWindow - Budget)
      BY <1>1, <1>2
    <3>2. QED
      BY <1>1, <3>1 DEF Admission
  <2>3. QED
    BY <1>1, <2>1, <2>2 DEF Admission
<1>6. QED
  BY <1>1, <1>4, <1>5 DEF kept

(***************************************************************************)
(* A request that is admitted.                                             *)
(***************************************************************************)
Remembered(times, time) ==
  LET a == Append(times, time) IN SubSeq(a, Max({1, Len(a) - 2 * Budget}), Len(a))

\* It is remembered as the last of its window.
LEMMA RememberKeepsAdmission ==
  ASSUME NEW times \in Seq(Nat), NEW time \in Nat, NEW count \in 1..Budget, NEW begins \in Int,
         Admission(times, count - 1, begins),
         \A i \in 1..Len(times) : times[i] <= time
  PROVE  /\ Remembered(times, time) \in Seq(Nat)
         /\ \A i \in 1..Len(Remembered(times, time)) : Remembered(times, time)[i] <= time
         /\ Admission(Remembered(times, time), count, begins)
<1> DEFINE a == Append(times, time)
           from == Max({1, Len(a) - 2 * Budget})
<1>1. /\ Budget \in Nat /\ Budget >= 1 /\ Len(times) \in Nat
      /\ count \in Nat /\ count >= 1 /\ count <= Budget
      /\ count - 1 \in Nat /\ count - 1 + 1 = count
  BY WindowConstants
<1>2. a \in Seq(Nat) /\ Len(a) = Len(times) + 1 /\ Admission(a, count, begins)
  BY <1>1, AdmitOne
<1>3. \A i \in 1..Len(a) : a[i] <= time
  <2>1. \A i \in 1..Len(times) : a[i] = times[i]
    OBVIOUS
  <2>2. a[Len(times) + 1] = time
    OBVIOUS
  <2> HIDE DEF a
  <2>3. ASSUME NEW i \in 1..Len(a)
        PROVE  a[i] <= time
    <3>1. i \in 1..Len(times) \/ i = Len(times) + 1
      BY <1>1, <1>2
    <3>2. QED
      BY <2>1, <2>2, <3>1
  <2>4. QED
    BY <2>3
<1>4. Len(a) \in Nat /\ Len(a) >= 1
  BY <1>1, <1>2
<1> HIDE DEF a
<1>5. from \in 1..Len(a) /\ (from = 1 \/ from = Len(a) - 2 * Budget)
  <2> DEFINE over == Len(a) - 2 * Budget
  <2>1. 1 \in Int /\ over \in Int /\ over <= Len(a)
    BY <1>1, <1>4
  <2>2. from \in {1, over} /\ from >= 1
    <3> HIDE DEF over
    <3>1. Max({1, over}) \in {1, over} /\ Max({1, over}) >= 1
      BY <2>1, MaxOfTwo
    <3>2. QED
      BY <3>1 DEF over
  <2>3. QED
    BY <1>4, <2>1, <2>2
<1> HIDE DEF from
<1>6. count <= Len(a) - from + 1
  BY <1>1, <1>2, <1>4, <1>5 DEF Admission
<1> DEFINE kept == SubSeq(a, from, Len(a))
<1>7. /\ kept \in Seq(Nat) /\ Admission(kept, count, begins)
      /\ \A i \in 1..Len(kept) : \E j \in 1..Len(a) : kept[i] = a[j]
  BY <1>1, <1>2, <1>5, <1>6, ForgetOldest
<1>8. kept = Remembered(times, time)
  BY DEF a, from, Remembered
<1> HIDE DEF kept
<1>9. \A i \in 1..Len(kept) : kept[i] <= time
  BY <1>3, <1>7
<1>10. QED
  BY <1>7, <1>8, <1>9

\* The window that admits it.
LEMMA AdmittedKeepsInv ==
  ASSUME WindowInv, now' = now, window' \in [count : Nat, resetAt : Nat],
         window'.count \in 1..Budget, window'.resetAt <= now + Window,
         retryAt' = 0, admitted' = Remembered(admitted, now),
         Admission(admitted, window'.count - 1, window'.resetAt - Window)
  PROVE  WindowInv'
<1>1. /\ now \in Nat /\ admitted \in Seq(Nat)
      /\ \A i \in 1..Len(admitted) : admitted[i] <= now
  BY DEF WindowInv, WindowTyped
<1>2. window'.resetAt - Window \in Int
  BY WindowConstants
<1>3. /\ admitted' \in Seq(Nat)
      /\ \A i \in 1..Len(admitted') : admitted'[i] <= now
      /\ Admission(admitted', window'.count, window'.resetAt - Window)
  BY <1>1, <1>2, RememberKeepsAdmission
<1>4. InWindow' = window'.count
  BY WindowConstants DEF InWindow
<1>5. Admission(admitted, InWindow, window.resetAt - Window)'
  BY <1>3, <1>4 DEF Admission
<1>6. WindowTyped'
  BY <1>1, <1>3 DEF WindowTyped
<1>7. QED
  BY <1>3, <1>5, <1>6 DEF WindowInv

\* What a request makes of the window.
LEMMA NextWindow ==
  ASSUME WindowInv, Request
  PROVE  /\ window' \in [count : Nat, resetAt : Nat]
         /\ window'.resetAt <= now + Window
         /\ Over => window'.count = 1 /\ window'.resetAt = now + Window
         /\ ~Over => /\ window'.resetAt = window.resetAt
                     /\ window.count <= Budget => window'.count = window.count + 1
                     /\ window.count > Budget => window'.count > Budget
<1>1. /\ Budget \in Nat /\ Window \in Nat /\ now \in Nat
      /\ window \in [count : Nat, resetAt : Nat] /\ window.resetAt <= now + Window
      /\ window.count \in Nat /\ window.resetAt \in Nat
  BY WindowConstants DEF WindowInv, WindowTyped
<1>2. CASE Over
  <2>1. window' = [count |-> 1, resetAt |-> now + Window]
    BY <1>2 DEF Request
  <2>2. 1 \in Nat /\ now + Window \in Nat
    BY <1>1
  <2>3. QED
    BY <1>1, <1>2, <2>1, <2>2
<1>3. CASE ~Over
  <2> DEFINE count == Min({window.count + 1, Budget + 2})
  <2>1. window' = [window EXCEPT !.count = count]
    BY <1>3 DEF Request
  <2>2. window.count + 1 \in Int /\ Budget + 2 \in Int
    BY <1>1
  <2>3. count \in {window.count + 1, Budget + 2}
        /\ count <= window.count + 1 /\ count <= Budget + 2
    BY <2>2, MinOfTwo
  <2>4. /\ count \in Nat
        /\ window.count <= Budget => count = window.count + 1
        /\ window.count > Budget => count > Budget
    <3> HIDE DEF count
    <3>1. QED
      BY <1>1, <2>3
  <2> HIDE DEF count
  <2>5. window' \in [count : Nat, resetAt : Nat] /\ window'.count = count
        /\ window'.resetAt = window.resetAt
    BY <1>1, <2>1, <2>4
  <2>6. QED
    BY <1>1, <1>3, <2>4, <2>5
<1>4. QED
  BY <1>2, <1>3

\* A request, admitted or refused.
LEMMA RequestKeepsInv == ASSUME WindowInv, Request PROVE WindowInv'
<1>1. /\ Budget \in Nat /\ Budget >= 1 /\ Window \in Nat /\ Window >= 1 /\ Second \in Nat
      /\ now \in Nat /\ admitted \in Seq(Nat) /\ Len(admitted) \in Nat
      /\ window.count \in Nat /\ window.resetAt \in Nat
      /\ \A i \in 1..Len(admitted) : admitted[i] \in Nat /\ admitted[i] <= now
      /\ Admission(admitted, InWindow, window.resetAt - Window)
  BY WindowConstants DEF WindowInv, WindowTyped
<1>2. /\ window' \in [count : Nat, resetAt : Nat]
      /\ window'.resetAt <= now + Window
      /\ Over => window'.count = 1 /\ window'.resetAt = now + Window
      /\ ~Over => /\ window'.resetAt = window.resetAt
                  /\ window.count <= Budget => window'.count = window.count + 1
                  /\ window.count > Budget => window'.count > Budget
  BY NextWindow
<1>3. InWindow \in 0..Budget
  BY <1>1 DEF InWindow
<1>4. now' = now
  BY DEF Request
<1>5. CASE Within(window'.count)
  <2>1. retryAt' = 0 /\ admitted' = Remembered(admitted, now)
    BY <1>5 DEF Request, Remembered
  <2>2. window'.count <= Budget
    BY <1>5 DEF Within
  <2>3. CASE Over
    <3>1. window'.count - 1 = 0 /\ window'.resetAt - Window = now /\ window.resetAt <= now
      BY <1>1, <1>2, <2>3 DEF Over
    <3>2. Admission(admitted, 0, now)
      <4>1. ASSUME NEW i \in 1..(Len(admitted) - Budget)
            PROVE  admitted[i] + Window <= now
        <5>1. i \in 1..(Len(admitted) - InWindow) /\ i \in 1..Len(admitted)
          BY <1>1, <1>3
        <5>2. admitted[i] <= window.resetAt - Window /\ admitted[i] \in Nat
          BY <1>1, <5>1 DEF Admission
        <5>3. QED
          BY <1>1, <3>1, <5>2
      <4>2. QED
        BY <1>1, <4>1 DEF Admission
    <3>3. Admission(admitted, window'.count - 1, window'.resetAt - Window)
      BY <3>1, <3>2
    <3>4. window'.count \in 1..Budget
      BY <1>1, <1>2, <2>3
    <3>5. QED
      BY <1>2, <1>4, <2>1, <3>3, <3>4, AdmittedKeepsInv
  <2>4. CASE ~Over
    <3>1. window.count <= Budget /\ window'.count = window.count + 1
      BY <1>1, <1>2, <2>2, <2>4
    <3>2. InWindow = window'.count - 1 /\ window'.resetAt = window.resetAt
      BY <1>1, <1>2, <2>4, <3>1 DEF InWindow
    <3>3. Admission(admitted, window'.count - 1, window'.resetAt - Window)
      BY <1>1, <3>2
    <3>4. window'.count \in 1..Budget
      BY <1>1, <2>2, <3>1
    <3>5. QED
      BY <1>2, <1>4, <2>1, <3>3, <3>4, AdmittedKeepsInv
  <2>5. QED
    BY <2>3, <2>4
<1>6. CASE ~Within(window'.count)
  <2>1. retryAt' = now + Second * RetryAfter(window'.resetAt) /\ admitted' = admitted
    BY <1>6 DEF Request
  <2>2. ~Over /\ window'.count > Budget /\ window'.count \in Nat
    BY <1>1, <1>2, <1>6 DEF Within
  <2>3. window'.resetAt = window.resetAt
    BY <1>2, <2>2
  <2>4. InWindow = Budget /\ InWindow' = Budget
    BY <1>1, <1>2, <2>2 DEF InWindow
  <2>5. RetryAfter(window'.resetAt) \in Int
    <3>1. Second \in Nat \ {0} /\ window'.resetAt \in Nat
      BY <1>2, WindowConstants
    <3>2. (window'.resetAt - now + Second - 1) \div Second \in Int /\ 1 \in Int
      BY <1>1, <3>1
    <3>3. QED
      BY <3>2, MaxOfTwo DEF RetryAfter
  <2>6. retryAt' \in Int
    BY <1>1, <2>1, <2>5
  <2>7. QED
    BY <1>1, <1>2, <1>4, <2>1, <2>3, <2>4, <2>6 DEF WindowInv, WindowTyped, Admission
<1>7. QED
  BY <1>5, <1>6

\* Every step.
LEMMA WindowStepKeepsInv == WindowInv /\ [WindowNext]_windowVars => WindowInv'
<1> SUFFICES ASSUME WindowInv, [WindowNext]_windowVars PROVE WindowInv'
  OBVIOUS
<1>1. CASE WindowTick
  <2>1. now' = now + 1 /\ UNCHANGED <<window, retryAt, admitted>>
    BY <1>1 DEF WindowTick
  <2>2. now \in Nat /\ Window \in Nat /\ window.resetAt \in Nat /\ admitted \in Seq(Nat)
    BY WindowConstants DEF WindowInv, WindowTyped
  <2>3. InWindow' = InWindow
    BY <2>1 DEF InWindow
  <2>4. \A i \in 1..Len(admitted) : admitted[i] <= now'
    BY <2>1, <2>2 DEF WindowInv
  <2>5. QED
    BY <2>1, <2>2, <2>3, <2>4 DEF WindowInv, WindowTyped, Admission
<1>2. CASE UNCHANGED windowVars
  BY <1>2 DEF windowVars, WindowInv, WindowTyped, InWindow, Admission
<1>3. QED
  BY <1>1, <1>2, RequestKeepsInv DEF WindowNext

\* A client that has not asked has no window.
LEMMA WindowStarts == WindowInit => WindowInv
<1>1. Budget \in Nat /\ Window \in Nat
  BY WindowConstants
<1>2. QED
  BY <1>1 DEF WindowInit, WindowInv, WindowTyped, InWindow, Admission

(***************************************************************************)
(* However it times its requests, a client is admitted at most two budgets *)
(* in the time of one window, whatever the two are.                        *)
(***************************************************************************)
THEOREM RateBounded == WindowSpec => []RateIsBounded
<1>1. WindowInv => RateIsBounded
  <2> SUFFICES ASSUME WindowInv, Len(admitted) > 2 * Budget
               PROVE  now - Head(admitted) >= Window
    BY DEF RateIsBounded
  <2>1. /\ Budget \in Nat /\ Window \in Nat /\ now \in Nat /\ admitted \in Seq(Nat)
        /\ window.resetAt \in Nat /\ window.count \in Nat /\ window.resetAt <= now + Window
    BY WindowConstants DEF WindowInv, WindowTyped
  <2>2. InWindow \in 0..Budget
    BY <2>1 DEF InWindow
  <2>3. 1 \in 1..(Len(admitted) - InWindow - Budget) /\ admitted # <<>>
    BY <2>1, <2>2
  <2>4. admitted[1] + Window <= window.resetAt - Window
    BY <2>3 DEF WindowInv, Admission
  <2>5. Head(admitted) = admitted[1] /\ admitted[1] \in Nat
    BY <2>1, <2>3
  <2>6. QED
    BY <2>1, <2>4, <2>5
<1>2. QED
  BY <1>1, WindowStarts, WindowStepKeepsInv, PTL DEF WindowSpec

-----------------------------------------------------------------------------
(***************************************************************************)
(* A refused client is told to come back no earlier than its window ends.  *)
(***************************************************************************)
RetryInv == WindowInv /\ (retryAt # 0 => window.resetAt <= retryAt)

\* Rounding up to whole seconds does not fall short.
LEMMA RoundedUp ==
  ASSUME NEW ticks \in Int, NEW unit \in Nat \ {0}
  PROVE  unit * ((ticks + unit - 1) \div unit) >= ticks
BY SMT

\* So Retry-After reaches to the end of the window.
LEMMA RetryAfterReaches ==
  ASSUME NEW resetAt \in Nat, now \in Nat
  PROVE  resetAt <= now + Second * RetryAfter(resetAt)
<1> DEFINE seconds == (resetAt - now + Second - 1) \div Second
<1>1. Second \in Nat \ {0}
  BY WindowConstants
<1>2. resetAt - now \in Int
  OBVIOUS
<1>3. Second * seconds >= resetAt - now /\ seconds \in Int /\ 1 \in Int
  BY <1>1, <1>2, RoundedUp
<1> HIDE DEF seconds
<1>4. Max({1, seconds}) >= seconds /\ Max({1, seconds}) \in {1, seconds}
  BY <1>3, MaxOfTwo
<1>5. RetryAfter(resetAt) \in Int /\ RetryAfter(resetAt) >= seconds
  BY <1>3, <1>4 DEF RetryAfter, seconds
<1>6. Second * RetryAfter(resetAt) >= Second * seconds
  BY <1>1, <1>3, <1>5
<1>7. QED
  BY <1>1, <1>3, <1>5, <1>6

\* Every step.
LEMMA RetryStepKeepsInv == RetryInv /\ [WindowNext]_windowVars => RetryInv'
<1> SUFFICES ASSUME RetryInv, [WindowNext]_windowVars PROVE RetryInv'
  OBVIOUS
<1>1. WindowInv'
  BY WindowStepKeepsInv DEF RetryInv
<1>2. CASE Request /\ Within(window'.count)
  BY <1>1, <1>2 DEF Request, RetryInv
<1>3. CASE Request /\ ~Within(window'.count)
  <2>1. retryAt' = now + Second * RetryAfter(window'.resetAt)
    BY <1>3 DEF Request
  <2>2. window'.resetAt \in Nat /\ now \in Nat
    BY <1>1 DEF RetryInv, WindowInv, WindowTyped
  <2>3. QED
    BY <1>1, <2>1, <2>2, RetryAfterReaches DEF RetryInv
<1>4. CASE WindowTick \/ UNCHANGED windowVars
  BY <1>1, <1>4 DEF WindowTick, windowVars, RetryInv
<1>5. QED
  BY <1>2, <1>3, <1>4 DEF WindowNext

(***************************************************************************)
(* A client that comes back when it was told to is admitted, also when it  *)
(* was impatient in between, whatever the budget, the window and the unit  *)
(* of Retry-After are.                                                     *)
(***************************************************************************)
THEOREM RetriesAdmitted == WindowSpec => RetriesAreAdmitted
<1>1. WindowInit => RetryInv
  BY WindowStarts DEF WindowInit, RetryInv
<1>2. RetryInv /\ [WindowNext]_windowVars
        => [Request /\ retryAt # 0 /\ now >= retryAt => retryAt' = 0]_windowVars
  <2> SUFFICES ASSUME RetryInv, Request, retryAt # 0, now >= retryAt
               PROVE  retryAt' = 0
    OBVIOUS
  <2>1. /\ Budget \in Nat /\ Budget >= 1 /\ now \in Nat /\ retryAt \in Int
        /\ window.resetAt \in Nat /\ window.resetAt <= retryAt
    BY WindowConstants DEF RetryInv, WindowInv, WindowTyped
  <2>2. Over
    BY <2>1 DEF Over
  <2>3. window'.count = 1
    BY <2>2, NextWindow DEF RetryInv
  <2>4. QED
    BY <2>1, <2>3 DEF Request, Within
<1>3. QED
  BY <1>1, <1>2, RetryStepKeepsInv, PTL DEF WindowSpec, RetriesAreAdmitted
=============================================================================
