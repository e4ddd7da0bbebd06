---------------------------- MODULE IngestProofs ----------------------------
(***************************************************************************)
(* Proofs about Ingest, for every set of payments and every number of      *)
(* faults: each job carries its own payment's user operation, the watcher  *)
(* backs off as it should, and what is stored has its types.               *)
(***************************************************************************)
EXTENDS Ingest, FiniteSetTheorems, TLAPS

(***************************************************************************)
(* What the argument needs of the types.                                   *)
(***************************************************************************)
Typed ==
  /\ entries \in SUBSET Payments /\ opFile \in SUBSET Payments
  /\ putting \in Seq(Payments)
  /\ signing \in [Payments -> {"none", "posted", "refused", "signable", "paid"}]
  /\ up \in BOOLEAN

(***************************************************************************)
(* The registry in memory has what its file has, as long as the process    *)
(* runs; nothing is under way while it does not.                           *)
(***************************************************************************)
RegistryInv ==
  /\ loop = "off" <=> ~up
  /\ up => opFile \subseteq entries
  /\ ~up => putting = <<>> /\ handling = {}

(***************************************************************************)
(* What may be signed on the site is in the registry's file.               *)
(***************************************************************************)
SignableIsDurable ==
  \A p \in Payments \ Elsewhere : signing[p] \in {"signable", "paid"} => p \in opFile

(***************************************************************************)
(* What is handled, or has a job, was paid.                                *)
(***************************************************************************)
Paid == {p \in Payments : signing[p] = "paid"}

OnlyPaidIsHandled ==
  /\ handling \subseteq Paid
  /\ DOMAIN resolved \subseteq handling
  /\ DOMAIN jobs \subseteq Paid
  /\ DOMAIN jobFile \subseteq Paid

ResolvedIsOwn == \A p \in DOMAIN resolved \ Elsewhere : resolved[p] = p

(***************************************************************************)
(* The inductive invariant.                                                *)
(***************************************************************************)
IInv ==
  Typed /\ RegistryInv /\ SignableIsDurable /\ OnlyPaidIsHandled /\ ResolvedIsOwn /\ OwnUserOp

\* Nothing is registered, paid or in a job at first.
LEMMA InitInv == Init => IInv
<1> SUFFICES ASSUME Init PROVE IInv
  OBVIOUS
<1>1. Typed
  <2>1. signing \in [Payments -> {"none", "posted", "refused", "signable", "paid"}]
    BY DEF Init
  <2>2. putting \in Seq(Payments)
    BY DEF Init, RegistryInit
  <2>3. entries \in SUBSET Payments /\ opFile \in SUBSET Payments /\ up \in BOOLEAN
    BY DEF Init, RegistryInit
  <2>4. QED
    BY <2>1, <2>2, <2>3 DEF Typed
<1>2. RegistryInv /\ SignableIsDurable
  BY DEF Init, RegistryInit, RegistryInv, SignableIsDurable
<1>3. DOMAIN jobs = {} /\ DOMAIN jobFile = {} /\ DOMAIN resolved = {}
  BY DEF Init, Empty
<1>4. OnlyPaidIsHandled /\ ResolvedIsOwn /\ OwnUserOp
  BY <1>3 DEF Init, OnlyPaidIsHandled, ResolvedIsOwn, OwnUserOp
<1>5. QED
  BY <1>1, <1>2, <1>4 DEF IInv

(***************************************************************************)
(* Steps that touch neither the registry nor a job.                        *)
(***************************************************************************)
LEMMA WatchKeepsInv == ASSUME IInv, Watch PROVE IInv'
<1>1. loop # "off" /\ loop' # "off"
  BY DEF Watch, Connects, ConnectFails, AbortHeard, Wakes, Disconnects, Subscribed, AfterWait
<1>2. UNCHANGED <<registryVars, processVars, signing, jobVars>>
  BY DEF Watch
<1>3. QED
  BY <1>1, <1>2 DEF IInv, Typed, RegistryInv, SignableIsDurable, OnlyPaidIsHandled, Paid,
       ResolvedIsOwn, OwnUserOp, registryVars, processVars, jobVars

\* The sign route posts a registration, or is refused.
LEMMA PostKeepsInv == ASSUME IInv, NEW p \in Payments, Post(p) PROVE IInv'
<1>1. Typed'
  BY DEF Post, IInv, Typed, Put, registryVars, processVars
<1>2. RegistryInv'
  BY DEF Post, IInv, RegistryInv, Put, registryVars, watcherVars, processVars
<1>3. \A q \in Payments : signing[q] \in {"signable", "paid"} <=> signing'[q] \in {"signable", "paid"}
  BY DEF Post, IInv, Typed
<1>4. Paid' = Paid /\ SignableIsDurable'
  BY <1>3 DEF Post, IInv, Typed, Put, registryVars, SignableIsDurable, Paid
<1>5. QED
  BY <1>1, <1>2, <1>4 DEF Post, IInv, OnlyPaidIsHandled, ResolvedIsOwn, OwnUserOp, processVars, jobVars

\* A registration that takes too long makes its payment unsignable.
LEMMA PostTimesOutKeepsInv == ASSUME IInv, NEW p \in Payments, PostTimesOut(p) PROVE IInv'
<1>1. \A q \in Payments : signing[q] \in {"signable", "paid"} => signing'[q] = signing[q]
  BY DEF PostTimesOut, IInv, Typed
<1>2. \A q \in Payments : signing'[q] \in {"signable", "paid"} => signing'[q] = signing[q]
  BY DEF PostTimesOut, IInv, Typed
<1>3. Typed' /\ RegistryInv'
  BY DEF PostTimesOut, IInv, Typed, RegistryInv, registryVars, watcherVars, processVars
<1>4. Paid' = Paid /\ SignableIsDurable'
  BY <1>1, <1>2 DEF PostTimesOut, IInv, registryVars, SignableIsDurable, Paid
<1>5. QED
  BY <1>3, <1>4 DEF PostTimesOut, IInv, OnlyPaidIsHandled, ResolvedIsOwn, OwnUserOp, processVars, jobVars

\* A put enters the map.
LEMMA EnterKeepsInv == ASSUME IInv, Enter PROVE IInv'
<1>1. Head(putting) \in Payments /\ up
  BY DEF Enter, PutEnters, IInv, Typed, RegistryInv
<1>2. QED
  BY <1>1 DEF Enter, PutEnters, IInv, Typed, RegistryInv, SignableIsDurable, OnlyPaidIsHandled, Paid,
       ResolvedIsOwn, OwnUserOp, watcherVars, processVars, jobVars

(***************************************************************************)
(* A put is written, and only then may its payment be signed: the file     *)
(* gets the whole map, which holds all the file had.                       *)
(***************************************************************************)
LEMMA PersistKeepsInv == ASSUME IInv, Persist PROVE IInv'
<1> PICK ok \in BOOLEAN :
      /\ PutPersists(ok)
      /\ signing' = [signing EXCEPT ![Head(putting)] =
                       IF @ # "posted" THEN @ ELSE IF ok THEN "signable" ELSE "refused"]
  BY DEF Persist
<1> DEFINE h == Head(putting)
<1>1. h \in entries /\ h \in Payments /\ up /\ Tail(putting) \in Seq(Payments)
  BY DEF PutPersists, IInv, Typed, RegistryInv
<1>2. opFile \subseteq opFile' /\ opFile' \subseteq entries /\ (ok => h \in opFile')
  BY <1>1 DEF PutPersists, IInv, RegistryInv
<1>3. \A q \in Payments :
        signing'[q] = signing[q] \/ (q = h /\ signing[q] = "posted"
                                     /\ signing'[q] = IF ok THEN "signable" ELSE "refused")
  BY <1>1 DEF IInv, Typed
<1>4. Typed' /\ RegistryInv'
  BY <1>1, <1>2 DEF Persist, PutPersists, IInv, Typed, RegistryInv, watcherVars, processVars
<1>5. Paid' = Paid
  BY <1>3 DEF Paid
<1>6. SignableIsDurable'
  BY <1>2, <1>3 DEF IInv, SignableIsDurable
<1>7. QED
  BY <1>4, <1>5, <1>6 DEF Persist, IInv, OnlyPaidIsHandled, ResolvedIsOwn, OwnUserOp, processVars, jobVars

\* A payment is made, and its event is handled or lost.
LEMMA PayKeepsInv == ASSUME IInv, NEW p \in Payments, Pay(p) PROVE IInv'
<1>1. signing' = [signing EXCEPT ![p] = "paid"] /\ signing[p] = "signable"
  BY DEF Pay
<1>2. Paid' = Paid \cup {p}
  BY <1>1 DEF IInv, Typed, Paid
<1>3. handling' \subseteq handling \cup {p} /\ handling \subseteq handling'
  BY DEF Pay
<1>4. ~up => handling' = {}
  BY DEF Pay, Subscribed, IInv, RegistryInv
<1>5. Typed' /\ RegistryInv'
  BY <1>1, <1>4 DEF Pay, IInv, Typed, RegistryInv, registryVars, watcherVars
<1>6. SignableIsDurable'
  BY <1>1 DEF Pay, IInv, Typed, SignableIsDurable, registryVars
<1>7. OnlyPaidIsHandled'
  BY <1>2, <1>3 DEF Pay, IInv, OnlyPaidIsHandled, jobVars
<1>8. QED
  BY <1>5, <1>6, <1>7 DEF Pay, IInv, ResolvedIsOwn, OwnUserOp, jobVars

\* Only the event of a payment that has a job comes again.
LEMMA RedeliverKeepsInv == ASSUME IInv, NEW p \in Payments, Redeliver(p) PROVE IInv'
<1>1. p \in Paid /\ up
  BY DEF Redeliver, Subscribed, IInv, OnlyPaidIsHandled, RegistryInv
<1>2. QED
  BY <1>1 DEF Redeliver, IInv, Typed, RegistryInv, SignableIsDurable, OnlyPaidIsHandled, Paid,
       ResolvedIsOwn, OwnUserOp, registryVars, watcherVars, jobVars

(***************************************************************************)
(* The lookup of a payment of the site finds its own user operation: it is *)
(* paid, so it is in the file, so it is in the map.                        *)
(***************************************************************************)
LEMMA ResolveUserOpKeepsInv == ASSUME IInv, NEW p \in Payments, ResolveUserOp(p) PROVE IInv'
<1>1. p \in handling /\ up /\ p \in Paid
  BY DEF ResolveUserOp, IInv, RegistryInv, OnlyPaidIsHandled
<1>2. p \notin Elsewhere => Resolved(p) = p
  BY <1>1 DEF IInv, RegistryInv, SignableIsDurable, Paid, Resolved
<1>3. resolved' = With(resolved, p, Resolved(p))
  BY DEF ResolveUserOp
<1>4. /\ DOMAIN resolved' = {p} \cup DOMAIN resolved
      /\ resolved'[p] = Resolved(p)
      /\ \A q \in DOMAIN resolved \ {p} : resolved'[q] = resolved[q]
  BY <1>3 DEF With
<1>5. ResolvedIsOwn'
  BY <1>2, <1>4 DEF IInv, ResolvedIsOwn
<1>6. QED
  BY <1>1, <1>4, <1>5 DEF ResolveUserOp, IInv, Typed, RegistryInv, SignableIsDurable,
       OnlyPaidIsHandled, Paid, OwnUserOp, registryVars, watcherVars, jobVars

(***************************************************************************)
(* The job is created, or given what it lacks.                             *)
(***************************************************************************)
OwnIn(image) ==
  /\ DOMAIN image \subseteq Paid
  /\ \A p \in Payments \ Elsewhere :
       p \in DOMAIN image => image[p] = p \/ (image[p] = NoUserOp /\ p \in backFilled)

\* A job is created with, or given, the operation that was resolved for it.
LEMMA ObserveKeepsInv == ASSUME IInv, NEW p \in Payments, Observe(p) PROVE IInv'
<1>1. p \in DOMAIN resolved /\ p \in handling /\ p \in Paid
  BY DEF Observe, IInv, OnlyPaidIsHandled
<1>2. p \notin Elsewhere => resolved[p] = p
  BY <1>1 DEF IInv, ResolvedIsOwn
<1>3. OwnIn(jobs) /\ OwnIn(jobFile)
  BY DEF IInv, OnlyPaidIsHandled, OwnUserOp, OwnIn
<1>4. OwnIn(WithJob(p, resolved[p]))
  <2> DEFINE new == With(jobs, p, resolved[p])
  <2>1. /\ DOMAIN new = {p} \cup DOMAIN jobs
        /\ new[p] = resolved[p]
        /\ \A q \in DOMAIN jobs \ {p} : new[q] = jobs[q]
    BY DEF With
  <2>2. OwnIn(new)
    BY <1>1, <1>2, <1>3, <2>1 DEF OwnIn
  <2>3. QED
    BY <1>3, <2>2 DEF WithJob
<1>5. /\ jobs' = WithJob(p, resolved[p])
      /\ jobFile' = jobFile \/ jobFile' = jobs'
      /\ UNCHANGED <<signing, backFilled, up, entries, opFile, putting, loop>>
  BY DEF Observe, registryVars, watcherVars
<1>6. OwnIn(jobs') /\ OwnIn(jobFile')
  BY <1>3, <1>4, <1>5
<1>7. OnlyPaidIsHandled'
  BY <1>5, <1>6 DEF Observe, IInv, OnlyPaidIsHandled, Paid, OwnIn
<1>8. OwnUserOp'
  BY <1>5, <1>6 DEF OwnUserOp, OwnIn
<1>9. QED
  BY <1>5, <1>7, <1>8 DEF Observe, IInv, Typed, RegistryInv, SignableIsDurable, ResolvedIsOwn

(***************************************************************************)
(* The process starts from its files, is told to stop, and ends.           *)
(***************************************************************************)
LEMMA StartKeepsInv == ASSUME IInv, Start PROVE IInv'
BY DEF Start, RegistryInitialize, WatcherStarts, IInv, Typed, RegistryInv, SignableIsDurable,
       OnlyPaidIsHandled, Paid, ResolvedIsOwn, OwnUserOp

\* A stop changes nothing but the signal.
LEMMA ShutdownKeepsInv == ASSUME IInv, Shutdown PROVE IInv'
BY DEF Shutdown, Abort, IInv, Typed, RegistryInv, SignableIsDurable, OnlyPaidIsHandled, Paid,
       ResolvedIsOwn, OwnUserOp, registryVars, processVars, jobVars

\* The file of the registry outlives the process.
LEMMA GoneKeepsInv == ASSUME IInv, Gone PROVE IInv'
<1>1. \A q \in Payments :
        signing'[q] = signing[q] \/ (signing[q] = "posted" /\ signing'[q] = "refused")
  BY DEF Gone, IInv, Typed
<1>2. Typed'
  <2>1. signing' \in [Payments -> {"none", "posted", "refused", "signable", "paid"}]
    BY DEF Gone, IInv, Typed
  <2>2. putting' \in Seq(Payments)
    BY DEF Gone, RegistryLost
  <2>3. QED
    BY <2>1, <2>2 DEF Gone, RegistryLost, IInv, Typed
<1>3. RegistryInv'
  BY DEF Gone, RegistryLost, WatcherOff, RegistryInv
<1>4. Paid' = Paid /\ SignableIsDurable'
  BY <1>1 DEF Gone, RegistryLost, IInv, SignableIsDurable, Paid
<1>5. DOMAIN jobs' = {} /\ DOMAIN resolved' = {} /\ handling' = {}
  BY DEF Gone, Empty
<1>6. OnlyPaidIsHandled' /\ ResolvedIsOwn' /\ OwnUserOp'
  BY <1>4, <1>5 DEF Gone, IInv, OnlyPaidIsHandled, ResolvedIsOwn, OwnUserOp
<1>7. QED
  BY <1>2, <1>3, <1>4, <1>6 DEF IInv

\* The back-fill script makes a job without a user operation.
LEMMA BackFillKeepsInv == ASSUME IInv, NEW p \in Payments, BackFill(p) PROVE IInv'
<1>1. p \in Paid /\ jobFile' = With(jobFile, p, NoUserOp) /\ backFilled' = backFilled \cup {p}
  BY DEF BackFill, Paid
<1>2. /\ DOMAIN jobFile' = {p} \cup DOMAIN jobFile
      /\ jobFile'[p] = NoUserOp
      /\ \A q \in DOMAIN jobFile \ {p} : jobFile'[q] = jobFile[q]
  BY <1>1 DEF With
<1>3. OnlyPaidIsHandled'
  BY <1>1, <1>2 DEF BackFill, IInv, OnlyPaidIsHandled, Paid, processVars
<1>4. OwnUserOp'
  BY <1>1, <1>2 DEF BackFill, IInv, OwnUserOp
<1>5. QED
  BY <1>3, <1>4 DEF BackFill, IInv, Typed, RegistryInv, SignableIsDurable, ResolvedIsOwn,
       registryVars, watcherVars, processVars

\* Every step keeps the invariant.
LEMMA NextKeepsInv == IInv /\ [Next]_vars => IInv'
<1> SUFFICES ASSUME IInv, [Next]_vars PROVE IInv'
  OBVIOUS
<1>1. CASE UNCHANGED vars
  BY <1>1 DEF vars, registryVars, watcherVars, processVars, jobVars, IInv, Typed, RegistryInv,
       SignableIsDurable, OnlyPaidIsHandled, Paid, ResolvedIsOwn, OwnUserOp
<1>2. CASE Exit \/ Crash
  BY <1>2, GoneKeepsInv DEF Exit, Crash
<1>3. CASE Start \/ Watch \/ Shutdown \/ Enter \/ Persist
  BY <1>3, StartKeepsInv, WatchKeepsInv, ShutdownKeepsInv, EnterKeepsInv, PersistKeepsInv
<1>4. ASSUME NEW p \in Payments,
             Post(p) \/ PostTimesOut(p) \/ Pay(p) \/ Redeliver(p) \/ ResolveUserOp(p) \/ Observe(p)
               \/ BackFill(p)
      PROVE IInv'
  BY <1>4, PostKeepsInv, PostTimesOutKeepsInv, PayKeepsInv, RedeliverKeepsInv,
       ResolveUserOpKeepsInv, ObserveKeepsInv, BackFillKeepsInv
<1>5. QED
  BY <1>1, <1>2, <1>3, <1>4 DEF Next

(***************************************************************************)
(* The job of a payment made on the site carries its own user operation,   *)
(* for any number of payments, crashes and failing writes.                 *)
(***************************************************************************)
THEOREM UserOpIsOwn == Spec => []OwnUserOp
<1>1. IInv => OwnUserOp
  BY DEF IInv
<1>2. QED
  BY <1>1, InitInv, NextKeepsInv, PTL DEF Spec

-----------------------------------------------------------------------------
(***************************************************************************)
(* The watcher's pause.                                                    *)
(***************************************************************************)
\* Adding one element doubles the subsets of a finite set.
LEMMA SubsetsDouble ==
  ASSUME NEW S, IsFiniteSet(S), NEW x, x \notin S
  PROVE  Cardinality(SUBSET (S \cup {x})) = 2 * Cardinality(SUBSET S)
<1> DEFINE More == {T \cup {x} : T \in SUBSET S}
           add == [T \in SUBSET S |-> T \cup {x}]
<1>1. IsFiniteSet(SUBSET S) /\ Cardinality(SUBSET S) \in Nat
  BY FS_SUBSET, FS_CardinalityType
<1>2. ExistsBijection(SUBSET S, More)
  <2>1. add \in [SUBSET S -> More]
    OBVIOUS
  <2>2. ASSUME NEW T \in SUBSET S, NEW U \in SUBSET S, add[T] = add[U]
        PROVE  T = U
    <3>1. T = (T \cup {x}) \ {x} /\ U = (U \cup {x}) \ {x}
      OBVIOUS
    <3>2. QED
      BY <2>2, <3>1
  <2>3. \A t \in More : \E T \in SUBSET S : add[T] = t
    OBVIOUS
  <2> HIDE DEF add, More
  <2>4. QED
    BY <2>1, <2>2, <2>3 DEF ExistsBijection, Bijection, Injection, IsInjective, Surjection
<1>3. IsFiniteSet(More) /\ Cardinality(More) = Cardinality(SUBSET S)
  BY <1>1, <1>2, FS_Bijection
<1>4. SUBSET (S \cup {x}) = (SUBSET S) \cup More /\ (SUBSET S) \cap More = {}
  <2>1. ASSUME NEW T \in SUBSET (S \cup {x}), x \in T
        PROVE  T \in More
    <3>1. T \ {x} \in SUBSET S /\ T = (T \ {x}) \cup {x}
      BY <2>1
    <3>2. QED
      BY <3>1
  <2>2. \A T \in SUBSET (S \cup {x}) : x \notin T => T \in SUBSET S
    OBVIOUS
  <2>3. \A T \in More : x \in T /\ T \in SUBSET (S \cup {x})
    OBVIOUS
  <2> HIDE DEF More
  <2>4. QED
    BY <2>1, <2>2, <2>3
<1> HIDE DEF More
<1>5. Cardinality((SUBSET S) \cup More)
        = Cardinality(SUBSET S) + Cardinality(More) - Cardinality((SUBSET S) \cap More)
  BY <1>1, <1>3, FS_Union
<1>6. Cardinality({}) = 0
  BY FS_EmptySet
<1>7. Cardinality((SUBSET S) \cap More) = 0
  BY <1>4, <1>6
<1>8. Cardinality(SUBSET (S \cup {x})) = Cardinality((SUBSET S) \cup More)
  BY <1>4
<1>9. QED
  BY <1>1, <1>3, <1>5, <1>7, <1>8

\* So the powers of two double.
LEMMA PowersDouble ==
  ASSUME NEW n \in Nat
  PROVE  2^n \in Nat /\ 2^(n + 1) = 2 * 2^n
<1>1. /\ IsFiniteSet(1..n) /\ Cardinality(1..n) = n
      /\ IsFiniteSet(1..(n + 1)) /\ Cardinality(1..(n + 1)) = n + 1
  BY FS_Interval
<1>2. 1..(n + 1) = (1..n) \cup {n + 1} /\ n + 1 \notin 1..n
  OBVIOUS
<1>3. Cardinality(SUBSET (1..n)) = 2^n /\ Cardinality(SUBSET (1..n)) \in Nat
  BY <1>1, FS_SUBSET, FS_CardinalityType
<1>4. Cardinality(SUBSET (1..(n + 1))) = 2^(n + 1)
  BY <1>1, FS_SUBSET
<1>5. Cardinality(SUBSET (1..(n + 1))) = 2 * Cardinality(SUBSET (1..n))
  BY <1>1, <1>2, SubsetsDouble
<1>6. QED
  BY <1>3, <1>4, <1>5

\* The first of them.
LEMMA PowerOfZero == 2^0 = 1
<1>1. Cardinality(SUBSET {}) = 2^0
  BY FS_EmptySet, FS_SUBSET
<1>2. SUBSET {} = {{}}
  OBVIOUS
<1>3. QED
  BY <1>1, <1>2, FS_Singleton

\* The lesser of two numbers.
LEMMA MinOfTwo ==
  ASSUME NEW a \in Nat, NEW b \in Nat
  PROVE  Min({a, b}) = IF a <= b THEN a ELSE b
<1>1. \E x \in {a, b} : \A y \in {a, b} : x <= y
  OBVIOUS
<1>2. Min({a, b}) \in {a, b} /\ Min({a, b}) <= a /\ Min({a, b}) <= b
  BY <1>1 DEF Min
<1>3. QED
  BY <1>2

WatcherTyped ==
  /\ loop \in Loops /\ aborted \in BOOLEAN
  /\ backoff \in InitialBackoff..MaxBackoff /\ short \in 0..MaxShort

WatcherInv == WatcherTyped /\ BackoffDoublesToItsMaximum

\* The first pause.
LEMMA FirstPause ==
  /\ InitialBackoff \in InitialBackoff..MaxBackoff
  /\ InitialBackoff = Min({InitialBackoff * 2^0, MaxBackoff})
<1>1. InitialBackoff \in Nat /\ MaxBackoff \in Nat /\ InitialBackoff <= MaxBackoff
  BY BackoffAssumption
<1>2. InitialBackoff * 2^0 = InitialBackoff
  BY <1>1, PowerOfZero
<1>3. Min({InitialBackoff, MaxBackoff}) = InitialBackoff
  BY <1>1, MinOfTwo
<1>4. InitialBackoff = Min({InitialBackoff * 2^0, MaxBackoff})
  BY <1>2, <1>3, Zenon
<1>5. InitialBackoff \in InitialBackoff..MaxBackoff
  BY <1>1
<1>6. QED
  BY <1>4, <1>5

(***************************************************************************)
(* The next pause is the double of the last one, up to the maximum; once   *)
(* the ghost count is at its bound the pause is at its maximum, and stays. *)
(***************************************************************************)
LEMMA NextPause ==
  ASSUME WatcherInv,
         backoff' = Min({2 * backoff, MaxBackoff}), short' = Min({short + 1, MaxShort})
  PROVE  /\ backoff' \in InitialBackoff..MaxBackoff /\ short' \in 0..MaxShort
         /\ BackoffDoublesToItsMaximum'
<1>1. /\ InitialBackoff \in Nat /\ MaxBackoff \in Nat /\ MaxShort \in Nat
      /\ InitialBackoff <= MaxBackoff
      /\ InitialBackoff * 2^MaxShort >= MaxBackoff
  BY BackoffAssumption
<1>2. backoff \in Nat /\ InitialBackoff <= backoff /\ backoff <= MaxBackoff
      /\ short \in Nat /\ short <= MaxShort
  BY <1>1 DEF WatcherInv, WatcherTyped
<1>3. backoff' = IF 2 * backoff <= MaxBackoff THEN 2 * backoff ELSE MaxBackoff
  BY <1>1, <1>2, MinOfTwo
<1>4. short' = IF short + 1 <= MaxShort THEN short + 1 ELSE MaxShort
  BY <1>1, <1>2, MinOfTwo
<1>5. 2^short \in Nat /\ 2^(short + 1) = 2 * 2^short
  BY <1>2, PowersDouble
<1> DEFINE pause == InitialBackoff * 2^short
<1>6. pause \in Nat
  BY <1>1, <1>5
<1>7. InitialBackoff * 2^(short + 1) = 2 * pause
  <2> DEFINE power == 2^short
  <2>1. power \in Nat /\ 2^(short + 1) = 2 * power
    BY <1>5
  <2> HIDE DEF power
  <2>2. InitialBackoff * (2 * power) = 2 * (InitialBackoff * power)
    BY <1>1, <2>1
  <2>3. QED
    BY <2>1, <2>2 DEF power
<1>8. backoff = Min({pause, MaxBackoff})
  BY DEF WatcherInv, BackoffDoublesToItsMaximum
<1>9. backoff = IF pause <= MaxBackoff THEN pause ELSE MaxBackoff
  <2> HIDE DEF pause
  <2>1. QED
    BY <1>1, <1>6, <1>8, MinOfTwo
<1>10. backoff' = Min({InitialBackoff * 2^short', MaxBackoff})
  <2>1. CASE short < MaxShort
    <3>1. InitialBackoff * 2^short' = 2 * pause
      BY <1>1, <1>2, <1>4, <1>7, <2>1
    <3> HIDE DEF pause
    <3>2. Min({2 * pause, MaxBackoff}) = IF 2 * pause <= MaxBackoff THEN 2 * pause ELSE MaxBackoff
      BY <1>1, <1>6, MinOfTwo
    <3>3. backoff' = Min({2 * pause, MaxBackoff})
      BY <1>1, <1>3, <1>6, <1>9, <3>2
    <3>4. QED
      BY <3>1, <3>3, Zenon
  <2>2. CASE short = MaxShort
    <3>1. short' = short
      BY <1>1, <1>4, <2>2
    <3>2. pause >= MaxBackoff
      BY <1>1, <2>2
    <3>3. backoff = MaxBackoff
      BY <1>1, <1>6, <1>9, <3>2
    <3>4. backoff' = MaxBackoff
      BY <1>1, <1>3, <3>3
    <3>5. QED
      BY <1>8, <3>1, <3>3, <3>4
  <2>3. QED
    BY <1>1, <1>2, <2>1, <2>2
<1>11. backoff' \in InitialBackoff..MaxBackoff /\ short' \in 0..MaxShort
  BY <1>1, <1>2, <1>3, <1>4
<1>12. QED
  BY <1>10, <1>11 DEF BackoffDoublesToItsMaximum

\* What any step of the process does to its watcher.
WatcherStep ==
  \/ Connects \/ ConnectFails \/ AbortHeard \/ Wakes \/ \E minute \in BOOLEAN : Disconnects(minute)
  \/ WatcherStarts \/ Abort \/ WatcherOff
  \/ UNCHANGED watcherVars

\* Every one of them keeps the pauses as they should be.
LEMMA WatcherStepKeepsInv == ASSUME WatcherInv, WatcherStep PROVE WatcherInv'
<1> USE DEF Loops
<1>1. CASE Connects \/ ConnectFails \/ AbortHeard \/ WatcherStarts \/ Abort \/ UNCHANGED watcherVars
  BY <1>1 DEF Connects, ConnectFails, AfterWait, AbortHeard, WatcherStarts, Abort, watcherVars,
       WatcherInv, WatcherTyped, BackoffDoublesToItsMaximum
<1>2. CASE Wakes
  <2>1. /\ backoff' \in InitialBackoff..MaxBackoff /\ short' \in 0..MaxShort
        /\ BackoffDoublesToItsMaximum'
    BY <1>2, NextPause DEF Wakes
  <2>2. loop' \in Loops /\ aborted' \in BOOLEAN
    BY <1>2 DEF Wakes, WatcherInv, WatcherTyped
  <2>3. QED
    BY <2>1, <2>2 DEF WatcherInv, WatcherTyped
<1>3. ASSUME backoff' = InitialBackoff, short' = 0, loop' \in Loops, aborted' \in BOOLEAN
      PROVE  WatcherInv'
  <2>1. MaxShort \in Nat
    BY BackoffAssumption
  <2>2. QED
    BY <1>3, <2>1, FirstPause DEF WatcherInv, WatcherTyped, BackoffDoublesToItsMaximum
<1>4. CASE WatcherOff
  BY <1>3, <1>4 DEF WatcherOff
<1>5. ASSUME NEW minute \in BOOLEAN, Disconnects(minute)
      PROVE  WatcherInv'
  <2>1. loop' \in Loops /\ aborted' \in BOOLEAN
    BY <1>5 DEF Disconnects, AfterWait, WatcherInv, WatcherTyped
  <2>2. CASE minute /\ ~aborted
    BY <1>3, <1>5, <2>1, <2>2 DEF Disconnects
  <2>3. CASE ~(minute /\ ~aborted)
    BY <1>5, <2>1, <2>3 DEF Disconnects, WatcherInv, WatcherTyped, BackoffDoublesToItsMaximum
  <2>4. QED
    BY <2>2, <2>3
<1>6. QED
  BY <1>1, <1>2, <1>4, <1>5 DEF WatcherStep

\* Whatever the process does is a step of its watcher.
LEMMA NextIsWatcherStep == [Next]_vars => WatcherStep
<1> SUFFICES ASSUME [Next]_vars PROVE WatcherStep
  OBVIOUS
<1> USE DEF WatcherStep
<1>1. CASE UNCHANGED vars
  BY <1>1 DEF vars, watcherVars
<1>2. CASE Start \/ Watch \/ Shutdown
  BY <1>2 DEF Start, Watch, Shutdown
<1>3. CASE Exit \/ Crash
  BY <1>3 DEF Exit, Crash, Gone
<1>4. CASE Enter \/ Persist
  BY <1>4 DEF Enter, Persist
<1>5. ASSUME NEW p \in Payments,
             Post(p) \/ PostTimesOut(p) \/ Pay(p) \/ Redeliver(p) \/ ResolveUserOp(p) \/ Observe(p)
               \/ BackFill(p)
      PROVE WatcherStep
  BY <1>5 DEF Post, PostTimesOut, Pay, Redeliver, ResolveUserOp, Observe, BackFill
<1>6. QED
  BY <1>1, <1>2, <1>3, <1>4, <1>5 DEF Next

\* A new process has its first pause before it.
LEMMA InitWatcher == Init => WatcherInv
<1>1. MaxShort \in Nat
  BY BackoffAssumption
<1> SUFFICES ASSUME Init PROVE WatcherInv
  OBVIOUS
<1>2. backoff = InitialBackoff /\ short = 0
  BY DEF Init
<1>3. BackoffDoublesToItsMaximum
  BY <1>2, FirstPause, Zenon DEF BackoffDoublesToItsMaximum
<1>4. WatcherTyped
  <2>1. InitialBackoff \in InitialBackoff..MaxBackoff
    BY FirstPause, Zenon
  <2>2. loop \in Loops /\ aborted \in BOOLEAN
    BY DEF Init, Loops
  <2>3. 0 \in 0..MaxShort
    BY <1>1
  <2>4. QED
    BY <1>2, <2>1, <2>2, <2>3 DEF WatcherTyped
<1>5. QED
  BY <1>3, <1>4 DEF WatcherInv

(***************************************************************************)
(* A pause is the first one doubled once per pause since the last          *)
(* connection that lasted, up to the maximum, whatever the two are and     *)
(* however connections fail.                                               *)
(***************************************************************************)
THEOREM BackoffDoubles == Spec => []BackoffDoublesToItsMaximum
<1>1. WatcherInv /\ [Next]_vars => WatcherInv'
  BY NextIsWatcherStep, WatcherStepKeepsInv
<1>2. WatcherInv => BackoffDoublesToItsMaximum
  BY DEF WatcherInv
<1>3. QED
  BY <1>1, <1>2, InitWatcher, PTL DEF Spec

-----------------------------------------------------------------------------
(***************************************************************************)
(* Type correctness.  A sender's newest user operation exists because the  *)
(* registry, in memory and in its file, always has a newest one.           *)
(***************************************************************************)
HasNewest(registry) ==
  registry # {} => \E newest \in registry : \A p \in registry : newest >= p

OpsIn(image) == \A p \in DOMAIN image : image[p] \in Ops

ValuesTyped ==
  /\ HasNewest(entries) /\ HasNewest(opFile)
  /\ OpsIn(resolved) /\ OpsIn(jobs) /\ OpsIn(jobFile)
  /\ backFilled \in SUBSET Payments
  /\ faults \in 0..MaxFaults

TypeInv == IInv /\ WatcherInv /\ ValuesTyped

\* The parts of the invariant make up TypeOK.
LEMMA TypeInvSuffices == TypeInv => TypeOK
BY DEF TypeInv, IInv, Typed, RegistryInv, OnlyPaidIsHandled, Paid, WatcherInv, WatcherTyped,
       ValuesTyped, OpsIn, TypeOK

\* One more operation: the newest is the new one or the one before.
LEMMA OneMoreHasNewest ==
  ASSUME NEW registry \in SUBSET Payments, NEW p \in Payments, HasNewest(registry)
  PROVE  HasNewest(registry \cup {p})
<1>1. Payments \subseteq Nat
  BY PaymentsAssumption
<1>2. CASE registry = {}
  BY <1>1, <1>2 DEF HasNewest
<1>3. CASE registry # {}
  <2>1. PICK newest \in registry : \A q \in registry : newest >= q
    BY <1>3 DEF HasNewest
  <2>2. CASE newest >= p
    BY <1>1, <2>1, <2>2 DEF HasNewest
  <2>3. CASE p >= newest
    BY <1>1, <2>1, <2>3 DEF HasNewest
  <2>4. QED
    BY <1>1, <2>2, <2>3
<1>4. QED
  BY <1>2, <1>3

\* The lookup finds a registered operation or none.
LEMMA ResolvedIsOp == ASSUME TypeInv, NEW p \in Payments PROVE Resolved(p) \in Ops
<1>1. entries \subseteq Payments /\ HasNewest(entries)
  BY DEF TypeInv, IInv, Typed, ValuesTyped
<1>2. ASSUME entries # {}
      PROVE  Max(entries) \in entries
  BY <1>1, <1>2 DEF HasNewest, Max
<1>3. QED
  BY <1>1, <1>2 DEF Resolved, GetBySource, Ops

\* An image of jobs, or of lookups, with one value more.
LEMMA WithKeepsOps ==
  ASSUME NEW image, OpsIn(image), NEW p, NEW userOp \in Ops
  PROVE  OpsIn(With(image, p, userOp))
<1>1. DOMAIN With(image, p, userOp) = DOMAIN image \cup {p}
  BY DEF With
<1>2. \A q \in DOMAIN With(image, p, userOp) :
        With(image, p, userOp)[q] = IF q = p THEN userOp ELSE image[q]
  BY DEF With
<1>3. QED
  BY <1>1, <1>2 DEF OpsIn

\* Faults are counted up to their bound.
LEMMA FaultyCounts == ASSUME TypeInv, Faulty \/ UNCHANGED faults PROVE faults' \in 0..MaxFaults
<1>1. MaxFaults \in Nat /\ faults \in 0..MaxFaults
  BY IngestAssumption DEF TypeInv, ValuesTyped
<1>2. QED
  BY <1>1 DEF Faulty

\* A step that leaves the operations alone, but for what it forgets.
LEMMA OpsForgotten ==
  ASSUME TypeInv, Faulty \/ UNCHANGED faults,
         HasNewest(entries'), UNCHANGED <<opFile, jobFile>>,
         resolved' = resolved \/ resolved' = Empty,
         jobs' \in {jobs, jobFile, Empty},
         backFilled' = backFilled
  PROVE  ValuesTyped'
<1>1. OpsIn(Empty)
  BY DEF OpsIn, Empty
<1>2. OpsIn(resolved)' /\ OpsIn(jobs)' /\ OpsIn(jobFile)'
  BY <1>1 DEF TypeInv, ValuesTyped, OpsIn
<1>3. HasNewest(entries)' /\ HasNewest(opFile)'
  BY DEF TypeInv, ValuesTyped, HasNewest
<1>4. faults' \in 0..MaxFaults
  BY FaultyCounts
<1>5. QED
  BY <1>2, <1>3, <1>4 DEF TypeInv, ValuesTyped

\* The steps of the registry.
LEMMA RegistryKeepsValues == ASSUME TypeInv, Enter \/ Persist PROVE ValuesTyped'
<1>1. /\ entries \in SUBSET Payments /\ putting \in Seq(Payments)
      /\ HasNewest(entries) /\ HasNewest(opFile)
  BY DEF TypeInv, IInv, Typed, ValuesTyped
<1>2. /\ UNCHANGED <<resolved, jobs, jobFile, backFilled>>
      /\ Faulty \/ UNCHANGED faults
  BY DEF Enter, Persist, processVars, jobVars
<1>3. HasNewest(entries)' /\ HasNewest(opFile)'
  <2>1. CASE Enter
    <3>1. Head(putting) \in Payments
      BY <1>1, <2>1 DEF Enter, PutEnters
    <3>2. HasNewest(entries \cup {Head(putting)})
      BY <1>1, <3>1, OneMoreHasNewest
    <3>3. entries' = entries \cup {Head(putting)} /\ opFile' = opFile
      BY <2>1 DEF Enter, PutEnters
    <3>4. QED
      BY <1>1, <3>2, <3>3 DEF HasNewest
  <2>2. CASE Persist
    <3>1. entries' = entries /\ opFile' \in {entries, opFile}
      BY <2>2 DEF Persist, PutPersists
    <3>2. QED
      BY <1>1, <3>1 DEF HasNewest
  <2>3. QED
    BY <2>1, <2>2
<1>4. OpsIn(resolved)' /\ OpsIn(jobs)' /\ OpsIn(jobFile)'
  BY <1>2 DEF TypeInv, ValuesTyped, OpsIn
<1>5. faults' \in 0..MaxFaults
  BY <1>2, FaultyCounts
<1>6. QED
  BY <1>2, <1>3, <1>4, <1>5 DEF TypeInv, ValuesTyped

\* The steps of a job.
LEMMA JobKeepsValues ==
  ASSUME TypeInv, NEW p \in Payments, ResolveUserOp(p) \/ Observe(p) \/ BackFill(p)
  PROVE  ValuesTyped'
<1>1. OpsIn(resolved) /\ OpsIn(jobs) /\ OpsIn(jobFile) /\ backFilled \in SUBSET Payments
  BY DEF TypeInv, ValuesTyped
<1>2. UNCHANGED <<entries, opFile>> /\ (Faulty \/ UNCHANGED faults)
  BY DEF ResolveUserOp, Observe, BackFill, registryVars
<1>3. HasNewest(entries)' /\ HasNewest(opFile)' /\ faults' \in 0..MaxFaults
  BY <1>2, FaultyCounts DEF TypeInv, ValuesTyped, HasNewest
<1>4. CASE ResolveUserOp(p)
  <2>1. OpsIn(With(resolved, p, Resolved(p)))
    BY <1>1, ResolvedIsOp, WithKeepsOps
  <2>2. OpsIn(resolved)' /\ OpsIn(jobs)' /\ OpsIn(jobFile)' /\ backFilled' = backFilled
    BY <1>1, <1>4, <2>1 DEF ResolveUserOp, jobVars, OpsIn
  <2>3. QED
    BY <1>1, <1>3, <2>2 DEF ValuesTyped
<1>5. CASE Observe(p)
  <2>1. resolved[p] \in Ops
    BY <1>1, <1>5 DEF Observe, OpsIn
  <2>2. OpsIn(WithJob(p, resolved[p]))
    BY <1>1, <2>1, WithKeepsOps DEF WithJob
  <2>3. /\ jobs' = WithJob(p, resolved[p]) /\ jobFile' \in {jobFile, jobs'}
        /\ resolved' = [q \in DOMAIN resolved \ {p} |-> resolved[q]]
        /\ backFilled' = backFilled
    BY <1>5 DEF Observe
  <2>4. OpsIn(resolved)' /\ OpsIn(jobs)' /\ OpsIn(jobFile)'
    BY <1>1, <2>2, <2>3 DEF OpsIn
  <2>5. QED
    BY <1>1, <1>3, <2>3, <2>4 DEF ValuesTyped
<1>6. CASE BackFill(p)
  <2>1. OpsIn(With(jobFile, p, NoUserOp))
    BY <1>1, WithKeepsOps DEF Ops
  <2>2. OpsIn(resolved)' /\ OpsIn(jobs)' /\ OpsIn(jobFile)' /\ backFilled' = backFilled \cup {p}
    BY <1>1, <1>6, <2>1 DEF BackFill, processVars, OpsIn
  <2>3. QED
    BY <1>1, <1>3, <2>2 DEF ValuesTyped
<1>7. QED
  BY <1>4, <1>5, <1>6

\* Every step keeps the values what they should be.
LEMMA NextKeepsValues == TypeInv /\ [Next]_vars => ValuesTyped'
<1> SUFFICES ASSUME TypeInv, [Next]_vars PROVE ValuesTyped'
  OBVIOUS
<1>1. HasNewest(entries) /\ HasNewest(opFile) /\ HasNewest({})
  BY DEF TypeInv, ValuesTyped, HasNewest
<1>2. CASE Watch \/ Shutdown \/ UNCHANGED vars
  BY <1>1, <1>2, OpsForgotten
     DEF Watch, Shutdown, vars, registryVars, processVars, jobVars
<1>3. CASE Start
  BY <1>1, <1>3, OpsForgotten DEF Start, RegistryInitialize
<1>4. CASE Exit \/ Crash
  BY <1>1, <1>4, OpsForgotten DEF Exit, Crash, Gone, RegistryLost
<1>5. ASSUME NEW p \in Payments, Post(p) \/ PostTimesOut(p) \/ Pay(p) \/ Redeliver(p)
      PROVE  ValuesTyped'
  BY <1>1, <1>5, OpsForgotten
     DEF Post, Put, PostTimesOut, Pay, Redeliver, registryVars, processVars, jobVars
<1>6. QED
  BY <1>2, <1>3, <1>4, <1>5, RegistryKeepsValues, JobKeepsValues DEF Next

\* At first there is nothing to type.
LEMMA InitValues == Init => ValuesTyped
<1>1. MaxFaults \in Nat
  BY IngestAssumption
<1>2. QED
  BY <1>1 DEF Init, RegistryInit, Empty, ValuesTyped, HasNewest, OpsIn

(***************************************************************************)
(* Type correctness of the registry, the watcher, the events and the jobs, *)
(* for any set of payments and any number of faults.                       *)
(***************************************************************************)
THEOREM IngestTypeCorrect == Spec => []TypeOK
<1>1. Init => TypeInv
  BY InitInv, InitWatcher, InitValues DEF TypeInv
<1>2. TypeInv /\ [Next]_vars => TypeInv'
  BY NextKeepsInv, NextIsWatcherStep, WatcherStepKeepsInv, NextKeepsValues DEF TypeInv
<1>3. QED
  BY <1>1, <1>2, TypeInvSuffices, PTL DEF Spec
=============================================================================
