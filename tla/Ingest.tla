------------------------------- MODULE Ingest -------------------------------
(***************************************************************************)
(* How a payment of the site becomes a job of the executor: the sign route *)
(* registers the payment's user operation and only then asks for a         *)
(* signature; the watcher hears of the payment; observe looks the          *)
(* operation up and creates the job.  The executor process starts, is      *)
(* stopped and crashes; the back-fill script runs while it is down.        *)
(***************************************************************************)
EXTENDS UserOpStore, XrplWatcher

CONSTANTS
  Elsewhere,  \* payments with a 0xFE memo that the site did not make
  MaxFaults   \* bound on crashes, stops, failing writes and redelivered events

ASSUME IngestAssumption == Elsewhere \subseteq Payments /\ MaxFaults \in Nat

VARIABLES
  up,          \* the executor process runs
  signing,     \* the sign route and then the payment
  handling,    \* payments whose event observe is handling
  resolved,    \* of those past resolveUserOp, the user operation it found
  jobs,        \* the jobs in memory: the user operation each carries
  jobFile,     \* the job file
  backFilled,  \* observability only: jobs made by the back-fill script
  faults

processVars == <<up, handling, resolved>>
jobVars     == <<jobs, jobFile, backFilled>>
vars == <<registryVars, watcherVars, processVars, signing, jobVars, faults>>

Empty == [p \in {} |-> NoUserOp]

With(f, p, userOp) == [q \in DOMAIN f \cup {p} |-> IF q = p THEN userOp ELSE f[q]]

Init ==
  /\ RegistryInit
  /\ loop = "off" /\ backoff = InitialBackoff /\ aborted = FALSE /\ short = 0
  /\ up = FALSE
  /\ signing = [p \in Payments |-> IF p \in Elsewhere THEN "signable" ELSE "none"]
  /\ handling = {} /\ resolved = Empty
  /\ jobs = Empty /\ jobFile = Empty /\ backFilled = {}
  /\ faults = 0

Faulty == faults < MaxFaults /\ faults' = faults + 1

-----------------------------------------------------------------------------
(***************************************************************************)
(* The sign route: the registration is posted; unless it is answered well  *)
(* within ten seconds there is nothing to sign.                            *)
(***************************************************************************)
Post(p) ==
  /\ signing[p] = "none"
  /\ \A q \in Payments \ Elsewhere : q < p => signing[q] # "none"
  /\ IF up /\ ~aborted
     THEN Put(p) /\ signing' = [signing EXCEPT ![p] = "posted"]
     ELSE UNCHANGED registryVars /\ signing' = [signing EXCEPT ![p] = "refused"]
  /\ UNCHANGED <<watcherVars, processVars, jobVars, faults>>

PostTimesOut(p) ==
  /\ signing[p] = "posted"
  /\ signing' = [signing EXCEPT ![p] = "refused"]
  /\ UNCHANGED <<registryVars, watcherVars, processVars, jobVars, faults>>

Enter == PutEnters /\ UNCHANGED <<watcherVars, processVars, signing, jobVars, faults>>

(***************************************************************************)
(* Mutant of Persist: the registration is answered before it is written.   *)
(***************************************************************************)
PersistUnawaited ==
  /\ \E ok \in BOOLEAN :
       /\ PutPersists(ok)
       /\ IF ok THEN UNCHANGED faults ELSE Faulty
       /\ signing' = [signing EXCEPT ![Head(putting)] = IF @ = "posted" THEN "signable" ELSE @]
  /\ UNCHANGED <<watcherVars, processVars, jobVars>>

Persist ==
  /\ \E ok \in BOOLEAN :
       /\ PutPersists(ok)
       /\ IF ok THEN UNCHANGED faults ELSE Faulty
       /\ signing' = [signing EXCEPT ![Head(putting)] =
                        IF @ # "posted" THEN @ ELSE IF ok THEN "signable" ELSE "refused"]
  /\ UNCHANGED <<watcherVars, processVars, jobVars>>

(***************************************************************************)
(* The payment is signed and validated.  Its event reaches a connected     *)
(* subscription, unless the connection is already broken.                  *)
(***************************************************************************)
Pay(p) ==
  /\ signing[p] = "signable"
  /\ signing' = [signing EXCEPT ![p] = "paid"]
  /\ \/ Subscribed /\ handling' = handling \cup {p}
     \/ UNCHANGED handling
  /\ UNCHANGED <<registryVars, watcherVars, up, resolved, jobVars, faults>>

(***************************************************************************)
(* An event comes a second time.                                           *)
(***************************************************************************)
Redeliver(p) ==
  /\ Subscribed /\ Faulty
  /\ p \in DOMAIN jobs \ handling
  /\ handling' = handling \cup {p}
  /\ UNCHANGED <<registryVars, watcherVars, signing, up, resolved, jobVars>>

(***************************************************************************)
(* observe: resolveUserOp, then the job is created, or given the user      *)
(* operation it lacks; a failing write is only reported.                   *)
(***************************************************************************)
ResolveUserOp(p) ==
  /\ p \in handling \ DOMAIN resolved
  /\ resolved' = With(resolved, p, Resolved(p))
  /\ UNCHANGED <<registryVars, watcherVars, signing, up, handling, jobVars, faults>>

WithJob(p, userOp) ==
  IF p \in DOMAIN jobs /\ jobs[p] # NoUserOp THEN jobs ELSE With(jobs, p, userOp)

Observe(p) ==
  /\ p \in DOMAIN resolved
  /\ jobs' = WithJob(p, resolved[p])
  /\ \/ jobFile' = (IF jobs' = jobs THEN jobFile ELSE jobs') /\ UNCHANGED faults
     \/ jobs' # jobs /\ Faulty /\ UNCHANGED jobFile
  /\ handling' = handling \ {p}
  /\ resolved' = [q \in DOMAIN resolved \ {p} |-> resolved[q]]
  /\ UNCHANGED <<registryVars, watcherVars, signing, up, backFilled>>

-----------------------------------------------------------------------------
(***************************************************************************)
(* main: both stores are read before anything else, then the watcher and   *)
(* the server start.                                                       *)
(***************************************************************************)
Start ==
  /\ ~up /\ up' = TRUE
  /\ RegistryInitialize
  /\ jobs' = jobFile
  /\ WatcherStarts
  /\ UNCHANGED <<signing, handling, resolved, jobFile, backFilled, faults>>

Watch ==
  /\ Connects \/ ConnectFails \/ AbortHeard \/ Wakes \/ \E minute \in BOOLEAN : Disconnects(minute)
  /\ UNCHANGED <<registryVars, processVars, signing, jobVars, faults>>

(***************************************************************************)
(* SIGINT or SIGTERM.                                                      *)
(***************************************************************************)
Shutdown ==
  /\ up /\ Faulty /\ Abort
  /\ UNCHANGED <<registryVars, processVars, signing, jobVars>>

(***************************************************************************)
(* The process is gone, and with it what it kept in memory; the web's      *)
(* requests to it fail.                                                    *)
(***************************************************************************)
Gone ==
  /\ up' = FALSE
  /\ RegistryLost /\ WatcherOff
  /\ handling' = {} /\ resolved' = Empty /\ jobs' = Empty
  /\ signing' = [p \in Payments |-> IF signing[p] = "posted" THEN "refused" ELSE signing[p]]
  /\ UNCHANGED <<jobFile, backFilled>>

(***************************************************************************)
(* The process ends by itself once nothing keeps it: the server and the    *)
(* timer, which only a stop closes, the watcher's loop, calls in progress. *)
(***************************************************************************)
Exit ==
  /\ up /\ aborted /\ loop = "ended" /\ putting = <<>> /\ handling = {}
  /\ Gone
  /\ UNCHANGED faults

Crash == up /\ Faulty /\ Gone

(***************************************************************************)
(* observeExisting.ts, run while the executor is stopped: it knows no user *)
(* operations.                                                             *)
(***************************************************************************)
BackFill(p) ==
  /\ ~up /\ signing[p] = "paid" /\ p \notin DOMAIN jobFile
  /\ jobFile' = With(jobFile, p, NoUserOp)
  /\ backFilled' = backFilled \cup {p}
  /\ UNCHANGED <<registryVars, watcherVars, processVars, signing, jobs, faults>>

Next ==
  \/ Start \/ Watch \/ Shutdown \/ Exit \/ Crash \/ Enter \/ Persist
  \/ \E p \in Payments :
       \/ Post(p) \/ PostTimesOut(p) \/ Pay(p) \/ Redeliver(p)
       \/ ResolveUserOp(p) \/ Observe(p) \/ BackFill(p)

Spec == Init /\ [][Next]_vars

(***************************************************************************)
(* The process's own steps happen; connecting succeeds sometimes if it is  *)
(* tried again and again.                                                  *)
(***************************************************************************)
FairSpec ==
  /\ Spec
  /\ WF_vars(Watch /\ Wakes) /\ WF_vars(Watch /\ AbortHeard)
  /\ SF_vars(Watch /\ Connects)
  /\ WF_vars(Enter) /\ WF_vars(Persist) /\ WF_vars(Exit)
  /\ \A p \in Payments : WF_vars(ResolveUserOp(p)) /\ WF_vars(Observe(p))

-----------------------------------------------------------------------------
(***************************************************************************)
(* Type correctness of the registry, the watcher, the events and the jobs. *)
(***************************************************************************)
Ops == Payments \cup {NoUserOp}

TypeOK ==
  /\ entries \in SUBSET Payments /\ opFile \in SUBSET Payments
  /\ putting \in Seq(Payments)
  /\ loop \in Loops /\ aborted \in BOOLEAN
  /\ backoff \in InitialBackoff..MaxBackoff /\ short \in 0..MaxShort
  /\ up \in BOOLEAN /\ (loop = "off" <=> ~up)
  /\ signing \in [Payments -> {"none", "posted", "refused", "signable", "paid"}]
  /\ handling \in SUBSET Payments
  /\ DOMAIN resolved \in SUBSET handling /\ \A p \in DOMAIN resolved : resolved[p] \in Ops
  /\ DOMAIN jobs \in SUBSET Payments /\ \A p \in DOMAIN jobs : jobs[p] \in Ops
  /\ DOMAIN jobFile \in SUBSET Payments /\ \A p \in DOMAIN jobFile : jobFile[p] \in Ops
  /\ backFilled \in SUBSET Payments
  /\ faults \in 0..MaxFaults

(***************************************************************************)
(* The job of a payment made on the site carries the user operation its    *)
(* memo commits to, never another one of the sender and, unless the        *)
(* back-fill script made it, never none: whoever crashed since.            *)
(***************************************************************************)
OwnUserOp ==
  \A p \in Payments \ Elsewhere : \A image \in {jobs, jobFile} :
    p \in DOMAIN image => image[p] = p \/ (image[p] = NoUserOp /\ p \in backFilled)

(***************************************************************************)
(* The watcher of a running executor that nobody stops comes back.         *)
(***************************************************************************)
WatcherComesBack == up /\ ~aborted ~> Subscribed \/ ~up \/ aborted

(***************************************************************************)
(* A stopped executor ends, unless the signal came while the watcher was   *)
(* connecting.                                                             *)
(***************************************************************************)
ShutdownEnds == up /\ aborted /\ loop \notin {"connecting", "deaf"} ~> ~up
=============================================================================
