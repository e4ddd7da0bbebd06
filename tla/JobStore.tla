------------------------------ MODULE JobStore ------------------------------
(***************************************************************************)
(* JsonFileTransactionStore (executor/src/transactionStore.ts): a Map in   *)
(* memory and a JSON file, with the writers serialised by a promise queue  *)
(* and each write going to a temporary file that is then renamed.  Readers *)
(* (get, list) do not queue.                                               *)
(*                                                                         *)
(* The contents of a job are its version: 0 for no job, 1 as created, one  *)
(* more with every update.                                                 *)
(***************************************************************************)
EXTENDS Naturals, Sequences, FiniteSets

CONSTANTS
  Ids,       \* transaction ids
  MaxCalls,  \* bound on the store calls made
  MaxFaults  \* bound on crashes and failed writes

ASSUME StoreAssumption == Ids # {} /\ MaxCalls \in Nat /\ MaxFaults \in Nat

VARIABLES
  map,     \* this.jobs
  file,    \* the contents of filePath, <<>> while it does not exist
  tmp,     \* the contents of filePath.tmp, <<>> for none or a partial write
  queue,   \* the calls waiting on this.queue; the first may be running
  phase,   \* what the running call, or initialize(), is doing
  calls,   \* calls made so far
  faults,  \* crashes and failed writes so far
  acked,   \* observability only: the highest version an update resolved with
  served   \* observability only: the highest version a reader was given

vars == <<map, file, tmp, queue, phase, calls, faults, acked, served>>

Images == [Ids -> 0..MaxCalls]
Empty == [id \in Ids |-> 0]

Call == [op : {"create", "update"}, id : Ids]

(***************************************************************************)
(* "booting" before initialize() has run, "free" with no write under way,  *)
(* "writing" the temporary file, "renaming" it over the file.              *)
(***************************************************************************)
Phases == {"booting", "free", "writing", "renaming"}

TypeOK ==
  /\ map \in Images
  /\ file \in Images \cup {<<>>}
  /\ tmp \in Images \cup {<<>>}
  /\ queue \in Seq(Call)
  /\ phase \in Phases
  /\ calls \in 0..MaxCalls
  /\ faults \in 0..MaxFaults
  /\ acked \in Images
  /\ served \in Images

Init ==
  /\ map = Empty
  /\ file = <<>>
  /\ tmp = <<>>
  /\ queue = <<>>
  /\ phase = "booting"
  /\ calls = 0
  /\ faults = 0
  /\ acked = Empty
  /\ served = Empty

(***************************************************************************)
(* Mutants of Initialize: the temporary file is loaded; any file that      *)
(* exists is taken for missing.                                            *)
(***************************************************************************)
InitializeFromTemporary ==
  /\ phase = "booting"
  /\ IF file = <<>> THEN phase' = "writing" /\ UNCHANGED map
                    ELSE phase' = "free" /\ map' = tmp
  /\ UNCHANGED <<file, tmp, queue, calls, faults, acked, served>>

InitializeAfresh ==
  /\ phase = "booting"
  /\ phase' = "writing"
  /\ UNCHANGED <<map, file, tmp, queue, calls, faults, acked, served>>

(***************************************************************************)
(* initialize(): load the file, or create it when there is none.           *)
(***************************************************************************)
Initialize ==
  /\ phase = "booting"
  /\ IF file = <<>> THEN phase' = "writing" /\ UNCHANGED map
                    ELSE phase' = "free" /\ map' = file
  /\ UNCHANGED <<file, tmp, queue, calls, faults, acked, served>>

(***************************************************************************)
(* A caller enters exclusive(); nothing is called before initialize() is   *)
(* through.                                                                *)
(***************************************************************************)
Initialized == file # <<>> /\ phase # "booting"

Enqueue(call) ==
  /\ Initialized
  /\ calls < MaxCalls
  /\ calls' = calls + 1
  /\ queue' = Append(queue, call)
  /\ UNCHANGED <<map, file, tmp, phase, faults, acked, served>>

(***************************************************************************)
(* The first call of the queue runs: createIfAbsent of an existing job and *)
(* update of a missing one settle at once, any other call changes the map  *)
(* and starts to write.                                                    *)
(***************************************************************************)
Effective(call) == (call.op = "create") = (map[call.id] = 0)

\* Mutants of Run: update() resolves without awaiting persist(); a rejected
\* call rejects every later one, the queue promise not being caught.
RunUnawaited ==
  /\ phase = "free"
  /\ queue # <<>>
  /\ LET call == Head(queue)
     IN  IF Effective(call)
         THEN /\ map' = [map EXCEPT ![call.id] = @ + 1]
              /\ acked' = [acked EXCEPT ![call.id] = map'[call.id]]
              /\ phase' = "writing"
              /\ UNCHANGED queue
         ELSE /\ queue' = Tail(queue)
              /\ UNCHANGED <<map, phase, acked>>
  /\ UNCHANGED <<file, tmp, calls, faults, served>>

RunUnlessRejected ==
  /\ faults = 0
  /\ phase = "free"
  /\ queue # <<>>
  /\ map' = [map EXCEPT ![Head(queue).id] = @ + 1]
  /\ phase' = "writing"
  /\ UNCHANGED <<queue, file, tmp, calls, faults, acked, served>>

Run ==
  /\ phase = "free"
  /\ queue # <<>>
  /\ LET call == Head(queue)
     IN  IF Effective(call)
         THEN /\ map' = [map EXCEPT ![call.id] = @ + 1]
              /\ phase' = "writing"
              /\ UNCHANGED queue
         ELSE /\ queue' = Tail(queue)
              /\ UNCHANGED <<map, phase>>
  /\ UNCHANGED <<file, tmp, calls, faults, acked, served>>

\* Mutant of WriteTemporary: the file itself is written.
WriteInPlace ==
  /\ phase = "writing"
  /\ tmp' = map
  /\ file' = map
  /\ phase' = "renaming"
  /\ UNCHANGED <<map, queue, calls, faults, acked, served>>

(***************************************************************************)
(* persist(): write the whole map to the temporary file, rename it, and    *)
(* let the call resolve.  Either step may fail, leaving a partial          *)
(* temporary file or the old file behind; the call rejects then, and       *)
(* initialize() ends the process.                                          *)
(***************************************************************************)
WriteTemporary ==
  /\ phase = "writing"
  /\ tmp' = map
  /\ phase' = "renaming"
  /\ UNCHANGED <<map, file, queue, calls, faults, acked, served>>

Rename ==
  /\ phase = "renaming"
  /\ file' = tmp
  /\ tmp' = <<>>
  /\ phase' = "free"
  /\ IF queue = <<>> THEN UNCHANGED <<queue, acked>>
     ELSE /\ queue' = Tail(queue)
          /\ acked' = [acked EXCEPT ![Head(queue).id] = map[Head(queue).id]]
  /\ UNCHANGED <<map, calls, faults, served>>

PersistFails ==
  /\ phase \in {"writing", "renaming"}
  /\ faults < MaxFaults
  /\ faults' = faults + 1
  /\ tmp' = IF phase = "writing" THEN <<>> ELSE tmp
  /\ IF queue = <<>> THEN phase' = "booting" /\ UNCHANGED queue
                     ELSE phase' = "free" /\ queue' = Tail(queue)
  /\ UNCHANGED <<map, file, calls, acked, served>>

(***************************************************************************)
(* get() and list(), for the processors and for the status endpoints, read *)
(* the map as it is.                                                       *)
(***************************************************************************)
Get(id) ==
  /\ Initialized
  /\ map[id] > served[id]
  /\ served' = [served EXCEPT ![id] = map[id]]
  /\ UNCHANGED <<map, file, tmp, queue, phase, calls, faults, acked>>

(***************************************************************************)
(* The process dies at any point, possibly in the middle of the temporary  *)
(* file.                                                                   *)
(***************************************************************************)
Crash ==
  /\ faults < MaxFaults
  /\ faults' = faults + 1
  /\ phase' = "booting"
  /\ map' = Empty
  /\ queue' = <<>>
  /\ tmp' = IF phase = "writing" THEN <<>> ELSE tmp
  /\ UNCHANGED <<file, calls, acked, served>>

Next ==
  \/ Initialize
  \/ \E call \in Call : Enqueue(call)
  \/ Run \/ WriteTemporary \/ Rename \/ PersistFails
  \/ \E id \in Ids : Get(id)
  \/ Crash

Spec == Init /\ [][Next]_vars

(***************************************************************************)
(* Fairness: the process is started again, and its file operations settle. *)
(***************************************************************************)
FairSpec ==
  Spec /\ WF_vars(Initialize) /\ WF_vars(Run) /\ WF_vars(WriteTemporary \/ PersistFails)
       /\ WF_vars(Rename \/ PersistFails)

-----------------------------------------------------------------------------
(***************************************************************************)
(* The image as the callers know it: without the change of a write under   *)
(* way, and the file's while the process is down.                          *)
(***************************************************************************)
Durable == IF file = <<>> THEN Empty ELSE file

Image ==
  CASE phase = "booting" -> Durable
    [] phase \in {"writing", "renaming"} /\ queue # <<>> ->
         [map EXCEPT ![Head(queue).id] = @ - 1]
    [] OTHER -> map

(***************************************************************************)
(* The queue and the rename make every update atomic for its caller, a     *)
(* crash between any two steps included: the store implements AtomicStore, *)
(* which is how the processor modules use it.                              *)
(***************************************************************************)
Atomic == INSTANCE AtomicStore WITH Absent <- 0, jobs <- Image, file <- Durable
UpdatesAreAtomic == Atomic!Spec

(***************************************************************************)
(* What an update resolved with survives every later crash and failed      *)
(* write: "every transition is checkpointed" (ARCHITECTURE.md:45).         *)
(***************************************************************************)
ResolvedUpdatesAreDurable == \A id \in Ids : acked[id] <= Durable[id]

(***************************************************************************)
(* The file never goes back to an older state of a job, nor vanishes.      *)
(***************************************************************************)
FileNeverGoesBack == [][\A id \in Ids : Durable[id] <= Durable'[id]]_vars

(***************************************************************************)
(* A rejected write does not stall the callers behind it: the queue drains *)
(* again and again.                                                        *)
(***************************************************************************)
QueueDrains == []<>(queue = <<>>)

(***************************************************************************)
(* proofReceipt.ts:310 shows the served stage as "Current durable stage":  *)
(* what a reader was given is in the file.                                 *)
(***************************************************************************)
ServedJobsAreDurable == \A id \in Ids : served[id] <= Durable[id]
=============================================================================
