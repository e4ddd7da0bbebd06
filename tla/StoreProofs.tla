----------------------------- MODULE StoreProofs -----------------------------
(***************************************************************************)
(* Proofs about JobStore, for every set of ids and every bound: it loses   *)
(* nothing an update resolved with, and it implements AtomicStore.         *)
(***************************************************************************)
EXTENDS JobStore, TLAPS

(***************************************************************************)
(* The inductive invariant.                                                *)
(***************************************************************************)

(***************************************************************************)
(* A write is under way, for the first call of the queue or, with the      *)
(* queue empty, for initialize().                                          *)
(***************************************************************************)
Persisting == phase \in {"writing", "renaming"}
InFlight == Persisting /\ queue # <<>>

(***************************************************************************)
(* A version counts calls: each takes the job it changes one further, once *)
(* it has run.  Waiting calls have not.                                    *)
(***************************************************************************)
Waiting == IF InFlight THEN Len(queue) - 1 ELSE Len(queue)

Counted ==
  \A id \in Ids : /\ map[id] + Waiting <= calls
                  /\ Durable[id] <= calls

(***************************************************************************)
(* The file exists but before and during the first initialize(), and a     *)
(* process that is down has no map and no queue.                           *)
(***************************************************************************)
Lifecycle ==
  /\ phase = "booting" => map = Empty /\ queue = <<>>
  /\ phase = "free" => file # <<>>
  /\ queue # <<>> => file # <<>>
  /\ Persisting /\ queue = <<>> => file = <<>> /\ map = Empty

(***************************************************************************)
(* The map is ahead of the file, by the change under way at least, the     *)
(* temporary file about to be renamed is the map, and the file is ahead of *)
(* every call that resolved.                                               *)
(***************************************************************************)
Ahead ==
  /\ phase # "booting" => \A id \in Ids : Durable[id] <= map[id]
  /\ InFlight => map[Head(queue).id] > 0
  /\ phase = "renaming" => tmp = map
  /\ ResolvedUpdatesAreDurable

IInv == TypeOK /\ Counted /\ Lifecycle /\ Ahead

(***************************************************************************)
(* What the lemmas below prove of a step: it keeps the invariant, the file *)
(* goes back in nothing, and the step is one of AtomicStore or a stutter.  *)
(***************************************************************************)
Kept == \A id \in Ids : Durable[id] <= Durable'[id]

Implements == Atomic!Next \/ UNCHANGED <<Image, Durable>>

SafeStep == IInv' /\ Kept /\ Implements

\* An image is a map with at least one id, so no image is the missing file.
LEMMA ImagesNotMissing == ASSUME NEW image \in Images PROVE image # <<>>
<1>1. PICK id \in Ids : TRUE
  BY StoreAssumption
<1>2. DOMAIN image = Ids /\ DOMAIN <<>> = {}
  BY DEF Images
<1>3. QED
  BY <1>1, <1>2

\* The types of what the invariant talks about, spelled out.
LEMMA Facts ==
  ASSUME IInv
  PROVE  /\ map \in Images /\ acked \in Images /\ served \in Images
         /\ Empty \in Images /\ Durable \in Images
         /\ file # <<>> => file \in Images
         /\ tmp \in Images \cup {<<>>} /\ queue \in Seq(Call) /\ phase \in Phases
         /\ calls \in Nat /\ calls <= MaxCalls /\ faults \in Nat /\ MaxCalls \in Nat
         /\ \A image \in Images, id \in Ids : image[id] \in Nat
<1>1. Empty \in Images
  BY StoreAssumption DEF Empty, Images
<1>2. QED
  BY <1>1, StoreAssumption DEF IInv, TypeOK, Durable, Images

\* The first call of the queue and the rest of it.
LEMMA QueueFacts ==
  ASSUME NEW q \in Seq(Call), q # <<>>
  PROVE  /\ Head(q) \in Call /\ Head(q).id \in Ids
         /\ Tail(q) \in Seq(Call) /\ Len(Tail(q)) = Len(q) - 1
         /\ Len(q) \in Nat /\ Len(q) >= 1
<1>1. Len(q) \in Nat /\ Len(q) >= 1
  OBVIOUS
<1>2. Tail(q) \in Seq(Call) /\ Len(Tail(q)) = Len(q) - 1
  BY <1>1
<1>3. Head(q) \in Call
  BY <1>1
<1>4. QED
  BY <1>1, <1>2, <1>3 DEF Call

\* A step that changes neither the map, the file, the queue nor the phase.
LEMMA QuietKeepsInv ==
  ASSUME IInv, UNCHANGED <<map, file, tmp, queue, phase, calls, acked>>, TypeOK'
  PROVE  SafeStep
<1>1. UNCHANGED <<Image, Durable>>
  BY DEF Image, Durable
<1>2. IInv'
  BY <1>1 DEF IInv, Counted, Lifecycle, Ahead, Waiting, InFlight, Persisting,
              ResolvedUpdatesAreDurable
<1>3. Kept
  BY <1>1, Facts DEF Kept
<1>4. QED
  BY <1>1, <1>2, <1>3 DEF SafeStep, Implements

\* get and list change nothing of the store.
LEMMA GetKeepsInv == ASSUME IInv, NEW id \in Ids, Get(id) PROVE SafeStep
<1>1. served' \in Images
  BY Facts DEF Get, Images
<1>2. QED
  BY <1>1, QuietKeepsInv DEF Get, IInv, TypeOK

\* initialize() makes the map what the callers knew it to be.
LEMMA InitializeKeepsInv == ASSUME IInv, Initialize PROVE SafeStep
<1>1. /\ phase = "booting" /\ map = Empty /\ queue = <<>>
      /\ UNCHANGED <<file, tmp, queue, calls, faults, acked, served>>
  BY DEF Initialize, IInv, Lifecycle
<1>2. Durable' = Durable /\ Image = Durable
  BY <1>1 DEF Durable, Image
<1>3. /\ phase' \in {"writing", "free"} /\ map' = Durable
      /\ phase' = "writing" <=> file = <<>>
  BY <1>1 DEF Initialize, Durable
<1>4. Image' = Durable
  BY <1>1, <1>3 DEF Image
<1>5. TypeOK'
  BY <1>1, <1>3, Facts DEF IInv, TypeOK, Phases
<1>6. Counted'
  <2>1. Len(queue) = 0 /\ Waiting' = 0
    BY <1>1 DEF Waiting, InFlight
  <2>2. \A id \in Ids : map'[id] \in Nat /\ map'[id] <= calls'
    BY <1>1, <1>3, Facts DEF IInv, Counted
  <2>3. QED
    BY <1>1, <1>2, <2>1, <2>2 DEF IInv, Counted
<1>7. Lifecycle'
  BY <1>1, <1>3 DEF Lifecycle, Persisting, Durable
<1>8. Ahead'
  <2>1. \A id \in Ids : Durable'[id] <= map'[id]
    BY <1>2, <1>3, Facts
  <2>2. QED
    BY <1>1, <1>2, <1>3, <2>1 DEF IInv, Ahead, InFlight, ResolvedUpdatesAreDurable
<1>9. Kept
  BY <1>2, Facts DEF Kept
<1>10. QED
  BY <1>2, <1>4, <1>5, <1>6, <1>7, <1>8, <1>9 DEF SafeStep, IInv, Implements

\* A call that enters the queue has not run.
LEMMA EnqueueKeepsInv == ASSUME IInv, NEW call \in Call, Enqueue(call) PROVE SafeStep
<1>1. /\ file # <<>> /\ phase # "booting" /\ calls < MaxCalls /\ calls' = calls + 1
      /\ queue' = Append(queue, call)
      /\ UNCHANGED <<map, file, tmp, phase, faults, acked, served>>
  BY DEF Enqueue, Initialized
<1>2. /\ queue' \in Seq(Call) /\ queue' # <<>> /\ Len(queue') = Len(queue) + 1
      /\ Len(queue) \in Nat /\ (queue # <<>> => Head(queue') = Head(queue))
  BY <1>1, Facts
<1>3. Persisting => queue # <<>>
  BY <1>1 DEF IInv, Lifecycle
<1>4. Durable' = Durable /\ InFlight' = InFlight
  BY <1>1, <1>2, <1>3 DEF Durable, InFlight, Persisting
<1>5. Image' = Image
  BY <1>1, <1>2, <1>3, <1>4 DEF Image, Persisting
<1>6. TypeOK'
  <2>1. calls' \in 0..MaxCalls
    BY <1>1, Facts
  <2>2. QED
    BY <1>1, <1>2, <2>1 DEF IInv, TypeOK
<1>7. Counted'
  <2>1. Waiting \in Nat /\ Waiting' = Waiting + 1
    BY <1>2, <1>4, Facts DEF Waiting, InFlight
  <2>2. ASSUME NEW id \in Ids
        PROVE  map'[id] + Waiting' <= calls' /\ Durable'[id] <= calls'
    <3>1. map[id] \in Nat /\ Durable[id] \in Nat /\ calls \in Nat
      BY Facts
    <3>2. map[id] + Waiting <= calls /\ Durable[id] <= calls
      BY DEF IInv, Counted
    <3>3. QED
      BY <1>1, <1>4, <2>1, <3>1, <3>2
  <2>3. QED
    BY <2>2 DEF Counted
<1>8. Lifecycle'
  BY <1>1, <1>2 DEF IInv, Lifecycle, Persisting
<1>9. Ahead'
  BY <1>1, <1>2, <1>4 DEF IInv, Ahead, InFlight, ResolvedUpdatesAreDurable
<1>10. Kept
  BY <1>4, Facts DEF Kept
<1>11. QED
  BY <1>4, <1>5, <1>6, <1>7, <1>8, <1>9, <1>10 DEF SafeStep, IInv, Implements

\* A call that has nothing to do settles at once and leaves the store as it is.
LEMMA SettleKeepsInv ==
  ASSUME IInv, Run, ~Effective(Head(queue)) PROVE SafeStep
<1>1. /\ phase = "free" /\ queue # <<>> /\ queue' = Tail(queue)
      /\ UNCHANGED <<map, file, tmp, phase, calls, faults, acked, served>>
  BY DEF Run
<1>2. /\ Tail(queue) \in Seq(Call) /\ Len(Tail(queue)) = Len(queue) - 1
      /\ Len(queue) \in Nat /\ Len(queue) >= 1
  BY <1>1, Facts, QueueFacts
<1>3. Durable' = Durable /\ Image' = Image /\ ~InFlight /\ ~InFlight'
  BY <1>1 DEF Durable, Image, InFlight, Persisting
<1>4. TypeOK'
  BY <1>1, <1>2 DEF IInv, TypeOK
<1>5. Counted'
  <2>1. Waiting = Len(queue) /\ Waiting' = Len(queue) - 1
    BY <1>1, <1>2, <1>3 DEF Waiting
  <2>2. ASSUME NEW id \in Ids
        PROVE  map'[id] + Waiting' <= calls' /\ Durable'[id] <= calls'
    <3>1. map[id] \in Nat /\ calls \in Nat
      BY Facts
    <3>2. map[id] + Waiting <= calls /\ Durable[id] <= calls
      BY DEF IInv, Counted
    <3>3. QED
      BY <1>1, <1>2, <1>3, <2>1, <3>1, <3>2
  <2>3. QED
    BY <2>2 DEF Counted
<1>6. Lifecycle'
  BY <1>1 DEF IInv, Lifecycle, Persisting
<1>7. Ahead'
  BY <1>1, <1>3 DEF IInv, Ahead, ResolvedUpdatesAreDurable
<1>8. Kept
  BY <1>3, Facts DEF Kept
<1>9. QED
  BY <1>3, <1>4, <1>5, <1>6, <1>7, <1>8 DEF SafeStep, IInv, Implements

\* A call that changes the map does so unseen by its caller until the write is through.
LEMMA ChangeKeepsInv ==
  ASSUME IInv, Run, Effective(Head(queue)) PROVE SafeStep
<1> DEFINE h == Head(queue).id
<1>1. /\ phase = "free" /\ queue # <<>> /\ phase' = "writing"
      /\ map' = [map EXCEPT ![h] = @ + 1]
      /\ UNCHANGED <<queue, file, tmp, calls, faults, acked, served>>
  BY DEF Run
<1>2. h \in Ids /\ Len(queue) \in Nat /\ Len(queue) >= 1
  BY <1>1, Facts, QueueFacts
<1> HIDE DEF h
<1>3. map \in Images /\ (\A id \in Ids : map[id] \in Nat) /\ calls \in Nat /\ MaxCalls \in Nat
  BY Facts
<1>4. /\ map'[h] = map[h] + 1 /\ DOMAIN map' = Ids
      /\ \A id \in Ids \ {h} : map'[id] = map[id]
  BY <1>1, <1>2, <1>3 DEF Images
<1>5. ~InFlight /\ InFlight' /\ Durable' = Durable
  BY <1>1 DEF InFlight, Persisting, Durable
<1>6. Waiting = Len(queue) /\ Waiting' = Len(queue) - 1
  BY <1>1, <1>5 DEF Waiting
<1>7. ASSUME NEW id \in Ids
      PROVE  /\ map[id] + Len(queue) <= calls /\ Durable[id] <= calls
             /\ map'[id] + (Len(queue) - 1) <= calls
             /\ map'[id] \in Nat /\ map[id] <= map'[id]
  <2>1. map[id] + Len(queue) <= calls /\ Durable[id] <= calls
    BY <1>6 DEF IInv, Counted
  <2>2. map'[id] \in {map[id], map[id] + 1}
    BY <1>2, <1>4
  <2>3. QED
    BY <1>2, <1>3, <2>1, <2>2
<1>8. TypeOK'
  <2>1. \A id \in Ids : map'[id] \in 0..MaxCalls
    <3> SUFFICES ASSUME NEW id \in Ids PROVE map'[id] \in 0..MaxCalls
      OBVIOUS
    <3>1. map'[id] \in Nat /\ map'[id] + (Len(queue) - 1) <= calls
      BY <1>7
    <3>2. QED
      BY <1>2, <1>3, <3>1, Facts
  <2>2. map' \in Images
    BY <1>1, <1>2, <1>3, <1>4, <2>1 DEF Images
  <2>3. QED
    BY <1>1, <2>2 DEF IInv, TypeOK, Phases
<1>9. Counted'
  BY <1>1, <1>5, <1>6, <1>7 DEF Counted
<1>10. Lifecycle'
  BY <1>1 DEF IInv, Lifecycle, Persisting
<1>11. Ahead'
  <2>1. \A id \in Ids : Durable'[id] <= map'[id]
    <3> SUFFICES ASSUME NEW id \in Ids PROVE Durable'[id] <= map'[id]
      OBVIOUS
    <3>1. Durable[id] \in Nat /\ Durable[id] <= map[id]
      BY <1>1, Facts DEF IInv, Ahead
    <3>2. QED
      BY <1>3, <1>5, <1>7, <3>1
  <2>2. map'[h] > 0
    BY <1>2, <1>3, <1>4
  <2>3. QED
    BY <1>1, <1>5, <2>1, <2>2 DEF IInv, Ahead, ResolvedUpdatesAreDurable, h
<1>12. Image' = Image
  <2>1. Image = map /\ Image' = [map' EXCEPT ![h] = @ - 1]
    BY <1>1 DEF Image, h
  <2>2. [map' EXCEPT ![h] = @ - 1] = map
    <3>1. map'[h] - 1 = map[h]
      BY <1>2, <1>3, <1>4
    <3>2. QED
      BY <1>1, <1>2, <1>3, <3>1 DEF Images
  <2>3. QED
    BY <2>1, <2>2
<1>13. Kept
  BY <1>5, Facts DEF Kept
<1>14. QED
  BY <1>5, <1>8, <1>9, <1>10, <1>11, <1>12, <1>13 DEF SafeStep, IInv, Implements

\* The temporary file takes the map as it is during the whole write.
LEMMA WriteTemporaryKeepsInv == ASSUME IInv, WriteTemporary PROVE SafeStep
<1>1. /\ phase = "writing" /\ phase' = "renaming" /\ tmp' = map
      /\ UNCHANGED <<map, file, queue, calls, faults, acked, served>>
  BY DEF WriteTemporary
<1>2. Durable' = Durable /\ InFlight' = InFlight /\ Image' = Image /\ Waiting' = Waiting
  BY <1>1 DEF Durable, InFlight, Persisting, Image, Waiting
<1>3. TypeOK'
  BY <1>1, Facts DEF IInv, TypeOK, Phases
<1>4. Counted' /\ Lifecycle' /\ Ahead'
  BY <1>1, <1>2 DEF IInv, Counted, Lifecycle, Persisting, Ahead, ResolvedUpdatesAreDurable
<1>5. Kept
  BY <1>2, Facts DEF Kept
<1>6. QED
  BY <1>2, <1>3, <1>4, <1>5 DEF SafeStep, IInv, Implements

\* initialize() creates the file with the empty map the callers knew.
LEMMA CreateFileKeepsInv == ASSUME IInv, Rename, queue = <<>> PROVE SafeStep
<1>1. /\ phase = "renaming" /\ phase' = "free" /\ file' = tmp /\ tmp' = <<>>
      /\ UNCHANGED <<map, queue, calls, faults, acked, served>>
  BY DEF Rename
<1>2. file = <<>> /\ map = Empty /\ tmp = map
  BY <1>1 DEF IInv, Lifecycle, Persisting, Ahead
<1>3. file' \in Images /\ file' # <<>> /\ file' = Empty
  BY <1>1, <1>2, Facts, ImagesNotMissing
<1>4. Durable = Empty /\ Durable' = Empty /\ Image = map /\ Image' = map
  BY <1>1, <1>2, <1>3 DEF Durable, Image
<1>5. ~InFlight /\ ~InFlight' /\ Waiting' = Waiting
  BY <1>1 DEF InFlight, Waiting
<1>6. TypeOK'
  BY <1>1, <1>3 DEF IInv, TypeOK, Phases
<1>7. Counted'
  BY <1>1, <1>4, <1>5 DEF IInv, Counted
<1>8. Lifecycle'
  BY <1>1, <1>3 DEF Lifecycle, Persisting
<1>9. Ahead'
  <2>1. \A id \in Ids : Empty[id] <= Empty[id]
    BY Facts
  <2>2. ResolvedUpdatesAreDurable'
    BY <1>1, <1>4 DEF IInv, Ahead, ResolvedUpdatesAreDurable
  <2>3. QED
    BY <1>1, <1>2, <1>4, <1>5, <2>1, <2>2 DEF Ahead
<1>10. Kept
  BY <1>4, Facts DEF Kept
<1>11. QED
  BY <1>1, <1>4, <1>6, <1>7, <1>8, <1>9, <1>10 DEF SafeStep, IInv, Implements

\* The change of the first call is all that a caller has not seen of the map.
LEMMA FirstChange ==
  ASSUME IInv, InFlight
  PROVE  LET h == Head(queue).id
         IN  /\ h \in Ids /\ Image = [map EXCEPT ![h] = @ - 1]
             /\ map = [Image EXCEPT ![h] = map[h]]
<1> DEFINE h == Head(queue).id
<1>1. h \in Ids
  BY Facts, QueueFacts DEF InFlight
<1>2. Image = [map EXCEPT ![h] = @ - 1]
  BY DEF Image, InFlight, Persisting
<1>3. map \in Images
  BY Facts
<1> HIDE DEF h
<1>4. map = [[map EXCEPT ![h] = @ - 1] EXCEPT ![h] = map[h]]
  BY <1>1, <1>3 DEF Images
<1>5. QED
  BY <1>1, <1>2, <1>4 DEF h

\* The rename makes the change durable and visible at once: AtomicStore's Update.
LEMMA RenameKeepsInv == ASSUME IInv, Rename, queue # <<>> PROVE SafeStep
<1> DEFINE h == Head(queue).id
<1>1. /\ phase = "renaming" /\ phase' = "free" /\ file' = tmp /\ tmp' = <<>>
      /\ queue' = Tail(queue) /\ acked' = [acked EXCEPT ![h] = map[h]]
      /\ UNCHANGED <<map, calls, faults, served>>
  BY DEF Rename
<1>2. InFlight /\ ~InFlight' /\ tmp = map
  BY <1>1 DEF InFlight, Persisting, IInv, Ahead
<1>3. /\ h \in Ids /\ map = [Image EXCEPT ![h] = map[h]]
      /\ Tail(queue) \in Seq(Call) /\ Len(Tail(queue)) = Len(queue) - 1
  BY <1>2, Facts, QueueFacts, FirstChange DEF InFlight
<1> HIDE DEF h
<1>4. /\ map \in Images /\ acked \in Images /\ map # <<>>
      /\ \A id \in Ids : map[id] \in Nat /\ Durable[id] \in Nat /\ acked[id] \in Nat
  BY Facts, ImagesNotMissing
<1>5. file' = map /\ Durable' = map /\ Image' = map
  BY <1>1, <1>2, <1>4 DEF Durable, Image
<1>6. \A id \in Ids : Durable[id] <= map[id] /\ acked[id] <= Durable[id] /\ map[id] + Waiting <= calls
  BY <1>1 DEF IInv, Ahead, ResolvedUpdatesAreDurable, Counted
<1>7. Waiting' = Waiting /\ Waiting \in Nat
  <2>1. Waiting = Len(queue) - 1 /\ Waiting' = Len(Tail(queue))
    BY <1>1, <1>2 DEF Waiting
  <2>2. Len(queue) \in Nat /\ Len(queue) >= 1
    BY Facts, QueueFacts
  <2>3. QED
    BY <1>3, <2>1, <2>2
<1>8. acked' \in Images /\ \A id \in Ids : acked'[id] \in {acked[id], map[id]}
  BY <1>1, <1>3, <1>4 DEF Images
<1>9. TypeOK'
  BY <1>1, <1>3, <1>4, <1>5, <1>8 DEF IInv, TypeOK, Phases
<1>10. Counted'
  <2>1. ASSUME NEW id \in Ids PROVE map'[id] + Waiting' <= calls' /\ Durable'[id] <= calls'
    <3>1. map[id] + Waiting <= calls /\ map[id] \in Nat /\ calls \in Nat
      BY <1>6, Facts
    <3>2. map[id] <= calls
      BY <1>7, <3>1
    <3>3. QED
      BY <1>1, <1>5, <1>7, <3>1, <3>2
  <2>2. QED
    BY <2>1 DEF Counted
<1>11. Lifecycle'
  BY <1>1, <1>4, <1>5 DEF Lifecycle, Persisting
<1>12. Ahead'
  <2>1. \A id \in Ids : acked'[id] <= map[id] /\ map[id] <= map[id]
    <3> SUFFICES ASSUME NEW id \in Ids PROVE acked'[id] <= map[id] /\ map[id] <= map[id]
      OBVIOUS
    <3>1. acked[id] <= map[id] /\ map[id] <= map[id]
      BY <1>4, <1>6
    <3>2. QED
      BY <1>8, <3>1
  <2>2. QED
    BY <1>1, <1>2, <1>5, <2>1 DEF Ahead, ResolvedUpdatesAreDurable
<1>13. Kept
  BY <1>5, <1>6 DEF Kept
<1>14. Implements
  BY <1>1, <1>3, <1>5 DEF Implements, Atomic!Next, Atomic!Update
<1>15. QED
  BY <1>9, <1>10, <1>11, <1>12, <1>13, <1>14 DEF SafeStep, IInv

\* A failed write of a call leaves its change in the map: AtomicStore's Update, rejected.
LEMMA RejectKeepsInv == ASSUME IInv, PersistFails, queue # <<>> PROVE SafeStep
<1>1. /\ phase \in {"writing", "renaming"} /\ phase' = "free" /\ queue' = Tail(queue)
      /\ tmp' \in {<<>>, tmp} /\ faults < MaxFaults /\ faults' = faults + 1
      /\ UNCHANGED <<map, file, calls, acked, served>>
  BY DEF PersistFails
<1>2. InFlight /\ ~InFlight' /\ file # <<>>
  BY <1>1 DEF InFlight, Persisting, IInv, Lifecycle
<1>3. /\ Head(queue).id \in Ids
      /\ map = [Image EXCEPT ![Head(queue).id] = map[Head(queue).id]]
      /\ Tail(queue) \in Seq(Call) /\ Len(Tail(queue)) = Len(queue) - 1
  BY <1>2, Facts, QueueFacts, FirstChange DEF InFlight
<1>4. Durable' = Durable /\ Image' = map /\ Waiting' = Waiting
  BY <1>1, <1>2, <1>3 DEF Durable, Image, Waiting
<1>5. TypeOK'
  <2>1. faults' \in 0..MaxFaults
    BY <1>1, StoreAssumption DEF IInv, TypeOK
  <2>2. QED
    BY <1>1, <1>3, <2>1 DEF IInv, TypeOK, Phases
<1>6. Counted' /\ Lifecycle'
  BY <1>1, <1>2, <1>4 DEF IInv, Counted, Lifecycle, Persisting
<1>7. Ahead'
  BY <1>1, <1>2, <1>4 DEF IInv, Ahead, ResolvedUpdatesAreDurable
<1>8. Kept
  BY <1>4, Facts DEF Kept
<1>9. Implements
  BY <1>1, <1>3, <1>4 DEF Implements, Atomic!Next, Atomic!Update
<1>10. QED
  BY <1>5, <1>6, <1>7, <1>8, <1>9 DEF SafeStep, IInv

\* A failed initialize() ends the process, which had nothing yet.
LEMMA BootFailsKeepsInv == ASSUME IInv, PersistFails, queue = <<>> PROVE SafeStep
<1>1. /\ phase \in {"writing", "renaming"} /\ phase' = "booting"
      /\ tmp' \in {<<>>, tmp} /\ faults < MaxFaults /\ faults' = faults + 1
      /\ UNCHANGED <<map, file, queue, calls, acked, served>>
  BY DEF PersistFails
<1>2. file = <<>> /\ map = Empty /\ ~InFlight /\ ~InFlight'
  BY <1>1 DEF InFlight, Persisting, IInv, Lifecycle
<1>3. Durable = Empty /\ Durable' = Durable /\ Image = Empty /\ Image' = Empty /\ Waiting' = Waiting
  BY <1>1, <1>2 DEF Durable, Image, Waiting
<1>4. TypeOK'
  <2>1. faults' \in 0..MaxFaults
    BY <1>1, StoreAssumption DEF IInv, TypeOK
  <2>2. QED
    BY <1>1, <2>1 DEF IInv, TypeOK, Phases
<1>5. Counted' /\ Lifecycle'
  BY <1>1, <1>2, <1>3 DEF IInv, Counted, Lifecycle, Persisting
<1>6. Ahead'
  BY <1>1, <1>2, <1>3 DEF IInv, Ahead, ResolvedUpdatesAreDurable
<1>7. Kept
  BY <1>3, Facts DEF Kept
<1>8. QED
  BY <1>3, <1>4, <1>5, <1>6, <1>7 DEF SafeStep, IInv, Implements

\* A crash leaves the file alone, which is what the next process knows: AtomicStore's Reload.
LEMMA CrashKeepsInv == ASSUME IInv, Crash PROVE SafeStep
<1>1. /\ phase' = "booting" /\ map' = Empty /\ queue' = <<>> /\ tmp' \in {<<>>, tmp}
      /\ faults < MaxFaults /\ faults' = faults + 1
      /\ UNCHANGED <<file, calls, acked, served>>
  BY DEF Crash
<1>2. Durable' = Durable /\ Image' = Durable /\ Waiting' = 0
  BY <1>1 DEF Durable, Image, Waiting, InFlight, Persisting
<1>3. TypeOK'
  <2>1. faults' \in 0..MaxFaults
    BY <1>1, StoreAssumption DEF IInv, TypeOK
  <2>2. QED
    BY <1>1, <2>1, Facts DEF IInv, TypeOK, Phases
<1>4. Counted'
  <2>1. \A id \in Ids : Empty[id] = 0
    BY DEF Empty
  <2>2. calls \in Nat /\ 0 + 0 <= calls
    BY Facts
  <2>3. QED
    BY <1>1, <1>2, <2>1, <2>2 DEF IInv, Counted
<1>5. Lifecycle'
  BY <1>1 DEF Lifecycle, Persisting
<1>6. Ahead'
  BY <1>1, <1>2 DEF IInv, Ahead, InFlight, Persisting, ResolvedUpdatesAreDurable
<1>7. Kept
  BY <1>2, Facts DEF Kept
<1>8. Implements
  BY <1>2 DEF Implements, Atomic!Next, Atomic!Reload
<1>9. QED
  BY <1>3, <1>4, <1>5, <1>6, <1>7, <1>8 DEF SafeStep, IInv

\* The invariant holds before the first initialize().
LEMMA InitInv == Init => IInv
<1> SUFFICES ASSUME Init PROVE IInv
  OBVIOUS
<1>1. Empty \in Images /\ \A id \in Ids : Empty[id] = 0
  BY StoreAssumption DEF Empty, Images
<1>2. Durable = Empty /\ Waiting = 0
  BY DEF Init, Durable, Waiting, InFlight
<1>3. TypeOK
  BY <1>1, StoreAssumption DEF Init, TypeOK, Phases
<1>4. Counted
  BY <1>1, <1>2 DEF Init, Counted
<1>5. Lifecycle /\ Ahead
  BY <1>1, <1>2 DEF Init, Lifecycle, Ahead, Persisting, InFlight, ResolvedUpdatesAreDurable
<1>6. QED
  BY <1>3, <1>4, <1>5 DEF IInv

\* Every step is safe.
LEMMA NextKeepsInv == IInv /\ [Next]_vars => SafeStep
<1> SUFFICES ASSUME IInv, [Next]_vars PROVE SafeStep
  OBVIOUS
<1>1. CASE UNCHANGED vars
  BY <1>1, QuietKeepsInv DEF vars, IInv, TypeOK
<1>2. CASE Next
  BY <1>2, InitializeKeepsInv, EnqueueKeepsInv, SettleKeepsInv, ChangeKeepsInv,
     WriteTemporaryKeepsInv, CreateFileKeepsInv, RenameKeepsInv, RejectKeepsInv,
     BootFailsKeepsInv, GetKeepsInv, CrashKeepsInv DEF Next
<1>3. QED
  BY <1>1, <1>2

(***************************************************************************)
(* The theorems.                                                           *)
(***************************************************************************)

(***************************************************************************)
(* The inductive invariant holds in every reachable state, whatever crashes*)
(* and failed writes happen.                                               *)
(***************************************************************************)
THEOREM StoreInvariance == Spec => []IInv
<1>1. IInv /\ [Next]_vars => IInv'
  BY NextKeepsInv DEF SafeStep
<1>2. QED
  BY <1>1, InitInv, PTL DEF Spec

(***************************************************************************)
(* Type correctness of the job store: in particular no version ever        *)
(* exceeds the number of calls made.                                       *)
(***************************************************************************)
THEOREM StoreTypeCorrect == Spec => []TypeOK
<1>1. IInv => TypeOK
  BY DEF IInv
<1>2. QED
  BY <1>1, StoreInvariance, PTL

(***************************************************************************)
(* What an update resolved with survives every later crash and failed      *)
(* write.                                                                  *)
(***************************************************************************)
THEOREM UpdatesDurable == Spec => []ResolvedUpdatesAreDurable
<1>1. IInv => ResolvedUpdatesAreDurable
  BY DEF IInv, Ahead
<1>2. QED
  BY <1>1, StoreInvariance, PTL

(***************************************************************************)
(* The file never goes back to an older state of a job.                    *)
(***************************************************************************)
THEOREM FileOnlyGrows == Spec => FileNeverGoesBack
<1>1. IInv /\ [Next]_vars => \A id \in Ids : Durable[id] <= Durable'[id]
  BY NextKeepsInv DEF SafeStep, Kept
<1>2. QED
  BY <1>1, StoreInvariance, PTL DEF Spec, FileNeverGoesBack

(***************************************************************************)
(* The store implements AtomicStore: every update is atomic for its        *)
(* caller, also when the process dies between any two of its steps.        *)
(***************************************************************************)
THEOREM StoreIsAtomic == Spec => UpdatesAreAtomic
<1>1. Init => Atomic!Init
  BY DEF Init, Atomic!Init, Image, Durable, Empty
<1>2. IInv /\ [Next]_vars => [Atomic!Next]_<<Image, Durable>>
  BY NextKeepsInv DEF SafeStep, Implements
<1>3. QED
  BY <1>1, <1>2, StoreInvariance, PTL DEF Spec, UpdatesAreAtomic, Atomic!Spec
=============================================================================
