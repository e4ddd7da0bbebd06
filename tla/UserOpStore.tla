---------------------------- MODULE UserOpStore ----------------------------
(***************************************************************************)
(* The executor's registry of user operations (userOpStore.ts): a map, the *)
(* queue its writes go through and the file they persist it to.  All       *)
(* payments are one sender's, and are numbered in the order the web posts  *)
(* their user operations (createdAt); p also stands for the hash of p's    *)
(* memo and for its user operation.                                        *)
(***************************************************************************)
EXTENDS Naturals, Sequences, FiniteSetsExt

CONSTANT Payments

ASSUME PaymentsAssumption == Payments \subseteq Nat \ {0}

VARIABLES
  entries,  \* the registry in memory
  opFile,   \* the registry's file
  putting   \* puts in the queue; the first may have entered the map

registryVars == <<entries, opFile, putting>>

NoUserOp == 0

RegistryInit == entries = {} /\ opFile = {} /\ putting = <<>>

(***************************************************************************)
(* put: the map is changed when the queue reaches the call, and the call   *)
(* resolves, or rejects, with the write of the whole map.                  *)
(***************************************************************************)
Put(p) == putting' = Append(putting, p) /\ UNCHANGED <<entries, opFile>>

PutEnters ==
  /\ putting # <<>> /\ Head(putting) \notin entries
  /\ entries' = entries \cup {Head(putting)}
  /\ UNCHANGED <<opFile, putting>>

PutPersists(ok) ==
  /\ putting # <<>> /\ Head(putting) \in entries
  /\ opFile' = IF ok THEN entries ELSE opFile
  /\ putting' = Tail(putting)
  /\ UNCHANGED entries

(***************************************************************************)
(* get and getBySource, as resolveUserOp (index.ts) uses them: the         *)
(* operation registered for this memo, else the sender's newest.           *)
(***************************************************************************)
GetBySource == IF entries = {} THEN NoUserOp ELSE Max(entries)

Resolved(p) == IF p \in entries THEN p ELSE GetBySource

(***************************************************************************)
(* The process dies, and initialize.                                       *)
(***************************************************************************)
RegistryLost == putting' = <<>> /\ entries' = {} /\ UNCHANGED opFile

RegistryInitialize == entries' = opFile /\ UNCHANGED <<opFile, putting>>
=============================================================================
