--------------------------- MODULE ProcessorCore ---------------------------
(***************************************************************************)
(* What TransactionProcessor and InstructionProcessor have in common: the  *)
(* job store, process(id) suspended at one of its awaits, its catch block, *)
(* the FDC requests and the Flare transactions it sends, and a crash.      *)
(*                                                                         *)
(* A store update is one step here; JobStore has the queue that makes it   *)
(* so.  Every other await is a step of its own.                            *)
(***************************************************************************)
EXTENDS JobRecord, Sequences

CONSTANTS
  Tx,           \* XRPL payments, by normalized transaction hash
  MaxAttempts,  \* options.maxAttempts
  MaxFaults     \* bound on crashes and failed writes of the job file

ASSUME CoreAssumption ==
  /\ MaxAttempts \in Nat \ {0}
  /\ MaxFaults \in Nat

VARIABLES
  jobs,     \* the store's Map, in memory
  file,     \* the store's JSON file
  pc,       \* the await process(id) is at; "idle" when id is not in `active'
  error,    \* the error on its way to recordFailure
  fdc,      \* number of FDC attestation requests sent for the payment
  flare,    \* Flare transactions sent for the payment, with their outcome
  faults,   \* crashes and failed writes so far
  recorded, \* observability only: transactions whose hash the file has held
  requested \* observability only: payments whose FDC request the file has held

storeVars == <<jobs, file, faults, recorded, requested>>

(***************************************************************************)
(* The awaits of process(id), in the order of the code.                    *)
(***************************************************************************)
Points ==
  {"idle", "claim", "prepare", "prepared", "request", "requested",
   "awaitRound", "roundFinal", "fetchProof", "proofFetched", "simulate",
   "send", "sent", "receipt", "settled", "failing"}

Outcomes == {"pending", "executed", "delayed", "reverted"}

CoreTypeOK ==
  /\ jobs \in [Tx -> Job]
  /\ file \in [Tx -> Job]
  /\ pc \in [Tx -> Points]
  /\ error \in [Tx -> Errors \cup {"none"}]
  /\ fdc \in [Tx -> Nat]
  /\ flare \in [Tx -> Seq(Outcomes)]
  /\ faults \in 0..MaxFaults
  /\ recorded \in [Tx -> SUBSET Nat]
  /\ requested \in SUBSET Tx

CoreInit ==
  /\ jobs = [t \in Tx |-> NoJob]
  /\ file = [t \in Tx |-> NoJob]
  /\ pc = [t \in Tx |-> "idle"]
  /\ error = [t \in Tx |-> "none"]
  /\ fdc = [t \in Tx |-> 0]
  /\ flare = [t \in Tx |-> <<>>]
  /\ faults = 0
  /\ recorded = [t \in Tx |-> {}]
  /\ requested = {}

(***************************************************************************)
(* The store: update() and createIfAbsent() change the map and then write  *)
(* the whole map to the file.  When the write fails the call rejects with  *)
(* the map already changed; the next successful write, of any job, takes   *)
(* that change with it.                                                    *)
(***************************************************************************)
Write(t, job, ok) ==
  /\ ok \/ faults < MaxFaults
  /\ jobs' = [jobs EXCEPT ![t] = job]
  /\ file' = IF ok THEN jobs' ELSE file
  /\ faults' = IF ok THEN faults ELSE faults + 1
  /\ recorded' = IF ok THEN [x \in Tx |-> recorded[x] \cup ({jobs'[x].execution} \ {0})]
                       ELSE recorded
  /\ requested' = IF ok THEN requested \cup {x \in Tx : Submitted(jobs'[x])} ELSE requested

Goto(t, point) == pc' = [pc EXCEPT ![t] = point]

(***************************************************************************)
(* Leave process(id) through its catch block with error e.                 *)
(***************************************************************************)
Throw(t, e) ==
  /\ Goto(t, "failing")
  /\ error' = [error EXCEPT ![t] = e]

(***************************************************************************)
(* checkpoint(): write the job and go on to next, or throw.                *)
(***************************************************************************)
Checkpoint(t, here, job, next, thrown, ok) ==
  /\ pc[t] = here
  /\ Write(t, job, ok)
  /\ IF ok THEN Goto(t, next) /\ UNCHANGED error ELSE Throw(t, thrown)
  /\ UNCHANGED <<fdc, flare>>

(***************************************************************************)
(* A call outside that returns, or throws one of the errors.               *)
(***************************************************************************)
CallReturns(t, here, next) ==
  /\ pc[t] = here
  /\ Goto(t, next)
  /\ UNCHANGED <<storeVars, error, fdc, flare>>

CallThrows(t, here, errors) ==
  /\ pc[t] = here
  /\ \E e \in errors : Throw(t, e)
  /\ UNCHANGED <<storeVars, fdc, flare>>

(***************************************************************************)
(* Start process(id) on a job of the map: nothing happens when id is       *)
(* active, the job is terminal or it is not due.                           *)
(***************************************************************************)
Process(t, job, due) ==
  IF pc[t] = "idle" /\ Pending(job) /\ due THEN Goto(t, "claim") ELSE UNCHANGED pc

(***************************************************************************)
(* submitRequest: it fails alike before its transaction is written, after, *)
(* and when the round id cannot be read.                                   *)
(***************************************************************************)
RequestAttestation(t, next) ==
  /\ pc[t] = "request"
  /\ \/ fdc' = [fdc EXCEPT ![t] = @ + 1] /\ Goto(t, next) /\ UNCHANGED error
     \/ fdc' = [fdc EXCEPT ![t] = @ + 1] /\ Throw(t, "retryable")
     \/ UNCHANGED fdc /\ Throw(t, "retryable")
  /\ UNCHANGED <<storeVars, flare>>

(***************************************************************************)
(* writeContract returns a hash, or throws before or after the transaction *)
(* reached the network.  The transaction sent is the last one of flare[t]. *)
(***************************************************************************)
Sent(t) == flare' = [flare EXCEPT ![t] = Append(@, "pending")]

SendTransaction(t) ==
  /\ pc[t] = "send"
  /\ \/ Sent(t) /\ Goto(t, "sent") /\ UNCHANGED error
     \/ Sent(t) /\ Throw(t, "retryable")
     \/ UNCHANGED flare /\ Throw(t, "retryable")
  /\ UNCHANGED <<storeVars, fdc>>

(***************************************************************************)
(* The catch block: recordFailure writes the failed job; whether or not    *)
(* that write succeeds the finally block frees the id.                     *)
(***************************************************************************)
Fail(t, job, ok) ==
  /\ pc[t] = "failing"
  /\ Write(t, job, ok)
  /\ Goto(t, "idle")
  /\ error' = [error EXCEPT ![t] = "none"]
  /\ UNCHANGED <<fdc, flare>>

(***************************************************************************)
(* The chain settles a pending transaction; a payment executes only once.  *)
(***************************************************************************)
Executed(t) == \E i \in DOMAIN flare[t] : flare[t][i] = "executed"

Mined(t, i, outcome) ==
  /\ i \in DOMAIN flare[t]
  /\ flare[t][i] = "pending"
  /\ outcome \in {"executed", "delayed"} => ~Executed(t)
  /\ flare' = [flare EXCEPT ![t][i] = outcome]
  /\ UNCHANGED <<storeVars, pc, error, fdc>>

(***************************************************************************)
(* The process dies and is started again: initialize() loads the file and  *)
(* everything else in memory is gone.                                      *)
(***************************************************************************)
Restart ==
  /\ faults < MaxFaults
  /\ faults' = faults + 1
  /\ jobs' = file
  /\ pc' = [t \in Tx |-> "idle"]
  /\ error' = [t \in Tx |-> "none"]
  /\ UNCHANGED <<file, recorded, requested, fdc, flare>>

-----------------------------------------------------------------------------
(***************************************************************************)
(* State predicates and actions the properties of both processors share.   *)
(***************************************************************************)

(***************************************************************************)
(* The transaction a job points at has executed.                           *)
(***************************************************************************)
RanOnChain(t, job) ==
  job.execution \in DOMAIN flare[t] /\ flare[t][job.execution] = "executed"

(***************************************************************************)
(* A transaction is sent for t although the file has held the hash of an   *)
(* earlier one whose fate the job did not learn to be `delayed'.           *)
(***************************************************************************)
BlindResubmission(t) ==
  /\ Len(flare'[t]) > Len(flare[t])
  /\ \E i \in recorded[t] : flare[t][i] # "delayed"

(***************************************************************************)
(* The file loses part of the attestation or the proof of t; an FDC        *)
(* request is sent for t although the file has held an earlier one.        *)
(***************************************************************************)
AttestationLost(t) ==
  \/ Progress(file'[t].attestation) < Progress(file[t].attestation)
  \/ file[t].proof /\ ~file'[t].proof

RequestRepeated(t) ==
  fdc'[t] > fdc[t] /\ t \in requested
=============================================================================
