# FlareRamp in TLA+

FlareRamp turns an XRP payment on the XRP Ledger into FXRP (or into a Smart
Account instruction) on Flare. A web application reviews the payment and has it
signed in the Xaman wallet; the browser follows it. The executor, a single Node
process, sees the payment on the ledger, obtains a proof of it from the Flare
Data Connector (FDC) and executes it on Flare. What can go wrong for good is

* in the executor: it spends money (FDC fees, gas) and settles other people's
  payments while it may crash, fail to write its files, or lose an answer at
  any await;
* before it: a payment that was signed cannot be taken back, so what the web
  asks for must be what the user typed, must take effect on Flare, and must
  find its user operation in the executor;
* in the browser: a payment that was signed must not be called cancelled, must
  not be lost by a reload, and must be shown to its end.

The modules here specify these parts, TLC checks them on small instances, and
TLAPS proves for every instance every safety property that TLC checks: of the
jobs of both processors and their receipts, of the job store and its refinement,
of the ingestion and the watcher, of payments from the review to the contracts,
of both signing pages, of polls and of request windows. Liveness is left to TLC.
All paths below are relative to the repository; `executor/src/` is left out for
the executor's files.

## 1. Inventory

| component | code | state | operations | talks to |
|---|---|---|---|---|
| Mint processor | `transactionProcessor.ts` | `active` set, the local `job` of each `process(id)` | `observe`, `resumePending`, `process`, `checkpoint`, `recordFailure` | store, FDC pipeline, Flare executor, user operations |
| Instruction processor | `instructionProcessor.ts` | the same | the same | store, FDC Payment pipeline, instruction executor |
| Job store | `transactionStore.ts` | map, JSON file, temporary file, promise queue | `initialize`, `createIfAbsent`, `update`, `get`, `list` | disk |
| FDC pipelines | `fdcProof.ts`, `fdcPaymentProof.ts` | none of their own: a `resume` argument and callbacks | prepare, submit, poll the round, poll the proof | verifier, FdcHub, Relay, DA layer |
| Flare executors | `flareExecutor.ts`, `instructionExecutor.ts` | none | simulate, submit, wait for the receipt, recover by hash | AssetManager, MasterAccountController |
| Process | `index.ts` | timers, wiring | start, retry timer, shutdown | everything |
| XRPL watcher | `xrplWatcher.ts`, `observeExisting.ts` | connection, backoff | subscribe, deliver, reconnect | `observe` |
| User operation registry | `userOpStore.ts` | map and file | `put`, `get`, `getBySource` | web backend (through the health server), `observe` |
| Status server | `healthServer.ts` | request windows | status, metrics, settlement index, `POST /userops` | store, registry |
| Signing service | `xamanDirectMint.ts` | none (Xaman keeps the payload) | create, status, cancel | Xaman, XRPL |
| Mint readiness | `mintReadiness.ts` | none | quote, memo decoding, checks | Flare |
| Web mint flow | `web/lib/server/mintFlow.ts`, `mintStatus.ts` | none | review, sign, progress | executor, Xaman |
| Proof receipt | `web/lib/server/proofReceipt.ts` | none | diagnosis of a served job | executor, Flare |
| Browser session | `web/components/DirectMintSigning.tsx` | React state, localStorage | sign, poll, cancel, restore | web API |
| Smart Account flow | `web/lib/server/smartAccountFlow.ts`, `SmartAccountActions.tsx` | as above | review, sign | web API |
| Views | redeem, portfolio, liquidity, agents, replay | none | read-only aggregation | Flare, LayerZero |

A job goes through `observed`, `confirming`, `attestation_requested`,
`finalized`, `proof_fetched`, `execution_submitted` to `minted` (or
`instruction_executed`), or ends as `failed` or `recovery_required`.
`process(id)` writes the job after every external call ("checkpoint") and, when
it is started again, skips what the job already holds.

What is hard here:

* **Crashes** between an external effect and the checkpoint that records it.
* **Failed writes**: the map is changed before the file is. A rejected change
  stays in memory, steers the next attempt, and reaches the file with the next
  successful write of *any* job.
* **Interleaving**: XRPL events (possibly duplicated), the retry timer and the
  startup resume start `process(id)` concurrently; user operations arrive late.
* **Timeouts and retries**: a call that throws may have had its effect.
* **The chain's own delay**: a mint that succeeds but is postponed.
* **Liveness**: a payment must never be stranded.
* **Stale reads**: fees, nonce and lot size are committed to when a payment is
  reviewed and apply when it executes; a form is edited after its review; an
  answer arrives for a session the page no longer shows.
* **React effects** run after the handler that caused them and undo what it did.

What makes each component correct:

* *processors*: nothing paid for and checkpointed is paid for again; a submitted
  transaction is followed by its hash; a settlement is recorded only for what
  executed; a job is given up only for a reason; every job ends.
* *store*: an update is atomic and, once resolved, durable; the queue never stalls.
* *watcher*: it comes back after every disconnection, waits longer after each
  failure, and stops when the process is stopped. It does not observe every
  payment: what happens while it is not subscribed is missed.
* *user operation registry*: nothing is signed before its user operation is
  durable; a job carries the operation its own payment commits to.
* *review*: what is signed is what was typed, and it takes effect unless the
  chain has moved since.
* *status server, receipt*: what is shown is true and stays true.
* *signing session*: a payment that was signed is never reported as cancelled,
  is not lost by a reload, and is followed to its end.
* *polls and request windows*: a poll is over in time and misses no answer that
  came in time; a client is admitted at most two budgets in a window's time, and
  whenever it comes back as told.

The hazards, each with its line and the properties aimed at it, are in
`PROJECT.json`.

## 2. Modules

| module | what it is |
|---|---|
| `JobRecord` | the durable job and the values computed from it (no state) |
| `ProcessorCore` | what both processors share: store, awaits, catch block, restart |
| `MintProcessor` | the mint jobs; EXTENDS `ProcessorCore` |
| `MintInvariant` | the inductive invariant `IInv`; EXTENDS `MintProcessor` |
| `MintProofs` | TLAPS proofs; EXTENDS `MintInvariant` |
| `InstructionProcessor` | the instruction jobs; EXTENDS `ProcessorCore` |
| `InstructionInvariant` | the inductive invariant `IInv`; EXTENDS `InstructionProcessor` |
| `InstructionProofs` | TLAPS proofs; EXTENDS `InstructionInvariant`, `Receipt` |
| `AtomicStore` | what the processors rely on of the store |
| `JobStore` | the store as it is written; implements `AtomicStore` |
| `StoreProofs` | TLAPS proofs; EXTENDS `JobStore` |
| `Receipt` | the public record and the proof receipt, as functions of a job; EXTENDS `ProcessorCore` |
| `ReceiptProofs` | TLAPS proofs; EXTENDS `MintProofs`, `Receipt` |
| `UserOpStore` | the user operation registry: map, queue of puts, file, lookups |
| `XrplWatcher` | the reconnecting watcher loop |
| `Ingest` | registration, signature, event, job: EXTENDS both, with the process's start, stop and crash |
| `IngestProofs` | TLAPS proofs; EXTENDS `Ingest` |
| `Memo` | the three memos as they are written, read and verified (no state) |
| `MintReview` | quote, user operation and checks of a mint's review (no state) |
| `InstructionReview` | value, fee and checks of an instruction's review (no state) |
| `ReviewedPayment` | payments from the review to the contracts, over the three above |
| `ReviewedProofs` | TLAPS proofs; EXTENDS `ReviewedPayment` |
| `Poll` | the polling loop of both FDC pipelines |
| `RequestWindow` | the request window of one client, in the executor and in the web |
| `TimingProofs` | TLAPS proofs; EXTENDS `Poll`, `RequestWindow` |
| `SigningService` | Xaman's payloads, their payments and jobs, and the answers of the web routes |
| `SessionCore` | what both signing pages share: React state, localStorage, requests in flight |
| `MintSession`, `InstructionSession` | what differs on the minting and on the Smart Account page |
| `SigningSession` | the composition of the four, with its properties |
| `SessionProofs` | TLAPS proofs; EXTENDS `SigningSession` |
| `MCMint`, `MCInstruction`, `MCSession`, `MCServices` | instances for TLC |

`MCServices` composes three subjects that share nothing (payments, a poll, a
window): each behaviour is one of a single subject, so that their state spaces
add up.

Definitions named `...Misspelt`, `...Anew`, `...Unmarked` and the like, each
introduced as a *mutant* in a comment, are deliberately wrong variants of the
definition that follows them. No specification uses them; they are there to
show that a property notices that mistake.

### State and code

`jobs` is the store's map, `file` the JSON file. `pc[t]` is the await at which
`process(t)` is suspended; `"idle"` means that `t` is not in `active`. `error`
is the exception on its way to `recordFailure`. `fdc[t]` counts FDC requests
sent for a payment, `flare[t]` is the sequence of Flare transactions sent for
it, each with its outcome. A job's `execution = i` stands for the hash of the
`i`-th of them. `recorded` and `requested` are history variables: the hashes
and the FDC submissions the *file* has ever held. No action reads them.

In `MintProcessor`, `userOp` is the `userOpData` of the local `job` variable of
`process`, `resolving` is an `observe` suspended at its lookup, `registered`
what the web backend has posted, `window` the AssetManager's delay.

In `Ingest`, all payments are one sender's and numbered in the order of their
registration, since `getBySource` orders by `createdAt`; `signing[p]` is the sign
route and then the payment, `handling` the events `observe` is working on,
`resolved` what its lookup returned. `loop`, `backoff` and `aborted` are the
watcher's; in the loop state `"deaf"` it is connected but began to listen to the
abort signal after it had fired.

In the session modules, `page` is the component's React state, `storage` its
localStorage entry, `requests` the fetches in flight, each with the answer the
server has already given. `life[p]` is what Xaman, the ledger and the executor
have made of payload `p`. Two history variables: `crossed`, an answer was applied
to a page that showed another session than the one it was asked for, which no
handler checks (a payload opened for a page that has gone, while nothing else is
shown or stored, crosses nothing); `dropped`, the payloads on the page when one
of the handlers of `Drop` threw the session away.

In `ReviewedPayment`, `flow[f]` is one payment on its way, `setting` an index of
the contracts' settings, `account` the user's Personal Account. `form` is what
the page's form says, `action` and `lots` what its review says: they may differ,
as the form can be edited under a review. `moved`, `outdated` and `warned` are
history: the chain changed after the sign route began to read it, the form or
the settings changed after the review of a redemption, the review warned. A
field of `flow[f]` that its stage does not have yet is `None` (or 0).

In `Poll`, `signal` says whether requests get an abort signal. `healthy` is a
history variable: no answer has come later than `Latency` and no request has
failed but by its own abort signal. So is `admitted` in `RequestWindow`.

In `InstructionProcessor`, `resume` is the argument of
`requestInstructionPaymentProof`, fixed when it is called. The code never
updates it, while the callbacks overwrite the job it was taken from.

### Actions

Each await of `process` is one action: a call that returns or throws, or a
checkpoint that is written or rejected. `Claim` is the first checkpoint with
the decision where to resume. `PrepareRequest` to `OnProofFetched` are the four
FDC calls and their callbacks. `Simulate`, `Submit`, `OnSubmitted`,
`WaitForReceipt`, `OnSettled` are the execution and `RecordFailure` is the
catch block with `finally`. Around them are `Observe` (events and duplicates,
with `ResolveUserOp` as its first half), `ResumePending` (timer and startup),
`Mine` and `OpenWindow` (the chain), `RegisterUserOp` (the web backend) and
`Crash`.

In `Ingest`: `Post` to `Persist` are the sign route's registration (`Enter` is
the put's turn in the queue, `Persist` its write and the answer), `Pay` and
`Redeliver` the ledger and its events, `ResolveUserOp` and `Observe` the two
halves of `observe`, `Watch` the loop, `Start`, `Shutdown`, `Exit` and `Crash`
the process, `BackFill` the script `observeExisting.ts`.

In the sessions, a user's handler is split where it awaits: `PrepareReview`,
`OpenXaman`, `MintCancel` ask; `Serve...` is the server's answer;
`...Reviewed`, `...Opened`, `MintCancelled`, `...ReadStatus`, `...ReadProgress`
apply it, with the effects React runs on that commit (`Stored`,
`MintPersisted`, `InstructionPersisted`). `Reload` and `SwitchTab` unmount,
`Return` restores. `Drop` groups the handlers that give a session up:
`ResetFlow`, `PrepareReview` and an answered Cancel (`MintCancelled`).

In `ReviewedPayment`: `Review` and `Edit` are the page (any field may be edited
under a review, the action select of the Smart Account page included,
`SmartAccountActions.tsx:427`), `OpenXaman` and `Sign` the sign route with its
fresh review of what is `Posted` (on the Smart Account page the action and the
lots of the review with the other fields of the form, lines 332 to 342), `Pay` and `Expire` the wallet,
`ExecuteMint` and `ExecuteInstruction` the contracts, `Govern` governance.

A store update is one atomic step of the processor modules although it takes
several in the code. That this is sound is the refinement `UpdatesAreAtomic`:
`JobStore` has the queue, both file operations and their failures, and
implements `AtomicStore`, in which an update takes effect at the moment its
caller learns the result.

### Abstractions

* Errors are the four kinds `recordFailure` tells apart; a call may throw every
  kind its code can throw at that point. Simulation errors are decided by text
  matching, so the simulation may throw both a retryable and a permanent error
  at any time.
* Time is what a comparison with `nextAttemptAt` can return: a backoff may or
  may not be over, the chain's `executionAllowedAt` is over only once the
  window is open.
* In the processors a polling loop is a call that eventually returns or throws;
  `Poll` has the loop.
* Proofs, addresses, amounts and texts are left out: `validateXrpPaymentProof`
  and the event decoding are "permanent error or not".
* A payment has an id of one of the two kinds from the start.
* `Ingest`: one sender, one watcher loop (both addresses run the same loop),
  payments with a `0xFE` memo, the only ones that need a user operation.
  `Elsewhere` are such payments made without the site. What becomes of the job
  is left to the processors; the reconnection inside `xrpl.js` is external.
  The back-fill script runs only while the executor is stopped, as
  `docs/ARCHITECTURE.md:49` requires.
* Sessions: "rejected" also stands for expired; "unusable" for a payment that
  failed or was signed by another account; "ended" for a job that ended well or
  badly; a review is whether it may be signed. An answer is fixed when the
  server handles the request and applied when it arrives. The form is in
  `ReviewedPayment`.
* `ReviewedPayment`: amounts are small integers in UBA with the code's own
  integer arithmetic; the hash in a memo stands for its user operation, whose
  registration is `Ingest`'s subject. The settings a review reads
  concurrently may be torn by a governance change. The wallet may pay one unit
  more or add a tag, which stands for any payment that differs from the request.
* `Poll`: timers fire exactly when they are due. `RequestWindow`: one client.

## 3. Runs

| run | question | bounds | result |
|---|---|---|---|
| `mint` | all safety properties, receipts, and that every job ends | one payment with user operation, 3 attempts, 2 faults | holds, 91 641 states |
| `mint_two` | does one job's write corrupt the other? | two payments, 1 attempt, 1 fault, symmetric | holds, 225 943 states |
| `mint_minted_is_final` | can a job shown as minted fail later? | one payment, 1 attempt, 1 fault | yes |
| `instr` | safety of the instruction jobs, receipts, every job ends | one payment, 3 attempts, 2 faults | holds, 55 764 states |
| `instr_resume` | do instructions resume from the latest checkpoint? | one payment, 2 attempts, 1 fault | no |
| `instr_resubmit` | are instruction transactions recovered by hash? | as above | no |
| `store` | refinement, durability, progress of the queue | 2 ids, 4 calls, 2 faults | holds, 32 103 states |
| `store_served` | is what is served durable? | 2 ids, 2 calls, 1 fault | no |
| `session` | do page, localStorage and wallet agree; is a payment followed to its end? | both pages, 1 payload, 2 faults, 1 request of a kind in flight | holds, 209 285 states |
| `session_terminal` | is a session that ended out of localStorage? | minting page, 1 payload, no faults | no |
| `ingest` | own user operation; does the watcher come back, back off and stop? | 3 payments of one sender (1 made elsewhere), 2 faults, pauses 2, 4, 5 | holds, 140 358 states |
| `services` | is what is executed what was reviewed and typed, and does it take effect; polls and windows | 2 payments (symmetric), 2 settings, 12 forms; timeout 30 with pauses 3 to 7; budget 2 in 5 ticks of 18 | holds, 3 242 703 states |

**Why these bounds.** A *fault* is a crash or a failed write. Two of them allow
the patterns that matter: a rejected write followed by a crash that forgets it,
a rejected checkpoint followed by a rejected `recordFailure`, a crash during a
recovery. Three attempts separate the first failure, a later one and the last.
Jobs meet only in the file, in which one job's write carries another job's
rejected change; two payments and one fault show that, and the proofs cover
every number of payments, attempts and faults. Four store calls allow a create,
two updates queued behind each other and a fourth after a failure. Nothing but
attempts and faults bounds the processors' states: `fdc`, `flare` and the
attempts are finite because the code's retry limit holds. Symmetry is used only in `mint_two` and `services`, which check no liveness.

*Sessions.* A fault is a reload, a tab switch, or a call that fails or is
misread; two allow a reload during a cancellation and a misread status after a
restore. With two payloads and one fault the three session invariants were
checked too, separately for each page and without the liveness property
(2 million and 356 000 states); that is too large to keep as a run, and
`DeadSessionsAreUnpaid` is proved for any number of payloads and requests.

*Ingest.* Three payments are the fewest for which the lookup by source address
can return the operation of an earlier, a later or a foreign payment. A fault is
a crash, a stop, a failed write or a repeated event. The pauses reach their
maximum after two failures, and `MaxShort` only stops the ghost that counts
them.

*Services.* The amounts lie on both sides of the minimum fee (12, 40 and 2000
against fees of 15 and 38), of the headroom's rounding (400) and of a lot; the
second setting changes every address, fee, vault and the lot size. The four
instruction forms have four actions, two dates, two periods and three amounts,
so that an edit after the review changes the action together with what the other
one would have used. Two payments
are enough for one to move the nonce or balance of the other. `Timeout`, the
pauses and the latency keep the code's order of magnitudes. In 18 ticks a
client meets three windows.

`CHECK_DEADLOCK FALSE` stands where the system really stops: `JobStore` when its
calls are used up (`store`, `store_served`), and `services`, where payments end,
a poll returns and the clock is bounded.

### Properties

* `StagesAreBacked`: each stage, in the map and in the file, has the data its
  checkpoint stored. A resume looks at the data, a reader at the stage.
* `SettlementsAreReal`: a settlement names a transaction that executed.
* `RecoveryHidesNoMint`: a mint job given to an operator as `recovery_required`
  hides no execution the file ever knew of. Only a hash that was lost before its
  checkpoint can have executed behind such a job.
* `AttemptsAreBounded`: exact for instructions. For mints `CHECKPOINT_FAILED`
  reschedules once past the limit, and only with a hash to recover by.
* `NoBlindResubmission`, `AttestationIsKept` (action properties): what
  `docs/ARCHITECTURE.md:45-47` promises, across crashes and failed writes.
* `NoRepeatedRequestWithoutFaults`: what instructions keep of it.
* `EveryJobEnds`, `QueueDrains`: liveness.
* `UpdatesAreAtomic`, `ResolvedUpdatesAreDurable`, `FileNeverGoesBack`: the store.
* `ReceiptsAreTrue`: what a receipt says of a job (its phase, its links, the
  status of its proof, the severity of its diagnosis) is true on the chains, for
  every job either processor reaches. It excepts a job that failed while the
  chain delayed it, which `diagnoseReceipt` still describes as delayed.
* `OwnUserOp`: a payment made on the site has a job with its own user operation
  and no other one of its sender; with none only if the back-fill script made it.
* `WatcherComesBack`, `ShutdownEnds`, `BackoffDoublesToItsMaximum`: the watcher.
  `ShutdownEnds` excepts a signal that arrives while the watcher is connecting:
  the listener is added after the signal has fired, and the process stays up
  until the ledger's server disconnects.
* `DeadSessionsAreUnpaid`: what a page calls rejected or cancelled was never
  paid, so starting anew does not pay twice.
* `PaymentsSurviveReload`, `ReloadBringsBackTheScreen`: page and localStorage
  agree, except after answers that crossed between sessions.
* `FollowedToTheEnd`: a payment the page follows (it polls its progress or its
  status, or has asked for it once) is shown as ended once its job has ended,
  across reloads, failed requests and refused cancels, or one of the ways out
  named in `NoLongerFollowed` is seen: another tab is shown; the user started
  over, prepared another review, or reloaded after an answered Cancel; a status
  was misread as malformed; the one question of a restored session failed; an
  answer crossed. To stop following is in itself no way out. One of those named
  is a defect of the code (`CancelledTooLate`): `cancelSigning` treats every
  answer as the end of the session, so a Cancel that loses its race against the
  signature is answered "signed" and forgets the hash and the stored session
  (`web/components/DirectMintSigning.tsx:477-480`). Both polls stop, the page
  says signed, and a reload shows a blank form for a payment that was made. The
  executor still mints it, as `docs/DEMO_VIDEO_SCRIPT.md:45` says of a refresh;
  only the page never shows it again.
  Without that disjunct TLC finds this behaviour as a counterexample.
* `ExecutedAsTyped`: a confirmed mint goes where the user typed; a confirmed
  instruction is the action of the page's review, on the amount, date or period
  on the form when the button was pressed. Three things may surprise the user
  and are stated as the code does them: a wallet mint to a mistyped mixed-case
  address goes to the address with a right checksum; an action edited after the
  review is *not* the one signed; and a redemption is of the lots of the review,
  which are the amount on the form only if neither the form nor the settings
  have changed since. Edits during the sign request are posted nowhere and left
  out.
* `ReviewedPaymentsTakeEffect`: a payment signed without a warning reverts only
  if the chain moved meanwhile, if its deposit is under 400 UBA per UBA the mint
  may be rounded by (the headroom of 25 bips is then less than that), or
  if it is a vault exit, whose review does not read the shares it needs.
* `PollEndsInTime`, `AnswersInTimeAreTaken`: a poll outlives its timeout by at
  most a pause (and a client timeout, without a signal); `TIMEOUT` means there
  was no answer a pause and two requests before the deadline.
* `RateIsBounded`, `RetriesAreAdmitted`: the request windows.

### Where the code and its documentation disagree

1. `mint_minted_is_final`: the final checkpoint sets `minted` in the map, its
   write fails, and `recordFailure` (`transactionProcessor.ts:399`), out of
   attempts, overwrites the job with `failed`. The receipt had said "No recovery
   action is required" (`web/lib/server/proofReceipt.ts:315`).
2. `instr_resume`: `onPrepared` runs again on every resume of an instruction
   (`fdcPaymentProof.ts:456`) and drops the submitted request from the job. A
   crash before the next callback makes the following resume send and pay for a
   second one. `docs/ARCHITECTURE.md:45` says that restarts resume from the
   latest checkpoint.
3. `instr_resubmit`: the instruction processor never reads `job.execution`
   (`instructionProcessor.ts:293`) and sends a second transaction where
   `docs/ARCHITECTURE.md:46` promises recovery by hash.
4. `store_served`: readers are given the map, which is ahead of the file
   (`transactionStore.ts:177`), under the label "Current durable stage"
   (`proofReceipt.ts:310`).
5. `session_terminal`: the comment at
   `web/components/DirectMintSigning.tsx:268` says that terminal outcomes clear
   localStorage so that a refresh returns to a blank form. When a payment known
   as submitting then fails on the ledger, `readStatus` clears it, but the stage
   has changed and `transactionId` is still set, so the persist effect (line 277)
   stores the session again: a refresh shows a failed payment as signed and
   validated, with the form locked.

### Fairness

* Every await of `process` settles: the polls have deadlines, requests carry
  abort signals, the RPC client has timeouts. Hence `WF(Step(t))`.
* The retry timer fires at least every five seconds and takes every due job:
  `WF(ResumePending(t))`. Weak fairness is enough, since a due job stays due
  until it is taken.
* The AssetManager's delay ends: `WF(OpenWindow(t))`.
* The store: the process is started again, and file operations return or fail.
* `Ingest`: pauses end and an abort that is listened for is heard (`WF`),
  connecting succeeds sometimes if it is tried again and again (`SF`), queued
  puts, lookups and the creation of jobs go on, and a process with nothing left
  to do exits (`WF`).
* Sessions: the two polls' intervals fire while their effect is mounted, and
  their requests are handled and answered (`WF`): browsers and the routes have
  timeouts.

Nothing is assumed of XRPL events, mining, user operations, the user, the
wallet, or of writes succeeding; faults are bounded in number and never forced.
The properties of `services` are safety only.

## 4. Proofs

`MintProofs` proves for every set of payments `Tx`, every `MaxAttempts >= 1` and
every `MaxFaults` (`CoreAssumption`, `NeedsUserOpAssumption`):

| theorem | statement |
|---|---|
| `Invariance` | `Spec => []IInv` |
| `TypeCorrect` | `Spec => []TypeOK` |
| `StagesBacked` | `Spec => []StagesAreBacked` |
| `SettlementsReal` | `Spec => []SettlementsAreReal` |
| `RecoveryHonest` | `Spec => []RecoveryHidesNoMint` |
| `AttemptsBounded` | `Spec => []AttemptsAreBounded` |
| `NeverBlindlyResubmits` | `Spec => NoBlindResubmission` |
| `AttestationKept` | `Spec => AttestationIsKept` |

None of the safety properties is inductive. `NoBlindResubmission` needs that a
payment at the `send` await has no execution in its job, which needs what the
claim does, which needs that a job never forgets a hash the file has held
unless it is delayed. `IInv` (`MintInvariant`) therefore says, per payment:

* `Sound`, of the map's job *and* of the file's: every hash held so far other
  than the job's current one is a delayed transaction; a settlement points at an
  executed transaction; a job in `recovery_required` knows only delayed or
  reverted ones; the attempts are bounded. It must hold of the map too because a
  successful write of another job may copy the map's job into the file at any
  moment, and of the file because a crash copies it back;
* `NotBehind`: the map has at least the file's attestation and proof;
* `Located`: what `process` knows at each await: which attestation, that there is
  no execution before `sent`, which error fits which execution.

One lemma per action (`ClaimKeepsInv`, ..., `CrashKeepsInv`) shows that it keeps
`IInv` and that the file loses nothing (`SafeStep`). The lemmas
`CheckpointKeepsInv`, `MoveKeepsInv`, `ReturnsKeepsInv`, `ThrowsKeepsInv` cover
the shapes the actions share, and `WriteKeepsStore` the one step that touches
several payments.

`ReceiptProofs` (same assumptions) proves `ReceiptsTrue`:
`Spec => []ReceiptsAreTrue` for `MintProcessor`. `IInv` does not say that an FDC
submission in a job was paid for, that no mint job has the final stage of an
instruction, or that no job needs recovery because it was delayed; `ReceiptInv`
adds these three and is inductive together with `IInv`.

`InstructionProofs` proves, for every `Tx`, `MaxAttempts` and `MaxFaults`,

| theorem | statement |
|---|---|
| `Invariance` | `Spec => []IInv` |
| `TypeCorrect` | `Spec => []TypeOK` |
| `StagesBacked` | `Spec => []StagesAreBacked` |
| `SettlementsReal` | `Spec => []SettlementsAreReal` |
| `AttemptsBounded` | `Spec => []AttemptsAreBounded` |
| `ReceiptsTrue` | `Spec => []ReceiptsAreTrue` |
| `RequestsNotRepeated` | `Spec => NoRepeatedRequestWithoutFaults` |

The invariant (`InstructionInvariant`) differs from the mint's where the code
does. The map is *not* always ahead of the file, because a resume takes the
attestation back to `prepared`; so nothing like `NotBehind` holds, and what the
job has paid for is known at some awaits from the `resume` argument only
(`AttestedAt`). A settled job must be terminal (`Sound`), or a second execution,
which the code does not prevent, would put its own hash beside the settlement of
the first. `SubmissionKept` is the part that holds until the first fault only.

`StoreProofs`, for every set of ids and number of calls and faults:

| theorem | statement |
|---|---|
| `StoreInvariance` | `Spec => []IInv` |
| `StoreTypeCorrect` | `Spec => []TypeOK` |
| `UpdatesDurable` | `Spec => []ResolvedUpdatesAreDurable` |
| `FileOnlyGrows` | `Spec => FileNeverGoesBack` |
| `StoreIsAtomic` | `Spec => UpdatesAreAtomic` |

`StoreAssumption` asks for at least one id: without any, an empty image could not
be told from a missing file. `Ahead` is the heart of the invariant: the map is
never behind the file, the temporary file about to be renamed is the map, and
the file is never behind a call that resolved. Each lemma about an action shows
all three of `IInv'`, that the file goes back in nothing (`Kept`), and that the
step is one of `AtomicStore` or leaves its variables alone (`Implements`): the
rename is `AtomicStore`'s step, every other step of a write a stutter.

`IngestProofs` proves `UserOpIsOwn`: `Spec => []OwnUserOp` for every set of
payments, any split into made on the site and `Elsewhere`, and any number of
faults. The argument runs along the chain of events: what may be signed is in
the registry's *file* (`SignableIsDurable`), which is why a crash does not matter;
a running process has at least the file in memory (`RegistryInv`); only paid
payments are handled or have jobs (`OnlyPaidIsHandled`); so a lookup finds the
payment's own operation before it falls back to the sender's newest
(`ResolvedIsOwn`). It also proves `BackoffDoubles` (`BackoffDoublesToItsMaximum`,
for every first and every largest pause; that 2^(n+1) is twice 2^n is read off
the size of the power set, the module defining no recursion) and
`IngestTypeCorrect`, whose invariant says that the newest entry of a source
exists whenever an entry does (`HasNewest`).

`TimingProofs` proves, for all timeouts, pauses, latencies, budgets and windows:

| theorem | statement |
|---|---|
| `PollsEndInTime` | `PollSpec => []PollEndsInTime` |
| `AnswersTaken` | `PollSpec => []AnswersInTimeAreTaken` |
| `RateBounded` | `WindowSpec => []RateIsBounded` |
| `RetriesAdmitted` | `WindowSpec => RetriesAreAdmitted` |

`Timed` bounds the timer of each state of the loop: a request's by the deadline,
a pause's by the deadline and a pause. For `RateBounded` the invariant relates
the history of admissions to the window in force: those made in it are its
count, and the window before it is over.

`ReviewedProofs`, for every set of payments, forms, settings and worlds and every
rounding (`ReviewedPaymentAssumption` gives the constants their types):

| theorem | statement |
|---|---|
| `ReviewedInvariance` | `Spec => []IInv` |
| `ReviewedTypeCorrect` | `Spec => []TypeOK` |
| `ExecutesAsTyped` | `Spec => []ExecutedAsTyped` |
| `ReviewedTakeEffect` | `Spec => []ReviewedPaymentsTakeEffect` |

`IInv` has two parts. `Shape` is what a payment keeps whatever the chain does: its
request is that of a review of its form with the page's action and lots
(`AskedFor`), which is all that `ExecutedAsTyped` needs but for the amount of a
redemption: `PostedIsReviewed` shows it of what is posted, whatever was edited. `Timely` is what holds until the
chain moves: the settings read are the present ones, the request fits the present
fees, nonce and balance (`MintPromised`, `InstructionPromised`). Governance and
other payments make it void by setting `moved`. `QuoteIsBounded`, `QuoteOfTheFees`
and `HeadroomAbsorbs` are the arithmetic: no fee exceeds the payment, a review
torn by governance differs from the settings only if they changed, and 25 of
10000 of a deposit of at least 400 times the rounding cover the rounding.

`SessionProofs`, for any number of payloads, faults and requests in flight, on
both pages:

| theorem | statement |
|---|---|
| `SessionTypeCorrect` | `Spec => []TypeOK` |
| `DeadSessionsUnpaid` | `Spec => []DeadSessionsAreUnpaid` |
| `PaymentsSurvive` | `Spec => []PaymentsSurviveReload` |
| `ReloadBringsBack` | `Spec => []ReloadBringsBackTheScreen` |

`SessionInv` says of every status on the page and of every answer on its way that
a dead payload is called dead (`Founded`): this is kept because an answer is
founded when it is given and dead payloads stay dead (`Kept`), whichever session
the answer is finally applied to. `ScreenInv` says that localStorage has what the
page shows, both ways (`Agrees`). It is kept by the persist effects only because
the buttons prepare one thing at a time (`OneAtATime`): a review that failed
after a payload was opened would leave a payload without a review, of which the
effects store nothing. The ghost `dropped` is in neither; that it holds payloads
only (`DroppedInv`) is all `TypeOK` asks of it.

TLC checked each inductive invariant as an invariant of the instances above
before it was proved.

**Only model-checked**: liveness (`EveryJobEnds`, `QueueDrains`,
`WatcherComesBack`, `ShutdownEnds`, `FollowedToTheEnd`), which is beyond the
prover. The theorems about one module are about its own specification; that
the processors' store steps are those of `AtomicStore` is by inspection.

## 5. Not modelled, and the plan

Not modelled because it holds no state of its own or is pure input and output:
the views (portfolio, liquidity, agents, vault position, cross-chain balances),
the reverse redeem page (one quote and a sequence of wallet calls the user
makes), the replay of a recorded receipt, the operator scripts, configuration,
logging and address lookup. Of the modelled components, left out are:

* both processors over one signing account: a send that fails or is never mined
  is in both models, the nonce they share is not;
* routing by destination tag and the 32-byte direct-mint memo, which the
  executor's readiness check knows and the site never uses;
* the field-by-field validation of proofs, event decoding, metrics, the
  validation of a registration's fields, and all texts;
* the payments missed while no watcher is subscribed: `Ingest` has them, and
  nothing in the code answers for them but the back-fill script.

Planned:

1. Proofs: the store steps of both processors as `AtomicStore` steps; that the
   map is never behind the file in either of them but as `SubmissionKept` allows;
   what `FollowedToTheEnd` needs in every state.
2. `Executor`: both processors over one store and one signing account.
3. `stableRead` and the views' caches, should they ever feed a payment.
