# The file-based runtime of pi-subagents-win, in TLA+

The extension has no server that owns its state. Every pi session is a process of its own, and
sessions co-operate through small JSON files under `~/.pi/agent`: exclusive creates (`wx`) decide
races, `tmp + rename` writes replace whole files, and ages of files stand in for timeouts. What a
unit test of one function cannot show is what happens *between* two file operations: another
session's operation, a crash, a timer, a rejected promise. That is what these modules are about.

Source paths below are relative to `src/extensions/`.

## 1. Inventory

| component | state it keeps | operations | meets the others by | hard part |
|---|---|---|---|---|
| master registry `runtime/registry.ts` | attachment (owner, generation, heartbeat), `.lease`, handoff token, transfer window | attach (genesis, refresh, token, force), take over, detach, heartbeat, window set/clear | everybody reads the attachment as a fence | read-modify-write under a lease that can be taken over |
| injection claims, receipts `runtime/receipts.ts`, `injection-gate.ts` | `<key>.claiming.json`, `<key>.json` | claim, confirm, release; send a user message | event bus, mailbox, reports and outbox bridge all pass this gate | mutual exclusion and at-least-once over two files |
| event bus `event-bus.ts` | seen result files, `.notified` marks | result file appears, recovery on take-over | writes REPORT letters, injects | the send is not awaited |
| mailbox spool `runtime/mailbox.ts` | letter files, dedupe slots | deliver, list, claim, ack, release, stale reclaim | producers and the three loops | claim writes are not conditional |
| mailbox consumer `mailbox-consumer.ts` | which loops the session has started | 10 s message loop, 30 s wake loops, command chain | mailbox, gate, executor | owner changes between list and use |
| wake loops `runtime/wake.ts`, `runtime/scope.ts`, `runtime/scope-consume.ts` | wake state (tab in flight, cooldown), claimed letters | tick, spawn, confirm, audit of failures | mailbox, tab launch | claim, spawn, ack in three steps |
| command executor `runtime/command-executor.ts` | `commands/<digest>.claim`, `.outcome` | execute, replay | HTTP host, mailbox command letters, WeChat | once-only effects across crashes |
| session outbox, bridge `runtime/message-outbox.ts`, `outbox-bridge.ts` | outbox items | enqueue, inject, mark, expire | executor, gate, journal | expiry against a send under way |
| master transfer `runtime/master-transfer.ts`, `master-control.ts` | transfer record, window | begin, spawn, confirm, fail | registry, succession | several files, one transaction |
| succession, auto hand-over `runtime/master-succession.ts`, `master-auto.ts` | proposal of a generation | propose, adopt, complete, decline | transfer | one proposal per generation |
| expectations `runtime/expectations.ts` | `open/<id>`, `closed/<id>` | declare, extend, close, derive overdue | mailbox producers and consumers | update racing with close |
| journal, sequence, projector `runtime/journal*.ts`, `projector.ts` | `events.jsonl`, emission claims | emit once, append, scan, rebuild | all components emit | claim before append |
| reports, async results `report.ts`, `async-result-watcher.ts` | seen sets, `.notified` | watch, inject | gate | same as event bus |
| tab runs `tab-runs*.ts`, `tab-launch-core.ts`, `launch*.ts` | run ledger, result file | dispatch, heartbeat, finish, reclaim | event bus | judging a silent tab |
| timers `timers*.ts` | timer files, claims | arm, fire, cancel, recover | sessions, tabs | claim, then act |
| daemon `runtime-host/daemon-lifecycle.ts`, `server.ts`, `discovery.ts`, `identity.ts` | `host.json`, lock | ensure, take over, stop | console, executor | single instance |
| event stream `runtime-host/ws.ts`, `runtime/stream-gen.ts`, `transcript.ts` | subscriptions, cursors, generations | subscribe, resume, tail | journal | no gap, no repeat across rewrites |
| channel supervisor, WeChat channel `runtime-host/channel-supervisor.ts`, `channel-wechat/*` | worker pid, cursor, dedupe, inbox | poll, claim, store, commit; restart with back-off | command consumer | commit only what is stored |
| autonomy `runtime/autonomy/*` | action ledger, breaker, budget | decide, act, verify, roll back | wake loops | fail closed |
| relation graph, global view, console, tools, hotspot, wiki, trace fusion | projections; logs | read, render, launch | | mostly pure or I/O |

What makes the modelled ones correct:

* registry: a generation has one owner for ever; a token buys one succession; genesis is unique;
* injection: a message is injected at least once, is injected twice only for a reason one can name
  (a lost receipt, a stale claim, a race of two processes), and a receipt is written only after a
  send that arrived - except by the event bus, which waits for no send (section 4);
* mailbox and its consumers: an acknowledged letter has been read by somebody, a delivered letter
  is acknowledged in the end;
* command executor: a command takes effect at most once, every entrance gives it the same answer,
  and the answer is true;
* outbox: the status a person is shown is true but for what the same reasons explain, and so is a
  repeat;
* transfer and succession: what the records say is what the registry granted, one proposal and one
  automatic attempt for a generation, and a transfer that nothing hinders ends;
* expectations: one outcome for a request, and nobody waits in silence;
* timers: each round is sent once but for a mishap, and a cancellation holds.

## 2. Modules

| module | models | unit of interleaving |
|---|---|---|
| `Ownership` | what readers of an attachment rely on: an owner and a number that grows by one | one change of hands |
| `MasterRegistry` | `runtime/registry.ts`, and the take-over of `runtime/scope.ts` | one file operation |
| `MasterRegistry_proofs` | theorems about it | |
| `InjectionClaim` | `runtime/receipts.ts` for one receipt key, with the sends of `injection-gate.ts` | one file operation |
| `CompletionDelivery` | composes `InjectionClaim` with `event-bus.ts`, `mailbox-consumer.ts` and one letter of `runtime/mailbox.ts` | one file operation |
| `CompletionDelivery_proofs` | theorems about it and about `InjectionClaim` | |
| `WakeDelivery` | the wake loops of `scope.ts` and `wake.ts` over the letters of `mailbox.ts` | one file operation |
| `OneShot` | what whoever asks for a command relies on: begun, taking effect and decided at most once, every later answer the decision | one promise |
| `CommandExecution` | `runtime/command-executor.ts`, its HTTP entrance and the command letters of `mailbox-consumer.ts` | one file operation |
| `CommandExecution_proofs` | theorems about it, and that it implements `OneShot` | |
| `SessionOutbox` | `runtime/message-outbox.ts`, `outbox-bridge.ts`, `runtime-host/wechat-input.ts`: one item | one file operation |
| `SessionOutbox_proofs` | theorems about it | |
| `MasterSuccession` | `runtime/master-succession.ts`, `master-auto.ts` | one file operation |
| `MasterSuccession_proofs` | theorems about it | |
| `MasterTransfer` | `runtime/master-transfer.ts`, with the attaches of `registry.ts` and the take-over of `scope.ts` | one file operation; an attach by token is atomic |
| `MasterTransfer_proofs` | theorems about it | |
| `Expectations` | `runtime/expectations.ts` and its lines of the journal: one request | one file operation |
| `Expectations_proofs` | theorems about it | |
| `Timers` | `timers.ts`, `timers-runtime.ts`: one timer | one file operation |
| `Wakeups_proofs` | theorems about `WakeDelivery` and `Timers` | |
| `MC*` | instances for TLC | |

### MasterRegistry

`attachment`, `lease`, `handoff` and `window` are the files; `pc`, `call` and `seen` are a session's
call, its arguments, and the attachment it has read. `AttachRead`, `CreateGenesis`, `AcquireLease`,
`StealLease`, `Decide`, `WriteBump`, `WriteRenewal`, `ReadOwnLease` and `UnlinkLease` are, in this
order, the file operations of `attachMaster`; `TakeoverRead` enters the same path for
`takeoverMaster`. The code paths of a refresh, a token, a force and a take-over differ only in
`MayBump` and `MayRenew`. `Detach*`, `Heartbeat*` and `*TransferWindow` are the other operations.
Clocks are Booleans that may turn at any time. A lease grows old only when its holder is gone: the
critical section has no `await`, and 30 s are assumed to be enough for it.
`granted` and `spent` record what callers were told; the properties are about these, because an
overwritten attachment does not take back what its owner has been told.

### InjectionClaim

`claiming` and `receipt` are the two files. Creating a file exclusively and filling it are two
steps (`writeFileSync` with `wx` opens, then writes), so a reader can meet a torn file and a crash
can leave one. `pc` walks through `claimInjection`'s loop: create, read, recheck the receipt,
reread, unlink, and again, at most `MaxAttempts` times. `SendSucceeds`, `SendRefused` and
`SendFails` are the ways `injectFollowUpQuietly` ends. Channels of one process exclude each other
while they run; only a send is awaited. Each create, fill and unlink may also fail (`Fault`, at most
`MaxFaults` times), with what the code makes of it: a claim that cannot be created counts as
another's, an unlink fails without a word, and a receipt that does not land (`ReceiptFails`) leaves
the claim to grow stale. `lost` counts the deliveries that a crash or such a failure left without a
receipt; `raced` counts the claims won on a look that was out of date: after the receipt had been
written, or by removing a claim that was no longer the stale one.

The holders of this module confirm after a send they have awaited. That is the mailbox consumer.
The event bus confirms a send it has not awaited (`BusSend`) and on a mark (`BusNotify`);
`CompletionDelivery` adds these two, and what they do to the meaning of a receipt is said there.

### CompletionDelivery

One run's completion, two channels. `busPc` follows `onTabResultFile`: letter, gate, `.notified`
mark, send, confirm - without waiting for the send. `consumerPc` follows
`consumeMailboxOnceInner`: list, claim, fence, gate, await, ack or release. A session crash forgets
what the process had seen (`snapshotExisting` marks everything that is there as seen) and starts
the mailbox loop again only if the session owns the master then (`registerMailboxConsumer`).

### WakeDelivery

`Loop` chooses between the two wake loops, which differ in the letters that make a tick go on
(`Wanted`) and in whether an attachment starts the loop (`OwnerMoves`). A tick is `Tick`,
`ReadLetters`, `ClaimLetter` for each, `Spawn` or `SpawnFails`, `WriteWakeState`, `AckClaimedBy`
for each. The `try` around a tick covers all of it: `ClaimFails`, `SpawnFails` and `WakeStateFails`
end the tick where it stands, with its letters claimed, and `AckFails` passes over one letter.
`lost` counts, for each letter, the ticks that left it claimed after they had prompted it;
`abandoned` holds the letters that a tick left claimed before it could. Wake policy (cooldown,
debounce, caps, pause) is the one flag `resting`, which may be raised `MaxRests` times besides by the
wake itself and is always lowered again.

### CommandExecution

The host and the sessions share the `claim` and `outcome` files of `state/commands`. `Request` and
`Deliver` are the two entrances. A call is `CreateClaim`, then `Replay` for the loser; for the
winner `LookAt*`, `WriteTarget`, `RecordOutcome`; `TurnAway`, `WriteFails` and `StateFails` are
its early returns and exceptions. Around it, `ListCommand`, `ReadLetter`, `ClaimLetter`,
`PassFence`, `ReadToAck` and `AckLetter` are the command chain of a session's tick. `effects` and
`answers` record what was written and what callers were told; `spoiled` and `abandoned` name
the keys and letters that a crash, an I/O error or a lost master explains.

The command types are reduced to those that differ in control: `pause` and `resume` look, decide,
write and let an exception escape; `auto` reads, writes, and turns an error into an outcome;
`other` stands for every frame that is turned away before the claim. A letter is addressed to the
master, so its `pause` names no workstream and is rejected after the claim. The workstream is its
status; only `active` and `paused` have a writer. A no-op is an accepted answer in the code;
the model tells it apart because nothing is written. The replay flag, the texts and the letters
from before the cutover are left out.

`OneShot` knows no files: `Begin` is the creation of the claim, `TakeEffect` the write of the
workstream or the configuration, `Decide` the outcome file with the answer that follows, `CutOff` a
crash or an error after the claim, `Repeat` the answer to whoever finds the claim. `Running` is the
refinement mapping's only computed part: the keys that some call has claimed and not yet left.

### SessionOutbox

One item, because items share nothing. `QueueCommand` is the executor's `session.message`;
`ChooseRecord`, `RereadOwner`, `QueueWechat`, `SettleRecord` and `RejectRecord` are the host's
`tryInjectPending`, whose two looks at the owner and two writes can each be overtaken or fail.
A bridge tick is `BeginTick` (the sweep marks what is overdue), `EndSweep`, and the claim, with the same
file operations as in `InjectionClaim`: `Look`, `CreateClaim`, `FillClaim`, or `Judge` and
`UnlinkStale`. `Judge` reads the other's claim, looks for the receipt again and rereads the claim in
one step, since nothing ages within a call; the unlink that follows is a step of its own. The answer
of the send is `SendLands`, `SendBusy` or `SendFails`, then `Confirm`, `CreateReceipt`, `FillReceipt`,
`ClearClaim`, or `Release`, `DropClaim`. A crash or a failed write between a create and its content
leaves a torn file, and a receipt that does not land leaves the item pending (`NotConfirmed`).
`ReadItem` and `WriteItem` are `markOutboxItem`, a read, a check and a write that are not one step.
`injected` counts arrivals, `lost` those that a crash or a failed write left without a receipt,
`slow` the sends that outlived their claim, `raced` the claims won or removed on a look that was out
of date, and `requeued` says that the item was written over for another session.

### MasterSuccession

`proposal`, `right` and `marker` are the files. `Propose`, `ClaimRight`, `Recheck`,
`CreateProposal`, `Spin`, `LookAtAge` and `Unlink` are `maybePropose`, called at the end of an
agent's turn (`AgentEnd`) or by the host (`Prepare`). `Gate` and `Mark` are `maybeAutoSucceed`;
`Transfer` succeeds or fails here. `ReadDecision`/`WriteDecision`, `Adopt`/`WriteAdopted` and
`Finish`/`WriteFinished` read the proposal, and write back what they have read (`WriteBack`).
`repeated` notes what happened twice in a generation, `strayed` what a right taken from a live
holder, or an older generation's call, has overwritten.

### MasterTransfer

`attachment`, `handoff`, `window` and `record` are the files. `BeginTransfer`, `DetachRead`,
`WriteToken`, `WriteRecord`, `Spawn`, `WriteSpawned`, `OpenWindow` are `transferMaster`, in this
order; `SpawnFails`, `FailClear`, `WriteFailed` its error path. `BeginDetach` is a person's
`/master-detach`, which shares the token's file. The successor's turn is `AttachWithToken` and
`BeginConfirm`, `WriteAttached`, `WriteCompleted`, `CloseWindow`. `ForceLook` and `TakeoverLook`
look for the window, `WriteForced` writes the attachment. Expiries are flags that may turn at any
time. Owners count as stale to a forced attach, because nothing but an attach renews a heartbeat.
`bared` collects the transfers that no window protects, or that lost their window at some time:
before it is opened, or because somebody looked before, or because it expired or was removed.

### Expectations

A request's state is where its file lies. `Declare`, `BeginMatch`, `BeginCancel`, `BeginUpdate` and
`List` begin the calls; `ReadClosed`, `ReadOpen` are the look they share; `CreateClosed`,
`FillClosed`, `UnlinkOpen` are `closeRecord`; `Recheck`, `WriteOpen`, `RecheckAfter`,
`UnlinkZombie` are `updateDeadline`; `ClaimLine`, `AppendLine` are `emitOnce`. `Mishap` is an I/O
error or a crash, and leaves the file or the letter as the code does.

### Timers

`Pump` lists the directory, `Judge` looks at the owner's heartbeat, `Reread` at the status, `Send`
hands the message to the agent without waiting for it, `WriteTmp` and `Rename` are
`writeTimerAtomic` - of a firing or of a cancellation. `SweepRead` and `Remove` are the sweep.
`sends` counts the messages of each round; `overlapped` says that a cancellation met a call that was
past its last look.

## 3. Runs

| run | question | answer |
|---|---|---|
| `registry_cas` | leases never outlive their holder: is every generation owned once, does the registry implement `Ownership`? | yes |
| `registry_adverse` | leases of crashed holders are taken over and heartbeats are written without the lease: what still holds? | a token buys only its issuer's succession, every attachment was granted |
| `claim_processes` | two processes, a crash, a failed operation, torn files, a slow send | exclusive until stolen; a repeat has behind it a lost receipt, a slow send or a race, or a torn receipt; converges unless a file is torn |
| `completion_acks` | two sessions, two hand-overs, every failure: is a letter acknowledged unread, or a receipt written for nothing? | only after a refusal nobody awaited, or after a `.notified` mark was taken for an injection |
| `completion_one_session` | one session under busy agents: does the completion arrive, and how often? | yes unless a crash, a failed operation or a swallowed refusal; once, and once more for each lost receipt and slow send |
| `wake_scope` | two owners, a crash, a failed spawn or write, pause: do letters settle, in how many prompts? | yes; as many as hand-overs and ticks that left the letter claimed explain |
| `commands` | a command posted twice and delivered by letter to two sessions, with a crash, an I/O error, a hand-over and an edit: does it implement `OneShot`, do the answers agree, does a letter settle? | yes; an undecided or lost command is explained by a crash or an I/O error |
| `outbox` | a message for two bridges in turn, a refusal, a slow send, a hand-over, and a crash or a failed operation: is its status true, how often does it arrive, does it come to rest? | yes, but "failed" for a repeat that failed; once, and once more for each lost receipt, slow send and race of two bridges, which takes a second queueing; yes, by expiry where a file is torn |
| `succession` | two owners in turn, the host, a person and a crash: one proposal and one attempt for a generation, and does it arrive? | yes, unless a right is taken from its live holder or an older generation's call overwrites; yes |
| `transfer` | two transfers, another token, forced attaches, take-overs, expiries, a crash or a failed spawn: are the records true, does the window protect, does a transfer end? | yes; but for the gaps the code leaves; yes if nothing hinders it |
| `expectations` | two processes match, cancel, update and list one request, one mishap: one outcome, a true journal, files that agree, nobody who waits in silence? | yes |
| `timers` | two main sessions and a tab, one crash, late heartbeat or failed call: is a round sent once, does a cancellation hold, is a due timer settled? | yes without mishaps, at most `n(1 + 2m)` times after `m`; unless a firing overlapped it; yes |

Bounds. Two sessions suffice for every race in these files: each operation involves the caller, the
file, and whoever changed it in between, and a third session can only repeat the second's part. (How
often it is repeated is another matter: `Timers` counts, and section 5 says what two sessions hide.)
`MaxGeneration = 3` lets a token be replayed after the generation it was for and the one it bought;
`MaxTokens` bounds the tokens issued (6 is every session's token of every generation; the adverse run
needs one). `MaxAttempts` leaves room for a retry after a lost race and one more (the code has 4
rounds). One or two crashes, refusals and slow sends: each property is about one injection key or one
batch of letters, and is stated relative to the number of such events. `MaxDelivered` only caps a
counter. `MaxMoves` is one change of owner while letters wake somebody, and two while a completion is
delivered: an owner can lose the master and get it back, and only then does an event bus meet the mark
of a send that was never made. Two letters are the smallest number for which one tick's batch can
differ from another's. `commands` has two posts and a letter for keys of three kinds: any key can meet
itself over both entrances, and one key's pause another's edit. One letter suffices because
`executeCommand` sees keys, not letters, and because two sessions can hold the same one.

`claim_processes` and the two completion runs allow one failed operation; those of several come from
the theorems. `outbox` allows one refusal, one slow send, one hand-over, and one crash or failed
operation: its properties count them, and the theorems are for any number. Its `MaxAttempts = 2`,
where the code has 4, is a take-over of a stale claim and the create after it. `succession` has two
generations, so that a call of the first can outlive it, and at most `MaxBusy = 2` calls under way,
which is what a race takes. `transfer` has two transfers, each with its successor, so that one's
failure or confirmation meets the other's window; each successor is the bystander of the other's
transfer; one mishap, of either kind; three generations are one for each. `expectations` has two
`MaxEdits`: two updates, or an update and a cancellation, and a reply that races with both; deadlines
0 and 1 and `MaxTime = 1` make a deadline that has passed, one that has not, and a change in either
direction. `timers` has two rounds, so that a repeating timer comes round again, and `OrphanAge = 1`,
so that a mailbox timer can become an orphan in the second.

Where deadlock is not checked the system may stop: a message whose receipt is written, a
letter that is acknowledged, a request that is closed.

Fairness. Weak fairness of a call's next step: synchronous code that has begun runs on unless the
process dies (`Crash` is a separate, unfair, bounded action). Weak fairness of the ticks: they are
`setInterval` timers. Weak fairness of age: clocks advance. No fairness is assumed of crashes,
refusals, moves, edits or of a send's outcome; a send does end, because the promise it awaits settles.

Strong fairness is used where a process runs one call at a time, so that something that is due for
ever is possible only between its calls. A round of `Expectations` lists what is overdue and
consumes what is pending (`List`, `Consume`); a bridge's send is answered between two of its calls, and
the host's poll comes round (`SendStep`, `ChooseRecord`); a claim or a right grows old though the calls
of others keep it from being so at once (`ClaimGrowsStale`, `RightGrowsOld`). An item's 24 h pass for
certain only where a torn file holds it up (`Wedged /\ ItemGrowsOld`), so that the other items have to
come to rest without them. Also strong are: the owner's turns end
(`AgentEnd`); a successor's agent does what its prompt tells it, and tries again when it is refused
(`AttachWithToken`, `Confirm`). The last is an assumption about an agent, not about code: without it
no transfer ends, and the code has nothing else that would end it.

## 4. What disagrees with the repository's own statements

The passing runs state what is true. Where a comment says more, it can be refuted by giving TLC
the stronger statement; for each of these the way to see it is named.

* `registry.ts:327` says that the lease makes attach a compare-and-swap. A lease that a crash left
  behind is renamed over without comparison, so two sessions that both read it as old both hold it
  (`registry.ts:342-348`), and both are granted one generation. (`OneOwnerPerGeneration` in
  `registry_cas.cfg` with `LeaseMayAge = TRUE`.)
* `receipts.ts:91` says the channels cannot both inject. The receipt is looked for before the claim
  is created and not after: look, (the other claims, injects, writes the receipt, clears its
  claim), create, inject. (`InjectionsAccounted` in `claim_processes.cfg`.)
* After a failed spawn the letters stay claimed by the session, and the acks of its next successful
  tick acknowledge every letter of that claimer, in the prompt or not (`mailbox.ts:314`).
  (`UnreadOnlyIfAbandoned` without its second disjunct, in `wake_scope.cfg`.)
* `scope.ts:328` says that the claim is the barrier against waking twice. But the same
  `try` holds the spawn and what follows it (`mailbox-consumer.ts:665-674`, `:483-495`): a wake
  state that cannot be written is audited as a failed spawn while the tab runs, and `ackClaimedBy`
  passes over a letter it cannot write (`mailbox.ts:318`). Either way the letter stays
  claimed, grows stale and is prompted again. (`PromptsAccounted` without `lost`, in
  `wake_scope.cfg` with `MaxCrashes = 0`.)
* The event bus confirms the receipt of a send it has not awaited (`event-bus.ts:317-318`); the busy
  agent's rejection comes later, and the mailbox acknowledges the letter as already injected.
  (`AckedWasDelivered` or `ReceiptMeansDelivered` in `completion_one_session.cfg`.)
* `event-bus.ts:283-284` takes a `.notified` mark for the proof of an injection and writes the
  receipt. But the mark is written before the send (line 317). When the send failed or the process
  died in between, the next bus to take over the stale claim confirms what was never injected, and the
  mailbox acknowledges the letter unread: `"mark" \in presumed`. (`presumed \subseteq {"send"}` in
  `completion_acks.cfg`; `AckedWasDelivered` there.)
* A receipt that a crash left without content counts as absent (`hasNotificationReceipt` parses it)
  and can never be replaced (`wx`), so a claim that has grown stale can be taken over and the message
  injected again and again. `InjectionsAccounted` therefore excludes torn receipts in its theorems, and
  the outbox counts every such arrival in `lost`.
* A receipt whose write fails is not told to whoever confirmed: `confirmInjection` returns false, the
  claim is left, and the message is injected again once it is stale. `lost` counts these too.
* A letter that a crashed consumer had claimed is never listed again. (`CompletionArrives` in
  `completion_one_session.cfg`.)

Met while modelling:

* A workstream's letters that a failed spawn left claimed are left to stale recovery by
  `wake.ts:14`, but a tick of this loop goes on only if a pending letter exists (`wake.ts:152`).
  `LettersSettle` fails when `wake_scope.cfg` is given `Loop = "workstream"`.
* `replay-unknown-outcome` is explained by a crash after the claim (`command-executor.ts:17`). A
  loser that looks while the winner is still executing gets it too; a failed outcome
  write gives it for good. The answers are excepted from `AnswersAgree` for that reason.
* When the winner died before its outcome, the next call answers `replay-unknown-outcome` and its
  letter is acknowledged: the command is neither done nor repeated. A failed outcome write is
  answered as `failed` although the command took effect.
* `mailbox-consumer.ts:328` says rejections precede the claim. Those of the handlers
  (`no-workstream`, `bad-state`, `not-attached`) follow it, and are replayed for that key
  even when the state has changed since.
* A command letter left claimed by a crash or by the fencing recheck is left to stale reclaim
  (`mailbox-consumer.ts:312`), which never lists it: `listPendingCommandLetters` skips it.
* `command-executor.ts:6` still says that the mailbox does not execute command letters.
* `updateWorkstream` writes back the record it has read, so a `/workstream-link` can undo a pause
  that was accepted meanwhile. `runAutoHandoffSet` can lose another writer's change likewise.
* `heartbeatMaster` compares and then writes the whole record without the lease, so it can bring
  back a generation that has passed, which its comment at `registry.ts:496` excludes. Only
  tests call it. `registry_adverse` includes it.
* `isTransferInFlight` is read under the lease in a forced attach and before it in a take-over, and
  `setTransferWindow` takes no lease: a transfer can begin between the look and the write.
* A `claiming` file torn by a crash has no readable age, so the stale take-over never applies
  (`receipts.ts:114`); `Converges` therefore excludes `Wedged`.
* The mailbox loop and the workstream wake loop look at ownership when the session starts, and
  never start for a session that is attached later, although `mailbox-consumer.ts:397` says that
  whoever is the owner consumes. `consuming` and `ticking` model this.

Outbox:

* The bridge handles a receipt that does not land (`outbox-bridge.ts:187-193`) by leaving the item
  pending, and leaves the rest to the next round. That round sends the message once more; if this send
  fails, the item says failed although the message arrived. `StatusIsTrue` states what is left of the
  claim: "failed" means that every arrival has an excuse. (Its second half with `injected = 0`, in
  `outbox.cfg`.)
* A claim that a crash or a failed write left without content keeps the item pending until it expires
  after 24 h, by `receipts.ts:110-115`. (`OutboxSettles` without the fairness of `ItemGrowsOld`.)
* A WeChat message that is queued again for another owner, while the first owner's bridge is at work,
  brings two bridges to one claim, and with them the race of look and create and that of reread and
  unlink. `DuplicatesAccounted` says that nothing else does.
* `message-outbox.ts:241` says that a final status never changes again, against double writes. The
  look and the write are two steps: a sweep and a bridge that both found the item pending both write.
* A WeChat record can say rejected although its item was queued, if the settlement's write failed
  (`wechat-input.ts:95`).

Transfer:

* The window is opened after the successor was spawned and recorded (`master-transfer.ts:258-269`):
  if the successor confirms first, the window outlives its transfer by 24 h, and keeps every
  forced attach and take-over out.
* A failed spawn removes whatever window there is (`master-transfer.ts:251`), "idempotently"; it
  may be that of an earlier transfer still under way. So does the confirmation of one of two.
* A second token, of a transfer or of `/master-detach`, makes the first one worthless: the file holds one.
* A successor that never comes, or a crash of the owner between its writes, leaves the record
  initiated or spawned for ever, and `hasInFlightTransfer` (`master-auto.ts:120`) then keeps every
  automatic hand-over from starting. Nothing cleans such a record; `humanCancel` has no caller.

Succession:

* `master-succession.ts:116-125` says that a proposal is never overwritten. Two losers can both unlink
  the right (the second the first one's new right), and a call that began in an older generation
  writes its proposal over the newer one's; `repeated` and `strayed` record both.
* An accepted proposal is never adopted: `adoptTransfer` takes only a pending one (`:277`).
  Accepting and adopting both write back what they have read, so either can undo the other.

Expectations:

* `cancelExpectation` and `updateDeadline` have no production callers. Two updates that race are both
  answered ok, with one revision, and one deadline is lost.
* A crash between the create and the write of the closed file (`expectations.ts:400`) leaves a request
  that nobody can close and nobody announces. An I/O error there counts as a defeat: the reply is
  answered as a duplicate while the request stays open.
* A reply that is consumed before the request has been declared finds no expectation.

Timers:

* `sendUserMessage` is not awaited (`timers-runtime.ts:135`), so a busy agent's rejection, which
  `injection-gate.ts:110` describes, is lost and the timer is recorded as fired; the comments
  promise at least once.
* A cancellation that a firing overlaps is undone: the firing writes the record it read before, and a
  repeating timer is armed again.
* `timers.ts:298-301` says that each timer has one consumer. The sessions of a directory share its
  timers and one `.tmp` name, so one can rename what another has written.
* The sweep of a main session removes a tab's pending timer once it is a day overdue, also when the tab
  only slept. Cancelled timers age from their creation. The status `missed` has no writer and
  `casFireTimer` no caller.

## 5. Proofs

`MasterRegistry_proofs` proves, for every set of sessions and nonces and every bound:

* without further assumptions - crashes, lease take-overs and heartbeats included:
  `TypeOK`, `GrantChain`, `FirstOwnerIsUnique`, `TokenBuysSuccession`;
* assuming `~LeaseMayAge` and `HeartbeatCallers = {}`: `LeaseProtects`, and from it
  `LeaseIsExclusive`, `OneOwnerPerGeneration`, `TokenSpentOnce` and the refinement `ImplementsOwnership`.

`CommandExecution_proofs` proves, for every set of keys, kinds, sessions and letters and every
bound, all the safety properties of `CommandExecution`: `TypeOK`, `LetterInHand`, `AtMostOnce`,
`AnswersTrue`, `AnswersAgree` and `AckedWasDecided`. Its three invariants build on each other. The
types hold only together with `LetterInHand`: an acknowledgement writes what was read before, and
keeps the claimer's name only because a claimed letter never becomes pending again. `KeyInv` says
that a key has one executor, that it executes between its claim and its outcome, and how often a
command at each of these points has been written; the answers follow, because each repeats the
outcome or has an excuse. `LetterInv` needs that nobody answers for a key before it is claimed,
spoiled or turned away, and that no key leaves that set. The assumptions are `CommandAssumption`.

From them follows the refinement, `CommandImplementsOneShot`: every step of the code is one of
`OneShot`'s or stutters. Most stutter, because the calls' looks at files and the whole letter chain
leave `Running` alone (`CommandStutters`, `LeavesRunning`). `KeyInv` is needed where an effect happens
(it is the first), where an outcome is written (it says what happened, and there is no other), and
where a call ends (no other call runs the same key, so the key stops running).

`CompletionDelivery_proofs` proves, under `InjectionAssumption`, for any number of channels and processes:

* with every failure: `TypeOK` and `ClaimIsExclusive` (until a claim is removed as stale, whoever holds it
  is the one its file names: it is created exclusively, and only its holder removes it);
* for the channels of one process: `ReceiptTorn \/ InjectionsAccounted`, and without torn files
  `InjectionsAccounted`. The argument counts sends, those awaited among them (`SentInv`): `1 + lost +
  slow` are allowed, where `lost` includes the receipts whose write failed, and when they are used up
  without a receipt, the claim file belongs to a send or a confirmation under way (`Pursued`), so that
  nobody else can create it. Two processes can both look for the receipt before either creates its
  claim (section 4); the hypothesis is that they do not exist.

And under `CompletionAssumption`, for any sessions, watchers, hand-overs, crashes and torn files:
`DeliveryTypeOK`, and `UnreadOnlyIfPresumed`. Every step of the two channels is one of the gate's or
confirms without a delivery, as only the event bus does (`GateNext`), which carries the results about
claims over, and with one session and no torn files `InjectionsAccounted` too. `ReadInv` says that
until the bus has confirmed what it did not inject, acknowledgements, receipts and answers "already"
are for delivered messages. `MarkInv` is why the mark misleads only then: until a claim was taken
over, a mark without a delivery has behind it the bus that wrote it and has not yet sent, and whose
claim keeps every other bus from looking at the mark.

`Wakeups_proofs` proves, under `WakeAssumption`, for both loops, any sessions and any finite set of
letters, all the safety properties of `WakeDelivery`: `TypeOK`, `UnreadOnlyIfAbandoned` and
`PromptsAccounted`. A letter that is claimed and not yet in a prompt is in the batch of a tick that
will spawn one (`ReadInv`). For the prompts, `TokenInv` counts those that there were together with
those that may still follow - one if the letter is free to be claimed, one if the owner's tick
carries it. `AckInv` says that a tick that acknowledges passes over no letter of its own unless that
letter's write failed, so that a letter it leaves is no longer free, or is paid for by its own `lost`.

It also proves, under `TimerAssumption`, for any number of main sessions, any horizon and any number
of mishaps, the safety of `Timers`: `TimerTypeOK` and `FiresAccounted`. A cancellation that nothing
overlapped leaves nobody past the last look (`CancelInv`); a record that says `fired` was made by a
send (`FiredInv`). How often a round is sent takes most of the module:

* `Potential(d)` adds to the sends of round `d` all that may follow without another mishap: the
  sessions that have listed it or may list the file's record, those that may once the `.tmp` is
  renamed, and those that may once a record in somebody's hands is written. No step without a mishap
  raises it once the round has come; a failed call raises it by 1, a crash by `2n`, a late heartbeat
  by `2n` (`QuietStep` to `LateStep`).
* A late heartbeat could raise it by `3n`, since the owner's record may be in its hands, in the `.tmp`
  and in the file. `NoTriple` says that it is never in all three.
* While a round has not come nobody has listed it, and the potential is what the records then allow
  (`EntryBound`): without mishaps 1, because one session alone gets past the judgement and its record is
  in one place at a time (`Chain`); otherwise each session by its own record, and everybody by those of
  sessions with an old heartbeat, of which there are at most as many as mishaps (`LooseInv`).

The attempt to prove an earlier bound, one send more per session for each mishap, refuted it: an owner
that is late in mid-call writes its record back while the others fire it, so that three sessions send
one round five times after one mishap. With two sessions TLC cannot see that. The bound proved is exact
without mishaps and not the least one with them: TLC finds three sends for two sessions and one mishap,
four for two and two, five for three and one, where 6, 10 and 9 are proved.

`SessionOutbox_proofs` proves, under `OutboxAssumption`, for any sessions, processes and bounds, its
`TypeOK`, `DuplicatesAccounted` and `StatusIsTrue`, with torn files and failed operations. The argument
counts the arrivals together with the open sends (`Sent`, `Open`), from the create of a claim to the
moment its answer is dealt with:

* `SentInv`: `1 + Excuses` are allowed, and when they are used up without a receipt the claim is that of
  an open send or of an arrival whose receipt is being written (`Pursued`), so that nobody creates
  another but by a take-over, a late look or a lost receipt, each of which is an excuse more.
* `DoomedInv`: where "failed" is said or about to be said, the allowance is one short; only a send after
  an item became pending again could use that up, and it needs the failed one's claim to be gone.
* `DeliveredInv`: who writes or has written `delivered`, or has made a receipt, has seen an arrival. It
  holds here and not for the completions because a bridge confirms nothing but a send it has heard of.
* `SingleInv`: until the item names a second session, only one bridge works on it, and what it has looked
  at does not change before it acts; hence the second half of `DuplicatesAccounted`.

`MasterSuccession_proofs` proves, under `SuccessionAssumption`, for any sessions and generations, its
`TypeOK` and `OncePerGeneration`. The calls of one generation are those of one session, and of the
host (`CallInv`); the marker is at or beyond every generation attempted, unless an older generation's
call overwrote it (`AttemptInv`); a right has one holder, unless it was taken from a live one
(`RightInv`); and then the proposal in the file is the latest, and its creator is its generation's
first (`ProposalInv`).

`Expectations_proofs` proves, under `ExpectationAssumption`, for any processes, replies and deadlines, all
the safety properties of `Expectations`:

* `TypeOK`, with what a call may hold at each step and that each revision was paid for by an update
  (`CallsInv`);
* `OneOutcome`: between the exclusive create and the removal of the open file one call closes the
  request and nobody has been told (`ClosingInv`); then all that is told is what the file says;
* `JournalTrue`: a line's key is claimed before it is appended, and once (`LineInv`, `AppendInv`); a
  time-out compares with the deadline of the revision it names (`TimeoutInv`), and without racing
  updates a revision has one deadline (`RevisionInv`);
* `AtRestAgree`: without a crash or an I/O error, every disagreement of the files has a call that will
  end it (`ClosingUnderWay`, `LinesUnderWay`, `SetUnderWay`, `ArrivalUnderWay`).

Two of its assumptions only keep values of the model apart: a process is no status of a reply,
and the absence of a record is not a record.

`MasterTransfer_proofs` proves, under `TransferAssumption` (each transfer has a successor of its own),
`TypeOK`, `WindowAccounted` and `RecordTrue`, for any sessions, any number of transfers and any bounds.

* For the window: a transfer that is under way and not bared has a window that blocks, and nobody
  is between looking for one and writing the attachment (`Protected`). It is false without the
  second half: a forced attach that looked before the window opened still writes after.
* For the records (`RecordInv`): the attachment is the last one granted (`GrantTrue`); one call
  carries out a transfer (`OneStarter`); what a call will write to its record fits what the record
  says now (`CallHolds`): there is no tab before the record is initiated or after its launch failed, and a
  successor that confirms holds the generation after the one handed over; and so each record names a
  grant (`RecordHolds`). A record is read, changed and written back without a lock: `OneStarter`
  and the status are why no two calls ever do that to the same one. TLC checked `RecordInv` too.

The registry's constants' assumptions are `RegistryAssumption`. Its two inductive invariants say why
the properties hold. `GrantChain`: whatever a call is about to write back, and whatever it is about to
succeed, is a generation somebody was granted, so a bump's predecessor and a token's issuer are real
owners. It needs no mutual exclusion. `LeaseProtects`: whoever is past the acquisition is the one the
lease names, holds the attachment as it is, and every grant and every spent token is of this
generation or an earlier one; a new grant is therefore strictly newer than all others. It fails as
soon as leases can be taken over (section 4). TLC checks both invariants in the passing runs as well.
The types, `TokenSpentOnce`, `LeaseIsExclusive`, `FirstOwnerIsUnique`, `AtMostOnce` and `LetterInHand`
are proved and not given to TLC any more.

TLC checked each of these inductive invariants on the bounds of section 3 before its proof.

Only model-checked: `RacesAccounted`, the account of two processes (its theorem for one, of
`InjectionsAccounted`, excepts a torn receipt as well); and every liveness property (`Converges`,
`LettersSettle`, `ArrivesUnlessCrash`, `OutboxSettles`, `ProposalArrives`, `TransferEnds`,
`NobodyWaitsInSilence`, `TimerFires`), which the prover cannot treat. Every other invariant and action
property of the runs is a theorem.

## 6. What is left out

Of the modelled files: torn attachment, lease and dedupe-slot files; the legacy injection path that
runs before the registry cutover; audit lines, toasts and panel updates; letter expiry, which has no
production caller; the wording of what is injected. Outbox items with a command in them, and those
left pending for an owner that is offline. Attention items, the reminder in the prompt and the
arithmetic of context pressure (one flag). The handoff document, the launch of a successor's tab and
I/O errors of a transfer's record. The limit of pending timers, which is checked before it is written
to, timers and sessions without an id, which match by directory alone (`timers.ts:373-379`), and
`/reload`. A content that cannot be written leaves a torn file; in `InjectionClaim` it can fail only
where `WritesTear` admits torn files. Of the rest: rendering, HTTP, process spawning, decryption and
parsing are I/O; the relation graph, global view and timeline are projections without state of their
own; hotspot scores are floating-point.

## 7. Plan

In this order:

1. `TabRuns` - the run ledger, silent tabs and the result file that `CompletionDelivery` begins with.
2. `DaemonLifecycle` (single instance, take-over of `host.json`), `WechatInbox` (commit only what is
   stored), `EventStream` (no gap and no repeat across rewrites), `EventJournal`.
3. `AutonomyActions` - the ledger, the breaker and the rollback: a letter can be claimed between the
   effect and its verification, and then be deleted by the rollback; a crash after `recordStart` leaves an
   action in flight for good.
4. `Workstreams` - records written back whole.

Theorems wanted next: the least bound of a round's sends after mishaps; that a completion is a letter
delivered once but for what is accounted for, as an abstract specification that `CompletionDelivery` and
`WakeDelivery` implement.
