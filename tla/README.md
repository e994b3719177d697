# CrewON durable execution: TLA+ models, checks and proofs

CrewON runs agents. A *run* is an event-sourced record in a store; a *work item* in a durable queue
stands for the work still to do on it; *runtime workers* claim work items under a lease and move the
run on, one committed step at a time: sample a model, execute the tools it asks for, wait for people
to approve a tool call, reconcile outcomes nobody knows, cancel. Workers crash, lose their leases
while they are busy, and act late. The tools they call change the world outside the store. This
project models that core, checks it with TLC on small instances and proves parts of it with TLAPS
for every instance.

## Inventory

| component | state | operations | meets | what makes it correct |
|---|---|---|---|---|
| durable lease queue (`packages/store/src/in-memory-queue.ts`) | per item: status, availability, lease owner, epoch, expiry, wake flag | enqueue, claim, renew, settle, retry, forced settle, wakes | workers, outbox dispatchers, cancel requests, approval decisions | a stale lease is refused for good; a wake is not lost; ready items are not starved |
| run lifecycle (`packages/domain/src/run-lifecycle.ts`) | `RunState`: status, cancel flag, what a paused run waits for | one reducer per event | every commit | terminal is final; after a cancel request only what leads to cancellation is accepted |
| attempts (`packages/domain/src/execution-lifecycle.ts`) | current attempt of each step, with the lease epoch it belongs to | begin, finish, retry | worker, run commits | one running attempt per step, and only of the current claim |
| tool receipts (`packages/domain/src/tool-execution-receipt.ts`) | prepared, dispatched, unknownOutcome, completed, canceled | prepare, dispatch, mark unknown, resolve | worker, reconciliation, cancellation | dispatched at most once; a closed receipt is true |
| tool approvals (`packages/domain/src/tool-approval.ts`) | required, approved, rejected, expired, superseded | require, decide, expire, supersede | people, worker, cancellation | a call is executed only when approved; a waiting run can be answered |
| runtime worker (`apps/runtime-worker/src/runtime-worker.ts`) | its claim, its place in the handler, the results of the batch in memory | claim loop, tool batch, reconciliation, cancellation, error handler | all of the above | see the properties below |
| retained executions (`packages/tool-broker/src/retained-tool-executions.ts`, `tool-result-capacity.ts`) | per process: what became of each started call, and the budget its result counts against | reserve, execute, interrupt, cancel, publish, acknowledge, recover, maintain | worker, tools | a late result is not lost and not turned into a weaker one; no call runs beside itself; no share of the budget leaks |
| run store (`packages/store/src/in-memory-run-store.ts`) | everything durable, event log, idempotency receipts, outbox | leased and unleased commits | services | each commit is atomic and fenced; a repeated command is answered, not repeated |
| outbox dispatcher (`apps/control-api/src/outbox-dispatcher.ts`) | drain in progress, dirty bit, scheduled wake; process-wide slots, busy stores, waiting list | start, wake, hint, drain, close | queue, hub, hints of other processes | no slot leaks, no hint is lost, nothing settled that was not published |
| event hub and streams (`run-event-hub.ts`, `run-event-stream.ts`) | subscriptions with a bounded queue; per connection a page and a cursor | subscribe, publish, next, close; replay, follow, end | dispatcher, UI clients | a client sees every event once, in order, and in the end all of them |
| automation scheduler (`apps/control-api/src/automation-scheduler.ts` and the invocation in service and store) | per process: cursor, cache of completed occurrences; durable: receipts, thread revision, open runs | wake, list, invoke, remember, restart | threads, users, other schedulers, storage admission | an occurrence starts one run at most and the latest one is started in the end |
| device gateway (`apps/device-gateway/src/device-gateway.ts`, `device-connection-route-store.ts`) | leased route with an epoch; per gateway the registered session of a device, heartbeats | accept, welcome, replace, renew, remove, crash | devices, other gateways, dispatch | an old connection never touches a newer route and is closed; the current one can be found |
| workflow scheduler, goals, device dispatch, process shutdown | | | | planned, see below |
| control API, web BFF, desktop UI, plugin host, artifacts, media, contracts, clients | | | | I/O, schemas and presentation; not modelled |

Hard behaviours: effects outside the store that a lease cannot fence; crashes between the durable
dispatch and the answer; late results; cancel requests racing approvals, sampling, tool calls and
reconciliation; batches of which one call fails; retries; leases that expire under a live worker;
several gateways and schedulers acting on what they read before an `await`.
`PROJECT.json` lists them as hazards, each at its line and with the properties aimed at it.

## Modules

* **WorkQueue** is the queue. `records` are the `QueueRecord`s, `leases` what each claimant believes
  it holds (it may keep a lease as long as it likes, or forget it in a crash), `now` the lease clock.
  One action per operation: `claimNext`, `renewWorkItemLease`, `settle`, `retry`, `forceSettle`,
  `cancellationWake` (a cancel request for a reconciling run), `decisionWake` (an approval decision),
  `Enqueue`, `loseLease` and `Tick`. `wakeOwed` and `passed` are history. The outbox uses the same
  queue in insertion order (`ClaimOrder`).
* **FencedOwnership** is what the queue promises: an item has at most one owner at a time, each
  ownership has a larger token than the ones before, done is final.
* **RunLifecycle** is the reducer: `accepts` and `reduceRunLifecycleEvent` over status, cancel flag
  and wait references.
* **RunExecution** composes the store, the workers, their brokers and the tools around one run.
  Durable: `run`, `item`, `requested`, `results`, `receipts`, `approvals`, `attempts`. Per process:
  `wk` (place in the handler, current call, current attempt, results of the batch) and `entry` (the
  broker's retained executions). External: `provider`, what really became of a call. History:
  `effects`. There is one action per store transaction or call to a tool. `Holding` guards every
  store call, as the lease check does; `startEffect`, `recoverToolExecution` and `askToolRuntime` lack
  it, because a tool cannot see the lease.
* **MC_RunExecution** gives RunExecution its workers, their symmetry, and the batches of each run. A
  batch (`batch`, chosen by `Init` from `Batches`) says how many calls the model asks for, which need
  an approval, whether they run in parallel, whether the policy may change, and how many faults occur.
* **OutboxAdmission** is when an outbox dispatcher may drain. `drain` is the store call a dispatcher
  waits for, `changed` its dirty bit, `immediates` the scheduled wakes in the order Node runs them;
  `activeDrains`, `activeStores` and `deferred` are the module-level variables of
  `outbox-dispatcher.ts`. `start`, `scan`, `commitAndWake`, `availabilityWake` are the callers of
  `wake`; `endDrain` is `#drainSafely` with `clear`, the walk through the waiting list included; one
  action per answer of a store call. `closed` dispatchers keep their drain till it is answered.
  `Among` picks members of these lists in their order.
* **MC_OutboxAdmission** names dispatchers and stores, two dispatchers sharing a store: a closed one
  and its replacement.
* **EventDelivery** is what a drain does and who gets the events. Durable: `log`, `outbox`. Control
  process: `disp` (place in `#drainBatch` and `#publish`), `closed`, `sub` (hub), `stream` (the
  handler of each connection). Clients: `seen`. History: `published`. Each `await` of the code ends an
  action, and the checks of `#closed` after it are `DrainOn` and `PublishOn`.
* **EventStream** is what following a run promises, also when the delivery of a message was refused.
* **RetainedExecutions** is the broker of one process in full: reservations and their leases on the
  result budget (`lease`, `bytes`), the entries (`entry`), the physical executions (`running`), and
  what of the host decides about them: the durable `receipt`, acknowledgements and the maintenance
  pass (`look`), whose scan, read and acknowledgement are three actions because it awaits the store.
  RunExecution's `entry` is the part of it that a run's worker sees.
* **AutomationScheduler** is the scan of each scheduler (`scan`, `cursor`, `cache`) over the
  automations of one thread, and `runAutomationNow` with its receipt, its fences and its transaction.
  Every `await` of `#scanDueAutomations` and of the service ends an action; users, running runs and
  the clock act in between. What refuses an invocation is part of it: a thread that is not active
  (`thread`, archived, restored or deleted by users) or has moved on (`revision`), an open run or
  unsettled work (`openRuns`), a pending change of the provider settings (`switching`), and a denied
  actor or a call that fails (`Denied`). **MC_AutomationScheduler** gives it schedules.
* **DeviceConnection** is one device, the gateways it connects to and the route store. An accept goes
  through the stages of `accept` (`stage`), each request to the store has its sending, its effect and
  its answer apart (`renew`, `removal`), and a gateway that crashes leaves its requests on their way.
* **WorkQueueProofs**, **DeviceConnectionProofs**, **RetainedExecutionsProofs**,
  **AutomationSchedulerProofs**, **OutboxAdmissionProofs** and **EventDeliveryProofs** hold the theorems about the module they are
  named for; **RunExecutionControl** and **RunExecutionProofs**, built on it, those about RunExecution.

Operators named for a change of another one (`retriedLate`, `shouldExecuteAgain` ...) stand next to
it. They are the plausible mistakes that `PROJECT.json` lists as mutants: with one in place TLC finds
the property it is listed for violated. Nothing else uses them.

### Abstractions

* A worker that holds the lease is the only writer of the run, apart from cancel requests and
  approval decisions. A read followed by a commit at the revision read is one action: what arrives in
  between makes the commit fail and leads to `cancelConflict` or to the error handler.
* Lease epochs are not counted in RunExecution: a claim turns running attempts into stale ones, which
  is what `validateCurrent` sees. WorkQueue counts them. Retry delays are WorkQueue's too.
* Tool calls are reconcilable mutations. Read-only calls may be repeated and are left out. The model
  asks for one batch of `N` calls at most. The tool sample is committed in its atomic form.
* The automatic approval modes are an early `decideToolApproval`.
* A claimed item of a terminal run would be completed at once. `SettledIffTerminal` shows that this
  branch of `#executeClaimStep` is never taken; the model leaves it out.
* Of a tool it is assumed that it refuses a call it reported as canceled (`provider = "voided"`), and,
  for liveness only, that it ends and gives a definite answer if asked often enough.
* In OutboxAdmission a message is available again as soon as its claim is given up; delays and leases
  are EventDelivery's. There, a drain has no batch limit (the next wake continues), `seen` is what the
  stream wrote, and one client is enough: clients meet only in `publish`, which treats each alike.
* Retention of settled messages, parsing, views and heartbeats are left out. A failed parse or a
  reference that does not match is a `refuse`.
* In RetainedExecutions mutations are reconcilable, and a handler reports completion, an unknown
  outcome or, for a read, its cancellation, as `InMemoryToolBroker.reserveExecution` maps them.
  Fingerprints and owners always match. A read that is declared reconcilable and throws keeps its
  entry till the process ends (nothing settles it), and so does an entry whose receipt nobody commits.
* In AutomationScheduler all automations belong to one thread, which is where they meet; schedules
  are `once` or `interval` (calendars are arithmetic of their own); an automation is never edited
  while it is due, as the store has no command for it. The revisions of the thread and of its model
  history are one (`revision`); items that a running run appends to the history without a change of the
  thread are left out, because the run itself refuses the invocation (`openRuns`). A user's run-now is
  one of the runs of `UserActs`: its receipt has a key of its own and meets no scheduled one. A denied
  actor costs a disturbance each time, so a denial for ever is not a behaviour of the instance.
* In RunExecution the thread of the run stays active. While it is archived, a completing run is refused
  (`thread_not_active`) and goes on only after it is restored; canceling it is not refused.
* In DeviceConnection sessions carry no commands: what dispatch does with a route and a session is
  only stated, in `ConnectedIsReachable`.
* The lease clock never goes back. `SystemLeaseClock` is `Date.now()`, so this is an assumption about
  the host.

## Runs

| run | instance | states | question |
|---|---|---|---|
| `queue` | 2 items, 2 claimants, lease 2, delays 0 and 2, clock to 3, 2 claims per item | 347,352 | types, leases, fencing refinement, wakes, starvation |
| `run_batches` | 1 call with approval, policy may be revoked, 2 faults; or 2 parallel calls, 1 fault; or 2 sequential calls, the second with approval, 2 faults | 566,532 | every path of a call, batch commits with one call failing or unknown, a batch that continues over several claims |
| `run_liveness` | 1 call with approval, 1 fault, fairness | 23,228 | cancel ends the run; a dispatched call is settled |
| `run_cancel_open_effect` | 1 call, 1 fault | violation | finding 1 |
| `run_policy_denied` | 1 call, policy revoked, fairness | violation | finding 2 |
| `outbox_admission` | 3 dispatchers, 2 stores, 2 slots, 1 message per store, 1 fault, fairness | 193,265 | slots, hints, calls after close; what is committed is claimed |
| `event_follow` | 3 events, messages of 1 or 2, queue 1, page 2, 2 faults, 1 failed delivery, fairness | 956,266 | refinement of EventStream |
| `event_gap` | 3 events, 1 failed delivery | violation | finding 3 |
| `device_connection` | 3 connections, 2 gateways, 1 fault, fairness | 415,415 | fencing, registration, superseded connections, accepts that end |
| `device_reachable` | 3 connections, 1 gateway, no fault, fairness | violation | finding 4 |
| `automation` | 2 schedulers, 2 automations (interval, once), page 1, 2 pages per wake, cache 1, clock to 2, 1 disturbance, fairness | 482,838 | one run per occurrence, the cache, the latest occurrence |
| `retained` | a mutation and a read, 3 leases, budget of 2 executions, 2 starts, 1 restart, fairness | 264,638 | budget, concurrent executions, late results, entries released |

A *fault* is a crash, a lease that expires under a live worker, or a failed call. Two workers are a
holder and its successor; with two faults a successor fails too and the first worker comes back. Two
items are enough for starvation, where one item passes another, and the proofs lift the bounds of the
queue. For the outbox, one or two slots stand for the four of the code: with fewer slots than
dispatchers the house is full, and with two a drain ends while another goes on. A queue of one event
and pages of two against three events make a subscription overflow, a page fill up and a replay
overlap with live events. Three connections are an old one, its replacement and a third that arrives
while the replacement waits; two gateways let an old route end elsewhere. Two automations and pages of
one record make the cursor, the page budget and the eviction of a cache of one happen. The clock of
`automation` ends with two occurrences due, one of each automation: a third, the recurrence of the
interval, makes the liveness check too long for two schedulers (the safety properties hold there too, and
the theorems cover it; with one scheduler `LatestIsInvoked` holds as well, with the clock to 3). For the
broker, a mutation and a read with three leases let two reservations of one key race and the budget be
full. Faults of the event delivery are restarts, shutdowns, lost leases, answers and connections; a
failure before publication is counted apart, because only it lets events pass each other. Deadlock is
not checked: a run ends, a clock reaches its bound, dispatchers are closed.

What the properties say:

* `LostLeaseStaysLost`, `LeaseInv`, `FencedSpec`: a claimant that was fenced out stays out.
* `WakeIsNotDelayed`: a cancellation wake survives the retry delay the holder asks for later.
* `PassedAtMostOnce` (proved by way of `PassedInv`): while an item is ready, any other item is claimed in
  its place at most once.
* `EffectAtMostOnce`: no crash, retry or lease change makes a tool call take effect twice.
* `ApprovedBeforeEffect`: no effect without an approval that still stands.
* `ReceiptsTellTheTruth`: completed means it happened, canceled that it did not and will not, also when
  a fenced-out worker is still about to start it.
* `UnknownOutcomeIsReconciled`: an unknown outcome always has the run that is reconciling it.
* `WaitingIsAnswerable`: a waiting run waits for a decision that can still be made.
* `SettledIffTerminal`: the work item ends exactly with its run.
* `ResultsInCallOrder`: results enter the model's history in call order, each backed by its receipt,
  and all of them before the run completes.
* `CancelTerminates`, `DispatchedIsSettled`: see the fairness below.
* `SlotsMatchDrains`: slots and busy stores are those of the drains in flight, also of closed owners.
* `HintIsHeld`: a dirty bit is always backed by a drain, a scheduled wake or a place in the list.
* `QuietAfterClose`: a closed dispatcher begins no store call.
* `WorkIsDrained`: a committed message is claimed, with or without hints. It rests on the scan: a
  dispatcher that was handed a free slot and is closed before its immediate runs passes the slot on to
  nobody, and the next hinted owner of the list waits for its scan or for the end of another drain.
* `SettledWasPublished`: a message is acknowledged only after all its events were published.
* `StreamSpec`: without failures before publication, a client sees exactly the log.
  With them, it sees nothing twice or backwards, misses only events whose delivery was refused
  (`refused`), and learns that the run ended.
* `RouteFenced`, `ReleasedStaysReleased`: a delayed renewal or release changes nothing of a newer
  connection's route, and does not revive a route that was given back.
* `RegisteredIsAttended`: what a gateway has registered has a heartbeat and is not being removed.
* `SupersededCloses`, `AcceptSettles`: a connection whose route was taken is closed in the end, and no
  accept waits for ever.
* `InvokedAtMostOnce`: neither two schedulers nor a lost answer start an occurrence twice.
* `RememberedIsCommitted`: what the cache skips is done.
* `LatestIsInvoked`: once clock and users rest, every automation gets its turn, provided the thread takes
  runs (`ThreadTakesRuns`): it is active and stays so, no provider settings stay pending, and no run of it
  stays open for ever. The last is a condition of the property and no fairness, because finding 2 is a
  run that stays open. An archive, a switch, a denial or a busy thread that passes loses nobody's turn.
* `AccountIsExact`: every lease on the budget belongs to one reservation or entry and has the share its
  owner is due, and the account is the sum of the shares.
* `OneExecutionPerKey`: no execution starts beside one of the same key, also when nobody waits for that
  one any more; a mutation is started once.
* `CompletionIsKept`: a completed mutation stays retained until its receipt says so, though an unknown
  outcome was reported and even acknowledged before.
* `CanceledHadNoEffect`: a mutation recorded as canceled never started.
* `CommittedIsReleased`: an entry that has settled as its receipt says is released in the end, also if the
  host lost its claim between commit and acknowledgement. It says nothing of an entry whose receipt stays
  dispatched: after finding 1 nobody commits it, maintenance only reads and acknowledges, and the entry
  keeps its share of the budget till the process ends.

### Fairness

`workerStep` is weakly fair per worker: a handler that can go on does. `claimNextWorkItem` is strongly
fair per worker: every worker polls, and each one gets a claim if the item becomes claimable again and
again. Weak fairness of "some worker claims" is not enough, and the reason is in the code: a worker
that retains an unknown outcome which another worker resolved since refuses the acknowledgement
(`acknowledgeCommittedToolResult`) on every claim of that run, so progress needs another worker or a
restart. `expireAbandoned` is weakly fair: time passes. `toolEnds` is weakly fair: the broker's timeout
and the tool bound every call. `definiteAnswer` is strongly fair: a tool that is asked again and again
answers in the end. For the outbox: immediates run and store calls are answered (weak), and the scan
timer does not fire only at moments when the slots are taken (`freeScan`, strong; a scan that meets a
full house without a hint leaves no trace, so weak fairness would not do). In EventDelivery the
dispatcher, each stream and time go on, and a process that was shut down is started again. In
DeviceConnection the steps of an accept, the heartbeat and the effect or failure of each request are
weakly fair; nothing makes a device connect, so properties speak of the time after it stopped. In
AutomationScheduler each scheduler goes on (timer and answers); that runs end is a condition of the
property. In RetainedExecutions only maintenance is fair: every poll of a worker's loop begins a pass
unless one is under way, the store answers, and a scan moves the entry it visits behind the others, so
that each settled entry is scanned again and again (strong, because a pass looks at one entry at a time).
Of handlers and of the host nothing is assumed there. Nothing is assumed of faults, cancel requests,
decisions, users and clocks. For OutboxAdmission fairness is stated
per store, which is weaker than per dispatcher: one drain at a time is in flight there.

### Findings

1. The worker's README says that an unknown mutation must reconcile before cancellation can become
   terminal. `#cancel` settles only what its own process retains, and `confirmCanceled` looks at no
   receipt. A successor that meets a cancel request therefore cancels the run while a call of its
   predecessor, dispatched and effective, is open (`run_cancel_open_effect`).
2. A run whose pinned policy no longer matches is meant to fail closed. A *running* run is failed
   through an attempt of its first model step. Once that step is over, the attempt is refused, the
   handler retries the item, and every claim meets the same refusal (`run_policy_denied`).
3. Committed events are said to arrive through live SSE. If the delivery of a message fails before it
   publishes (a read or the durable consumer throws), the message is delayed and later ones are
   published. A stream that follows moves its cursor past the missing event, drops it when it comes,
   and a reconnect with the last sequence does not read it either (`event_gap`).
4. `accept` of a device connection removes the session it finds, awaits that removal and then
   registers its own entry without looking again. If a newer connection registered in the meantime, the
   older one overwrites it; its own renewal is refused, because the route is the newer one's, and its
   removal leaves the map empty. The newer connection is open and keeps renewing its route, and dispatch
   refuses it as `device_connection_route_stale` for as long as it lives (`device_reachable`).

Noted, without a run: `src/apps/control-api/README.md` (lines 149-160) describes automations as
`manualOnly`, with views that always report `automaticScheduling: false`, and says that there is "no
public scheduler, due/claim endpoint, enable toggle or automatic execution path". The models follow the
code: both compositions start an AutomationScheduler, a definition created with a schedule is stored and
shown as `scheduled` (`control-api.ts:593`, `automation-projection.ts:23`), and its due occurrences
become runs without a request.

## Proofs

`WorkQueueProofs` proves, for any items, owners, durations, delays and bounds:

* `TypeCorrect`: `TypeOK`, inductive as it stands.
* `LeaseCorrect`: `LeaseInv`. With types it is inductive. The uniqueness of an epoch's owner needs that
  no remembered lease is ahead of its record, so that the next epoch is fresh.
* `LostLeasesStayLost`: for each action, a lease that does not hold before does not hold after: expiry
  only moves by a renewal the holder may make, a new claim has another epoch, and `LeaseInv` rules out
  that the new epoch is one already remembered.
* `QueueImplementsFencing`: the refinement. An unexpired lease is ownership; a tick may end several
  ownerships at once, which the abstract specification allows.
* `WakesAreNotDelayed`: the strengthening says that an owed wake is recorded in the leased record
  (`wake`), where `retry` finds it.
* `ReadyItemsDoNotStarve`: `PassedInv` is the inductive invariant: an item that passed `j` is behind `j`
  as long as `j` is ready, so it cannot pass again. It needs `LeaseDuration > 0`.

They rest on the assumptions WorkQueue names: `NoOwner` is no owner, a lease lasts, delays and bounds
are natural numbers. TLC evaluates these on the `queue` run.

`DeviceConnectionProofs` proves, for any number of connections, gateways and faults:

* `TypeCorrect`, `SessionsAreAttended` (`RegisteredIsAttended`) and `ReleasesAreFinal`
  (`ReleasedStaysReleased`) from one inductive invariant, `IInv`. None of them is inductive alone. A
  release would miss the route of its own connection unless the route's epoch is the one that connection
  claimed (`EpochInv`), and a claim could lease a route to a released connection unless a connection whose
  claim is on its way has not been removed (`AcceptInv`).
  That an accept registers what nobody removes needs `AcceptInv` as well, and that it finds the right
  gateway's map needs `HomeInv`.
* `RoutesAreFenced` (`RouteFenced`): step by step, from the types alone. Only a claim, a renewal, a release
  and the clock touch the route; a renewal needs a live lease with its own fence, so it changes nothing
  but the expiry, and a release acts under its own fence.

They rest on `ConnectionAssumption` (so that 0 is no connection) and `FaultAssumption`, which TLC
evaluates on the `device_connection` run.

`RunExecutionControl` and `RunExecutionProofs` prove, for any workers, any batches of any size and any
number of faults, in layers that are each inductive relative to those before:

* *Control* says what the place at which a worker stands (`Placed`), and that the holder of the lease
  stands there (`Held`), tells about the run, the batch and the receipts. Without `Held` nothing
  relates a holder's next transaction to the state it was decided on; it is inductive because a holder
  that loses its lease is only `Placed`. `TypeCorrect` (`TypeOK`) and `ItemsEndWithRuns`
  (`SettledIffTerminal`) follow.
* *Evidence* says that what receipts, brokers and workers believe of a call is what became of it: no
  effect before the dispatch is committed (`FenceInv`), one worker that may start it (`DispatchInv`),
  true memories (`MemoryInv`). Memories count because a worker without its lease may still start,
  recover or ask, and its answer is committed later. `EffectsAreSingle` (`EffectAtMostOnce`) and
  `ReceiptsAreTrue` (`ReceiptsTellTheTruth`) follow.
* *Batch* orders the calls: what the holder has gone past is approved (`Passed`), what it reconciles is
  what the run names (`Reconciles`), what it commits is the next result (`CommitsNext`), and a
  reconciling run waits for the next result (`AwaitedIsNext`). `UnknownIsReconciled`,
  `WaitingRunsAreAnswerable` and `ResultsAreInOrder` follow.
* `EffectsAreApproved` (`ApprovedBeforeEffect`) needs all of them: an effect starts from a dispatch,
  perhaps after the lease is gone, the dispatch was committed after an approval, and approvals of
  dispatched calls are final.

They rest on `BatchAssumption` (a batch has calls, and which need approval) and `WorkerAssumption` (the
states of an item are no workers).

`RetainedExecutionsProofs` proves, for any commands, leases, limits and number of restarts, in two layers:

* *Budget*: every share of the budget has one owner and the account counts the shares. A sum over an
  unbounded set of leases is not inductive by itself; the invariant says that open and kept shares are
  finite sets whose cardinalities make up the account, and each action moves one lease between them. A
  physical execution runs exactly for the entries that are pending. `TypeCorrect`, `AccountsAreExact`
  and, with the next layer, `ExecutionsAreSingle` (`OneExecutionPerKey`) follow.
* *Outcomes*: a mutation has at most one reservation it may start with, and none once anything of it was
  started or retained (`FenceOf`); what is retained of it is true (`TaleOf`); a closed receipt that the
  maintenance pass has read is still the same when the pass acknowledges it (`Looking`).
  `CompletionsAreKept` and `CanceledIsUntouched` follow.

They rest on `KindAssumption` (a replay-safe tool is read-only), `BudgetAssumption` (settling never
raises a share) and `BoundAssumption`.

`AutomationSchedulerProofs` proves, for any schedulers, automations, schedules and limits: `TypeCorrect`;
`OccurrencesRunOnce` (`InvokedAtMostOnce`), because every logged run has its receipt (`Log`) and the
transaction refuses an occurrence that has one; `MemoryIsTrue` (`RememberedIsCommitted`), because a
scheduler stands at an answer only with the receipt (`Place`); and `CacheIsMap`, on which forgetting one
automation relies. They rest on `ScheduleAssumption` and `LimitAssumption` (limits are positive).

`OutboxAdmissionProofs` proves, for any finite set of dispatchers, any stores and slots: `TypeCorrect`,
`SlotsAreDrains` (`SlotsMatchDrains`), `HintsAreHeld` (`HintIsHeld`) and, step by step, `ClosedIsQuiet`
(`QuietAfterClose`). *Process* says that the lists of wakes and waiters have no repetition, no closed
dispatcher in them and nobody waiting who drains; without it the walk through the waiting list could
serve a dispatcher twice. *Hints* is `HintIsHeld` for lists with room for all, which needs that a list
without repetition is no longer than there are dispatchers. *Numbers* bounds the batch. What the
recursive function `Among` returns is proved by a least counterexample among the lengths of prefixes
(`AmongList`), because the induction rules cannot be cited. They rest on `StoreAssumption`,
`LimitAssumption`, `DispatcherAssumption` (finitely many dispatchers) and `BoundAssumption`.

`EventDeliveryProofs` proves, for any clients, any log, queues and pages of any size and any number of
faults: `TypeCorrect`, `SettledIsPublished` (`SettledWasPublished`) and `DeliveryImplementsStream`, the
refinement of EventStream but for its fairness. That a step of a stream gives the client what comes next
is not visible in the stream alone, so the invariant relates it to the dispatcher:

* `Ranges` and `Handling`: messages name consecutive ranges of the log, and what of its message a
  dispatcher has published at each place; a closed one at `published` may have published nothing, which
  is why `#drainBatch` must look again before it acknowledges.
* `Tracks`: the page continues at the cursor, and the *line* of a stream (the event in its hand, then
  its queue) holds an event only after every earlier one that the client lacks and nobody refused.
* `Awaits`: what of the log is neither refused nor in the line of an open subscription is still ahead
  of the dispatcher (`Ahead`): in a claimable message after the current one, or not yet published of it.
  So an event cannot enter a line before one it depends on. It is claimed of streams that read no
  further page (`Live`) and of processes that are not closed: a restart ends all streams, and a new one
  reads everything that was committed before.

They rest on `SizeAssumption` (log, queue and page are not empty) and `BoundAssumption`. TLC has checked
the invariant on the instance of `event_follow` as well.

TLC evaluates every one of these assumptions on the runs of the module that states it.

Only model-checked: liveness, which with `ENABLED` is out of the prover's reach: `WorkIsDrained`,
`LatestIsInvoked`, `CommittedIsReleased`, `SupersededCloses`, `AcceptSettles`, the properties of `run_liveness`,
and of `StreamSpec` that a client gets its last event in the end.

## Plan

1. Done: WorkQueue with its proofs, FencedOwnership, RunLifecycle, RunExecution, OutboxAdmission,
   EventDelivery, EventStream, RetainedExecutions, AutomationScheduler, DeviceConnection; proofs of the
   safety properties of all of them.
2. RunCommit: `#commitRun` with expected revisions, idempotency receipts and repeated commands; the
   snapshot is the replay of the log; one outbox message per event. An abstract specification: each
   command takes effect once.
3. Device dispatch: the dispatch store's receipts, commands routed to a peer gateway, a session that
   ends with commands pending. It composes with DeviceConnection.
4. The refinement between RetainedExecutions and RunExecution's `entry`; workflow scheduler; process
   shutdown.
5. Proofs about RunLifecycle: what cancel requests and terminal states leave possible.

## Not modelled

HTTP routes, UI, plugin packaging, media and artifact pipelines, schemas, generated
protocol types, model transports: they keep no protocol state that a model would add to. Most of the
repository's lines are of these kinds, or tests, or the SQLite and PostgreSQL stores, which implement
the ports that the in-memory stores define and are held to them by shared conformance tests; the models
follow the in-memory ones. Context compaction and goal accounting transform data within a step of the
worker and decide about no step's order.
