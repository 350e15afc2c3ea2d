# Specifications of the BAAS C++ service

This directory holds TLA+ models of the concurrent and crash-sensitive parts of
`baas-cpp-dev`, the TLC configurations that check them on small instances, and
proofs checked by TLAPS of the properties that matter most. Every definition is
translated from the C++ sources under `src/`; `PROJECT.json` gives, for each
one, the lines it stands for. Paths below are relative to the repository.

Contents: [1 The system](#1-the-system) ·
[2 Modules](#2-modules-and-how-they-follow-the-code) ·
[3 Runs](#3-runs) · [4 Divergences](#4-divergences-found) ·
[5 Proofs](#5-proofs) · [6 Limits](#6-what-is-not-covered) · [7 Plan](#7-plan)

## 1 The system

The repository is a game-automation core (device, OCR, image features,
procedures) around which a long-running service has been built: it serves
WebSocket, pipe and HTTP clients, runs tasks in the background for many
configurations, runs trigger commands for many connections, executes scripts
from signed runtime repositories and updates those repositories on disk.

| Part | State it keeps | Operations | Talks to | What is hard |
|---|---|---|---|---|
| **Runtime task owner** `service/runtime/RuntimeTaskOwner` | slot per config (current job, reserved job, stop reservation), jobs with a thread, a gate, a stop source and a public snapshot; counters | prepare/commit/cancel a start, prepare/commit/abort a stop of one or all, report, shutdown | its workers' backends, `ProductionRuntimeTaskControl` | two-phase reservations, stop tokens raised outside the lock, workers that finish at any moment, shutdown from outside, from a worker and from a stop callback |
| **Trigger executor** `service/trigger/TriggerExecutor`, `TriggerDispatch` | a fixed pool of task slots, a ring of queued slots, five counters, retained responses | submit, run, progress, terminal, cancel, complete/fail send, retry, close, shutdown | one session per connection, handlers, the transport's pump | three kinds of mutex, windows between them, responses refused for want of room and retried later, close at any moment |
| **Trigger session** `service/protocol/TriggerSession` | commands in flight, outbound batches, the send lease | admit, rollback, progress, claim, terminal, cancel, send, close | executor, pump | receipts of commands whose timestamp is used again |
| **Runtime repository updater** `runtime/repository/RuntimeRepositoryUpdater` | `current.json`, `previous.json`, a publication journal, the pin | recover, update, rollback | Git backend, policy claim | crash or failed write between any two durable writes |
| **Trusted plan state** `service/app/RuntimeRepositoryTrustedPlanState` | accepted plan, policy journal, owner marker | claim ownership, reconcile, prepare, commit, attest | update owner, service start | agreement of its journal with the updater's |
| **Trusted plan update owner** `service/app/RuntimeRepositoryTrustedPlanUpdateOwner` | `is_recovered`, the policy file lock | recover, apply | the two above, other publisher processes | several processes, stale pins, ambiguous outcomes |
| **Service repository owner** `service/app/ServiceRuntimeRepositoryOwner` | a pinned generation | open | the files above | reads the pointer without the lock |
| Task control and task triggers `service/app/ProductionRuntimeTaskControl`, `RuntimeTaskTriggerRegistration` | none between calls | start, stop, status | task owner, trigger response claim | a reservation held across the response's irrevocable claim |
| Script task backend and factory `service/runtime` | one evaluation per worker | prepare, run | owner, evaluator | stop during preparation |
| **Trigger channel** `service/channels/TriggerHandler` | the pump's and the sink's flags, the completion of the last send, a subscription to the session | input, pump, complete a send, shutdown | executor, session, the transport's sink | calls nested in one another on one thread, completions inside the send, shutdown from inside the sink |
| Other channels `service/channels` | subscriptions, queues | open, receive, send, shutdown | WebSocket and pipe hosts, stores | coalescing, bounded queues |
| WebSocket and pipe hosts `service/websocket`, `service/pipe` | connections and sessions | accept, receive, send, close, drain | channels, authentication | callbacks against shutdown |
| Service application and shutdown `service/app/ServiceApplication`, `ServiceShutdown` | one shutdown reason, the started owners | start, request, wait, drain | all owners | order of the drains, signals |
| Supervisor `service/supervisor/ServiceProcessOwner` | a child process | start, watch, stop | the service | exit against stop |
| Authentication `service/auth` | sessions, credentials, streams | login, resume, revoke | hosts | lifetimes under concurrency |
| **Profile directory** `service/adapters/FileResourceStore` | `config/<id>`, staging directories, tombstones, journals and markers of imports | import, recover, create, copy, remove | channels, other stores on the same root | a crash or a failed rename between any two steps, recovery that is itself interrupted |
| **Resource cache and watcher** `service/adapters` | cached snapshots, the queue of publications, subscriptions | pull, patch, refresh, invalidate, subscribe, unsubscribe | sync channels, the profile directory | one thread delivers for all, callbacks that call the store, a stale cache |
| **Script executor** `script/runtime/BoundedExecutor` | a bounded queue, worker threads, a phase and a promise per task | submit, cancel by handle, shut down in two modes | the script host | cancellation against start, late notifications, two shutdowns at once |
| Script runtime and hosts `script/runtime`, `script/host` | module graph, heap | evaluate | executor | sequential within a script |
| Script front end, trees, compilers, parsers | none | pure functions of bytes | | covered by table tests |
| Scheduler policy `scheduler/SchedulerPolicy` | none | pure function | | ties and clock edges |
| Legacy core `BAAS*.cpp`, `include/ThreadPool.h`, … | device, images | procedures | | thread pool wake-ups |

What makes each modelled part correct:

* *Task owner.* A config never has two live backends; a stop never reaches a
  generation it was not linearised on; accepted progress is not lost and
  snapshots never go back; reservations are always accounted for; every worker
  is joined once; shutdown and stopping come to an end.
* *Trigger executor and session.* Slots and counters agree; an admitted command
  is answered or still owned by a task; an accepted cancel rules out a result;
  a closed connection keeps nothing; waiters are woken; shutdown ends.
* *Publication.* Generation and accepted plan change together and only as a
  plan authorises, whatever is interrupted; a store is never left in a state
  its own recovery rejects; replies say what happened; a service is attested
  only for what is current.
* *Trigger channel.* One send at a time; the transport is never called under
  the operation mutex; what is queued is sent, with what is retained meanwhile;
  after shutdown it is quiet.
* *Profile directory.* An import happens as a whole or not at all, whatever is
  interrupted, and every tombstone belongs to a journal that will see to it.
* *Resource cache.* Subscribers get every update, once and in order; a call
  that returned has been delivered; nobody waits for ever.
* *Script executor.* Every accepted task has one outcome; each answer of a
  cancel is true, however often it is called; a shutdown returns when all is settled; no wakeup is lost.

`PROJECT.json` lists the hazards of this kind that were met in the code, each at
its line, with the properties that would catch it.

## 2 Modules and how they follow the code

### 2.1 Runtime task owner

`TaskLifecycle` is the abstract specification: each generation of a config goes
through `unused → held → live → stopping → ended/dropped`, at most one of a
config is admitted, and a stop token is never raised on a generation the owner
still calls running. `RuntimeTaskOwner` is the code; the mapping is `Life(g)`
with the `INSTANCE` below it, and `ImplementsLifecycle` says that the second
implements the first.

A job is named by its generation. `current`, `reserved` and `stop_reserved` are
the fields of a `ConfigSlot`, `jobs` the keys of the map, `job[g]` the `Job`
with its snapshot (`phase`, `timestamp`, `shown`), its staged progress
(`pending`), its stop source, gate and thread. `call[c]` is what a caller is in
the middle of: a reservation object it holds, or a step of `shutdown()`.

| Actions | Code |
|---|---|
| `PrepareStart`, `StartExhausted`, `ThreadStartFailed`, `PreparationSucceeded/Failed`, `JoinFailed` | `prepare_start` |
| `CommitStart`, `StopBeforeRelease`, `ReleaseGate` / `CancelStart`, `JoinCancelled` | `commit_reservation` / `cancel_reservation` |
| `Prepare`, `PassGate`, `Report`, `Finish` | the worker: `run`, `report` |
| `PrepareStop(All)`, `ResolveStop(All)`, `StopAfterShutdown`, `Deliver` | stop reservations and the delivery of tokens outside the mutex |
| `Shutdown`, `NestedShutdown`, `WorkerShutdown`, `Sweep*`, `LockDrain`, `AwaitReservations`, `Drain*`, `ShutdownReturns` | `shutdown`, `initiate_shutdown`, the drain |

An action is one critical section of `Impl::mutex_`, one hand-over on a job's
gate, one token delivery outside every lock, or one join. Simplifications:

* rejected calls change nothing and are not actions; `snapshot()` and
  `wait_for_idle()` only read;
* the contents of a report (button, flag, task name) are a number, the count of
  reports accepted so far; one clock reading per critical section, taken from
  `ClockReadings`, which need not grow;
* a predecessor is joined inside the critical section that reaps it: when it is
  `completed` its worker has used the mutex for the last time, so the join
  cannot block on it; the join and the re-lock of a cancel are one step;
* a stop callback that calls the owner again is represented by the other
  callers, which may do the same at the same moment; `NestedShutdown` is the
  one re-entrant call with an effect of its own;
* the generation counter keeps its width: `MaxGeneration` is the largest value
  of its type, and the code's wrap to 0, which refuses every later start, is
  reached with small values.

### 2.2 Trigger session and executor

`TriggerSession` gives the session's methods as operators on a record; an
admission receipt is a task number, and a receipt is valid while the entry of
its timestamp holds that number, so a timestamp may be used again. Both
`TriggerExecutor` (slots, ring, counters, connections, workers, hosts) and the
sessions are composed in that module: each action is one critical section of
the executor's mutex or of a session's; the connection's operation mutex, which
spans several, is the variable `operation_mutex`. `step[a]` is where a thread
is between two critical sections and what it holds in local variables.

| Actions | Code |
|---|---|
| `Submit*` | `TriggerConnectionOwner::submit`, `reserve`, `commit`, `rollback` |
| `Take`, `DropQueued`, `StartStopped`, `StartHandler`, `Progress`, `ClaimTerminal`, `HandlerReturns`, `PublishTerminal`, `Settle`, `FinishRetain/Release`, `Exit` | `run_worker`, `execute_admitted`, the response sink |
| `RequestCancel`, `FindStopTarget`, `RaiseStop`, `ReplaceCompleted` | `request_cancel` |
| `BeginSend`, `CompleteSend`, `FailSend`, `Retry*` | the transport's calls, `retry_pending` |
| `Close`, `ForceClose`, `CloseSession`, `CancelHandoff`, `StopAfterFailure`, `ConnectionIdle` | `close`, `cancel_handoff`, `TriggerConnectionOwner::shutdown` |
| `Shutdown*`, `CloseRegistry`, `RegistryClosed`, `RaiseShutdownStops` | `TriggerExecutor::shutdown` |

Simplifications: byte budgets are one unit per response; connections exist from
the start; the pump is "send whenever something is queued"; condition variables
are guards, and `NoSilentRelease`, a part of `FoundAsLeft`, covers the one
release that notifies nobody; raising a stop in `cancel_handoff` is one step
with the slot it visits; `ReplaceCompleted` is one critical section; its branch
that closes the session and submit's failed rollback are not actions because
`FoundAsLeft`, which the safety run checks, says that they are never reached.
Shutdown called by a worker or a stop callback, and the exhaustion of
generation numbers, are not modelled. `HostCalls` adds the two calls that only
tests make today: `request_cancel` (in the safety run) and a `retry_pending`
that does not follow a send (in the liveness run).

### 2.3 Publication of signed plans

`TrustedPublication` is the abstract specification: a generation and a plan
that change in one step, `Accept(p)`, when `Authorised(p)`. The code spreads
that step over seven files and several processes:

* `PublisherStep`: one durable write, which is `done`, `failed` (nothing
  changed) or `unsynced` (the file changed, yet the caller sees a failure);
* `RepositoryUpdater`: `recover_pending`, `recover`, `update`, `transaction`;
* `TrustedPlanState`: `claim_ownership`, `reconcile`, `prepare`, `commit`;
* `TrustedPlanUpdateOwner`: `recover` and `apply` of every publisher under the
  policy lock, `PolicyCommitClaim`, settling after an ambiguous failure,
  `Crash`, and the service's `Activate` and `Attest`.

`at[p]` is the next write of publisher `p`. A publisher may crash before any
write; since each write is synced before the next, a power failure leaves what
a crash on one side or the other of a write leaves. `InForce` is the refinement
mapping: the plan of the policy journal once its generation is current, else
the recorded plan.

Simplifications: the phase field of the publication journal is left out because
recovery never reads it, so a failed rewrite of it counts as an unsynced
pointer write; a plan stands for the generation, sequence and payload digest
that are stored; the verifier's clock, signature and parsing decide only whether
a plan is offered; fetching, staging and validation are one step that may fail
(`UpdateFails`), and a failed validation in recovery counts as a failed first
write; unreadable files are rejections (`RejectIntent`, `RejectCommit`); an
exception such as `bad_alloc` has the same effect on disk as a crash there. The
updater's own process lock is never contended under the policy lock. Initially
the store has any pointers and possibly a publication journal of a store that
had no owner yet, and no policy files.

### 2.4 Trigger channel

`TriggerChannel` is `TriggerHandler`'s core above a small model of what it
calls: the session's outbound queue and lease, the responses the executor
retains, the connection's operation mutex. The pump runs on whichever thread
finds work, and threads nest: a publication notifies the pump, the pump calls
the sink, the sink completes the write on the spot, the completion retries a
retained response, which notifies the pump again. So each thread carries a
`stack` of the calls it is in, and each action is one critical section of
`state_mutex_`, of the session or of the operation mutex by its innermost call.

| Actions | Code |
|---|---|
| `Submit`, `FinishTask`, `Publish`, `Refuse`, `Retain`, `Notify` | `input`, the executor's threads (`commit_staged_terminal`, `run_worker`), the session's output observer |
| `PumpEnter`, `PumpLoop`, `BeginSend`, `NothingToSend`, `StartSinkCall`, `Emit`, `SinkReturns`, `PumpAgain` | `pump` |
| `Abandon`, `MarkFailed` | `pump` when memory runs out, `mark_failed` |
| `WriterCompletes`, `Complete`, `Settle`, `Unlock`, `Record` | `SendCompletion::complete`, `send_completed` |
| `CallShutdown`, `Shutdown`, `Unsubscribe`, `CloseOwner`, `Drain`, `AwaitSink` | `shutdown` |

Simplifications: decoding of input and the submit are one step; a batch is one
unit; the connection's owner is reduced to what the channel sees of it: a
completed send retries what is retained, closing drops it in the same step, and
the limits on retained bytes, which close the connection, are left to
`TriggerExecutor`. One send is pending at a time, so one completion is enough. A
re-entrant shutdown comes from inside the sink call, before the sink does
anything else.

A response that finds the queue full is refused under the session's mutex
(`Refuse`) and becomes retryable only later, under the executor's (`Retain`). The
sends that complete in between retry nothing, so a response retained after the
last of them stays: that is divergence 1, which `executor_retained` shows on the
executor itself. `QueuedIsSent` therefore starts from a queue that holds a batch
and promises that both the queue and what is retained are empty again; of a
response retained over an empty queue it says nothing.

### 2.5 Script executor

`TaskPromises` is the abstract specification: a task is refused or accepted; an
accepted one gets one outcome; it is cancelled only if its handle or a
cancelling shutdown asked; the shutdown that closed the executor returns only
when all are settled, but for one whose own handle is settling it.
`BoundedExecutor` is the code, and `ImplementsTaskPromises` the refinement.

| Actions | Code |
|---|---|
| `TrySubmit`, `SubmitUntil`, `DeadlinePasses`, `Submitted` | `TryEnqueue`, `EnqueueUntil`, the notification after each |
| `Pop`, `Sleep`, `Exit`, `Popped`, `BeginExecution`, `Fulfil`, `FinishExecution` | `RunWorker`, `Task::Execute` |
| `Cancel`, `CancelClaims`, `CancelSettles`, `RequestStop`, `CancelNotifies` | `TaskHandle::Cancel`, `CancelQueued`, `RequestCancel` |
| `BeginShutdown`, `ShutdownClaims`, `ShutdownSettles`, `ShutdownNotifies`, `JoinAll`, `WaitForWorkers` | `Shutdown`, `BeginShutdown`, `JoinAll`, `WaitForWorkers` |
| `NotifySpace`, `NotifyWorker`, `SpuriousWakeup` | the two condition variables |

An action is one critical section of the mutex, one compare-and-swap of a
task's phase, one use of a promise or one notification. A condition variable is
a set of waiters, notified one at a time after the mutex was left, with
spurious wakeups. Each task has a submitter of its own, which may cancel it
once it holds the handle, and again after each answer; a handle is only moved,
never copied, so the calls for one task follow each other. A second call on a
running task answers no although the task goes on, since its stop was requested
before (`tests/script/BoundedExecutorTests.cpp:150`); the history field `before`
keeps that an earlier call answered yes, and `CancelAnswers` says what no means
then. A worker may shut the executor down from the body of its task. What a
callable returns or throws is one value.

### 2.6 Profile directory

`Profiles` is the abstract specification: a profile is there whole or not at
all, and an import replaces the profiles it saw in one step. `ConfigImport` is
the code, with several stores on one root, each of which may crash between any
two changes of the directory; `ImplementsProfiles` is the refinement, where
`Profile(i)` is what is in `config/<i>` or what recovery would put back there.

| Actions | Code |
|---|---|
| `Open`, `Recover`, `Finish`, `Restore`, `Unstage`, `Forget`, `Unmark`, `Sweep`, `Reject` | construction and `recover_import_transactions` |
| `Import`, `NotAdmitted`, `Admit`, `WriteJournal`, `Stage`, `Claim`, `Retire`, `Publish` | `import_config` up to publication |
| `Rollback`, `Undo`, `UndoJournal` | `rollback_retired` and the cleanup guards |
| `Reclaim`, `ReclaimJournal`, `ReclaimMarker` | `import_config` after publication |
| `CreateProfile`, `RemoveProfile`, `Crash` | `create_config`, `copy_config`, `remove_config`, the end of the process |

Simplifications: a tree is a name, whether it is whole, and the transaction of
its marker; every change is followed by a flush of its directory, so a loss of
power leaves what a crash before or after the last change leaves; reclamation
deletes all of a tombstone or some. A new id (`Fresh`) is the first free one
from a clock that has passed every id in use. The code takes the wall clock in
milliseconds and tries up to 1,023 ids after it
(`FileResourceStore.cpp:4695-4714`), so a clock that steps back, or a second
store within the same millisecond, could give out the id of a profile that was
retired; this is outside of the model and of its proofs. `RemovesJournaled` says whether a profile
that an import concerns may be removed meanwhile: with it `OnlyWholeRestored`
is violated (section 4), so the passing run is without.

### 2.7 Resource cache and publication

`ResourceStore` follows one resource: the file, its cached snapshot, the
patches of the clients, the watcher's refreshes, the structural commands that
replace the file and forget the snapshot, and the subscriptions of the sync
channels. `Publish` queues an update for the subscriptions open now; the thread
that finds nobody draining drains the queue for all, the others wait.

| Actions | Code |
|---|---|
| `Pull`, `CheckPatch`, `WritePatch`, `WriteNotCommitted` | `pull`, `apply_patch` up to and from its writer |
| `Structural` | `create_config`, `copy_config`, `import_config`, `remove_config` as they touch the cache |
| `Refresh`, `invalidate_and_publish` | the watcher's calls |
| `TakeJob`, `EnterCallback`, `CallbackReturns`, `JobDone`, `StopDraining`, `WaitEnds` | `drain_or_wait`, `invoke_callbacks` |
| `Subscribe`, `Reset`, `ResetReturns`, `ResetInCallback` | `SyncHandler`'s subscription and the destructor of `Subscription` |
| `External` | somebody else writes the file |

A callback may call the store (`MayCall`) and destroy subscriptions. A
subscription and the first pull of its client are one step (`Subscribe`), and
`Structural`, mapped to `remove_config`, stands for all four structural commands:
it leaves any content behind, a superset of what each of them leaves. Contents
are documents or `None`; revisions and timestamps are left out: a patch is
accepted when the cache is empty or agrees with the disk, which is what the
code compares, and may still conflict for any other reason.

## 3 Runs

All runs check for deadlock; a step `Finished` stands for the quiet end of a
model that has one. Symmetry is used for callers, configs, hosts, workers,
connections, publishers, stores and names, in runs without liveness only.

| Run | Properties | Instance | Distinct states |
|---|---|---|---|
| `owner_safety` | `TypeOK`, `OneLiveBackend`, `NeverTerminates`, `ProgressNotLost`, `NoStaleStop`, `SnapshotsAdvance`, `ShutdownDrains` | 2 configs, 2 callers, 2 generations, 1 report, a clock that jumps, timestamps that saturate at 5 | 2 430 000 |
| `owner_liveness` | `SlotsJustified`, `ImplementsLifecycle`, `StoppingEnds`, `ShutdownReturnsEventually` | 2 configs for 1 slot, fair | 37 000 |
| `executor_safety` | `SlotAccounting` (with the types), `AnsweredOrOwned`, `CancelWins`, `ClosedIsDrained`, `FoundAsLeft` | 1 connection, 2 hosts, 2 workers, 2 slots, 2 tasks, 2 timestamps, room for 1 response | 1 710 000 |
| `executor_liveness` | `ConnectionDrains`, `ShutdownCompletes` | 2 hosts, 1 worker, 1 slot used twice, fair | 26 000 |
| `publication` | `ReconcileAccepts`, `StateNamesCurrent`, `RepliesAreTrue`, `AttestedIsCurrent`, `ImplementsPublication` | 2 publishers, 2 generations, 4 plans, 1 service | 277 000 |
| `trigger_channel` | `OneSendAtATime` (with the types), `NoSendUnderOperation`, `QuietAfterShutdown`, `QueuedIsSent`, `ShutdownReturns` | 2 executor threads, 1 closer, the writer, 3 responses, a queue of 1, fair | 112 000 |
| `task_executor` | `OneOutcome`, `CancelAnswers`, `ShutdownSettlesAll`, `ImplementsTaskPromises`, `AcceptedSettles`, `CallsReturn` | 2 tasks, 2 workers, 1 closer, 1 handle used again and again, a queue of 1, fair | 114 000 |
| `config_import` | `TombstonesOwned` (with the types), `WholeJournalAccepted`, `ImplementsProfiles` | 2 stores, 2 profiles, 2 names, 2 imports, 4 ids | 160 000 |
| `resource_store` | `ReturnedIsDone` (with the types), `InOrderWithoutGap`, `CallsReturn` | 1 client, the watcher, 2 subscriptions, 1 document or none, 2 changes, fair | 362 000 |
| `executor_retained`, `config_import_removed`, `resource_replay` | one statement of the documentation each; violated, see section 4 | | |

**Why these bounds.** Two generations are a task and its successor, which is
all that a stale stop, a late report, a lost gate or a double join can confuse;
two callers are the two sides of every race on one slot, and the owner compares
no more than two jobs of a config. One slot for two configs reaches
`max_configs`. Two tasks on two slots (or in turn on one) with room for a single
response make every kind of refusal, retention, retry and reuse happen. The
four plans go to a generation, away from it, back to it, and keep it, so that
comparing generations alone would be caught; two publishers are the one that
holds a stale view and the one that made it stale.

Three responses through a queue of one are one under way, one queued and one
retained, so that a completion retries while a publication notifies. Two tasks
for one place and two workers are a task running, one queued and a submitter
that waits; a closer and two workers that may close are every pair of
shutdowns. One handle cancels its task any number of times, before, while and
after it runs, against the other task, which nobody cancels. Two submitters
never wait for space at once there; `ExecutorSound` holds for any number of
tasks and handles, and the liveness of more waiters is not checked. Two imports with two profiles each to replace are one that is
interrupted with a tombstone made and one still to make, and one that meets
what the first left; four ids are the two old ones and a target for each. Two
subscriptions and two changes are an update delivered while another is queued,
and one subscription destroyed from the callback of the other. `MaxReports`,
`MaxTasks`, `MaxBatches`, `MaxImports`, `MaxChanges` and `MaxId` bound what the
code counts; `MaxGeneration` and `JsonSafeMax` are widths the code has.

**Fairness.** Everywhere a thread that has begun something goes on (weak
fairness of its steps) and nobody is obliged to call anything.

* `owner_liveness`: a reservation is resolved because its destructor does so, a
  blocked lock is obtained, and a backend honours its stop token, which is what
  the owner's documentation requires of every backend.
* `executor_liveness`: strong fairness of acquiring an operation mutex that
  others take repeatedly, and handlers that return. Sending is fair only in
  `executor_retained`, where it makes the counterexample stronger: the response
  stays although the writer of the connection sends everything it is given.
* `trigger_channel`: tasks end, and the sink completes every write that it
  accepted, which is the contract of `emit_batch`.
* `task_executor`: callables return. No deadline has to pass and no wakeup is
  owed that was not notified, so a lost notification shows.
* `resource_store`: callbacks return however often they call the store
  (strong), and the watcher goes on scanning while clients keep taking
  `mutation_mutex` (strong).

**Mutants.** For every property of a passing run `PROJECT.json` names a mutated
definition (suffix `_…` next to the original in the module) that a plausible
bug would produce (a dropped guard, writes in the wrong order, a missing reset)
and that TLC finds violating exactly that property.

## 4 Divergences found

1. `RetainedIsSent`: a response refused for want of room is stored by its
   worker after a window in which the last send may complete; nothing retries
   it afterwards (`SERVICE_TRIGGER_EXECUTOR.md:78`).
2. `OnlyWholeRestored`: whether an import was published is read off a marker
   inside the imported profile. If that profile is removed while the journal is
   still there (a reclamation that failed half-way keeps it), recovery takes
   the import for unpublished and restores what reclamation had begun to delete
   (`SERVICE_FILE_RESOURCE_STORE.md:181`).
3. `ReplayConverges`: a refresh publishes what differs from the cached
   snapshot. A structural command forgets the snapshot, a pull fills it from the
   new file, and the subscribers are never given the new document or the
   removal (`SERVICE_FILE_RESOURCE_STORE.md:114`).

Observations made while modelling, without a run of their own:

* *Task owner.* `prepare_stop` reserves the timestamp of its prebuilt reply
  against progress reports but not against a natural completion, so a terminal
  snapshot may carry a timestamp that is not later than that of the reply
  released after it (`SERVICE_RUNTIME_TASK_OWNER.md:64`). The path of a failed
  preparation gives up its reservation before it joins its thread; an external
  shutdown can return in between (`:113` of the same). `ShutdownDrains` is what
  does hold: every generation that was committed or cancelled is joined.
* *Trigger executor.* With a timestamp in use again, `request_cancel` finds the
  slot of the finished task that had it before; and a send that completes in
  the middle of `request_cancel` retries a response the session now refuses,
  which closes the connection. No adapter calls `request_cancel` yet. A
  `retry_pending` that does not follow a send can free a slot that a concurrent
  close has already given to another task (`TriggerExecutor.cpp:483`; add
  `"retry"` to `HostCalls` of `ExecutorSafety.cfg`).
* *Updater.* `recover()` answers `not_committed` when a replay succeeded and
  only the reload of the pin failed, where its header promises `committed`
  (`RuntimeRepositoryUpdater.cpp:2110`).
* *Profile directory.* A journal that was torn by a crash refuses every later
  construction until somebody removes it (`WholeJournalAccepted` is what holds
  of the others). If, in divergence 2, one of two replaced profiles had been
  reclaimed already, recovery refuses the directory for good; so it does when
  another store removes a profile between the journal and its retirement and
  the import then crashes.
* *Resource cache.* A change made outside between `apply_patch`'s load
  (`FileResourceStore.cpp:3413`) and its write (`:3514`) is overwritten unseen;
  equal millisecond timestamps let a stale patch through (`:3423` compares with
  `<`); a clock that fails in a refresh erases the snapshot without publishing
  (`:3614`).

## 5 Proofs

| Module | Obligations | Theorems |
|---|---|---|
| `RuntimeTaskOwnerProofs` | 3 660 | `TypeCorrect`: `Spec => []TypeOK`; `OwnerInvariant`: `Spec => []OwnerInv`; `OneLiveBackendAlways`: `Spec => []OneLiveBackend`; `NoStaleStopAlways`: `Spec => []NoStaleStop`; `LifecycleKept`: `Spec => ImplementsLifecycle` |
| `RuntimeTaskOwnerAccountingProofs` | 3 410 | `NeverTerminatesAlways`; `SlotsJustifiedAlways`; `ShutdownDrainsAlways`: `Spec => ShutdownDrains`; `ProgressNotLostAlways`: `Spec => []ProgressNotLost`; `SnapshotsAdvanceAlways`: `Spec => SnapshotsAdvance` |
| `PublicationProofs` | 2 395 | `PublicationIsSound`: `Spec => [](TypeOK /\ PublicationInv)`; `IntentAlwaysCovered`; `AcceptedNamesCurrent`; `RecoveryIsPossible`; `AttestationIsCurrent`; `AnswersAreTrue`: `Spec => []RepliesAreTrue`; `PublicationIsAtomic`: `Spec => ImplementsPublication` |
| `TriggerExecutorProofs` | 6 320 | with `RetriesFollowSends`: `ExecutorSound`: `Spec => []ExecutorInv`; `SlotAccountingAlways`; `AnsweredOrOwnedAlways`; `CancelWinsAlways`; `ClosedIsDrainedAlways`; `FoundAsLeftAlways` |
| `TriggerChannelProofs` | 3 145 | `ChannelSound`: `Spec => []ChannelInv`; `OneSendAlways`; `NoSendUnderOperationAlways`; `QuietAfterShutdownAlways` |
| `BoundedExecutorProofs` | 2 772 | `ExecutorSound`: `Spec => []ExecutorInv`; `OneOutcomeAlways`; `CancelAnswersAlways`; `ShutdownSettlesAllAlways`; `PromisesKept`: `Spec => ImplementsTaskPromises` |
| `ConfigImportProofs` | 3 653 | `ImportSound`: `Spec => []ImportInv`; `TombstonesOwnedAlways`; with `ImportsUndisturbed`: `CommitSound`: `Spec => []CommitInv`; `WholeJournalAcceptedAlways`; `ImportIsAtomic`: `Spec => ImplementsProfiles`; `OnlyWholeRestoredUndisturbed` |
| `ResourceStoreProofs` | 637 | `StoreSound`: `Spec => []StoreInv`; `ReturnedIsDoneAlways`; `UpdatesArriveInOrder`: `Spec => InOrderWithoutGap` |

Every safety and action property of a passing run is stated by one of these
theorems; each inductive invariant was checked by TLC on the instance of its
component before it was proved.

The safety theorems are stated for `Spec`; they hold for each `FairSpec`, which
implies it.

### 5.1 The task owner

The proofs rest on `ConstantsAssumption` alone: any number of configs, callers,
reports and any width of the generation counter. Of the clock it assumes that a
reading never exceeds `json_safe_integer_max`, to which `unix_timestamp_ms` clamps
it (`RuntimeTaskOwner.cpp:33-40`); it may jump both ways. In the type proof, lemmas
give the type of each operator (`NewJob`, `Stopping`, `Resolved`, …), and the step
lemma has one step per action.

`OneLiveBackend` is not inductive: a second backend would appear through a
reservation that is still to be committed, so the induction has to know what
reservations look like. `OwnerInv` adds that a generation above the counter has
no worker (`UnbornHasNoWorker`); that a reserved generation is not the current
one, is not committed and succeeds a completed one (`SlotsOfConfig`); that
whoever holds a reservation holds the config's reserved slot (`HeldIsReserved`)
or, between the commit and the release of the gate, its current one
(`CommittingIsCurrent`); that no two callers hold the same (`OneHolder`); and
that a committed generation whose worker has not left is current and not
completed (`LiveIsCurrent`). Most actions touch none of this: the frame lemma
`FrameInv` says that a step that keeps the shape of jobs, slots and holds keeps
`OwnerInv`, and the actions that do not are proved one by one.

Every other safety property of the owner follows from a further invariant on top
of `OwnerInv`, each defined in `RuntimeTaskOwner` beside its property, with its
own frame lemma for the actions that do not touch it:

* `StopInv` (for `NoStaleStop`): only a generation that was handed out is
  captured or told to stop; a reserved one is not running and is told only after
  admission closed, so its commit installs it as stopping.
* `LifeInv` (for the refinement): a generation that is not completed is the
  current one of its config, one whose gate is about to open waits there, and no
  worker passes its gate unprepared. `MapStep` maps each action to a step of
  `TaskLifecycle` or to a stutter.
* `AccountsInv` and `ThreadsInv` (for `NeverTerminates`, `SlotsJustified`,
  `ShutdownDrains`): `active_reservations_` counts the reserved slots, no slot
  has two reservations and no reservation two holders; who drains is alone and
  finds none left; and every thread that can be joined has a slot or one caller
  that will join it.
* `ProgressInv` (for `ProgressNotLost`): a stop reservation captures what is
  current, and nothing becomes current while it is held; what is staged is the
  last report, and only a job that a held reservation captured has any.
* `SnapshotInv` (for `SnapshotsAdvance`): timestamps are safe integers, the
  reserved successor of a generation has a higher number and a later timestamp,
  and the timestamp a stop reply was promised stays later than that of its
  generation while it runs, because its reports are staged meanwhile.

TLC finds each of these to hold on the instance of `owner_safety`.

### 5.2 Publication

The proofs rest on `PublicationAssumption`: plans name a generation and
predecessors other than it, sequences are positive (what the verifier's parser
enforces), and the values for "none" are not among the others. Publishers,
generations and plans may be any sets.

None of the properties is inductive: whether `reconcile()` accepts a store
depends on what every earlier write left and on what each place of a call takes
for granted. `PublicationInv` says both.

* `OneWriter`: whoever is in a call holds the policy lock. A step therefore only
  has to establish the place its own publisher goes to (`WorkerKeeps`); a call
  that returns leaves everyone idle (`ReturnKeeps`), and a crash disturbs nobody
  else's place (`PlaceKept`).
* `FilesSound`, about the files alone, so that it survives a crash anywhere:
  `IntentCovered`; `IntentSound` (an intent on disk is one a plan authorised,
  `current.json` and the state are on one side or the other of it, and the state
  does not run ahead of the pointer); `StateSound` (without an intent the state
  names the generation; an initialized store has a state).
* `PlaceSound(p)`, by the place `at[p]`: `Replaying`, `Reconciling`,
  `Transacting` and `Accepting` say what recovery, `reconcile`, the transaction
  and the commit rely on, as that the pointer is still the previous generation
  wherever it may be restored, or that the intent is this call's own wherever it
  is being published.

The type lemmas assume `PublicationInv`, since a journal's fields have a type
only where there is a journal. For the refinement, `Accepts`, `PublishesIntent`
and `Stutters` cover all steps: the generation and plan in force change only
when `current.json` is replaced, by the transaction or by its replay, or when
the state is written for a plan that keeps its generation.

`RepliesAreTrue` speaks of a reply that was given, and what makes it true
happened several steps earlier. `AnswerInv` carries it there: `Answering(p)` says
of each place of a call what the answer it is on the way to says of the files as
they are now, and while a reply stands the policy lock is free, so that nobody is
at work who could make it stale.

### 5.3 Script executor

The proofs rest on `BoundedExecutorAssumption`: a queue of at least one place,
at least one worker, and closers that are not workers. Tasks, workers and
callers may be any sets.

`OneOutcome` says that a body runs only under its own worker's claim. That is
not inductive: what keeps a second worker from running the same task is that
only one can have it. `ExecutorInv` is

* `OnePlace`: a task is once in the queue, or in one worker's hands, or its
  canceller took it off; so no two workers ever hold the same;
* `OneClaim`: the phase of a task and its promise agree, except while the one
  who cancelled it is between the claim and the promise, and a running task has
  the worker that runs it;
* `OneStop`, `CancelAnswers`: a raised stop token belongs to a cancel that
  answered yes, yes is answered once, and what each call answered
  stays true when the handle is used again;
* `NoTaskLost`: an accepted task that nobody claimed is in the queue or in
  somebody's hands; together with `OneClaim` this makes everything settled once
  the workers have left (lemma `Settled`);
* `LeftForGood`: a worker leaves only when the executor is stopping and the
  queue is empty, which lasts, and a closing thread only after the workers.

Each conjunct has a step lemma (`PlaceStep`, `ClaimStep`, `AnswerStep`,
`LostStep`, `LeftStep`) with a frame lemma for the many steps that do not touch
it; `NotifyWakes` says once and for all what a notification may change.

The refinement needs one fact more, `ChoiceInv`: one caller at most chose how
the executor closes, and only its pending list, in mode `CancelPending`, holds
tasks, all of them accepted. `PromiseStep` maps every step: the push that
accepts, the three refusals, the claim of a handle, the value or the
cancellation that reaches a promise first, the choice of the mode and the
return of the caller that chose; all others leave the four abstract variables
as they are (`NothingNew`).

### 5.4 Resource publication

The proofs rest on `ResourceStoreAssumption`, that the values for "none" are
not among the others. `StoreInv` says that the job being drained and the queue
behind it are the updates not yet done, without a gap (`JobsInOrder`); that a
job is still owed to exactly the open subscriptions that have not seen it
(`JobsOwed`); that nobody is outside while his own update is under way
(`CallersServed`); and that a callback runs for the job in hand
(`CallbackOfJob`). `InOrderWithoutGap` is a property of steps and follows from
`JobsInOrder` and `JobsOwed` before the step.

### 5.5 Trigger executor

The proofs rest on `ExecutorAssumption` (actors, tasks and timestamps are what
they say, the "none" values are not among them) and on one hypothesis,
`RetriesFollowSends`: no host calls `retry_pending` of its own accord. The code
justifies it, since the adapters retry only from `complete_send`, which holds the
operation mutex against a concurrent close; what a retry on its own does instead
is among the observations of section 4, and with `"retry"` in `HostCalls` the
invariant does not hold. `ExecutorInv` is

* `TypeInv`: the types, and what each place of a step has in hand (`StepTyped`),
  without which no later conjunct could be stated of a slot or a connection;
* `LockInv`: who is inside an operation mutex holds it, and a session is closed
  only inside it, so nobody retries a response or takes back an admission on a
  session that closed meanwhile;
* `SlotInv`: a slot is in one actor's hands at most and is what that actor took
  it for; a reserved slot, and a response that left its slot, is in somebody's
  hands; no two slots bear the same task. This is why the unlocked windows of
  the worker and of the retry do not free a slot that has a new owner;
* `CountInv`: the counters are the sizes of the sets they count
  (`SlotAccounting`) and the ring holds no slot twice;
* `SessionInv`: entries and carried batches agree and belong to admitted tasks,
  and each admitted command is answered or owned (`AnsweredOrOwned`);
* `CloseInv`: a closed connection has no reserved slot, whatever
  `cancel_handoff` has passed is told to stop and retains nothing, and
  `ClosedIsDrained`.

Each conjunct has a step lemma with one step per action. The counters are
cardinalities, and a step changes the state of one slot: one lemma on the sizes
of the sets of slots before and after (`In`) serves all of them. Where the code
searches for the first slot of a kind, a least element exists by the
well-foundedness of `<` on the naturals (`NatLessThanWellFounded` and `WFMin` of
the library).

### 5.6 Trigger channel

The proofs rest on `TriggerChannelAssumption` alone. What makes the channel hard
is that its calls interrupt each other on one thread: the sink may complete a
send inside the call that started it, an observer runs inside a retry, a shutdown
inside a send. `ChannelInv` is

* `StackInv`: which call may be interrupted by which (`Under`); a stack is at
  most three frames deep because a thread never re-enters the pump that it is
  already running;
* `RunnerInv`: one thread at most has the body of the pump, and one at most
  settles a send; the flags `pump_active` and `sink_calls` and the operation
  mutex say exactly that;
* `SendInv`: the lease of the session, the completion of the sink and the
  settling of it follow each other, so a second send is not begun;
* `QueueInv`: a response is queued, retained, dropped or handed over once, and the
  one being sent is still queued; one that was refused counts from the moment it
  is retained;
* `CloseInv`: how far each call of `shutdown` is and what is quiet by then.

### 5.7 Profile directory

The proofs rest on `ConfigImportAssumption`: the "none" values are not among the
others, and the old profiles have ids; and they share the model's assumption on
the clock (2.6). `ImportInv`, which needs nothing else, is
about journals: one store at a time recovers or imports (`LockInv`), there is at
most one journal and no tombstone without it (`JournalInv`), and each place of
recovery and of an import knows which tombstones are still there (`PlaceInv`).
It gives `TombstonesOwned`.

That an import is atomic needs `ImportsUndisturbed`: nobody removes a profile that
an import under way replaces or a journal on disk names. The code does not enforce it;
divergence 2 is what happens otherwise, and `OnlyWholeRestoredUndisturbed` proves
that this removal is its only cause: without it the violated statement of the
documentation holds for any number of stores, profiles and imports, whatever
crashes. `CommitInv` adds `WholeInv`, that until the target of a journal bears its
marker each profile it retires is at one place, in `config/` or among the
tombstones, and `ImportOf`, what each place knows of the publication and of the
profiles it replaces; a store that was rejected had a torn journal before it,
which is `WholeJournalAccepted`.

The refinement maps `config` to `Profile(i)`, what is there or what recovery would
put back: `Admit` begins an import of `Profiles`, `Publish` is the import,
`CreateProfile` and `RemoveProfile` are themselves, and every other step, crashes
and all of recovery included, gives up an import or is a stutter. Lemma
`ProfileIs` says what `Profile` is at each stage; the ids that the code visits in
order (`First`, `Final`) exist by `WFMin` again.

### 5.8 Only model-checked

All liveness: `StoppingEnds`, `ShutdownReturnsEventually`, `ConnectionDrains`,
`ShutdownCompletes`, `AcceptedSettles`, `CallsReturn`, `QueuedIsSent` and
`ShutdownReturns` need fairness and `ENABLED`, which are outside the prover.

## 6 What is not covered

`PROJECT.json` lists all components with a reason for each that is not
modelled. In the modelled ones: `rollback()` of the updater, which only tests
call; shutdown of the trigger executor from one of its own workers; decoding,
wording, sizes and JSON; archives and path validation of the store. Four
hazards have no property: the reused timestamp (`TriggerExecutor.cpp:449`) and
the unseen outside change (`FileResourceStore.cpp:3514`), which the models
contain and for which the code promises nothing; the state that
`ProductionRuntimeTaskControl` reads before it prepares a start; and the wait
without a predicate in `include/ThreadPool.h`. The models assume that mutexes
and condition variables behave as the standard says and that a rename is atomic.

Most of the repository's lines are sequential: interpreters, parsers, compilers,
adapters, image processing and vendored code. They are covered by table tests
and are outside of what these models are for.

## 7 Plan

Done, in this order: the task owner with its abstract life; the trigger session
and executor; the publication of signed plans; the script executor with its
promises; the trigger channel; the profile directory; the resource cache; and the
proofs of the safety properties of all of them.

Next, by importance:

1. *Composition of task control and triggers*: `RuntimeTaskTriggerRegistration`
   and `ProductionRuntimeTaskControl` join a reservation of the owner with the
   irrevocable claim of a trigger response. Abstract specification: a command
   is answered with success exactly when its reservation was committed.
2. *Service shutdown* as the composition of the owners' drains; the hosts; the
   supervisor; authentication sessions.
3. *Provider, sync and remote channels* with their bounded queues, above the
   resource cache.
4. *Scheduler policy* as pure operators against a reference definition, and the
   legacy `ThreadPool`.

Theorems to prove: for each of these its type invariant, its safety invariants and
its refinement, on top of the invariants of the components it composes; what is
modelled today has its safety properties proved.
