# TLA+ models of the Setsuna desktop runtime

Formal models of the parts of this repository whose correctness rests on the
order in which concurrent things happen.  The models are written from the
TypeScript under `packages/` and `apps/`, checked on small instances with TLC,
and the most important properties are proved for every instance with TLAPS.

Paths below are relative to the repository; `runtime/` abbreviates
`packages/desktop-runtime/src/`.

## 1. The system

The desktop application is an Electron main process, a renderer, and a
**runtime** process that owns all conversation state.  The renderer and other
clients call the runtime over REST and a Codex-style app-server protocol and
follow each thread through a stream of server-sent events.  The runtime is one
Node process: everything in it runs on one event loop, so what is concurrent is
*asynchronous handlers*, which interleave at every `await`, and processes that
crash and restart.  Everything a client sees of a thread is a projection of the
thread's append-only event log.

### Components

| Component | State | Operations | Talks to | What makes it correct |
|---|---|---|---|---|
| **Turn task registry** `runtime/loop/lifecycle/turn-task-registry.ts` | tasks by key and the one slot by thread, abort controllers, steer admission, blocked threads | `start`, `run`, `finish`, `activeForThread`, `cancel`, `stopAcceptingSteers`, `blockThread`, waits, `cancelAll`, `drain` | `AgentLoop`, runner, queue, deletion | one turn that is not cancelled per thread, whatever still unwinds |
| **Turn run** `runtime/loop/core/runtime-agent-turn-runner.ts`, `lifecycle/runtime-turn-finalizer.ts`, `lifecycle/turn-input-queue.ts`, `loop/tools/runtime-user-shell-runner.ts` | where the run is, accepted steers, steer writes in flight | store `turn.started` and the user message, drain steers, close and reopen steer admission, complete, stop, fail, unwind | registry, event log, termination coordinator | accepted steers reach the model; a settled turn told the log how it ended |
| **Turn termination** `lifecycle/runtime-turn-termination-coordinator.ts` | pending cancellation writes | `publishCancelledOnce`, wait for a thread's writes | registry, log | a terminal event per turn |
| **Send queue** `lifecycle/runtime-queued-turn-coordinator.ts` | promise chain per thread, items being dispatched, paused threads, latest observed run | enqueue, reorder, delete, retrieve, send now, automatic dispatch on settlement | registry, run factory, input coordinator, log | an input is sent once, or withdrawn, and never lost; the queue goes on by itself |
| **Turn inputs and mailbox** `lifecycle/runtime-turn-input-coordinator.ts` | steer writers, mailbox deliveries and receipts | `writeSteer`, `drainSteers`, mailbox publish and consume | runs, store, collaboration | deliveries are consumed once, across crashes |
| **Thread admission** `runtime/loop/core/agent-loop.ts`, `thread-mutation-admissions.ts`, `runtime-turn-run-factory.ts` | deleting threads, migration flag, counts of admitted calls | `startTurn`, `steerTurn`, queue operations, `cancelTurn`, deletion barrier, migration preparation, regenerate, clear, compaction | all of the above | nothing starts behind a barrier; barriers get through |
| **Maintenance gate and restart settlement** `runtime/server/runtime-maintenance-gate.ts`, `in-flight-requests.ts`, `runtime-thread-events.ts` | requests in flight, prepared flag | prepare, release, `settleStaleRuntimeTurns`, forced cancel | `AgentLoop`, desktop main | a prepared migration freezes the data; no turn looks alive after a restart |
| **Event log projection** `packages/contracts/src/thread-events.ts` | none (a fold) | `applyThreadEvent` | store, renderer | server and client derive the same thread |
| **Event writer** `lifecycle/runtime-event-writer.ts` | delta batches with timers, one write queue per thread, the fatal error | `append`, `appendBatch`, `commitCompaction`, flushes | store, event bus | persisted before published; deltas before what ends them; nothing after a failure looks successful |
| **Thread store** `runtime/adapters/store/sqlite-thread-*.ts` | SQLite tables, sequence numbers, archive, projections | `appendEvents`, `commitContextCompaction`, event listing and archive | writer, event stream | gap-free sequence, snapshot consistent with the log |
| **Event stream** `runtime/server/sse.ts`, `runtime/adapters/event/`, `apps/desktop/main/src/runtime/host.ts`, `runtime-event-batcher.ts` | subscribers, `processedSeq`, pending queue; cursor and batch of the host | replay after a sequence number, live tail, resync; reconnect, batch, flush | event bus, store, window | no event is lost over the hand-over, an overflow, a crash or a reconnection |
| **Projection of the selected thread** `apps/desktop/renderer/src/services/runtime-client/` | the thread with its `lastSeq`, the pending recovery | apply a batch, adopt a snapshot, recover, poll, resubscribe | event stream, REST | never goes back, never forgets that it lacks an event, repairs it |
| **Goal feature** `packages/features/goal/src/runtime/` | the goal of a thread and its last verification receipt (events of the log), the chain of goal transactions, which turn works for which goal, retired goals, superseded turns | set, clear, resume, pause on cancel, queued goals, `create_goal`, `update_goal` with its verification, continue, settle a turn, reconcile after a restart | registry, send queue, log, the model's tools | what a user stopped stays stopped; a goal is complete only when verified; it goes on, and not for ever |
| **Collaboration** `packages/features/collaboration` | child threads, ledger, mailbox deliveries | spawn, wait, resume, repair | turns, mailbox | every child result is delivered once |
| **Context compaction** `runtime/loop/context` | background candidates | plan, commit against an expected snapshot | writer, store | a stale candidate never replaces newer history |
| **Tool scheduling, approvals** `runtime/loop/tools`, `adapters/approval` | pending approvals, session grants | request, answer, cancel, timeout | runs, clients | an approval is answered once; a cancelled turn leaves none pending |
| **Data root** `apps/desktop/main/src/data-root/` | on disk: the root directories with their markers, the location pointer, the pending migration, the registry of retained backups; in memory: how the process booted and the method that runs | boot, begin, run, cancel and repair a migration, finalize a start; delete and dismiss a retained backup | runtime (fence, lease), file system, relaunch | the application opens the data it had, whatever fails or dies on the way; only what was registered is removed |
| **Desktop main process** `apps/desktop/main` | windows, runtime child process, instance lock | start and restart the runtime, IPC, menus | runtime, data root | platform code around the components above |
| **Feature composition** `packages/feature-core` | activated features | activate, dispose in reverse order | all features | a failing activation disposes what was activated |
| Background task queue, automation, updater, MCP connections | a few variables each | | | candidates for small modules |
| Model providers, tools, plugins and extension workers, computer use, browser, terminal, network proxy, renderer UI, native helpers, scripts | | | | I/O, wire formats, platform code and UI: not modelled |

### What is hard

* Handlers of one thread interleave at every await.  The registry, the send
  queue and the run read state before an await and act on it after.
* A cancelled turn keeps running while its successor is started; the registry
  has one slot per thread, and the two questions "is the thread busy" and "is
  everything drained" have different answers.
* An item that is being dispatched stays in the persisted queue until its run
  stores the user message, and the user may touch it meanwhile.
* The process may die between any two appends; the queue survives, its
  bookkeeping does not.
* Whoever appends an event publishes it on its own, after its await: what a
  window is told repeats, overtakes and sometimes never comes.  Between the log
  and the screen are two processes, a connection that is lost with unread frames
  in it, a queue that overflows and a batch that waits for a timer.
* A snapshot is as old as its request; it races the events.
* Barriers (deletion, data migration) wait for calls that wait for turns that
  wait for writes.
* Model streams are buffered per thread, merged and written behind a timer; one
  refused write stops the writer while writes queued behind it still run.
* A goal's continuation, the settlement of its last turn, a verification by a
  second model and the user's edits meet in one chain per thread, but the
  verification answers, and a failed deletion continues, outside that chain.
* Moving the data root takes a dozen effects on three control files and two
  directory trees, over two boots; every effect may fail before or after it took
  place, the process may end after any of them, and a runtime may outlive it.

`PROJECT.json` lists these hazards one by one with the line where each bites and
the properties that cover it; those no property covers yet say why.

## 2. The modules

```
  TurnTaskRegistry            the registry's variables and methods
        |  EXTENDS
  TurnExecution               + the run of a turn, its steers, its cancellation
        |                       writer, and the projection of the event log
  QueuedTurns                 + the send queue: one promise chain, its operations
        |
  ThreadTurns                 + callers, cancel, deletion barrier, migration,
        |      \                restart; Next, Spec, FairSpec, the properties
        |       InputLedger     (INSTANCE ... WITH) the abstract promise
  InputOwnership              who holds an input: the inductive invariant
        |
  MCThreadTurns               TLC: symmetry; the .cfg files instantiate it
  ThreadTurnsProofs           types, one active turn, settled turns, both barriers
  InputOwnershipProofs        ownership, ledger refinement, queue bound
  SteerProofs                 no steer is left behind
  QueueProofs                 accepted inputs, late settlements, stalls, dragged order

  ThreadEventLog              the log of a thread, its appenders, its archive
        |  EXTENDS
  ThreadEventStream           + handleSse, the host's connection loop and batcher
        |
  ThreadProjection            + the window; Next, Spec, FairSpec, the properties
        |      \
        |       ThreadView      (INSTANCE ... WITH) what a window promises
  ThreadProjectionProofs      types, hand-over, view refinement, exact delivery

  EventWriter                 buffering, merging, the write chains, the failed state
  EventWriterProofs           types, streams, order, what a flush means

  GoalState                   a goal and the pure functions on it
        |  EXTENDS            (and TurnTaskRegistry, the slot of the thread)
  GoalThread                  + users, the queue and the turns around a goal
        |
  GoalFeature                 + the coordinator; Next, FairSpec, the properties
        |
  MCGoal                      TLC: symmetry
  GoalProofs                  types, stops, usage, autonomy, completion

  DataRootDisk                what is on disk, and how a start reads it
        |  EXTENDS
  DataRootMigration           + the process, its runtime, the coordinator's methods
        |
  RetainedBackups             + deletion and dismissal of backups, finalizeStartup
        |
  DataRoot                    + volumes and strangers; Next, Spec, the properties
               \
                DataHome        (INSTANCE ... WITH) where a user's data is
  DataRootProofs              types, who writes, home refinement, backups
```

Five families.  `ThreadTurns` decides what is appended to a thread's log and sees
of it what its projection keeps; `ThreadProjection` says what a window learns of
whatever is appended; they share the log and nothing else.  `EventWriter` is the
path from an append to the log, which the other two take as one step.  The goal
modules reuse the registry and reduce the send queue and the run of a turn to
what a goal sees of them: a composition with all of `ThreadTurns` is far beyond
an explicit-state checker.  `DataRoot` is another process and touches the runtime
in two places, the fence (`PrepareMigration`, `CancelMigration` of `ThreadTurns`)
and the lease of the database.

One thread is modelled, except in `EventWriter`, where a failed write of one
thread stops all.  Threads share nothing else here but the maintenance gate and
the process: every map of these classes is keyed by the thread id.

**A step is what runs between two awaits.**  JavaScript does not preempt, so a
synchronous stretch of code is one action, and each `await` that lets other
handlers in splits an action.  An append to the log is one step, taken when the
event becomes durable; events of one thread are written in order.

**TurnTaskRegistry** (`turn-task-registry.ts`).  `registered` is `tasksByKey`,
`current` the thread's entry of `tasksByThread`, `aborted` the aborted
controllers, `accepting` the `acceptingSteers` flags, `closed` the two reasons
for which `AgentLoop` refuses work.  `ActiveTurn`, `CanStart`, `StartTask`,
`FinishTask`, `AbortTask`, `StopAcceptingSteers` are the methods of their names.

**TurnExecution**.  `pc[t]` is the await a run is at: `registered` (before
`turn.started`), `started` (before the user message), `running` (the sampling
loop), `closing` (between the close of steer admission and the last drain),
`finalizing`, `stopping` (hook stop), `failing`, `aborting`, `settling` (the
`finally` block), `done`.  What the model says and which tools run is the choice
to stay in `running` or leave it.  `steers` and `writers` are the pending steers
and the `writesInFlight` of `RuntimeTurnInputQueue`; `cancelWrite` is the pending
write of the termination coordinator.  `queue`, `publishedIn`, `started` and
`terminal` are what the thread's projection makes of the log: the queued inputs,
where each input's message is, and the start and terminal events of each turn.

**QueuedTurns**.  `tail` is the promise chain of `runExclusive`; its head runs
and `step` is the await it is at.  `dispatching`, `paused`, `latest` are
`dispatchingInputIds`, `pausedThreads` and `latestObservedRuns`.  A run is registered
inside an async factory (`Register`) and observed by the caller once its promise has
resolved (`Observe`); `unobserved` is the turns in between.  The actions are
the methods cut at their awaits: `Enqueue`/`ResumeAfterEnqueue`,
`CheckReorder`/`StoreReorder`, `CheckWithdraw`/`StoreWithdraw` (delete and
retrieve), `SendNow`/`RecheckSendNow`/`PublishSendNow`, and for the settlement of
a run `SettleRun`/`ReadOutcome`/`PauseAfterInterruption`/
`ContinueAfterCompletion`.  `Dispatch` is `dispatchInputIfIdle`, which ends at
once or goes on through `CreateDispatched`, `FinalizedTurnSettled` and
`StartDispatched`, `ObserveDispatched` or `DispatchFails`.

**ThreadTurns** adds the callers: `request[i]` is where the call that submitted
input `i` is, or its answer.  `startTurn` looks for an active turn, then at the
queue, then waits for a finalizing turn, then registers, then observes: each an await
apart.  A review is started in the same two steps, a user shell turn in one.
`CancelTurn`, `ForceCancel` (the REST route's fallback), the deletion barrier
(`deletion`), `PrepareMigration`/`CancelMigration` and `Restart` complete it.

**InputLedger** is the abstract specification: an input waits at most once,
leaves the queue by being sent or taken back, and is sent at most once.
`ThreadTurns` implements it with `waiting <- Elems(queue)` and
`sent <- publishedIn`; everything else, a crash included, is a stutter.

**InputOwnership** states the reason why: at any time one party at most may
still send an input.  No variable of the code says so; it is what the checks
spread over the coordinator, the run and the registry add up to.

**ThreadEventLog** (`runtime-event-writer.ts`, `sqlite-thread-store.ts`,
`sqlite-thread-event-archive.ts`, the routes).  `log` is the stored events, by
what delivery depends on: a *delta* may be archived, a *terminal* event leaves
the host's batch at once, a *cut* (messages deleted, truncated or cleared) cannot
be projected onto a page of the last messages.  `writing` is what the writer has
stored and not yet published; its next write waits for that.  A direct appender
(`before`, `own`) reads a sequence number, appends, and publishes either its own
event or all events since that number (`publishThreadEventsSince`).
`SilentStores` are the calls that append and publish nothing (`thread/name/set`,
`thread/archive`, `thread/rollback`, archiving a project, the memory mode).
`archived` is `events_archived_through_seq`.

**ThreadEventStream**.  `phase` is the await `handleSse` is at, `processed` and
`pending` are its variables, `sending` is the event whose write meets
backpressure: its frame is on the `wire`, `processedSeq` still has its
predecessor.  `replaying` is a phase other than `live`; `pumping` is `sending # NoSeq` in
`live`.  `cursor` and `batch` are the host's cursor and the batcher's events, `ipc` the
batches sent to the window.  A write without backpressure is `WriteDone` right
after it.

**ThreadProjection**.  `seq` is `lastSeq` of the projection; `wanted` is
`pendingThreadId` as React last rendered it, `update` the value set since, and
`recovery` where the loop of `useThreadSnapshotRecovery` is.  `snapshot` and `fetched` are
answers on their way: of the recovery, and of a poll, a mutation or a selection.
An answer is used in one of three ways.  `AdoptThread` is `adoptSnapshot`, which compares
`lastSeq` (polls, clearing and compacting the context, the reconciliation of approvals and of
submissions).  `InstallThread` is `setCurrentThread`, which compares nothing: a renaming,
the deletion or an edit of messages, a change of the model
(`useDesktopNavigation.ts:272`, `useChatTurnActions.ts:127`, `225`, `258`), and the selection of the
thread that is open already, for which the subscription effect does not run again.
`OpenThread` is the selection of another thread, with a new subscription behind it.
`missing` and `setBack` have no counterpart in the code: what the projection lacks below its
`lastSeq`, and the newest `lastSeq` that an older answer replaced.

**ThreadView** is the abstract specification: the window shows a part of what is
stored, goes forward by events or by a snapshot that is not older, and back only
when the user opens the thread or changes it by a call whose answer replaces what is
shown; what it lacks stays recorded until a snapshot
replaces it.

**EventWriter** (`runtime-event-writer.ts`).  `batch[t]` is the buffered deltas of a
thread, `writes[t]` its promise chain, `log[t]` what the store has.  Each accepted
call gets a number, and an entry carries the numbers merged into it, so that the
properties can say what became of each call.  `AppendDelta` merges
(`EnqueueDelta`, `CanMergeAcrossTypes`), `AppendEvent` takes the batch along,
`TimerFires` flushes it, `StoreBatch` and `StoreEvent` are the two transactions of
`persistAndPublish`; `WriteFails` sets `fatalError` for every thread while the chains
go on.  `flush[t]` is a call of `flushThread` between its awaits; a deletion of a
thread is the flush of the coordinated store and the deletion behind it.

**GoalState** is the record of the last `state-replaced` event and the functions on
it.  What usage a turn had is abstracted to whether it was charged: `mark` is
`accountedThroughSeq`, as a position among the terminal events of the log.
**GoalThread** is what happens around the goal (patches, messages, queued goals,
cancellations, the life of a turn), **GoalFeature** the coordinator: `ops` is the
chain of `mutationTails`, `step` the await its head is at, and each action the
method of its name.  `loose` is the `continueIfIdle` that `finishThreadDeletion` calls
outside the chain (`runtime-goal-coordinator.ts:449`).  A settlement has two steps:
`SettleGoalTurn` reads the goal and rechecks the evidence (`Confirms`, line 733),
`PublishSettlement` stores the result (line 768), and what the appends of others store in between is
not looked at again.  `StartCommand` is a user shell turn or a compaction: it takes the slot, and its
end is told to the send queue and to nobody in the goal feature.  `ask[t]` is a call of
`create_goal` or `update_goal` while its turn waits; `VerdictArrives` is outside the
chain, and `MayCommit` what `CommitVerification` checks when it is inside again.

**DataRootDisk** is what survives a crash, and `resolveDesktopDataRootBootMode` as
operators of it: `Home` is the root the next start opens or migrates.  A tree is
its device/inode identity, its marker and a version of the user's data, or empty,
torn, or a stranger's.  **DataRootMigration** cuts the coordinator's methods at their
effects (`op.pc`): `Begin...` notes and relaunches, `Migration...` copies, verifies,
announces the id of the new tree in the pending file, vacates the target, renames
and points, `Cancel...` goes back, `RetryStartup` and `RestorePreviousRoot` are what a
user may do in recovery mode.  `Boot` probes a root that a pointer names
(`ProbeFails`): a home that is there but cannot be written leads to recovery as well.
`runtime[r]` is the runtime whose lease is in the database of root `r`, if there is one, so that an
orphan of a home that was left and the runtime of the new home live side by side;
`abandoned`, a history variable, is the roots a user left in recovery and has not opened since.
`finalizeStartup` is the
`Startup...` steps of **RetainedBackups**, with the deletion of a backup (`del`).  A
write may fail without a trace, or after its effect when only the sync of the
directory failed.  **DataRoot** adds volumes that go away and come back and a
stranger's directory in the place of a retained root.  **DataHome** is the abstract
specification: one home, whose contents only a runtime changes, and only a user
who was told that the home cannot be opened settles for something else.

## 3. The runs

Turns, inputs and queue (`MCThreadTurns`):

| Run | Question | Bounds |
|---|---|---|
| `queue` | Do direct starts, enqueues, send-now, withdrawals, drags, steers, a cancellation and automatic dispatch ever send an input twice, lose an accepted one, send a withdrawn one, exceed the limit, pause behind a late settlement once the new turn is observed, store another order than the one dragged to, or leave a queue nobody dispatches? | 3 inputs, 3 turns, queue of 2, 1 operation waiting, 1 cancel |
| `deletion` | What is left when the deletion operation runs, and does the barrier get through?  Without a deletion, does every queued input leave the queue, and does every call get its answer?  (and the type invariant) | `FairSpec`; 2 turns, 1 input, 1 user shell or review turn |
| `restart` | A restart at any point, a prepared migration, a cancel with its forced repetition, and dispatches, starts and steers that fail for reasons of their own: one holder per input, one active turn, no stranded steer, a terminal event for every settled turn, the ledger, frozen data | 3 turns, 2 inputs, 1 restart, 1 cancel |

Delivery (`ThreadProjection`) and the writer (`EventWriter`):

| Run | Question | Bounds |
|---|---|---|
| `event_writer` | Deltas of five streams, lifecycle events, compactions, timers, refused writes, flushes of one and of all threads and a deletion: is every stream stored as produced, does anything pass a lifecycle event, does a flush keep its promise, does the writer come to rest? | `FairSpec`; 2 threads, one of which streams, 3 appends, 1 flush, 1 fault |
| `lossless` | Only the writer appends: does the window miss an event it has not shown before, or think it does without an uncompared answer? | log of 3, blocks of 2, pending limit 1, retention 1, batch of 2, one fault, one visit |
| `view` | With direct appenders, archived deltas, polls, uncompared answers and reopening: the abstract view, the cursor's promise, the types, and does every event that is about to be published reach the window? | `FairSpec`; log of 2, blocks of 2, pending limit 1, retention 0, one fault, one visit |
| `recovery` | With cuts and with appends nobody publishes: does an incomplete projection become complete, unless section 5's overlap happens? | `FairSpec`; log of 3, 1 silent append, no fault, no visit |
| `lost_recovery` | The comment without the exception (section 5) | `FairSpec`; log of 4, 2 silent appends, no cut, no fault |

Goals (`MCGoal`, `GoalFeature`) and the data root (`DataRoot`):

| Run | Question | Bounds |
|---|---|---|
| `goal` | Edits, pauses, clears, resumes, messages, queued goals, a failing deletion and a restart against continuations, settlements, `create_goal` and a verification: does a stopped goal work on, is a turn charged twice, does autonomy end, is a goal completed without a verification that stood when its settlement decided? | 2 turns, 2 objectives, limits of 1, 3 things users and failures may do, shell commands and compactions among them (`Commands`) |
| `goal_progress` | Does an active goal get its next turn or stop being active, unless a turn of another goal still unwinds or a shell command or compaction holds the slot? | `FairSpec`; 2 turns, 1 objective, no failing writes or starts, `Commands` |
| `goal_stall` | The comment without the exceptions (section 5) | as above, without `Commands`, so that what TLC finds is the retired turn |
| `data_root` | Moves, their failures, cancellation and repair, crashes of main, a probe that fails, runtimes that outlive their parent, volumes that go away, deletions of backups and a stranger in a backup's place: does the application open the data it had, does anybody write elsewhere, is anything removed but what was registered?  Deadlock is checked. | 2 roots, 1 write of the user, 4 trees, 2 migrations; 1 crash, fault, lost volume and replaced root each |

Except in `data_root`, deadlock is not checked: a thread with nothing to do may
rest, and a bounded log fills up.

**Why these bounds.**  The races are between neighbours: a turn and its
successor (two turns), a turn that unwinds behind a successor that is itself
superseded (three), an item being sent and one behind it that could be sent
instead (two inputs in the queue), and one that finds the queue full (three
inputs, queue of two).  `MaxPending` bounds the operations the *user* may add to
a chain that is already occupied; settlements and redirected starts join it
whatever its length.  `MaxCancels`, `MaxRestarts` and `MaxOther` bound events of the
environment.  When every turn id is used up no further run can start; a
behaviour then simply stops at a dispatch, which no safety property is about.
The liveness runs have an id for every run that can become necessary.
Symmetry over turns, inputs and objectives is used in safety runs only.  The
theorems of section 4 lift the bounds where it matters most.

In delivery the limits are reached rather than avoided: a pending limit of one
overflows with two publications and makes every reconnection that is two events
behind a resync; a retention of zero or one archives deltas the window has not
seen; a batch of two fills.  Each kind of event is in a run where it matters: terminal
events in `lossless`, deltas that are archived in `lossless` and `view`, cuts in
`recovery`; the theorems of section 4 are about all of them.  A log of three holds an event before, in and after
the replay.  Recovery needs three: one that is not published, one that shows the gap
or is a cut, and a cut after the snapshot was read.  `MaxFaults` bounds lost connections, crashes and failed requests
together, `MaxVisits` reopening, resubscribing and uncompared answers.  Events are published in
blocks, which is when the synchronous loops of the writer and of
`publishThreadEventsSince` run.

A delta that merges across a twin needs three appends (one, its twin, another of
the first); a delta, a lifecycle event and a flush on one thread beside a refused write of the other
are within three appends too.  The limits of a goal are one, so that the first
settlement without progress, the first automatic turn and the first failed
verification already reach them; a second turn is the one that overtakes or
continues the first; the three steps of `MaxSpent` are, for example, a goal that is
set, paused and resumed while its turn unwinds.  Two roots are the two ends of a
move, and of the move back to a location that has a backup; four trees are the
original, the target's own directory, and two copies or a copy and a replacement; with a fifth the
run has three million states and finds nothing else.

**Fairness.**  `FairSpec` of `ThreadTurns` assumes that a run, a cancellation writer, a chain, a
call or a barrier that can go on eventually does: promise continuations are run
by the event loop, appends complete, and a model or tool call returns or is
aborted.  Nothing is assumed of the user, of errors, of crashes or of the
maintenance gate.  Two orders are assumed of the scheduler rather than left open: a run
that is registered is observed before it ends and before its user cancels it.  The run has to
store an event first, and the user learns its id from the answer or from that event, while
observation is a few promise hops away.  `QueueDrains` excepts a queue that was paused, which waits for
the user and says so, and threads somebody tries to delete.

In `ThreadProjection` the same is assumed of the continuations of the runtime, the host
and the window: publications, the handler's awaits, reading frames, the flush
timer, the reconnection delay, renders, recovery requests and their retry timer.
Nothing is assumed of appends, polls, selections, archiving or faults, which are
bounded.  A recovery that fails is retried after a second for ever, so its fairness
is that of the loop as a whole.

In `EventWriter`: timers fire, the store answers (with success or not), awaits are
resumed.  In `GoalFeature`: the chain and the continuations run, a turn comes to
its end in one way or another (`TurnActs` is one action, so nothing is assumed of
how), a message at the head of a free queue is dispatched.  `goal_progress` has no
failing starts: `continueIfIdle` swallows the error of a start it could not make
(`runtime-goal-coordinator.ts:627`), and the goal then waits for the user.

Every property has a mutant in `PROJECT.json`: a plausible bug in a mapped
definition that makes the property fail in the same run.

## 4. What is proved

`ThreadTurnsProofs`, `InputOwnershipProofs`, `SteerProofs` and `QueueProofs` hold for every set of turns and inputs, every queue
limit and every bound, with and without deletions, migrations, restarts and failing
dispatches unless a theorem says otherwise; they use only the named assumptions of the
modules (the null values are not elements, the limit is a positive number, the flags
are Booleans).

1. **`TypeCorrect`** (`[]TypeOK`) is proved through `TypeInv`, which adds what the
   handlers need from one another: an operation that enqueues, and one that waits
   while it withdraws, creates, registers, steers or publishes, has a real input; one
   that steers or publishes a real turn; and a call that steers has a target.
2. **`OneActiveTurn`** (`[]SingleActive`).  `start()` checks only the slot.  That is
   enough because the slot always holds the one task that is not aborted:
   `SingleActive` itself is inductive over `TypeInv` once `finish()` clears the
   slot by identity.
3. **`Ownership`** (`[]OneHolder`).  None of "sent at most once", "a withdrawn input
   is not sent", "one run per input" is inductive: a state with an input both
   queued and in a call satisfies them and breaks them two steps later.
   `OneHolder` is the strengthening: calls and enqueues hold untouched inputs;
   queued inputs are queued once, neither sent nor withdrawn; the operation that
   dispatches has marked its item and no run has it; the one that withdraws or
   steers found it unmarked; a run that has yet to store its message is the only
   one of its input and, while the input is queued, the input is marked.
   `NothingSentTwice`, `NothingWithdrawnIsSent` and `NoInputRunsTwice` follow.
4. **`ImplementsLedger`** (`Spec => LedgerSpec`): under `OneHolder` each step of the
   system queues, sends or takes back exactly one input of the ledger or leaves
   it alone; `Restart` leaves it alone.
5. **`QueueBounded`** (`[]QueueIsBounded`): only the head of the chain adds, and it
   checks and adds in one step; every other step filters or permutes.
6. **`SettledTurnsHaveEnded`** (`[]SettledTurnHasEnded`).  A run may leave along six
   paths, and only one of them writes the terminal event itself; `EndedInv` says of
   every phase of a run which of registry, log and cancellation writer it relies
   on, in particular that an aborted run whose writer is through has its event.
7. **`DeletionFindsThreadDrained`** (`[]DeletionHasDrained`).  The barrier cancels and
   waits twice with the admissions in between.  `DeletionInv` follows it: closed
   from the first step on; once the admissions have drained, no step of the closed
   thread admits a call again (`QuietThread`: the chain only works off settlements,
   for which `StepInv` keeps settlements away from the awaits of user operations);
   and once the slot was seen empty after that, nothing takes it any more.
8. **`MigrationSnapshotIsStable`** (`Spec => MigrationFreezesThread`).  Readiness is decided
   from counters; `MigrationInv` is what they amount to: no run, no admitted call,
   no cancellation that waits for its event, no deletion.  It is preserved because
   every started turn has ended (`EndedInv`), so that even a forced cancellation
   finds nothing to write.
9. **`NoSteerIsStranded`** (`[]NoStrandedSteer`).  The last drain takes what is there and
   waits for the writes in flight.  That this is everything needs three facts that
   `SteerInv` brings together: the turn in the slot is the only one that was not
   cancelled, a turn past its close accepts no steer, and a write is counted for
   its turn until it is stored, since by `OneHolder` nobody else holds its input
   and could end the count early.
10. **`NothingAcceptedIsLost`** (`[](restarts = 0 => AcceptedInputIsKept)`).  `RunInv` says that a run
    past its first two awaits has stored its input, `LedgerStep` that what is queued,
    sent or withdrawn stays one of these, and `AcceptInv` that an enqueue answers only
    when its input is kept.  After a crash the statement is false: section 7.
11. **`OldSettlementsDoNotPause`** (`Spec => LateSettlementDoesNotPause`).  The settlement compares
    its run with `latestObservedRuns`; `LatestInv` says how far that is the right
    question: the run in the slot is the latest observed one or is not observed yet, and a
    settlement in the chain belongs to a run that is over.  While the new run is not
    observed the comparison still names the old one, which is why the property excepts
    these hops (section 5).
12. **`QueueNeverStalls`** (`[](restarts = 0 => QueueDoesNotStall)`, unless a dispatch may be
    refused for a reason of its own, the thread deleted or a migration prepared; section 5
    says what happens then).  `DispatchInv` names who owes the next dispatch: an unmarked
    input of a queue that is not paused has the latest observed run, which is in the slot
    or has its settlement in the chain, or an operation that is about to dispatch; a
    marked one has a run or that operation.  Each step passes the debt on or pays it.
    That the chain, when it finds nothing to dispatch, has not overlooked an input
    needs the first unmarked place of the queue, a least element.
13. **`DraggedOrderIsStored`** (`ReorderIsExact`, without restarts, which drop the
    operation).  `ReorderInv`: between the check and the event nothing joins or leaves the
    queue and none of its inputs is marked, so neither a run nor a steer call can
    take one off (`QueueRests`).  The projection's sort by a permutation then has one
    result, since an increasing numbering of n places with n numbers is the identity.

`ThreadProjectionProofs` holds for every length of the log, every limit and every
number of faults.

14. **`TypeCorrect`** (`[]TypeOK`) of `ThreadProjection` is proved through `TypeInv`:
    every number pending, on the wire, in a batch, in a snapshot or in a variable
    of the window is the number of a stored event.  Appends only enlarge that set
    (lemma `Growth`), publications stay within it (`IntervalTyped`), and every step of
    the path copies numbers from one place to the next.
15. **`AcceptedEventsAreHandedOver`** (`[]AcceptedIsHandedOver`).  It needs to know how a
    batch leaves: `Ordered` says that the last event of a batch is its greatest, that the
    cursor is not behind the batcher, and that a resync travels without events.
    With it `HandedOver` is inductive: a batch that is applied puts the projection at
    or past its greatest event, a batch that is ignored was behind it, and an answer
    that takes the projection back leaves its old place in `setBack`, which no later step lowers
    without a new subscription.
16. **`ImplementsView`** (`Spec => ViewSpec`): a batch is a `Follow` or, with a resync, a
    `Refresh` (`ApplyBatchView`); an accepted snapshot is a `Refresh`; everything between
    the log and the window is a stutter.
17. **`WriterDeliveryIsLossless`** (`[]LosslessDelivery`, under `OnlyWriter`: nobody appends
    past the writer and no event rewrites the history).  `LosslessInv` follows an event
    from the log to the window.  Towards the connection, `HandlerInv`: from the moment
    the replay or the page is read, what was published after it waits in `pending`
    (`Holds`), and before that moment nothing has to, because the read will find it.
    So the first event beyond `processedSeq` in the sorted queue is the very next one
    (`PumpContinues`), and a live idle pump is never behind (`PublicationContinues`).
    Towards the window, `WireInv` and `PipeInv`: a frame, an event of a batch and a batch
    begin at most one after the end of what precedes them, so a batch that is applied
    skips nothing, whether the projection stands there or has been moved on by a snapshot
    (`MovesOn`).  After an uncompared answer the next batch does skip, but only what lies at or
    below `setBack`: what the window had shown before.  A closed connection owes nothing, since its successor
    reads from the cursor.

`EventWriterProofs` holds for every set of threads and streams and every bound
(`WriterBounds`).

18. **`TypeCorrect`**, **`EveryStreamIsKept`** (`[]StreamsAreKept`), **`TheOrderIsKept`**
    (`[]OrderIsKept`).  `WriterInv` reads a thread as one journal: its log, then the
    operations of its chain, then its batch.  Accepted calls have growing numbers, and an
    entry carries those merged into it.  Each action is one of a few moves of that
    journal, for every thread: an entry goes on to the next segment, is dropped, or a
    new number joins at the end, in the last entry or behind it.  No move lets an entry
    pass another of its stream or a lifecycle event, so both properties are kept by the
    moves and not proved again for each action.
19. **`AFlushMeansStored`** (`[]FlushMeansStored`).  A flush that waits promises what had
    been accepted when it was called.  The invariant says where that is: in the log,
    in the first operations of the chain, as many as the flush still waits for, or
    obsolete because a later preview or a dropped compaction took its place.  What
    is appended afterwards joins behind these operations, so it cannot hold the
    promise up, and an operation that leaves the chain has written or has failed the
    writer, in which case the flush does not return.

`DataRootProofs` holds for every set of locations and every bound (`RootAssumption`,
`BoundAssumption`).

20. **`TypeCorrect`**, **`OnlyTheHomeIsWritten`** (`[]NobodyWritesElsewhere`) and
    **`DataIsKept`** (`Spec => HomeSpec`).  `HomeInv` says, for each thing the disk may show -
    a pending file, an announced tree, a pointer at the source or at the target - which
    tree holds the data of which other, and which step of the process may be
    under way.  Its parts follow the journal (`MoveOK`, `MigratingOK`, `RecoveryOK`,
    `DeletionOK`) and the process (`NormalOK`, `RuntimeOK`): while a tree is copied
    nobody writes its source; once the new tree is announced it equals the source,
    until it is the home itself; a deletion never has the home as its tree.  Since a
    crash keeps the disk and drops the process, a crash is the step that shows whether
    the part about the disk says enough by itself.  `RuntimeOK` is about every root: a lease
    is held on the root the next start opens or on one that a user left in recovery, and on
    neither end of a move that was announced.  The contents of the home then
    change only by `RuntimeWrites`, or when a user in recovery mode chooses.
21. **`DismissedBackupsStayQuiet`** and **`ForeignTreesAreKept`**, action properties from
    the same invariant.

`GoalProofs` holds for every set of turns and objectives and for all limits
(`GoalLimits`, `GoalBounds`, `NoTurnAssumption`, `NullAssumption`).  Its invariant `Whole` has
eleven parts, and none of the five theorems is inductive without most of them:
`RegistryInv` and `StepInv` tie the phase of a turn to the slot and the step of the chain to
its head; `ChainInv` says that an operation that is due finds its turn where it left
it, and that no turn has two; `BindInv` types the maps; `CommandInv` keeps the turns the coordinator
never hears of out of its maps and its chain; the others follow below.

22. **`TypeCorrect`** (`[]TypeOK`).
23. **`StopsHold`** (`[]UserStopHolds`).  `StopInv`: a turn that nobody aborted and that works for
    a goal works for the current one, and when that goal has been paused by a user, the
    chain still stands at the publication, behind which the turn is aborted; while a
    goal is replaced or cleared no such turn is left.  The proof attempt and a larger
    run showed the second exception of the property (section 5).
24. **`UsageIsCountedOnce`** (`[]UsageCountedOnce`).  `UsageInv`: a turn that was charged has
    settled, and if it was started under the current goal, every terminal event of it
    lies at or before `accountedThroughSeq`.  That is what a restart relies on, which
    knows only the log.
25. **`AutonomyHolds`** (`[]AutonomyIsBounded`).  `AutonomyInv` relates the turns the chain has
    started by itself to the counter of the goal: they differ by what was not counted and
    by one turn, and by that one only while a turn of the goal as it is has yet to settle.
26. **`OnlyVerifiedGoalsComplete`** (`Spec => CompletionIsVerified`).  `ReceiptInv`: a receipt
    that could complete an active goal is sound, or its turn is superseded and will
    decide nothing; and a verification behind which nothing was stored judges the
    objective the goal still has.  Only then is `MayCommit`, which compares
    events and not objectives, enough.  `DecideInv` carries a decided completion over
    to its publication: no step in between changes the head of the chain, the goal or the
    outcome of the turn; only the evidence may move.

**Only model-checked:** all liveness (`QueueDrains`, `CallsAreAnswered`,
`DeletionIsReached`, `PublishedArrives`, `RecoversUnlessOverlapped`, `WriterSettles`,
`GoalDoesNotStall`), which the provers cannot treat.  Every safety property of the passing runs is stated by a
theorem, some under the restrictions named above.  `NoInputRunsTwice` is proved only: it has no run
of its own, since `OneHolder`, which implies it, has one.

## 5. Where the code and its documentation disagree

* `lost_recovery`: a gap noticed after a recovery snapshot was accepted and before
  React renders sets the state the acceptance has just cleared; the state keeps
  its value, the effect does not run again, and no later gap restarts it either.
  The hook's comment says incomplete projections recover.  `recovery` shows that
  this is the only way: without the overlap they do.
* `goal_stall`: a goal is cleared while its turn unwinds, which retires its id, and
  a new goal is set before that turn has left the registry.  `continueIfIdle` finds
  the thread busy, and the settlement of a retired turn returns without
  continuing: the new goal stays active and idle.  `persistent-goals.md` says a new
  goal starts its first turn.  `goal_progress` shows that, without a turn of another goal that
  unwinds and without a shell command or compaction in the slot (below), goals go on.

Seen while modelling, without a run of their own:

* A new turn is registered inside an async factory (`runtime-turn-run-factory.ts:114`) and
  observed by the queue some promise hops later (`agent-loop.ts:386`, `462`,
  `runtime-queued-turn-coordinator.ts:331`).  A settlement of the old run that resumes in these hops
  from reading the queue (line 290) still is the latest one and pauses the queue, although a new turn
  is active.  The comment of the coordinator is true of observed runs, which is what
  `LateSettlementDoesNotPause` says.
* An answer that is installed without a comparison (`useRuntimeThreadState.ts:126`) and was read
  before events the window has applied takes the window back, while the cursor of the host stays
  ahead.  The next event then shows a gap and a recovery is requested.  Without a further event the
  window stays behind until the thread is opened anew or polled, and it is polled only while a turn is
  active.  `LosslessDelivery`, `AcceptedIsHandedOver` and `PublishedArrives` say so with `setBack`.
* The recheck of the evidence of a completion (`runtime-goal-coordinator.ts:733`) and its
  publication (line 768) are awaits apart: a message or a tool event stored in between is overtaken by the
  completion.  The recheck also reads the stored log without a flush
  (`runtime-goal-host.ts:43`), so it does not see what the writer still holds.
  `CompletionIsVerified` is therefore about what is stored when the settlement decides.
* Shell commands and compactions take the slot of the thread, but their end is told to the send queue
  only (`agent-loop.ts:201`, `768`).  A goal that is set or would be continued while one runs finds the
  thread busy (`runtime-goal-coordinator.ts:611`) and nobody continues it afterwards: with
  `Commands = TRUE` and without the exception `CommandHoldsSlot` TLC finds `GoalDoesNotStall` violated.
* A home that fails its probe is present, so a runtime that outlived its parent may still hold its lease
  there.  `restorePreviousRoot` (`coordinator.ts:421`) asks for no lease and repoints the home;
  the orphan then writes to a root that was left.  `NobodyWritesElsewhere` excepts the roots a user left
  in recovery (`abandoned`) until they are opened again; TLC reaches such a state.

* The finalizer appends `turn.completed` without looking for a terminal event, so
  a cancellation stored while it runs leaves the turn with two, although the
  comment of the termination coordinator promises at most one.
* The deletion barrier awaits the task in the slot; a cancelled task that lost the
  slot to a newer turn is not awaited (`agent-loop.ts:852`), although the comment
  says even an aborted task is drained.  `DeletionHasDrained` states what does hold.
* An enqueue fails towards the client although `turn.input_queued` is stored, when
  the dispatch that follows throws (`runtime-queued-turn-coordinator.ts:155`); a retry
  makes a duplicate.
* A migration prepared while a settlement reads its outcome swallows the dispatch
  (`runtime-queued-turn-coordinator.ts:273`), and a cancelled migration
  (`agent-loop.ts:331`) does not repeat it: with `Migrates = TRUE` TLC finds
  `QueueDoesNotStall` violated.  The same holds of a deletion that fails.
* `event-coordinated-thread-store.ts:36` says that direct writes are numbered in
  the order of the calls; `flushThread` also awaits what was appended after it was
  called, so a direct write may come behind those.
* An append that is queued behind the deletion of its thread is refused by the
  store, and the refusal is the `fatalError` of every other thread.
* `finishThreadDeletion` continues the goal outside the chain
  (`runtime-goal-coordinator.ts:449`): a pause or a clear can pass it, and the turn it
  starts then works for a goal the user stopped.  `UserStopHolds` excepts it.
* `create_goal` does not look whether its turn was cancelled meanwhile
  (`runtime-goal-coordinator.ts:465`): the late call of a cancelled turn can replace the
  goal for which another turn runs, and that one goes on, bound to a goal that is gone.
  `UserStopHolds` excepts it (`orphaned`), and `AutonomyIsBounded` counts a settlement
  that is still due when the next turn starts.
* The removal of a staging tree may take its owner file first
  (`coordinator.ts:919`); after a crash in between, nobody owns the rest, and the
  migration can neither run nor be cancelled until the user removes it.  The data
  is safe (`HomeSpec`).
* A noted deletion whose volume is away counts as done and its record is dropped
  (`retained-backups.ts:284`): the tree stays at its hidden name.
  `docs/desktop/main/data-root.md:125` says the deletion goes on after a crash and
  does not mention this case.

## 6. Plan

Done: the modules of section 2.  What could follow, in this order.

1. **TurnInputs**: mailbox deliveries and receipts, with crashes, on top of
   `TurnExecution`.
2. **HistoryRewrites**: regenerate, edit, clear and background compaction
   committed against a snapshot.
3. **Approvals** and tool scheduling against cancellation; orderly shutdown
   (`cancelAll`, `drain` with its timeout); **FeatureLifecycle**; the instance lock;
   the schedule of automations.

## 7. What is not modelled, and why

* The contents of messages, what the model answers, tools and their policies,
  formatting and wire protocols: no property here depends on them.
* `cancelAll`/`drain` (orderly shutdown), mailbox drains inside a turn, child
  turns, shell commands inside an active turn, regenerate and clear: on the plan.
* A run that fails between registration and `turn.started`: nothing in a regular
  turn's code can throw there; a failed append poisons the writer and belongs to
  `EventWriter`.
* A direct start is answered before its message is stored, so a crash can lose
  it.  Nothing in the documents promises more; `AcceptedInputIsKept` is therefore
  checked and proved up to the first restart.
* Of the writer: the metrics of streams, and stores without `appendEvents`, which
  split a batch.  A flush is awaited by one caller per thread at a time.
* Of delivery: the swe format, heartbeats, feature events, several windows
  (subscriptions share only the bus), `thread.deleted` and the switch to another
  thread, and painting (the commit of the projection to React is coalesced per
  frame, the reference the gate reads is not).
* Of goals: prompts, execution options, legacy snapshots, the export of history,
  the interface.  One queued input and one thread; inputs are not withdrawn from
  the queue (an input that held up a goal and is withdrawn from a paused queue
  leaves the goal without a continuation until the user acts).
* Of what `PublishedArrives` says: `lastSeq` passes the event.  That the event was applied, and not
  skipped, is the business of `ViewSpec`, `LosslessDelivery` and the recovery.
* Of the data root: a `runMigration` that is called while a `cancelMigration` runs (only the reverse
  is guarded; the page of the migration disables its buttons while a call runs); a registry of backups that cannot be read, which the
  code takes for an empty one; what an orphan writes by path after its tree was deleted (its database
  goes with the tree); the import of legacy locations, the copy of a tree entry by
  entry, path comparison (roots are distinct and none contains another), rewriting
  of paths inside the copied data, dialogs and progress.
* SQL, file formats, operating-system integration and the user interface.  The
  greater part of the repository is of this kind: providers, tools, renderer
  components, translations, generated and platform code.  It keeps little state
  that several actors change, and is left to its tests; that is why the models,
  which follow the concurrent core, stand for a small share of all lines.
* Out of the provers' reach: liveness under fairness, `ENABLED`, induction over
  recursively defined data (an argument over places of a sequence is made by a least
  counterexample instead, lemma `LeastElement` of `QueueProofs`).  No module uses a `RECURSIVE` operator.
