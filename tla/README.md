# TLA+ specifications of aow

aow is a workspace server for terminals and coding agents: a daemon that owns the
shells (`terminald`), a control plane that talks to browsers (`server`), the agent
protocol client (`acp`), scheduled runs (`automations`) and the libraries around them.
This directory holds TLA+ models of its concurrent core, the TLC configurations that
check them on small instances, and theorems checked by TLAPS. What is modelled is where
actors meet: shells and their requests, streams and their controllers, a worker process
and its queue, processes that share lock files, an agent that answers late, and a person
and an autopilot at one keyboard. Its correctness lies in interleavings that tests can
only sample. In the sections on terminald, paths are relative to
`src/crates/terminald/src/` unless they name another crate.

- [How to run](#how-to-run)
- [Inventory](#inventory)
- [TerminalLifecycle](#terminallifecycle-the-registry), [TerminalStream](#terminalstream-attachments-and-output), [VtWorker](#vtworker-the-snapshot-sidecar)
- [AutomationSlots and RunBoard](#automationslots-and-runboard-runs-that-share-files), [AcpTurns](#acpturns-one-conversation), [TerminalHosting](#terminalhosting-who-types)
- [Where the code and its comments disagree](#where-the-code-and-its-comments-disagree)
- [What is proved](#what-is-proved), [What is only checked](#what-is-only-checked)
- [What is not modelled](#what-is-not-modelled)
- [Plan](#plan)

## How to run

    tlc -workers 2 -config StreamLossless.cfg MCTerminalStream.tla
    tlapm TerminalStreamProofs.tla

`PROJECT.json` lists the runs with their modules and properties, the mapping of every
definition to the lines it models, one mutant per checked property (an operator next to
the original, marked `Mutant:` in the module; put in its place it breaks the property),
the hazards, the findings and the theorems. The `MC*` modules only add symmetry sets.

## Inventory

### Parts that are modelled

**Registry** (`runtime/state`, `runtime/process`, `runtime/runtime/lifecycle.rs`).
State: the map of runtimes and `shutting_down`, the spawn tracker with its `Notify`, and
per runtime `deleted`, `reap_state` and the metadata; a native wait thread per shell.
Operations: PUT (check, permit, validation, blocking spawn, commit, start of the
threads), DELETE (a detached task: mark, kill, wait until reaped, remove), `shutdown_all`,
and the fate of a shell whose PUT never committed it. Hard: two PUTs of one id, a client
that leaves at any await, DELETE against PUT, shutdown against everything, failing waits.
Correct when: no started shell is left without somebody who reaps it, an id stands for
one live shell, an id is freed only by whoever saw its shell reaped, and shutdown returns
and leaves nothing behind.

**Attachments** (`runtime/websocket`, `runtime/runtime/{attachment,input,output}.rs`,
`runtime/output`). State: scrollback with offsets, broadcast channel, controller and its
generation, delivery gate; per connection its loop, its receiver and its held owner.
Operations: append and close of the output, status and deletion events, attach, claim,
seize, observe, wait, input and resize, leave, replay, catch-up, live loop. Hard:
takeover against a send in progress, lagging receivers and a truncated scrollback, events
between a check and a subscription, wake-ups coalesced by a `watch`. Correct when: a
client renders consecutive output and then the end, only the controller is answered and
typed for, waiters get a vacancy, and every stream ends.

**VT worker** (`vt_worker`, `src/vt-worker`). State: per session the status, geometry
revision, cached snapshot, sent and dirty counters; the bounded queue with open write
batches; the actor's set of live sessions; Node's sessions; the pipes between them.
Operations: create, write, resize, dispose, snapshot pass, cleanup pass, rejection,
failure, end of the worker. Hard: a resize or an end during a snapshot, limits shared by
all sessions, a session that fails at any line. Correct when: a cached snapshot is exact
whenever it may be served, the end of the worker degrades every terminal to raw replay,
silence leads to a current snapshot, and Node forgets what is disposed.

**Automations** (`src/crates/automations/src`: `scheduler`, `runner`, `task_lock`,
`store`). State: per task the slot lock files with the process registrations in them; per
run a manual request, a journal with its lock, the runner process and its commands'
process groups. Operations: dispatch (probe, record, launch, cancel), the runner (take the
request, lock a slot, open the journal, run commands, close), what a reader makes of a
journal, retention. Hard: processes that share nothing but files and die anywhere, a child
between fork and exec that shares its parent's locks, a launch that times out and happens
anyway. Correct when: at most `max_concurrent_runs` runs have commands alive, each run has
at most one record, one that failed to start never runs, and orphans are seen.

**Conversations** (`src/crates/acp/src/agent_servers`: `prompt.rs`, `steering.rs`,
`connection/`). State: the snapshot of a thread with its active prompt, pending steering,
detached turn and outcomes; a task per prompt and per steering request; the connection.
Operations: prompt, result, steer, answer, fallback, stop, activity, close, reopen,
disconnection. Hard: results that wait for the lock while reports take effect at once,
input that may be injected, started or handed back, a stop between a decision and its
admission. Correct when: input reaches the agent once, a result is taken for its own turn
only, a stop holds, the host hears of a completion once, and nothing waits for ever.

**Hosting** (`src/crates/server/src/terminal/{agent_control,bridge,hosting}`). State: the
durable hosting record and agent phase, the hosting gate and the exclusive lease, the
workers and submissions, terminald's controller. Operations: enable, review, collect,
submit, fail, takeover, CLI submission, browser input, recovery after a restart. Hard:
locks and a lease that overlap terminald's own idea of control, answers that time out
though the frame arrives, a restart between any two steps. Correct when: a takeover is
final, nothing is pasted twice, nobody loses control between paste and Enter, and a
hosting shown as under way has control.

**Interaction.** A PUT creates the VT session; the reader thread feeds the scrollback, the
channel and the session under the output lock; claims and resizes take the same lock;
DELETE and shutdown send `Deleted` to attachments and dispose the session. The hosting
worker and the CLI type through attachments of terminald, and a review is a hosted run of
automations. The models share no variable: each takes the calls of the others as steps of
its environment (`Delete` of TerminalStream and `Dispose` of VtWorker stand for the
`NotifyDeleted` of TerminalLifecycle; TerminalHosting has terminald's controller as
`DaemonStep`, a coarser form of the attachments of TerminalStream; `ReviewEnds` stands for
a hosted run of AutomationSlots). `RunBoard` is the abstract specification of the
automations, and AutomationSlots is checked, and proved, to implement it.

### Parts that are not modelled yet

`PROJECT.json` lists every component. Those with a concurrent core of their own are:

| Component | State | Operations | What is hard, what must hold |
|---|---|---|---|
| acp recovery | shared `Load`s, waiters, installed routes | acquire, abandon, settle, close and reload | a session is loaded once, an abandoned load is drained, no waiter hangs |
| server terminal manager | persisted tabs and panes, last daemon instance | reconcile, create, delete, sync | the daemon may restart between any two calls |
| snowflake ids | last timestamp and sequence, node lease | generate, acquire a node | unique and increasing under a clock that stands or steps back, and across processes |
| scheduler sync | timers of the OS | disable, write, enable | partial failure |

The rest (readers of agent histories, HTTP surfaces, git and file operations, messaging,
frontend, packaging) is mostly input and output over foreign formats; PROJECT.json gives
the reason for each.

## TerminalLifecycle: the registry

A runtime is named by the PUT that spawned it. `pc[r]` walks a PUT through `create`
(`state/lifecycle.rs`), `thread[r]` the native thread that owns the `Child`
(`process/mod.rs`), `at[a]` a DELETE task or `shutdown_all`. A step is what the code does
under one lock, or one access to a shared atomic. `permits` is the set of live
`SpawnPermit`s, `zeroPermit` the permit stored in `Notify`; `proc` is the shell as the OS
has it and `killed` the pending SIGKILLs. `Drop for SpawnedRuntime` is `DropSpawned`: it
marks, kills and hands child and permit to a detached thread, and every way a PUT can
lose its shell (`SpawnAbandoned`, `CancelSpawned`, `CommitRefused`, `CommitLost`) goes
through it. `Without` is the `ptr_eq` removal at the end of a DELETE.

| Run | Instance | States | Shows |
|---|---|---|---|
| `lifecycle_registry` | 2 equal PUTs of 1 id, 2 DELETEs, shutdown | 1,212,000 | `OneShellPerId`, `DeleteMeansGone`, `StatusTruthful`, `NoOrphanShell`, `ShutdownLeavesNothing` |
| `lifecycle_progress` | 1 PUT, 2 DELETEs, shutdown | 27,280 | `ShutdownReturns`, `DeletedIsReaped` |
| `lifecycle_pid_reuse` | 1 PUT, 1 DELETE | violation | see below |

*Bounds.* Two PUTs are enough for a race for the commit, for an id that is used again
while an old DELETE is still at work, and for a tracker that goes 0, 1, 2, 1, 0; two
DELETEs for one that finds the other's tombstone. One id is the case where they all meet.
There is no other bound: the instances are finite, and the theorems below hold for any
number of requests, ids and specs.

*Fairness.* Tasks and threads that can run do run, and a SIGKILL is delivered
(`WF` of `RequestRuns`, `ThreadRuns`, `ActorRuns`, `DeleteRuns`, `ShutdownRuns`,
`ShellKilled`): tokio and the OS schedule them and none depends on a client. Nobody has to
send a request, leave, exit or shut the daemon down. A process in uninterruptible sleep
would break the delivery of SIGKILL; `wait_zero` has no timeout for it. Timeouts may
happen at any time and need not happen.

## TerminalStream: attachments and output

One runtime. Output is counted: the n-th unit printed is unit n, every read and every
replay chunk carries one unit, so `base`, `next` and the client's `rendered` are the
offsets of the code. `events` is everything ever broadcast and `pos[a]` the receiver of
`a`; a receiver lags when it is more than `Capacity` behind. `st[a]` and `frame[a]` say
where the task of an attachment stands and what it is sending. The replay machine is
`chunks -> (catchup) -> subscribe -> boundary -> describe -> live`; `phase` says whether
it serves the first replay, its completion after the subscription, or a lag. `gate` is
`Runtime.delivery_gate`: a controller's frame takes it (`TakeGate`), checks the owner
and holds it until the send ends, as `begin_claim` does while it acknowledges. `alerted`
are the attachments whose `deleted_changed` watch has an unseen revision: a connection
subscribes (`Attach`), then looks for the deletion (`Admit`, `NotFound`), and only the
revision ends an idle one. Input that fails is answered with an error, after which the
stream goes on or, for a `Write`, ends (`InputFails`).

The client is part of the model: `intact` falls when a frame does not continue what it
rendered, and a header says where a new replay starts. `resume_after` may be any offset,
also one that has left the scrollback; a VT snapshot may start the replay at any offset
of it, which is what VtWorker delivers.

| Run | Instance | Shows |
|---|---|---|
| `stream_lossless` | 1 attachment, scrollback 1, channel 1, 3 units, 1 message; shell may end, output close, runtime be deleted; 276,979 states | `ScreenIsContiguous`, `LiveBoundary`, `FinalIsLast`, `EndIsTold`, `ScreensCatchUp`, `DeletionEndsAll` |
| `stream_ownership` | 2 attachments (one falls back to observing), 2 messages each, deletion, no output; 105,257 states | `ExclusiveDelivery`, `InputInOrder`, `WaiterTakesVacancy`, `DeletionEndsAll` |

*Bounds.* An attachment's replay interacts with the others only through the gate and the
owner, so one attachment suffices for what it renders; three units overrun a scrollback and
a channel of one while a catch-up is in progress, and again during the next. Two
attachments make every takeover; two messages each allow a claim and an input, or a claim
and a seizure back. One of them waits, the other, which falls back to observing, makes the
vacancies and may take them again itself. The attachment of `stream_lossless` is a legacy
one and never idle: that a deletion ends those that connect or are idle is shown by
`stream_ownership`. `stream_ownership` prints nothing, so the frames it sees under the gate
are the acknowledgements, headers, status and error frames; `DeliveryIsExclusive` below
proves the property for all frames and any output.

*Fairness.* A thread that set a flag goes on to announce it (`AnnounceStatus`,
`AnnounceDelete`), a task that can go on does (`Progress`, also the end of a send: every
one is under `SOCKET_SEND_TIMEOUT`), and whoever waits for the gate gets it (`SF` of
`UnderGate`: tokio's mutex is first in, first out). Clients, the shell and DELETE do as
they like. `write_input` is assumed to return: a PTY whose reader never reads would block
it under the controller's mutex.

## VtWorker: the snapshot sidecar

`writer[s]` is whoever holds the output lock of `s` (the reader thread, a resize),
`deleter[s]` the thread in `dispose`. A command in `queue` carries the range of units and
the list of sizes it stands for, so what Node has applied (`node[s]`: an offset and the
resizes, each at its offset) can be compared with what the shell printed. The actor is
idle, waits for one RPC, stores a snapshot, or walks a cleanup or snapshot pass; `pipe`
and `replies` are the two directions of the process's pipes, both first in, first out, so
the error of a mutation arrives before the reply of a later snapshot. `SessionState::fail`
sets the status at once and clears the cache when it gets the lock: `uncleared` is the
time in between. `Stop` stands for shutdown, the death of the process, an RPC timeout and
a protocol error. A cached snapshot counts one against `MaxCached`.

| Run | Instance | States | Shows |
|---|---|---|---|
| `vt_session` | 1 session, queue 2, 2 pending units, batches of 2, 2 resizes, rejections, stop | 215,096 | `ServedIsExact`, `AcceptedInOrder`, `StoppedMeansRaw`, `DeadHoldsNoCache`, `SnapshotCatchesUp`, `DisposeEnds` |
| `vt_leak` | 1 session without a pending byte to spare | violation | see below |

*Bounds.* Two units and two resizes put a resize before, between and after the writes of a
batch, and let a snapshot be overtaken twice; a queue of two is full when a create, a write
and a dispose meet. Sessions share only the limits; that no number of them exceeds one, or
leaves a cache with a dead session, is proved. `SnapshotCatchesUp` is checked with room in
the cache: when the budget cannot grow the code drops the new snapshot and keeps what it
had. The budgets never bind in this run: that they are kept is the theorem
`LimitsAreKept`. Its `PendingUnits` are the units of all batches in the queue, what
`pending_output_bytes` counts.

*Fairness.* A thread does not stop between two lines, Node executes its frames, and the
reader delivers its answers (`WF`). The snapshot timer is polled before the queue once it
is due and a pass begins where the last one ended, so no dirty session is passed over for
ever (`SF` of `Snapshot`, an assumption about the passes and not a result); after a pass the
commands get a fresh interval (`SF` of
`ActorTakes`). `vt_leak` needs no fairness and uses `Spec`.

`ServedIsExact` is about a claim, which reads the cache under the output lock. `screen()`
(`state/registry.rs`) reads without that lock and may see the size before a resize in
progress; it is outside the property.

## AutomationSlots and RunBoard: runs that share files

Paths are relative to `src/crates/automations/src/`. Every process is a program counter:
`dispatch[r]` (`scheduler/dispatch.rs`), `runner[r]` (`runner/`), `child[r]` the command
between fork and exec. `held[s]` is the set of processes that share the open file
description a flock belongs to, so that a child that was forked keeps its dead parent's
slot until exec, as it does in the code; `groups[s]` are the registrations in the lock file
that parse. A journal has an author, an end and a tail that a failed write may leave torn;
`View` is what a reader concludes from the file and its lock.

| Run | Instance | States | Shows |
|---|---|---|---|
| `automation_runs` | 1 slot, 2 commands; a manual run whose processes may fail anywhere, a hosted one whose do not; launch errors, crashes, I/O errors | 385,830 | `OneRunPerSlot`, `FailedToStartNeverRuns`, `RunningIsSeen`, `BoardSpec`, `DeathIsSeen` |
| `automation_probe` | a scheduled and a hosted run, 1 command, no faults | violation | see below |

*Refinement.* `BoardSpec` is the specification of `RunBoard` under the mapping in
`Board == INSTANCE RunBoard WITH ...`: a run's record is what history shows, and a run
executes when one of its registered groups is alive.

*Bounds.* Two runs for one slot is where exclusion matters; two commands are a worktree or
agent and the cleanup, of which one may be orphaned while the next is not started. One
faulty run leaves a witness that finishes normally. Each run is dispatched once.

*Fairness.* A process that can take its next step does (`WF` of `DispatcherStep`,
`RunnerStep` and `ChildStep` of each run). No crash, kill or launch need happen.

*Left out.* A registration torn by a failed append is modelled (`"torn"`) but not in the
fault set of the run: the next registration is joined to the partial line and parses as
nothing, its orphan is then not seen, and `OneRunPerSlot` fails. It takes a write that
stored part of a short line, which the theorems below therefore exclude by an assumption.
The short hold of a slot's flock by an attempt that then finds living groups
(`task_lock/mod.rs:148-170`) is not a step of its own, and the rename of a journal and its
`.active` link (`store/runs.rs:105-110`) are one. A runner that the manager starts so late
that its request has been cancelled goes on with the stored task, in the model as in the
code.

## AcpTurns: one conversation

Paths are relative to `src/crates/acp/src/`. `thread` is the `SessionSnapshot`, and the
functions of the module are the functions that change it: `Begun` (start_prompt_inner),
`WithResult` (finish_at and the rest of the prompt's task), `WithAnswer` (steering.rs),
`ObserveActivity`, `StopMarked`, `Disconnected`, `Fresh` (a new snapshot); `Updated` is the
tail of every `ThreadStore::update`. A step is what happens under one hold of the store's
lock. A task `<<"prompt", n>>` or `<<"steer", n>>` waits for its response, applies it, and
then looks whether a fallback is due: `Peek` reads a snapshot and `FallbackStart` is the
second admission, under a later hold of the lock. The agent is the environment of the
protocol: it reports activity before or after the response to a prompt or not at all, and
either starts a turn with input that finds it idle, or leaves it unconsumed; which it does
is a property of the adapter and does not change.

| Run | Instance | States | Shows |
|---|---|---|---|
| `acp_turns` | 3 inputs, 2 where a fault occurs, a stop; unsaved updates, a lost connection, close and reopen; every kind of agent | 2,165,353 | `NeverResent`, `IdleMeansQuiet`, `CompletedByItsOwn`, `ReportedOnce`, `RestIsSettled`, `StopHolds` |
| `acp_completion` | 2 inputs, no fault | violation | see below |

*Bounds.* Three inputs are a prompt, steering that is handed back, and the turn its
fallback begins or the next steering; a fourth repeats one of them. One stop may come
before, between or after everything. The conversation is reopened once.

*One step.* `Closed` unregisters, forgets the session and updates the thread, which are three
locks in the code (`agent_servers/mod.rs:815-834`); `FallbackRefused` two
(`steering.rs:235-255`), where the second looks at the pending id again. `Recorded` has
the stop reasons end_turn and cancelled: the others (`acp_thread/turns/mod.rs:58-62`) take
the path of the second. `Reopen` drops the updates that came without a route, which the
code buffers and replays, and no conversation is reopened between the stop of a connection
and `disconnected()`.

*RestIsSettled* stands for liveness: every task's steps are bounded, so what is left to
exclude is a rest in which something still waits. It is an invariant over the states in
which nothing is on its way and every task has ended.

*IdleMeansQuiet* excepts turns of the agent's own of an agent that reports: a report that
comes late is read as the end of the turn after it, as `README.md:258-262` of the crate
concedes.

*CompletedByItsOwn* rests on `leaves` being constant. An adapter that sometimes starts a
turn and sometimes hands input back could leave a detached turn open behind a second
`startedNewTurn`, and the end of a later fallback would then record all open turns as
completed, since `turns::finish` closes every turn that is in progress.

## TerminalHosting: who types

Paths are relative to `src/crates/server/src/terminal/`. One pane that `agent create`
made. `hosting` and `phase` are what the pane's file holds; a worker is a hosting id with
the boot of the server it runs in, so that a restart leaves the old workers behind without
their steps. `gate`, `leased` and `guard` are the hosting gate, the exclusive operation
lease and the browsers' shared one. `pipe` and `inbox` are the two directions of each
connection to terminald, whose controller is `owner` with the queue `waiting`; a submission
is claim, paste, a pause, Enter, each answered or not within its time-out. `late` is a
history variable: the pairs of a client that has attached and another whose forced claim
was on its way to terminald then and still is.

| Run | Instance | States | Shows |
|---|---|---|---|
| `terminal_hosting` | 1 hosting, 1 browser with 2 frames, 1 submission, the creation of the pane, 1 restart, 1 conclusion at most, 1 queued prompt; time-outs, failed saves, failed reviews, a changed agent | 558,267 | `TypeOK`, `PastedOnce`, `NoTurnForgotten`, `RemovedStaysRemoved`, `SubmissionKeepsControl`, `ControlIsSettled` |

*Bounds.* One hosting, browser and submission are one of each party that can hold the
keyboard; two frames are a claim and a key, or a claim and a takeover, or a takeover, a
leave and a connection that is made again, which counts as a frame. A browser connects
again only when terminald is done with its last attachment. A completion is delivered once
per turn, so the deduplication by `source_turn_id` has nothing to do; a review ends only
while somebody waits for it.

*Late claims.* Nothing in the code waits until terminald has read what was written to it:
`claim_with_force` connects and sends at once (`agent_control/connection.rs:24-31`), and the
bridge lets go of the gate when a frame is written (`bridge.rs:116-133`). A browser that
forces and leaves, or a call that times out, may therefore leave a forced claim on its way,
and terminald reads connections in any order: a submission may start, claim and paste, and
then lose control to that claim before its Enter. The model has this, and
`SubmissionKeepsControl` states it as the only exception: control is lost at most to a
forced claim that was sent before the typist's own claim. `bridge.rs:44`, which says that
takeover is serialized "with the entire paste + Enter submission", does not mention it.

*Fairness.* Submissions run under a time limit (`WF` of `SubmitStep`), and a worker is
passed over by neither the gate, which is a fair tokio mutex, nor the timer in its
`select!` (`SF` of its steps). terminald, browsers, the agent, reviews and restarts need
not do anything.

`NoTurnForgotten` speaks of the time before a restart: the completions of a subscription
are not durable. A worker that recovers subscribes anew and goes straight to its loop
(`hosting/worker.rs:119-129`: `run_on_enable` is false), in the phase that was saved. A
hosting that was waiting, and whose turn ended while the server was down, waits on for an
event that has passed, until the agent ends another turn or a person takes over. A failure
whose save fails as well stays unshown until the next restart (`"unsaved"`).

## Where the code and its comments disagree

**A signal after the pid was collected** (`lifecycle_pid_reuse`). The comment in
`mark_reaped` (`runtime/runtime/lifecycle.rs:10-12`) promises that until its guard is
released "DELETE cannot observe `reaped` false and act on a PID that the OS may already be
able to reuse". `kill_best_effort` releases its own guard in the condition of line 64 and
signals afterwards: it may read `reaped` as false, then `child.wait()` returns and
`mark_reaped` takes the guard, then the signals go out.

**A session that Node keeps** (`vt_leak`). The actor tracks sessions so that "the cleanup
pass must still dispose the Node session" (`vt_worker/worker/actor.rs:103-105`).
`fail` stores `FAILED` over `DISPOSING`. When the writer overflows its limit, or Node
rejects a mutation, between `dispose()` marking the session and the actor taking its
`Dispose`, the command is skipped without the RPC and the id is forgotten, so no cleanup
pass disposes it; it counts against `MAX_SESSIONS` until the worker ends. The same
happens, in more steps, when a failed session's last `Arc` is dropped before the next
cleanup pass. `DisposeEnds` therefore excepts sessions that failed.

**A probe that takes the slot** (`automation_probe`). The comment at
`src/crates/automations/src/scheduler/dispatch.rs:36-37` calls the runner's own attempt the
"authoritative race-free check". The dispatcher's probe takes the very flock that a runner
of another run tries at that moment, so the runner passes a slot that no run occupies; if
it was the last one a scheduled run ends as skipped, without a record, below the limit.

**A completion that nobody is told of** (`acp_completion`). The README of the acp crate
(line 166) says that `turn_completed` receives each successfully completed live prompt
once. While steering is pending, the result's task leaves the completion to the task that
waits for the steering answer; when that answer is `promptRequired` and is applied first,
it finds nothing to tell, and the completion stored afterwards is overwritten or left.

Seen while reading the code, and not checked by a run: `detach_session`'s `loads.forget`
(`agent_servers/mod.rs:820` of the acp crate) can forget a newer load that has not settled,
so that two loads of a session run at once against the comment at `recovery.rs:202`; a
load that settles with an error between the abandonment and `recovery.rs:294-297` leaves
the phase "cleaning"; and a browser attachment of a protocol before `control=v2` that read
`hosted` as false before an enable bypasses the gate. The comment at `bridge.rs:44` on takeovers and submissions does not hold for
a forced claim that was forwarded before the submission attached, see TerminalHosting.

## What is proved

TLC checks the instances above; TLAPS checks the following for every value of the constants
that the modules' assumptions allow (`LifecycleAssumption`, `StreamAssumption`,
`VtAssumption`, `SlotsAssumption`, `TurnsAssumption`, `HostingAssumption`: `None` differs
from everything else, the daemon is no DELETE, limits and counts are numbers, positive where
the code has no zero). They are the assumptions TLC evaluates in every run. One theorem
group has a hypothesis of its own: those of AutomationSlots, but for its types, exclude torn
registrations (`"torn" \notin Faults`), with which the properties are false; see "Left out"
above.

| Module | Theorem | Property |
|---|---|---|
| `TerminalLifecycleProofs` | `TypeCorrect` | `TypeOK` |
| | `ShellsAreOwned` | `NoOrphanShell` |
| | `ShutdownIsComplete` | `ShutdownLeavesNothing` |
| | `OneShell` | `OneShellPerId` |
| | `DeletionIsFinal` | `DeleteMeansGone` |
| | `StatusIsTruthful` | `StatusTruthful` |
| | `GateIsABoundary` | `ShutdownBoundary`, a step property |
| | `RemovalIsSafe` | `RemovedOnlyReaped`, a step property |
| `TerminalStreamProofs` | `TypeCorrect` | `TypeOK` |
| | `DeliveryIsExclusive` | `ExclusiveDelivery` |
| | `InputKeepsOrder` | `InputInOrder` |
| | `ScreensAreContiguous` | `ScreenIsContiguous` |
| | `BoundariesHold` | `LiveBoundary` |
| | `FinalComesLast` | `FinalIsLast` |
| `VtWorkerProofs` | `TypeCorrect` | `TypeOK` |
| | `DeadStaysEmpty` | `DeadHoldsNoCache` |
| | `StopFallsBack` | `StoppedMeansRaw` |
| | `LimitsAreKept` | `BudgetsHold` |
| `VtOrderProofs` | `SnapshotsAreExact` | `ServedIsExact` |
| | `NothingIsRejected` | `AcceptedInOrder` |
| `AutomationSlotsProofs` | `TypeCorrect` | `TypeOK` |
| | `SlotsAreExclusive` | `OneRunPerSlot` |
| | `FailuresAreTrue` | `FailedToStartNeverRuns` |
| | `OrphansAreSeen` | `RunningIsSeen` |
| | `BoardImplemented` | `BoardSpec`, the refinement of `RunBoard` |
| `AcpTurnsProofs` | `TypeCorrect` | `TypeOK` |
| | `InputsGoOnce` | `NeverResent` |
| | `StopsHold` | `StopHolds`, a step property |
| | `HostHearsOnce` | `ReportedOnce` |
| | `CompletionsAreTrue` | `CompletedByItsOwn` |
| | `IdleIsQuiet` | `IdleMeansQuiet` |
| | `RestSettles` | `RestIsSettled` |
| `TerminalHostingProofs` | `TypeCorrect` | `TypeOK` |
| | `PastesOnce` | `PastedOnce` |
| | `RemovalsAreFinal` | `RemovedStaysRemoved`, a step property |
| | `SubmissionsKeepControl` | `SubmissionKeepsControl`, a step property |
| | `TurnsAreKept` | `NoTurnForgotten` |

Where a run no longer lists a property (the types of all components but hosting,
`ShutdownBoundary`, `RemovedOnlyReaped`, `BudgetsHold`), the theorem has taken its place.

*Lifecycle.* None of the properties is inductive. `IInv` adds what they rest on: a PUT
that has registered, and a detached thread that has not finished, hold their permit
(`PermitInv`); a shell exists only once its PUT is past the spawn, and a thread that is
through has marked it reaped (`ShellInv`); a live shell that left its PUT without being
dropped is in the map or drained (`OwnerInv`); an actor about to remove an entry has seen
it deleted and reaped (`RemoveInv`); closing the gate and draining the map are one step
(`GateInv`); shutdown's second loop leaves every runtime it is through with reaped, or has
recorded an error (`ReapInv`). Five more parts are about ids and answers: an entry of the
map is a runtime of its id, and shutdown drained at most one per id (`PlaceInv`); a request
answers once, and Created never for a dropped shell (`AnswerInv`); no thread owns a child
that its request still works on, so what is committed has not been reaped (`UnbornInv`); a
DELETE has a target only once it found one, and returns once (`GoneInv`); and a thread
publishes what the wait returned before it marks the runtime reaped (`StatusInv`). The step
properties follow from the same invariant.

*Stream.* `IInv` is `TypeOK` with four parts. `GateInv`: whoever holds the gate is in the
middle of a send, a controller sends its frames only as holder of the gate and as the
current owner, and whoever waits for the gate waits with a frame of the stream. An owner can
only change by a claim, which needs the gate free, or by its own release, when it sends
nothing. `InputInv`: the generation of the owner is the last one granted, and the recorded
inputs are sorted and none is of a later generation. `EventInv` numbers the broadcast: an
event carries the offset of what is printed next (`OffsetAt`), one unit lies between an
output event and its successor, and nothing follows the end of the output. `ScreenInv` says
for every step of a task what the client has rendered: as far as the copied chunk
(`chunks`), as far as the snapshot (`catchup`, `subscribe`), and, for a task that follows
the channel, as far as its receiver's next event. A task may leave the live loop for a claim
or an input and return, which is why `Following` also looks at `back`. With it, the first
event after a subscription, or after a lag however long, continues the screen.

*VT worker.* `IInv` of VtWorkerProofs has nine parts. `SizeInv`: a resize that is queued or
sent says what to resize to. `StoreInv` and `CurrentInv`: the actor stores the snapshot at
the head of Node's answers, for a session that exists. `CacheInv`: it does so only for a
session that works, or whose cache somebody has yet to clear. `HandleInv`: a session that
works has its handle. `EndedInv`: what the cleanup pass visits has ended. `TrackedInv`: a
session that works is known to the actor or has its create in the queue. `BudgetInv`: the
queue and the cache are within their limits, and `PendingInv` the output in the queue. `OrderInv` of VtOrderProofs adds what the
commands say. A mutation (`Follows`) goes on where the one before it ended: a write at its
offset and in its size, a resize with one size more. `ChainInv`: the mutations of a working
session in the queue continue what was sent and each other, and the next mutation of its
thread (`Due`: the batch or resize it is about to queue) continues the last of them; a batch
may only grow when it is the last. `NodeInv`: the frames in the pipe continue in the same
way what Node has applied, up to all that was sent, unless an error of the session is on its
way back; that is why a snapshot, the one request under way and behind every frame
(`AwaitInv`), is of all that was sent (`SnapshotInv`). `ExactInv`: a cached snapshot has the
sizes of the terminal, but while a resize has raised the revision and not yet cleared the
cache, when the resize holds the output lock and nobody is served. `GrowthInv`: no resize is
queued behind a batch of the present size, so a batch that may grow is the last mutation of
its session. `BoundInv`, `FreshInv` and `KnownInv` say what is queued, sent and known before
a session begins, and that nothing is sent before it is printed. The proof first shows every
step to be of one of fifteen kinds (`StepKinds`), and then that each kind keeps each part.

*Automations.* `IInv` of AutomationSlotsProofs is `TypeOK` with five parts. `TodoInv`: a
command that is being spawned has a number. `LockInv`: the processes that share a slot's
lock are of one run, and a runner and its forked child share the lock of the run's slot.
`GroupInv`: the registrations in a slot are those of the run in its owner line, every
living command is registered in its run's slot, and a slot is truncated only when none of
its groups lives. `JournalInv`: whoever writes a journal has its lock and the journal is
open. `KillInv`: a runner kills a command before it goes on, unless it dies, and then the
journal has no end.
`BoardImplemented` maps every step to a step of RunBoard or to a stutter, one lemma per
action.

*Conversations.* `AcpTurnsSteps` has the invariant's parts and what each function on the
snapshot does to it, stated once as a contract; `AcpTurnsProofs` the remaining steps and the
theorems. `IInv` has thirteen parts. `MailInv`: a request is unanswered in one place, and has
one answer. `OnceInv`: an input goes to the agent as a prompt or as steering it takes, and
pending input has not gone as a prompt. `LeavesInv`: what the kind of agent implies for the
turns it runs and the answers it gives. `LinkInv`: a conversation out of reach has nothing
pending and a broken connection is silent. `StatusInv` and `TurnInv`: the status, the open
turns and the outcomes agree. `ToldInv`: the answer to a prompt is what the agent said of
it. `ReportInv`: a completion that is kept is one of a completed turn that nobody heard of.
`StopInv`: pending input that was stopped is marked cancelled. `QuietInv`: what the agent
works at is what the conversation works at. `WaitInv`: whatever waits has somebody, or a
message on its way, to end the wait. `FreshInv`: nothing is known of an input not yet given.

*Hosting.* `IInv` of TerminalHostingProofs is `TypeOK` with eight parts. `BootInv`: only
workers of the present run of the server are not off. `LockInv`: a submission that is under
way, and a worker that claims or types, holds the gate, and the worker's hosting is its
own; the initialization, which takes no gate, is alone. `CopyInv`: as long as the hosting
is a worker's own, the worker's copy is the saved record, and in every record the number of
the review and the count of inputs agree. `KeepInv` and `QuietInv`: whoever types has sent
no close, and every forced claim of anybody else that is on its way to terminald is a late
one, sent before the typist attached: whoever forces needs the gate, which the typist holds,
or a pane that is ready, which one being created is not; that is `SubmissionKeepsControl`. `AskInv`: a worker has one frame under way and reads its answer
before it sends the next, so "written" at `entering` is the answer to the Enter. `PasteInv`:
every conclusion pasted, or in a queue to be, is of a review that its hosting is past,
which is why the next one is new, and why their number is bounded by the limit. `TurnInv`:
the prompt that an Enter brings is there before the turn can be told of. `Local` says what a
step of one client may do to anybody else; nearly all of the proofs rest on it.

## What is only checked

Liveness: the prover does not reason about fairness and `ENABLED`, so all leads-to
properties (`ShutdownReturns`, `DeletedIsReaped`, `EndIsTold`, `ScreensCatchUp`,
`DeletionEndsAll`, `WaiterTakesVacancy`, `SnapshotCatchesUp`, `DisposeEnds`, `DeathIsSeen`,
`ControlIsSettled`) stay with TLC. No safety property is only checked: every
invariant and step property of a passing run is stated by a theorem.

No module declares a `RECURSIVE` operator (the prover loses its arithmetic with them), the
limits bound sets: the units pending in the queue, the cached snapshots. Only the bounds
on output and resizes are totals over the terminals, by a fold. Facts that need induction over data are avoided by stating
invariants over indices instead.

## What is not modelled

- Lengths of time. A timeout may strike at any moment it is armed.
- Bytes. The UTF-8 and keyboard mode parser, the frame formats and the framing of RPCs.
- The processes of a shell's session other than the shell. The enumeration of `/proc`
  can miss a child that is being forked; the model's `kill` reaches the shell only.
- The size that a resize leaves in the metadata and PTY. TerminalStream has a resize as
  input, VtWorker as a mutation.
- Crashes of the daemon. Nothing of it is persistent: the shells die with their PTYs and
  the server reconciles with a new instance (TerminalReconcile in the plan).
- Reuse of a process group's id by another process, and reboots, which a boot id tells.
- A `load_session` that reads the working state of a thread before it installs the loaded
  one: prompts admitted in between belong to AcpRecovery.
- Browsers of a protocol before `control=v2`, the lag of the completion channel, panes that
  `agent create` has not made, and the revocation of access to a pane.
- Poisoned locks and panics.
- In VtWorker: the rejection of a mutation that is out of order (`command.rs:55-62`,
  `99-105`), which `NothingIsRejected` proves unreachable; and a new snapshot that the
  budget refuses while an older one is cached (`state.rs:112-116`): a replacement always
  succeeds.
- In TerminalStream: the watch and the event of a deletion, which are announced in one step.

## Plan

In order:

1. `AcpRecovery`: loads shared by two callers, one session, one close and reload.
2. `TerminalReconcile`: two panes, one restart of the daemon between any two calls.
3. `SnowflakeIds`: the generator with a small sequence and the leases of two processes; an
   id as the triple the code packs into 63 bits, checked against the packed form.
4. `TimerSync`, and the output parser against a reference definition.
5. `TerminalDaemon`: registry, one stream and the VT sessions composed, with the order of
   `run_with_shutdown`; every attachment hears of the shutdown before its connection is
   joined, and Node holds nothing when the worker is asked to stop.
6. Abstract specifications of the stream (lossless, in order, one final frame) and of the
   snapshot cache (empty or exact), with TerminalStream and VtWorker shown to implement them.

Every safety invariant and every step property that a run checks is now a theorem. What the
proofs have left: a second refinement, of TerminalLifecycle to an abstract registry (an id
is free, taken, or being deleted), whose steps `GoneInv` and `PlaceInv` nearly give; and the
theorems of AutomationSlots under torn registrations, which need the weaker property that
the code keeps there.
