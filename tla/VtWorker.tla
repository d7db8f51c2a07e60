------------------------------ MODULE VtWorker ------------------------------
(***************************************************************************)
(* The optional headless-xterm sidecar of terminald: the sessions that     *)
(* feed it, their bounded command queue, the actor that owns its pipes,    *)
(* the Node process behind them, and the snapshots cached for clients that *)
(* attach.                                                                 *)
(*                                                                         *)
(* Output is counted: a write brings one unit.  The writer of a session is *)
(* whoever holds its runtime's output lock: the reader thread, a resize or *)
(* a claim that reads the snapshot.                                        *)
(***************************************************************************)
EXTENDS Naturals, Sequences, FiniteSets, Functions

CONSTANTS
    Sessions,
    None,
    Geometries,   \* what a terminal may be resized to
    QueueCapacity,\* of the command queue
    MaxPending,   \* MAX_PENDING_WRITE_BYTES, over all queued batches
    MaxBatch,     \* MAX_WRITE_BATCH_BYTES
    MaxCached,    \* MAX_TOTAL_CACHED_SNAPSHOT_BYTES, a snapshot counting one
    MaxNode,      \* MAX_SESSIONS of the Node service
    MaxOutput,    \* bound: units all shells print
    MaxResizes,   \* bound: resizes of all terminals
    Faults        \* bound: what may go wrong: "reject" of a screen or snapshot, "stop"

ASSUME VtAssumption ==
    /\ None \notin Sessions
    /\ QueueCapacity \in Nat \ {0} /\ MaxPending \in Nat /\ MaxBatch \in Nat \ {0}
    /\ MaxCached \in Nat /\ MaxNode \in Nat /\ MaxOutput \in Nat /\ MaxResizes \in Nat
    /\ Faults \subseteq {"reject", "stop"}

VARIABLES
    status,      \* SessionState.status
    printed,     \* OutputState.next_offset of its runtime
    sizes,       \* where its PTY was resized to what: geometry_revision is the length
    cache,       \* SessionState.snapshot
    uncleared,   \* a thread has failed or disposed it and will clear the snapshot
    writer,      \* where the thread under the output lock stands
    deleter,     \* where notify_deleted stands
    sentOffset, sentSizes, dirty,   \* what the actor has sent: see SessionState

    queue,       \* the command channel
    actor,       \* what the actor is doing
    current,     \* the session it is doing it for
    live,        \* live_session_ids
    scanned,     \* sessions looked at in this snapshot pass
    todo,        \* sessions this cleanup pass has to dispose

    pipe,        \* frames on their way to Node
    replies,     \* frames on their way back
    node         \* Node's sessions: what each has applied, or None

stateVars == <<status, cache, uncleared>>
clientVars == <<printed, sizes, writer, deleter>>
sentVars == <<sentOffset, sentSizes, dirty>>
actorVars == <<actor, current, live, scanned, todo>>
nodeVars == <<pipe, replies, node>>
vars == <<stateVars, clientVars, sentVars, queue, actorVars, nodeVars>>

Each(v) == [s \in Sessions |-> v]

Init ==
    /\ status = Each("none") /\ printed = Each(0) /\ sizes = Each(<<>>)
    /\ cache = Each(None) /\ uncleared = Each(FALSE)
    /\ writer = Each("idle") /\ deleter = Each("idle")
    /\ sentOffset = Each(0) /\ sentSizes = Each(<<>>) /\ dirty = Each(FALSE)
    /\ queue = <<>>
    /\ actor = "idle" /\ current = None /\ live = {} /\ scanned = {} /\ todo = {}
    /\ pipe = <<>> /\ replies = <<>> /\ node = Each(None)

-----------------------------------------------------------------------------
(* Helpers *)

Total(f) == FoldFunction(+, 0, f)

Active(s) == status[s] = "active"
CanProcess(s) == status[s] \in {"active", "disposing"}

\* SessionState::fail: the status at once, the snapshot when its lock is free.
FailAll(S) ==
    /\ status' = [s \in Sessions |-> IF s \in S THEN "failed" ELSE status[s]]
    /\ uncleared' = [s \in Sessions |-> s \in S \/ uncleared[s]]
    /\ UNCHANGED cache

Fail(s) == FailAll({s})

\* The actor holds the snapshot lock between the last check and the store.
Locked(s) == actor = "storing" /\ current = s

Queued(s) == \E i \in DOMAIN queue : queue[i].s = s

\* The Arc of a session is alive: its runtime, a command or the actor has it.
Held(s) == deleter[s] # "gone" \/ Queued(s) \/ current = s \/ s \in todo

\* try_send finds the channel open and not full.
HasRoom == actor # "stopped" /\ Len(queue) < QueueCapacity

Writer(s, w) == writer' = [writer EXCEPT ![s] = w]

\* A batch of a session stays open until the actor takes it, and only the last may grow.
IsLastWrite(s, i) ==
    /\ queue[i].s = s /\ queue[i].op = "write"
    /\ \A j \in DOMAIN queue : j > i => ~(queue[j].s = s /\ queue[j].op = "write")

\* Mutant: the geometry revision of the batch is ignored.
ExtendsAnySize(s, i) ==
    IsLastWrite(s, i) /\ queue[i].upto + 1 = printed[s] /\ queue[i].upto - queue[i].from < MaxBatch

\* WriteBatch::append: same revision, contiguous, not full.
Extends(s, i) ==
    /\ IsLastWrite(s, i)
    /\ queue[i].sizes = sizes[s]
    /\ queue[i].upto + 1 = printed[s]
    /\ queue[i].upto - queue[i].from < MaxBatch

\* The units of the queued batches.  Each unit is printed once, and is in one batch.
Units(c) == {c.s} \X ((c.from + 1)..c.upto)
PendingUnits == UNION {Units(queue[i]) : i \in DOMAIN queue}

\* reserve_write_bytes of one unit; a dropped batch returns its bytes.
CanReserve == Cardinality(PendingUnits) < MaxPending

-----------------------------------------------------------------------------
(* VtWorkerClient::create_session and VtSession *)

Command(s, op) ==
    [op |-> op, s |-> s, sizes |-> sizes[s], from |-> printed[s], upto |-> printed[s]]

Create(s) ==
    /\ status[s] = "none" /\ HasRoom
    /\ status' = [status EXCEPT ![s] = "active"]
    /\ queue' = Append(queue, Command(s, "create"))
    /\ UNCHANGED <<cache, uncleared, clientVars, sentVars, actorVars, nodeVars>>

CreateFails(s) ==
    /\ status[s] = "none" /\ ~HasRoom
    /\ Fail(s)
    /\ UNCHANGED <<clientVars, sentVars, queue, actorVars, nodeVars>>

\* append_output, and VtSession::write up to its first look at the status.
WriteBegin(s) ==
    /\ writer[s] = "idle" /\ status[s] # "none" /\ deleter[s] # "gone"
    /\ Total(printed) < MaxOutput
    /\ printed' = [printed EXCEPT ![s] = @ + 1]
    /\ Writer(s, IF Active(s) THEN "write" ELSE "idle")
    /\ UNCHANGED <<stateVars, sizes, deleter, sentVars, queue, actorVars, nodeVars>>

\* Its second look.  Whoever has passed it goes on, whatever becomes of the session.
WriteSkips(s) ==
    /\ writer[s] = "write" /\ ~Active(s)
    /\ Writer(s, "idle")
    /\ UNCHANGED <<stateVars, printed, sizes, deleter, sentVars, queue, actorVars, nodeVars>>

WriteAppends(s, i) ==
    /\ writer[s] = "write" /\ Extends(s, i) /\ CanReserve
    /\ queue' = [queue EXCEPT ![i].upto = @ + 1]
    /\ Writer(s, "idle")
    /\ UNCHANGED <<stateVars, printed, sizes, deleter, sentVars, actorVars, nodeVars>>

WriteQueues(s) ==
    /\ writer[s] = "write"
    /\ ~\E i \in DOMAIN queue : Extends(s, i)
    /\ CanReserve /\ HasRoom
    /\ queue' = Append(queue, [Command(s, "write") EXCEPT !.from = printed[s] - 1])
    /\ Writer(s, "idle")
    /\ UNCHANGED <<stateVars, printed, sizes, deleter, sentVars, actorVars, nodeVars>>

\* The byte budget or the queue is exhausted.
WriteOverflows(s) ==
    /\ writer[s] = "write"
    /\ ~CanReserve \/ ((~\E i \in DOMAIN queue : Extends(s, i)) /\ ~HasRoom)
    /\ Writer(s, "failing")
    /\ UNCHANGED <<stateVars, printed, sizes, deleter, sentVars, queue, actorVars, nodeVars>>

WriterFails(s) ==
    /\ writer[s] = "failing"
    /\ Fail(s)
    /\ Writer(s, "idle")
    /\ UNCHANGED <<printed, sizes, deleter, sentVars, queue, actorVars, nodeVars>>

\* VtSession::resize raises the revision first ...
ResizeBegin(s, g) ==
    /\ writer[s] = "idle" /\ Active(s) /\ deleter[s] # "gone"
    /\ Total([t \in Sessions |-> Len(sizes[t])]) < MaxResizes
    /\ sizes' = [sizes EXCEPT ![s] = Append(@, [at |-> printed[s], to |-> g])]
    /\ Writer(s, "resize")
    /\ UNCHANGED <<stateVars, printed, deleter, sentVars, queue, actorVars, nodeVars>>

\* ... then clears the snapshot of the old size ...
ResizeClears(s) ==
    /\ writer[s] = "resize" /\ ~Locked(s)
    /\ cache' = [cache EXCEPT ![s] = None]
    /\ Writer(s, "resized")
    /\ UNCHANGED <<status, uncleared, printed, sizes, deleter, sentVars, queue, actorVars, nodeVars>>

\* ... then queues the resize, whatever has become of the session.
ResizeQueues(s) ==
    /\ writer[s] = "resized" /\ HasRoom
    /\ queue' = Append(queue, Command(s, "resize"))
    /\ Writer(s, "idle")
    /\ UNCHANGED <<stateVars, printed, sizes, deleter, sentVars, actorVars, nodeVars>>

ResizeOverflows(s) ==
    /\ writer[s] = "resized" /\ ~HasRoom
    /\ Writer(s, "failing")
    /\ UNCHANGED <<stateVars, printed, sizes, deleter, sentVars, queue, actorVars, nodeVars>>

Deleter(s, d) == deleter' = [deleter EXCEPT ![s] = d]

\* VtSession::dispose of a session that is active, in the thread of DELETE.
Dispose(s) ==
    /\ deleter[s] = "idle" /\ Active(s)
    /\ status' = [status EXCEPT ![s] = "disposing"]
    /\ uncleared' = [uncleared EXCEPT ![s] = TRUE]
    /\ Deleter(s, "queue")
    /\ UNCHANGED <<cache, printed, sizes, writer, sentVars, queue, actorVars, nodeVars>>

DisposeSkips(s) ==
    /\ deleter[s] = "idle" /\ status[s] \notin {"none", "active"}
    /\ Deleter(s, "done")
    /\ UNCHANGED <<stateVars, printed, sizes, writer, sentVars, queue, actorVars, nodeVars>>

DisposeQueues(s) ==
    /\ deleter[s] = "queue" /\ HasRoom
    /\ queue' = Append(queue, Command(s, "dispose"))
    /\ Deleter(s, "done")
    /\ UNCHANGED <<stateVars, printed, sizes, writer, sentVars, actorVars, nodeVars>>

\* Mutant: a full queue only loses the command.
DisposeOverflowsSilently(s) ==
    /\ deleter[s] = "queue" /\ ~HasRoom
    /\ Deleter(s, "done")
    /\ UNCHANGED <<stateVars, printed, sizes, writer, sentVars, queue, actorVars, nodeVars>>

DisposeOverflows(s) ==
    /\ deleter[s] = "queue" /\ ~HasRoom
    /\ Fail(s)
    /\ Deleter(s, "done")
    /\ UNCHANGED <<printed, sizes, writer, sentVars, queue, actorVars, nodeVars>>

\* The last handle of the deleted runtime is dropped.
Forget(s) ==
    /\ deleter[s] = "done" /\ writer[s] = "idle"
    /\ Deleter(s, "gone")
    /\ UNCHANGED <<stateVars, printed, sizes, writer, sentVars, queue, actorVars, nodeVars>>

\* clear_snapshot of a thread that has failed or disposed the session.
Clear(s) ==
    /\ uncleared[s] /\ ~Locked(s)
    /\ cache' = [cache EXCEPT ![s] = None]
    /\ uncleared' = [uncleared EXCEPT ![s] = FALSE]
    /\ UNCHANGED <<status, clientVars, sentVars, queue, actorVars, nodeVars>>

-----------------------------------------------------------------------------
(* The actor: process_command *)

Takes(op) == actor = "idle" /\ queue # <<>> /\ Head(queue).op = op

Call(s, op, at) ==
    /\ pipe' = Append(pipe, [op |-> op, s |-> s, sizes |-> sentSizes[s],
                             from |-> sentOffset[s], upto |-> sentOffset[s]])
    /\ actor' = at /\ current' = s
    /\ UNCHANGED <<replies, node>>

\* Every command is followed by a cleanup pass over the sessions that still exist.
BeginCleanup(s) ==
    /\ actor' = "cleanup" /\ current' = s
    /\ todo' = {t \in live' : status'[t] = "failed" /\ (Held(t) \/ t = s)}

\* The session is tracked before the create, so that a failure still disposes it.
TakeCreate ==
    /\ Takes("create") /\ CanProcess(Head(queue).s)
    /\ queue' = Tail(queue)
    /\ live' = live \cup {Head(queue).s}
    /\ Call(Head(queue).s, "create", "creating")
    /\ UNCHANGED <<stateVars, clientVars, sentVars, scanned, todo>>

TakeDispose ==
    /\ Takes("dispose") /\ CanProcess(Head(queue).s)
    /\ queue' = Tail(queue)
    /\ Call(Head(queue).s, "dispose", "disposing")
    /\ UNCHANGED <<stateVars, clientVars, sentVars, live, scanned, todo>>

\* A session that has failed needs no commands any more.
SkipCommand ==
    /\ actor = "idle" /\ queue # <<>> /\ ~CanProcess(Head(queue).s)
    /\ queue' = Tail(queue)
    /\ live' = CASE Head(queue).op = "create" -> live \cup {Head(queue).s}
                 [] Head(queue).op = "dispose" -> live \ {Head(queue).s}
                 [] OTHER -> live
    /\ UNCHANGED <<stateVars, clientVars, sentVars, scanned, nodeVars>>
    /\ BeginCleanup(Head(queue).s)

\* validate_sent_revision and the check of the offset.
InOrder(c) ==
    /\ c.from = sentOffset[c.s]
    /\ IF c.op = "write" THEN c.sizes = sentSizes[c.s] ELSE Len(c.sizes) = Len(sentSizes[c.s]) + 1

\* Mutant: a resize does not make the session dirty.
TakeMutationQuietly ==
    /\ \E op \in {"write", "resize"} : Takes(op)
    /\ CanProcess(Head(queue).s) /\ InOrder(Head(queue))
    /\ queue' = Tail(queue)
    /\ pipe' = Append(pipe, Head(queue))
    /\ sentOffset' = [sentOffset EXCEPT ![Head(queue).s] = Head(queue).upto]
    /\ sentSizes' = [sentSizes EXCEPT ![Head(queue).s] = Head(queue).sizes]
    /\ dirty' = [dirty EXCEPT ![Head(queue).s] = @ \/ Head(queue).op = "write"]
    /\ UNCHANGED <<stateVars, clientVars, live, scanned, replies, node>>
    /\ BeginCleanup(Head(queue).s)

\* A batch or a resize goes into the pipe; nothing is awaited.
TakeMutation ==
    /\ \E op \in {"write", "resize"} : Takes(op)
    /\ CanProcess(Head(queue).s) /\ InOrder(Head(queue))
    /\ queue' = Tail(queue)
    /\ pipe' = Append(pipe, Head(queue))
    /\ sentOffset' = [sentOffset EXCEPT ![Head(queue).s] = Head(queue).upto]
    /\ sentSizes' = [sentSizes EXCEPT ![Head(queue).s] = Head(queue).sizes]
    /\ dirty' = [dirty EXCEPT ![Head(queue).s] = TRUE]
    /\ UNCHANGED <<stateVars, clientVars, live, scanned, replies, node>>
    /\ BeginCleanup(Head(queue).s)

\* The reply to the RPC the actor awaits.
Replied(ok) == replies # <<>> /\ Head(replies).op \notin {"write", "resize"} /\ Head(replies).ok = ok

Created ==
    /\ actor = "creating" /\ Replied(TRUE)
    /\ replies' = Tail(replies)
    /\ dirty' = [dirty EXCEPT ![current] = TRUE]
    /\ UNCHANGED <<stateVars, clientVars, sentOffset, sentSizes, queue, live, scanned, pipe, node>>
    /\ BeginCleanup(current)

Disposed ==
    /\ actor = "disposing" /\ Replied(TRUE)
    /\ replies' = Tail(replies)
    /\ status' = [status EXCEPT ![current] = "disposed"]
    /\ uncleared' = [uncleared EXCEPT ![current] = TRUE]
    /\ live' = live \ {current}
    /\ UNCHANGED <<cache, clientVars, sentVars, queue, scanned, pipe, node>>
    /\ BeginCleanup(current)

\* handle_command_error: the session falls back to raw replay.
CommandRejected ==
    /\ actor \in {"creating", "disposing"} /\ Replied(FALSE)
    /\ replies' = Tail(replies)
    /\ Fail(current)
    /\ UNCHANGED <<clientVars, sentVars, queue, live, scanned, pipe, node>>
    /\ BeginCleanup(current)

-----------------------------------------------------------------------------
(* cleanup_failed_sessions *)

CleanupNext(s) ==
    /\ actor = "cleanup" /\ s \in todo
    /\ Call(s, "dispose", "cleaning")
    /\ UNCHANGED <<stateVars, clientVars, sentVars, queue, live, scanned, todo>>

\* That Node did not know the session any more is all right.
CleanedUp ==
    /\ actor = "cleaning" /\ (Replied(TRUE) \/ Replied(FALSE))
    /\ replies' = Tail(replies)
    /\ live' = live \ {current} /\ todo' = todo \ {current}
    /\ actor' = "cleanup" /\ current' = None
    /\ UNCHANGED <<stateVars, clientVars, sentVars, queue, scanned, pipe, node>>

CleanupDone ==
    /\ actor = "cleanup" /\ todo = {}
    /\ actor' = "idle" /\ current' = None
    /\ UNCHANGED <<stateVars, clientVars, sentVars, queue, live, scanned, todo, nodeVars>>

-----------------------------------------------------------------------------
(* snapshot_dirty_sessions *)

Eligible(s) == s \in live /\ Held(s) /\ Active(s) /\ dirty[s]

\* The timer starts a pass, which goes round the sessions, and the pass goes on
\* unless its budget is spent.
Snapshot(s) ==
    /\ \/ actor = "idle" /\ scanned' = {s}
       \/ actor = "scanning" /\ s \notin scanned /\ scanned' = scanned \cup {s}
    /\ Eligible(s)
    /\ Call(s, "snapshot", "snapshot")
    /\ UNCHANGED <<stateVars, clientVars, sentVars, queue, live, todo>>

Geometry(szs) == IF szs = <<>> THEN None ELSE szs[Len(szs)].to

\* validate_exact_offset and the check of the geometry.
Confirmed(r) == r.offset = sentOffset[current] /\ Geometry(r.sizes) = Geometry(sentSizes[current])

\* Mutant: a resize queued but not sent yet is overlooked.
StorableAnySize == Active(current)

\* Mutant: the status is not looked at again.
StorableAnyStatus == sizes[current] = sentSizes[current]

\* store_snapshot: what it looks at last, under the snapshot lock.
Storable == Active(current) /\ sizes[current] = sentSizes[current]

CachedSnapshots == {s \in Sessions : cache[s] # None}

\* The reply is good, but the session may have changed in the meantime.
SnapshotReplied ==
    /\ actor = "snapshot" /\ Replied(TRUE) /\ Confirmed(Head(replies))
    /\ dirty' = [dirty EXCEPT ![current] = FALSE]
    /\ \/ Storable /\ actor' = "storing" /\ UNCHANGED <<current, replies>>
       \/ ~Storable /\ actor' = "scanning" /\ current' = None /\ replies' = Tail(replies)
    /\ UNCHANGED <<stateVars, clientVars, sentOffset, sentSizes, queue, live, scanned, todo, pipe, node>>

\* Without room in the budget the old snapshot stays.
SnapshotStored ==
    /\ actor = "storing"
    /\ replies' = Tail(replies)
    /\ cache' = [cache EXCEPT ![current] =
                   IF @ # None \/ Cardinality(CachedSnapshots) < MaxCached
                   THEN [offset |-> Head(replies).offset, sizes |-> Head(replies).sizes] ELSE @]
    /\ actor' = "scanning" /\ current' = None
    /\ UNCHANGED <<status, uncleared, clientVars, sentVars, queue, live, scanned, todo, pipe, node>>

SnapshotRejected ==
    /\ actor = "snapshot"
    /\ Replied(FALSE) \/ (Replied(TRUE) /\ ~Confirmed(Head(replies)))
    /\ replies' = Tail(replies)
    /\ Fail(current)
    /\ actor' = "scanning" /\ current' = None
    /\ UNCHANGED <<clientVars, sentVars, queue, live, scanned, todo, pipe, node>>

\* A pass of the timer ends, also one that found nothing dirty.
SnapshotPassDone ==
    /\ actor \in {"idle", "scanning"}
    /\ UNCHANGED <<stateVars, clientVars, sentVars, queue, live, scanned, nodeVars>>
    /\ BeginCleanup(None)

-----------------------------------------------------------------------------
(* The reader task, and the end of the actor *)

\* mutation_error: the registered session fails at once.
MutationError ==
    /\ actor # "stopped" /\ replies # <<>> /\ Head(replies).op \in {"write", "resize"}
    /\ replies' = Tail(replies)
    /\ FailAll({s \in Sessions : s = Head(replies).s /\ Held(s)})
    /\ UNCHANGED <<clientVars, sentVars, queue, actorVars, pipe, node>>

\* Mutant: only the sessions the actor tracks fall back, not those in the queue.
StopKeepsQueued ==
    /\ "stop" \in Faults /\ actor \notin {"storing", "stopped"}
    /\ actor' = "stopped" /\ current' = None
    /\ FailAll({s \in Sessions : s \in live /\ Held(s)})
    /\ queue' = <<>> /\ pipe' = <<>> /\ replies' = <<>>
    /\ node' = Each(None)
    /\ UNCHANGED <<clientVars, sentVars, live, scanned, todo>>

\* Shutdown, or the process died, an RPC timed out or broke the protocol.
Stop ==
    /\ "stop" \in Faults /\ actor \notin {"storing", "stopped"}
    /\ actor' = "stopped" /\ current' = None
    /\ FailAll({s \in Sessions : Queued(s) \/ (s \in live /\ Held(s))})
    /\ queue' = <<>> /\ pipe' = <<>> /\ replies' = <<>>
    /\ node' = Each(None)
    /\ UNCHANGED <<clientVars, sentVars, live, scanned, todo>>

-----------------------------------------------------------------------------
(* Node: VtService executes one frame after the other *)

Frame == Head(pipe)
Known == node[Frame.s] # None

Reply(ok, at) ==
    replies' = Append(replies, [op |-> Frame.op, s |-> Frame.s, ok |-> ok,
                                offset |-> at.offset, sizes |-> at.sizes])

Nothing == [offset |-> 0, sizes |-> <<>>]

\* What a handler throws for.
Refused ==
    \/ Frame.op = "create" /\ Cardinality({s \in Sessions : node[s] # None}) >= MaxNode
    \/ Frame.op # "create" /\ ~Known
    \/ Frame.op \in {"write", "resize"} /\ Known /\ Frame.from # node[Frame.s].offset

\* A screen, alone or with all others, or a snapshot over its limit is refused as well.
NodeRefuses ==
    /\ pipe # <<>>
    /\ Refused \/ ("reject" \in Faults /\ Frame.op \in {"create", "resize", "snapshot"})
    /\ pipe' = Tail(pipe)
    /\ Reply(FALSE, Nothing)
    /\ UNCHANGED <<stateVars, clientVars, sentVars, queue, actorVars, node>>

NodeCreate ==
    /\ pipe # <<>> /\ Frame.op = "create" /\ ~Refused
    /\ pipe' = Tail(pipe)
    /\ node' = [node EXCEPT ![Frame.s] = Nothing]
    /\ Reply(TRUE, Nothing)
    /\ UNCHANGED <<stateVars, clientVars, sentVars, queue, actorVars>>

\* Mutations have no reply when they succeed.
NodeWrite ==
    /\ pipe # <<>> /\ Frame.op = "write" /\ ~Refused
    /\ pipe' = Tail(pipe)
    /\ node' = [node EXCEPT ![Frame.s].offset = Frame.upto]
    /\ UNCHANGED <<stateVars, clientVars, sentVars, queue, actorVars, replies>>

NodeResize ==
    /\ pipe # <<>> /\ Frame.op = "resize" /\ ~Refused
    /\ pipe' = Tail(pipe)
    /\ node' = [node EXCEPT ![Frame.s].sizes = Append(@, Frame.sizes[Len(Frame.sizes)])]
    /\ UNCHANGED <<stateVars, clientVars, sentVars, queue, actorVars, replies>>

NodeSnapshot ==
    /\ pipe # <<>> /\ Frame.op = "snapshot" /\ ~Refused
    /\ pipe' = Tail(pipe)
    /\ Reply(TRUE, node[Frame.s])
    /\ UNCHANGED <<stateVars, clientVars, sentVars, queue, actorVars, node>>

NodeDispose ==
    /\ pipe # <<>> /\ Frame.op = "dispose" /\ ~Refused
    /\ pipe' = Tail(pipe)
    /\ Reply(TRUE, node[Frame.s])
    /\ node' = [node EXCEPT ![Frame.s] = None]
    /\ UNCHANGED <<stateVars, clientVars, sentVars, queue, actorVars>>

-----------------------------------------------------------------------------
(* Next and fairness *)

WriterRuns(s) ==
    \/ WriteSkips(s) \/ (\E i \in DOMAIN queue : WriteAppends(s, i)) \/ WriteQueues(s)
    \/ WriteOverflows(s) \/ WriterFails(s)
    \/ ResizeClears(s) \/ ResizeQueues(s) \/ ResizeOverflows(s)

DeleterRuns(s) == DisposeQueues(s) \/ DisposeOverflows(s)

ActorTakes == TakeCreate \/ TakeDispose \/ SkipCommand \/ TakeMutation

ActorGoesOn ==
    \/ Created \/ Disposed \/ CommandRejected
    \/ (\E s \in Sessions : CleanupNext(s)) \/ CleanedUp \/ CleanupDone
    \/ SnapshotReplied \/ SnapshotStored \/ SnapshotRejected \/ SnapshotPassDone

Node == NodeRefuses \/ NodeCreate \/ NodeWrite \/ NodeResize \/ NodeSnapshot \/ NodeDispose

Next ==
    \/ \E s \in Sessions :
          \/ Create(s) \/ CreateFails(s) \/ WriteBegin(s) \/ \E g \in Geometries : ResizeBegin(s, g)
          \/ Dispose(s) \/ DisposeSkips(s) \/ Forget(s)
          \/ WriterRuns(s) \/ DeleterRuns(s) \/ Clear(s) \/ Snapshot(s)
    \/ ActorTakes \/ ActorGoesOn \/ MutationError \/ Stop \/ Node

\* No thread stops between two lines, Node executes its frames and its answers are
\* read.  The timer gives commands an interval in which to drain, and is not
\* starved by them; a pass begins where the last one ended.
Fairness ==
    /\ \A s \in Sessions : WF_vars(WriterRuns(s)) /\ WF_vars(DeleterRuns(s)) /\ WF_vars(Clear(s))
    /\ \A s \in Sessions : SF_vars(Snapshot(s))
    /\ SF_vars(ActorTakes) /\ WF_vars(ActorGoesOn) /\ WF_vars(MutationError) /\ WF_vars(Node)

Spec == Init /\ [][Next]_vars
FairSpec == Spec /\ Fairness

-----------------------------------------------------------------------------
(* Properties *)

Sizes == [at : Nat, to : Geometries]
Applied == [offset : Nat, sizes : Seq(Sizes)]
Frames(ops) == [op : ops, s : Sessions, sizes : Seq(Sizes), from : Nat, upto : Nat]
Mutations == {"write", "resize"}
Requests == {"create", "snapshot", "dispose"}
Replies == [op : Mutations \cup Requests, s : Sessions, ok : BOOLEAN, offset : Nat, sizes : Seq(Sizes)]

SessionType ==
    /\ status \in [Sessions -> {"none", "active", "disposing", "disposed", "failed"}]
    /\ cache \in [Sessions -> Applied \cup {None}] /\ uncleared \in [Sessions -> BOOLEAN]

ThreadType ==
    /\ printed \in [Sessions -> Nat] /\ sizes \in [Sessions -> Seq(Sizes)]
    /\ writer \in [Sessions -> {"idle", "write", "resize", "resized", "failing"}]
    /\ deleter \in [Sessions -> {"idle", "queue", "done", "gone"}]

ActorType ==
    /\ sentOffset \in [Sessions -> Nat] /\ sentSizes \in [Sessions -> Seq(Sizes)]
    /\ dirty \in [Sessions -> BOOLEAN]
    /\ queue \in Seq(Frames(Mutations \cup {"create", "dispose"}))
    /\ actor \in {"idle", "creating", "disposing", "cleanup", "cleaning", "scanning", "snapshot",
                   "storing", "stopped"}
    /\ current \in Sessions \cup {None}
    /\ live \subseteq Sessions /\ scanned \subseteq Sessions /\ todo \subseteq Sessions

NodeType ==
    /\ pipe \in Seq(Frames(Mutations \cup Requests))
    /\ replies \in Seq(Replies)
    /\ node \in [Sessions -> Applied \cup {None}]

TypeOK == SessionType /\ ThreadType /\ ActorType /\ NodeType

\* What all sessions share stays within its limits, whoever uses it: the queue, the
\* output pending in it and the cached snapshots.
BudgetsHold ==
    /\ Len(queue) <= QueueCapacity
    /\ Cardinality(PendingUnits) <= MaxPending
    /\ Cardinality(CachedSnapshots) <= MaxCached

\* A client that claims a terminal, holding its output lock, is served a snapshot
\* that stands for exactly the first `offset` units printed and for every resize so
\* far, each at its place: never one of another size, never one that counts output
\* Node has not applied.
ServedIsExact ==
    \A s \in Sessions : writer[s] = "idle" /\ Active(s) /\ cache[s] # None =>
        /\ cache[s].sizes = sizes[s]
        /\ cache[s].offset <= printed[s]
        /\ \A i \in DOMAIN sizes[s] : sizes[s][i].at <= cache[s].offset

\* Nothing is cached for a session that has failed or is being disposed once the
\* thread that ended it has cleared it: a snapshot in flight does not come back.
DeadHoldsNoCache ==
    \A s \in Sessions : ~Active(s) /\ ~uncleared[s] => cache[s] = None

\* process_command's order checks never reject what a working session queued:
\* batching keeps offsets contiguous and resizes at their place.
AcceptedInOrder ==
    queue # <<>> /\ Head(queue).op \in {"write", "resize"} /\ CanProcess(Head(queue).s)
        => InOrder(Head(queue))

\* When the worker has stopped every terminal has fallen back to raw replay.
StoppedMeansRaw == actor = "stopped" => \A s \in Sessions : ~Active(s)

\* A terminal that keeps its session and falls silent gets a snapshot of all its
\* output, in its last size.
SnapshotCatchesUp ==
    \A s \in Sessions :
        <>[]Active(s) => <>[](cache[s] = [offset |-> printed[s], sizes |-> sizes[s]])

\* A session that is being disposed is not held by Node for ever, unless it failed.
DisposeEnds ==
    \A s \in Sessions : status[s] = "disposing" ~> node[s] = None \/ status[s] = "failed"

\* The actor tracks a session so that "the cleanup pass must still dispose the Node
\* session" (actor.rs:103-105): Node holds no session the actor has forgotten.
NodeSessionsAreTracked == \A s \in Sessions : node[s] # None => s \in live

=============================================================================
