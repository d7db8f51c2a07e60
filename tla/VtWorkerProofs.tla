---------------------------- MODULE VtWorkerProofs ----------------------------
(* Proofs about VtWorker, for any set of sessions and any limits. *)
EXTENDS VtWorker, FiniteSetTheorems, SequenceTheorems, TLAPS

-----------------------------------------------------------------------------
(* The inductive invariant *)

\* A resize, queued or sent, says what to resize to, and a write has something to write;
\* the actor stores the snapshot that
\* is at the head of Node's answers.
WriterSized ==
    \A s \in Sessions :
        /\ writer[s] \in {"resize", "resized"} => sizes[s] # <<>>
        /\ writer[s] = "write" => printed[s] # 0

SizeInv ==
    /\ WriterSized
    /\ \A i \in DOMAIN queue : queue[i].op = "resize" => queue[i].sizes # <<>>
    /\ \A i \in DOMAIN pipe : pipe[i].op = "resize" => pipe[i].sizes # <<>>

StoreInv == actor = "storing" => replies # <<>> /\ Head(replies).op \notin Mutations

CurrentInv ==
    actor \in {"creating", "disposing", "cleaning", "snapshot", "storing"} => current \in Sessions

\* The actor only stores a snapshot of a session that works, or whose snapshot somebody
\* has yet to clear.
CacheInv ==
    /\ DeadHoldsNoCache
    /\ actor = "storing" => Active(current) \/ uncleared[current]

\* A session that was not created yet, or works, has its handle.
HandleInv == \A s \in Sessions : status[s] \in {"none", "active"} => deleter[s] = "idle"

\* Those that are cleaned up have ended.
EndedInv ==
    /\ \A s \in todo : status[s] \in {"failed", "disposed"}
    /\ actor = "cleaning" => status[current] \in {"failed", "disposed"}

\* A session that works is one the actor knows or will hear of.
CreateQueued(s) == \E i \in DOMAIN queue : queue[i].s = s /\ queue[i].op = "create"
TrackedInv ==
    /\ StoppedMeansRaw
    /\ \A s \in Sessions : Active(s) => s \in live \/ CreateQueued(s)

CachedInv == IsFiniteSet(CachedSnapshots) /\ Cardinality(CachedSnapshots) <= MaxCached
PendingInv == IsFiniteSet(PendingUnits) /\ Cardinality(PendingUnits) <= MaxPending
BudgetInv == CachedInv /\ PendingInv /\ Len(queue) <= QueueCapacity

IInv ==
    /\ TypeOK /\ SizeInv /\ StoreInv /\ CurrentInv /\ CacheInv
    /\ HandleInv /\ EndedInv /\ TrackedInv /\ BudgetInv

-----------------------------------------------------------------------------
(* Queues *)

LEMMA TailKeeps ==
    ASSUME NEW S, NEW q \in Seq(S), q # <<>>
    PROVE  /\ Head(q) \in S /\ Head(q) = q[1] /\ 1 \in 1..Len(q) /\ Tail(q) \in Seq(S)
           /\ Len(q) \in Nat /\ Len(Tail(q)) = Len(q) - 1
           /\ \A i \in 1..Len(Tail(q)) : Tail(q)[i] = q[i + 1] /\ i + 1 \in 1..Len(q)
           /\ \A i \in 1..Len(q) : i # 1 => i - 1 \in 1..Len(Tail(q)) /\ Tail(q)[i - 1] = q[i]
  <1>1. Len(q) \in Nat \ {0}
    BY EmptySeq
  <1>2. Head(q) = q[1]
    OBVIOUS
  <1>3. QED
    BY <1>1, <1>2, HeadTailProperties

LEMMA AppendKeeps ==
    ASSUME NEW S, NEW q \in Seq(S), NEW x \in S
    PROVE  /\ Append(q, x) \in Seq(S) /\ Append(q, x) # <<>> /\ Len(q) \in Nat
           /\ Len(Append(q, x)) = Len(q) + 1
           /\ \A i \in 1..Len(q) : Append(q, x)[i] = q[i] /\ i \in 1..Len(Append(q, x))
           /\ Append(q, x)[Len(q) + 1] = x /\ Len(q) + 1 \in 1..Len(Append(q, x))
           /\ q # <<>> => Head(Append(q, x)) = Head(q)
  <1>1. /\ Append(q, x) \in Seq(S) /\ Append(q, x) # <<>> /\ Len(q) \in Nat
        /\ Len(Append(q, x)) = Len(q) + 1
        /\ \A i \in 1..Len(q) : Append(q, x)[i] = q[i]
        /\ Append(q, x)[Len(q) + 1] = x
    BY AppendProperties, LenProperties
  <1>2. ASSUME q # <<>> PROVE Head(Append(q, x)) = Head(q)
    <2>1. 1 \in 1..Len(q)
      BY <1>2, EmptySeq
    <2>2. Head(q) = q[1] /\ Head(Append(q, x)) = Append(q, x)[1]
      BY <1>1
    <2>3. QED
      BY <1>1, <2>1, <2>2
  <1>3. QED
    BY <1>1, <1>2

\* What steps do to the three queues.
QFrames == Frames(Mutations \cup {"create", "dispose"})
PFrames == Frames(Mutations \cup Requests)
Sized(f) == f.op = "resize" => f.sizes # <<>>

\* A command brings no output, and a new batch one unit for which there is room.
Room(f) ==
    /\ Sized(f) /\ Len(queue) < QueueCapacity
    /\ f.from = f.upto \/ (f.from + 1 = f.upto /\ CanReserve)

QueueMoves ==
    \/ queue' = queue
    \/ \E f \in QFrames : queue' = Append(queue, f) /\ Room(f)
    \/ CanReserve /\ \E i \in DOMAIN queue : queue' = [queue EXCEPT ![i].upto = @ + 1]
    \/ queue # <<>> /\ queue' = Tail(queue)
    \/ queue' = <<>>

PipeMoves ==
    \/ pipe' = pipe
    \/ \E f \in PFrames : pipe' = Append(pipe, f) /\ Sized(f)
    \/ pipe # <<>> /\ pipe' = Tail(pipe)
    \/ pipe' = <<>>

ReplyMoves ==
    \/ replies' = replies
    \/ \E f \in Replies : replies' = Append(replies, f)
    \/ replies # <<>> /\ replies' = Tail(replies) /\ actor' # "storing"
    \/ replies' = <<>> /\ actor' # "storing"


-----------------------------------------------------------------------------
(* Type correctness *)

LEMMA InitType == Init => TypeOK
  BY VtAssumption
  DEF Init, Each, TypeOK, SessionType, ThreadType, ActorType, NodeType

\* An element of a queue, and the parts of it that are assigned.
LEMMA HeadOfQueue ==
    ASSUME TypeOK, queue # <<>>
    PROVE  Head(queue) \in QFrames /\ 1 \in DOMAIN queue /\ Head(queue) = queue[1]
  BY TailKeeps, LenProperties DEF TypeOK, ActorType, QFrames

LEMMA HeadOfPipe ==
    ASSUME TypeOK, pipe # <<>>
    PROVE  Frame \in PFrames /\ 1 \in DOMAIN pipe /\ Frame = pipe[1]
  BY TailKeeps, LenProperties DEF TypeOK, NodeType, PFrames, Frame

LEMMA NothingApplied == Nothing \in Applied
  BY EmptySeq DEF Nothing, Applied

\* What is not refused is for a session that Node knows.
LEMMA NodeKnown ==
    ASSUME TypeOK, pipe # <<>>, ~Refused, Frame.op # "create"
    PROVE  node[Frame.s] \in Applied
  BY HeadOfPipe DEF Refused, Known, PFrames, Frames, TypeOK, NodeType

LEMMA HeadOfReplies ==
    ASSUME TypeOK, replies # <<>>
    PROVE  Head(replies) \in Replies
  BY TailKeeps DEF TypeOK, NodeType

\* A new batch begins with the unit just printed.
LEMMA NewBatch ==
    ASSUME TypeOK, SizeInv, NEW s \in Sessions, WriteQueues(s)
    PROVE  LET f == [Command(s, "write") EXCEPT !.from = printed[s] - 1]
           IN f \in QFrames /\ Sized(f) /\ f.from + 1 = f.upto
  <1>1. printed[s] - 1 \in Nat
    BY DEF WriteQueues, TypeOK, ThreadType, SizeInv, WriterSized
  <1>2. printed[s] \in Nat /\ (printed[s] - 1) + 1 = printed[s]
    BY DEF TypeOK, ThreadType
  <1>3. QED
    BY <1>1, <1>2 DEF Command, QFrames, Frames, TypeOK, ThreadType, Mutations, Sized

\* Any other command has no output.
LEMMA NewCommand ==
    ASSUME TypeOK, NEW s \in Sessions, NEW op \in {"create", "resize", "dispose"},
           op = "resize" => sizes[s] # <<>>
    PROVE  Command(s, op) \in QFrames /\ Sized(Command(s, op)) /\ Command(s, op).from = Command(s, op).upto
  BY DEF Command, QFrames, Frames, TypeOK, ThreadType, Mutations, Sized

\* Nothing but commands goes into the queue, and only while it has room.
LEMMA QueueStep == TypeOK /\ SizeInv /\ [Next]_vars => QueueMoves
  <1> SUFFICES ASSUME TypeOK, SizeInv, [Next]_vars PROVE QueueMoves
    OBVIOUS
  <1>1. ASSUME NEW s \in Sessions, Create(s) PROVE QueueMoves
    BY <1>1, NewCommand DEF Create, HasRoom, Room, QueueMoves
  <1>2. ASSUME NEW s \in Sessions, CreateFails(s) PROVE QueueMoves
    BY <1>2
    DEF clientVars, sentVars, actorVars, nodeVars, FailAll, Fail, CreateFails, QueueMoves
  <1>3. ASSUME NEW s \in Sessions, WriteBegin(s) PROVE QueueMoves
    BY <1>3
    DEF stateVars, sentVars, actorVars, nodeVars, Writer, WriteBegin, QueueMoves
  <1>4. ASSUME NEW s \in Sessions, NEW g \in Geometries, ResizeBegin(s, g) PROVE QueueMoves
    BY <1>4
    DEF stateVars, sentVars, actorVars, nodeVars, Writer, ResizeBegin, QueueMoves
  <1>5. ASSUME NEW s \in Sessions, Dispose(s) PROVE QueueMoves
    BY <1>5
    DEF sentVars, actorVars, nodeVars, Deleter, Dispose, QueueMoves
  <1>6. ASSUME NEW s \in Sessions, DisposeSkips(s) PROVE QueueMoves
    BY <1>6
    DEF stateVars, sentVars, actorVars, nodeVars, Deleter, DisposeSkips, QueueMoves
  <1>7. ASSUME NEW s \in Sessions, Forget(s) PROVE QueueMoves
    BY <1>7
    DEF stateVars, sentVars, actorVars, nodeVars, Deleter, Forget, QueueMoves
  <1>8. ASSUME NEW s \in Sessions, WriteSkips(s) PROVE QueueMoves
    BY <1>8
    DEF stateVars, sentVars, actorVars, nodeVars, Writer, WriteSkips, QueueMoves
  <1>9. ASSUME NEW s \in Sessions, NEW i \in DOMAIN queue, WriteAppends(s, i) PROVE QueueMoves
    BY <1>9
    DEF stateVars, sentVars, actorVars, nodeVars, Writer, WriteAppends, QueueMoves
  <1>10. ASSUME NEW s \in Sessions, WriteQueues(s) PROVE QueueMoves
    BY <1>10, NewBatch DEF WriteQueues, QueueMoves, Room, HasRoom
  <1>11. ASSUME NEW s \in Sessions, WriteOverflows(s) PROVE QueueMoves
    BY <1>11
    DEF stateVars, sentVars, actorVars, nodeVars, Writer, WriteOverflows, QueueMoves
  <1>12. ASSUME NEW s \in Sessions, WriterFails(s) PROVE QueueMoves
    BY <1>12
    DEF sentVars, actorVars, nodeVars, FailAll, Fail, Writer, WriterFails, QueueMoves
  <1>13. ASSUME NEW s \in Sessions, ResizeClears(s) PROVE QueueMoves
    BY <1>13
    DEF sentVars, actorVars, nodeVars, Writer, ResizeClears, QueueMoves
  <1>14. ASSUME NEW s \in Sessions, ResizeQueues(s) PROVE QueueMoves
    BY <1>14, NewCommand DEF ResizeQueues, HasRoom, WriterSized, SizeInv, Room, QueueMoves
  <1>15. ASSUME NEW s \in Sessions, ResizeOverflows(s) PROVE QueueMoves
    BY <1>15
    DEF stateVars, sentVars, actorVars, nodeVars, Writer, ResizeOverflows, QueueMoves
  <1>16. ASSUME NEW s \in Sessions, DisposeQueues(s) PROVE QueueMoves
    BY <1>16, NewCommand DEF DisposeQueues, HasRoom, Room, QueueMoves
  <1>17. ASSUME NEW s \in Sessions, DisposeOverflows(s) PROVE QueueMoves
    BY <1>17
    DEF sentVars, actorVars, nodeVars, FailAll, Fail, Deleter, DisposeOverflows, QueueMoves
  <1>18. ASSUME NEW s \in Sessions, Clear(s) PROVE QueueMoves
    BY <1>18
    DEF clientVars, sentVars, actorVars, nodeVars, Clear, QueueMoves
  <1>19. ASSUME NEW s \in Sessions, Snapshot(s) PROVE QueueMoves
    BY <1>19
    DEF stateVars, clientVars, sentVars, Call, Snapshot, QueueMoves
  <1>20. ASSUME NEW s \in Sessions, CleanupNext(s) PROVE QueueMoves
    BY <1>20
    DEF stateVars, clientVars, sentVars, Call, CleanupNext, QueueMoves
  <1>21. ASSUME TakeCreate PROVE QueueMoves
    BY <1>21
    DEF stateVars, clientVars, sentVars, Call, TakeCreate, QueueMoves
  <1>22. ASSUME TakeDispose PROVE QueueMoves
    BY <1>22
    DEF stateVars, clientVars, sentVars, Call, TakeDispose, QueueMoves
  <1>23. ASSUME SkipCommand PROVE QueueMoves
    BY <1>23
    DEF stateVars, clientVars, sentVars, nodeVars, BeginCleanup, SkipCommand, QueueMoves
  <1>24. ASSUME TakeMutation PROVE QueueMoves
    BY <1>24
    DEF stateVars, clientVars, BeginCleanup, TakeMutation, QueueMoves
  <1>25. ASSUME Created PROVE QueueMoves
    BY <1>25
    DEF stateVars, clientVars, BeginCleanup, Created, QueueMoves
  <1>26. ASSUME Disposed PROVE QueueMoves
    BY <1>26
    DEF clientVars, sentVars, BeginCleanup, Disposed, QueueMoves
  <1>27. ASSUME CommandRejected PROVE QueueMoves
    BY <1>27
    DEF clientVars, sentVars, FailAll, Fail, BeginCleanup, CommandRejected, QueueMoves
  <1>28. ASSUME CleanedUp PROVE QueueMoves
    BY <1>28
    DEF stateVars, clientVars, sentVars, CleanedUp, QueueMoves
  <1>29. ASSUME CleanupDone PROVE QueueMoves
    BY <1>29
    DEF stateVars, clientVars, sentVars, nodeVars, CleanupDone, QueueMoves
  <1>30. ASSUME SnapshotReplied PROVE QueueMoves
    BY <1>30
    DEF stateVars, clientVars, SnapshotReplied, QueueMoves
  <1>31. ASSUME SnapshotStored PROVE QueueMoves
    BY <1>31
    DEF clientVars, sentVars, SnapshotStored, QueueMoves
  <1>32. ASSUME SnapshotRejected PROVE QueueMoves
    BY <1>32
    DEF clientVars, sentVars, FailAll, Fail, SnapshotRejected, QueueMoves
  <1>33. ASSUME SnapshotPassDone PROVE QueueMoves
    BY <1>33
    DEF stateVars, clientVars, sentVars, nodeVars, BeginCleanup, SnapshotPassDone,
        QueueMoves
  <1>34. ASSUME MutationError PROVE QueueMoves
    BY <1>34
    DEF clientVars, sentVars, actorVars, FailAll, MutationError, QueueMoves
  <1>35. ASSUME Stop PROVE QueueMoves
    BY <1>35
    DEF clientVars, sentVars, FailAll, Stop, QueueMoves
  <1>36. ASSUME NodeRefuses PROVE QueueMoves
    BY <1>36
    DEF stateVars, clientVars, sentVars, actorVars, Reply, NodeRefuses, QueueMoves
  <1>37. ASSUME NodeCreate PROVE QueueMoves
    BY <1>37
    DEF stateVars, clientVars, sentVars, actorVars, Reply, NodeCreate, QueueMoves
  <1>38. ASSUME NodeWrite PROVE QueueMoves
    BY <1>38
    DEF stateVars, clientVars, sentVars, actorVars, NodeWrite, QueueMoves
  <1>39. ASSUME NodeResize PROVE QueueMoves
    BY <1>39
    DEF stateVars, clientVars, sentVars, actorVars, NodeResize, QueueMoves
  <1>40. ASSUME NodeSnapshot PROVE QueueMoves
    BY <1>40
    DEF stateVars, clientVars, sentVars, actorVars, Reply, NodeSnapshot, QueueMoves
  <1>41. ASSUME NodeDispose PROVE QueueMoves
    BY <1>41
    DEF stateVars, clientVars, sentVars, actorVars, Reply, NodeDispose, QueueMoves
  <1>42. CASE UNCHANGED vars
    BY <1>42
    DEF stateVars, clientVars, sentVars, actorVars, nodeVars, vars, QueueMoves
  <1>43. QED
    BY <1>1, <1>2, <1>3, <1>4, <1>5, <1>6, <1>7, <1>8, <1>9, <1>10, <1>11, <1>12, <1>13,
       <1>14, <1>15, <1>16, <1>17, <1>18, <1>19, <1>20, <1>21, <1>22, <1>23, <1>24, <1>25,
       <1>26, <1>27, <1>28, <1>29, <1>30, <1>31, <1>32, <1>33, <1>34, <1>35, <1>36, <1>37,
       <1>38, <1>39, <1>40, <1>41, <1>42
    DEF Next, WriterRuns, DeleterRuns, ActorTakes, ActorGoesOn, Node

\* The pipe to Node.
LEMMA PipeStep == TypeOK /\ SizeInv /\ [Next]_vars => PipeMoves
  <1> SUFFICES ASSUME TypeOK, SizeInv, [Next]_vars PROVE PipeMoves
    OBVIOUS
  <1>1. ASSUME NEW s \in Sessions, Create(s) PROVE PipeMoves
    BY <1>1
    DEF clientVars, sentVars, actorVars, nodeVars, Create, PipeMoves
  <1>2. ASSUME NEW s \in Sessions, CreateFails(s) PROVE PipeMoves
    BY <1>2
    DEF clientVars, sentVars, actorVars, nodeVars, FailAll, Fail, CreateFails, PipeMoves
  <1>3. ASSUME NEW s \in Sessions, WriteBegin(s) PROVE PipeMoves
    BY <1>3
    DEF stateVars, sentVars, actorVars, nodeVars, Writer, WriteBegin, PipeMoves
  <1>4. ASSUME NEW s \in Sessions, NEW g \in Geometries, ResizeBegin(s, g) PROVE PipeMoves
    BY <1>4
    DEF stateVars, sentVars, actorVars, nodeVars, Writer, ResizeBegin, PipeMoves
  <1>5. ASSUME NEW s \in Sessions, Dispose(s) PROVE PipeMoves
    BY <1>5
    DEF sentVars, actorVars, nodeVars, Deleter, Dispose, PipeMoves
  <1>6. ASSUME NEW s \in Sessions, DisposeSkips(s) PROVE PipeMoves
    BY <1>6
    DEF stateVars, sentVars, actorVars, nodeVars, Deleter, DisposeSkips, PipeMoves
  <1>7. ASSUME NEW s \in Sessions, Forget(s) PROVE PipeMoves
    BY <1>7
    DEF stateVars, sentVars, actorVars, nodeVars, Deleter, Forget, PipeMoves
  <1>8. ASSUME NEW s \in Sessions, WriteSkips(s) PROVE PipeMoves
    BY <1>8
    DEF stateVars, sentVars, actorVars, nodeVars, Writer, WriteSkips, PipeMoves
  <1>9. ASSUME NEW s \in Sessions, NEW i \in DOMAIN queue, WriteAppends(s, i) PROVE PipeMoves
    BY <1>9
    DEF stateVars, sentVars, actorVars, nodeVars, Writer, WriteAppends, PipeMoves
  <1>10. ASSUME NEW s \in Sessions, WriteQueues(s) PROVE PipeMoves
    BY <1>10
    DEF stateVars, sentVars, actorVars, nodeVars, Writer, WriteQueues, PipeMoves
  <1>11. ASSUME NEW s \in Sessions, WriteOverflows(s) PROVE PipeMoves
    BY <1>11
    DEF stateVars, sentVars, actorVars, nodeVars, Writer, WriteOverflows, PipeMoves
  <1>12. ASSUME NEW s \in Sessions, WriterFails(s) PROVE PipeMoves
    BY <1>12
    DEF sentVars, actorVars, nodeVars, FailAll, Fail, Writer, WriterFails, PipeMoves
  <1>13. ASSUME NEW s \in Sessions, ResizeClears(s) PROVE PipeMoves
    BY <1>13
    DEF sentVars, actorVars, nodeVars, Writer, ResizeClears, PipeMoves
  <1>14. ASSUME NEW s \in Sessions, ResizeQueues(s) PROVE PipeMoves
    BY <1>14
    DEF stateVars, sentVars, actorVars, nodeVars, Writer, ResizeQueues, PipeMoves
  <1>15. ASSUME NEW s \in Sessions, ResizeOverflows(s) PROVE PipeMoves
    BY <1>15
    DEF stateVars, sentVars, actorVars, nodeVars, Writer, ResizeOverflows, PipeMoves
  <1>16. ASSUME NEW s \in Sessions, DisposeQueues(s) PROVE PipeMoves
    BY <1>16
    DEF stateVars, sentVars, actorVars, nodeVars, Deleter, DisposeQueues, PipeMoves
  <1>17. ASSUME NEW s \in Sessions, DisposeOverflows(s) PROVE PipeMoves
    BY <1>17
    DEF sentVars, actorVars, nodeVars, FailAll, Fail, Deleter, DisposeOverflows, PipeMoves
  <1>18. ASSUME NEW s \in Sessions, Clear(s) PROVE PipeMoves
    BY <1>18
    DEF clientVars, sentVars, actorVars, nodeVars, Clear, PipeMoves
  <1>19. ASSUME NEW s \in Sessions, Snapshot(s) PROVE PipeMoves
    <2>1. DEFINE f == [op |-> "snapshot", s |-> s, sizes |-> sentSizes[s],
                       from |-> sentOffset[s], upto |-> sentOffset[s]]
    <2>2. f \in PFrames /\ Sized(f)
      BY <1>19, HeadOfQueue DEF Snapshot, Takes, PFrames, QFrames, Frames, Requests, Sized, TypeOK, ActorType
    <2>3. pipe' = Append(pipe, f)
      BY <1>19 DEF Snapshot, Call
    <2>4. QED
      BY <2>2, <2>3 DEF PipeMoves
  <1>20. ASSUME NEW s \in Sessions, CleanupNext(s) PROVE PipeMoves
    <2>1. DEFINE f == [op |-> "dispose", s |-> s, sizes |-> sentSizes[s],
                       from |-> sentOffset[s], upto |-> sentOffset[s]]
    <2>2. f \in PFrames /\ Sized(f)
      BY <1>20, HeadOfQueue DEF CleanupNext, Takes, PFrames, QFrames, Frames, Requests, Sized, TypeOK, ActorType
    <2>3. pipe' = Append(pipe, f)
      BY <1>20 DEF CleanupNext, Call
    <2>4. QED
      BY <2>2, <2>3 DEF PipeMoves
  <1>21. ASSUME TakeCreate PROVE PipeMoves
    <2>1. DEFINE f == [op |-> "create", s |-> Head(queue).s, sizes |-> sentSizes[Head(queue).s],
                       from |-> sentOffset[Head(queue).s], upto |-> sentOffset[Head(queue).s]]
    <2>2. f \in PFrames /\ Sized(f)
      BY <1>21, HeadOfQueue DEF TakeCreate, Takes, PFrames, QFrames, Frames, Requests, Sized, TypeOK, ActorType
    <2>3. pipe' = Append(pipe, f)
      BY <1>21 DEF TakeCreate, Call
    <2>4. QED
      BY <2>2, <2>3 DEF PipeMoves
  <1>22. ASSUME TakeDispose PROVE PipeMoves
    <2>1. DEFINE f == [op |-> "dispose", s |-> Head(queue).s, sizes |-> sentSizes[Head(queue).s],
                       from |-> sentOffset[Head(queue).s], upto |-> sentOffset[Head(queue).s]]
    <2>2. f \in PFrames /\ Sized(f)
      BY <1>22, HeadOfQueue DEF TakeDispose, Takes, PFrames, QFrames, Frames, Requests, Sized, TypeOK, ActorType
    <2>3. pipe' = Append(pipe, f)
      BY <1>22 DEF TakeDispose, Call
    <2>4. QED
      BY <2>2, <2>3 DEF PipeMoves
  <1>23. ASSUME SkipCommand PROVE PipeMoves
    BY <1>23
    DEF stateVars, clientVars, sentVars, nodeVars, BeginCleanup, SkipCommand, PipeMoves
  <1>24. ASSUME TakeMutation PROVE PipeMoves
    <2>1. Head(queue) \in PFrames /\ Sized(Head(queue))
      BY <1>24, HeadOfQueue
      DEF TakeMutation, Takes, QFrames, PFrames, Frames, Mutations, Requests, Sized, SizeInv
    <2>2. QED
      BY <1>24, <2>1 DEF TakeMutation, PipeMoves
  <1>25. ASSUME Created PROVE PipeMoves
    BY <1>25
    DEF stateVars, clientVars, BeginCleanup, Created, PipeMoves
  <1>26. ASSUME Disposed PROVE PipeMoves
    BY <1>26
    DEF clientVars, sentVars, BeginCleanup, Disposed, PipeMoves
  <1>27. ASSUME CommandRejected PROVE PipeMoves
    BY <1>27
    DEF clientVars, sentVars, FailAll, Fail, BeginCleanup, CommandRejected, PipeMoves
  <1>28. ASSUME CleanedUp PROVE PipeMoves
    BY <1>28
    DEF stateVars, clientVars, sentVars, CleanedUp, PipeMoves
  <1>29. ASSUME CleanupDone PROVE PipeMoves
    BY <1>29
    DEF stateVars, clientVars, sentVars, nodeVars, CleanupDone, PipeMoves
  <1>30. ASSUME SnapshotReplied PROVE PipeMoves
    BY <1>30
    DEF stateVars, clientVars, SnapshotReplied, PipeMoves
  <1>31. ASSUME SnapshotStored PROVE PipeMoves
    BY <1>31
    DEF clientVars, sentVars, SnapshotStored, PipeMoves
  <1>32. ASSUME SnapshotRejected PROVE PipeMoves
    BY <1>32
    DEF clientVars, sentVars, FailAll, Fail, SnapshotRejected, PipeMoves
  <1>33. ASSUME SnapshotPassDone PROVE PipeMoves
    BY <1>33
    DEF stateVars, clientVars, sentVars, nodeVars, BeginCleanup, SnapshotPassDone, PipeMoves
  <1>34. ASSUME MutationError PROVE PipeMoves
    BY <1>34
    DEF clientVars, sentVars, actorVars, FailAll, MutationError, PipeMoves
  <1>35. ASSUME Stop PROVE PipeMoves
    BY <1>35
    DEF clientVars, sentVars, FailAll, Stop, PipeMoves
  <1>36. ASSUME NodeRefuses PROVE PipeMoves
    BY <1>36
    DEF stateVars, clientVars, sentVars, actorVars, Reply, NodeRefuses, PipeMoves
  <1>37. ASSUME NodeCreate PROVE PipeMoves
    BY <1>37
    DEF stateVars, clientVars, sentVars, actorVars, Reply, NodeCreate, PipeMoves
  <1>38. ASSUME NodeWrite PROVE PipeMoves
    BY <1>38
    DEF stateVars, clientVars, sentVars, actorVars, NodeWrite, PipeMoves
  <1>39. ASSUME NodeResize PROVE PipeMoves
    BY <1>39
    DEF stateVars, clientVars, sentVars, actorVars, NodeResize, PipeMoves
  <1>40. ASSUME NodeSnapshot PROVE PipeMoves
    BY <1>40
    DEF stateVars, clientVars, sentVars, actorVars, Reply, NodeSnapshot, PipeMoves
  <1>41. ASSUME NodeDispose PROVE PipeMoves
    BY <1>41
    DEF stateVars, clientVars, sentVars, actorVars, Reply, NodeDispose, PipeMoves
  <1>42. CASE UNCHANGED vars
    BY <1>42
    DEF stateVars, clientVars, sentVars, actorVars, nodeVars, vars, PipeMoves
  <1>43. QED
    BY <1>1, <1>2, <1>3, <1>4, <1>5, <1>6, <1>7, <1>8, <1>9, <1>10, <1>11, <1>12, <1>13,
       <1>14, <1>15, <1>16, <1>17, <1>18, <1>19, <1>20, <1>21, <1>22, <1>23, <1>24, <1>25,
       <1>26, <1>27, <1>28, <1>29, <1>30, <1>31, <1>32, <1>33, <1>34, <1>35, <1>36, <1>37,
       <1>38, <1>39, <1>40, <1>41, <1>42
    DEF Next, WriterRuns, DeleterRuns, ActorTakes, ActorGoesOn, Node

\* Node's answers.
LEMMA ReplyStep == TypeOK /\ StoreInv /\ [Next]_vars => ReplyMoves
  <1> SUFFICES ASSUME TypeOK, StoreInv, [Next]_vars PROVE ReplyMoves
    OBVIOUS
  <1>1. ASSUME NEW s \in Sessions, Create(s) PROVE ReplyMoves
    BY <1>1
    DEF clientVars, sentVars, actorVars, nodeVars, Create, ReplyMoves
  <1>2. ASSUME NEW s \in Sessions, CreateFails(s) PROVE ReplyMoves
    BY <1>2
    DEF clientVars, sentVars, actorVars, nodeVars, FailAll, Fail, CreateFails, ReplyMoves
  <1>3. ASSUME NEW s \in Sessions, WriteBegin(s) PROVE ReplyMoves
    BY <1>3
    DEF stateVars, sentVars, actorVars, nodeVars, Writer, WriteBegin, ReplyMoves
  <1>4. ASSUME NEW s \in Sessions, NEW g \in Geometries, ResizeBegin(s, g) PROVE ReplyMoves
    BY <1>4
    DEF stateVars, sentVars, actorVars, nodeVars, Writer, ResizeBegin, ReplyMoves
  <1>5. ASSUME NEW s \in Sessions, Dispose(s) PROVE ReplyMoves
    BY <1>5
    DEF sentVars, actorVars, nodeVars, Deleter, Dispose, ReplyMoves
  <1>6. ASSUME NEW s \in Sessions, DisposeSkips(s) PROVE ReplyMoves
    BY <1>6
    DEF stateVars, sentVars, actorVars, nodeVars, Deleter, DisposeSkips, ReplyMoves
  <1>7. ASSUME NEW s \in Sessions, Forget(s) PROVE ReplyMoves
    BY <1>7
    DEF stateVars, sentVars, actorVars, nodeVars, Deleter, Forget, ReplyMoves
  <1>8. ASSUME NEW s \in Sessions, WriteSkips(s) PROVE ReplyMoves
    BY <1>8
    DEF stateVars, sentVars, actorVars, nodeVars, Writer, WriteSkips, ReplyMoves
  <1>9. ASSUME NEW s \in Sessions, NEW i \in DOMAIN queue, WriteAppends(s, i) PROVE ReplyMoves
    BY <1>9
    DEF stateVars, sentVars, actorVars, nodeVars, Writer, WriteAppends, ReplyMoves
  <1>10. ASSUME NEW s \in Sessions, WriteQueues(s) PROVE ReplyMoves
    BY <1>10
    DEF stateVars, sentVars, actorVars, nodeVars, Writer, WriteQueues, ReplyMoves
  <1>11. ASSUME NEW s \in Sessions, WriteOverflows(s) PROVE ReplyMoves
    BY <1>11
    DEF stateVars, sentVars, actorVars, nodeVars, Writer, WriteOverflows, ReplyMoves
  <1>12. ASSUME NEW s \in Sessions, WriterFails(s) PROVE ReplyMoves
    BY <1>12
    DEF sentVars, actorVars, nodeVars, FailAll, Fail, Writer, WriterFails, ReplyMoves
  <1>13. ASSUME NEW s \in Sessions, ResizeClears(s) PROVE ReplyMoves
    BY <1>13
    DEF sentVars, actorVars, nodeVars, Writer, ResizeClears, ReplyMoves
  <1>14. ASSUME NEW s \in Sessions, ResizeQueues(s) PROVE ReplyMoves
    BY <1>14
    DEF stateVars, sentVars, actorVars, nodeVars, Writer, ResizeQueues, ReplyMoves
  <1>15. ASSUME NEW s \in Sessions, ResizeOverflows(s) PROVE ReplyMoves
    BY <1>15
    DEF stateVars, sentVars, actorVars, nodeVars, Writer, ResizeOverflows, ReplyMoves
  <1>16. ASSUME NEW s \in Sessions, DisposeQueues(s) PROVE ReplyMoves
    BY <1>16
    DEF stateVars, sentVars, actorVars, nodeVars, Deleter, DisposeQueues, ReplyMoves
  <1>17. ASSUME NEW s \in Sessions, DisposeOverflows(s) PROVE ReplyMoves
    BY <1>17
    DEF sentVars, actorVars, nodeVars, FailAll, Fail, Deleter, DisposeOverflows, ReplyMoves
  <1>18. ASSUME NEW s \in Sessions, Clear(s) PROVE ReplyMoves
    BY <1>18
    DEF clientVars, sentVars, actorVars, nodeVars, Clear, ReplyMoves
  <1>19. ASSUME NEW s \in Sessions, Snapshot(s) PROVE ReplyMoves
    BY <1>19
    DEF stateVars, clientVars, sentVars, Call, Snapshot, ReplyMoves
  <1>20. ASSUME NEW s \in Sessions, CleanupNext(s) PROVE ReplyMoves
    BY <1>20
    DEF stateVars, clientVars, sentVars, Call, CleanupNext, ReplyMoves
  <1>21. ASSUME TakeCreate PROVE ReplyMoves
    BY <1>21
    DEF stateVars, clientVars, sentVars, Call, TakeCreate, ReplyMoves
  <1>22. ASSUME TakeDispose PROVE ReplyMoves
    BY <1>22
    DEF stateVars, clientVars, sentVars, Call, TakeDispose, ReplyMoves
  <1>23. ASSUME SkipCommand PROVE ReplyMoves
    BY <1>23
    DEF stateVars, clientVars, sentVars, nodeVars, BeginCleanup, SkipCommand, ReplyMoves
  <1>24. ASSUME TakeMutation PROVE ReplyMoves
    BY <1>24
    DEF stateVars, clientVars, BeginCleanup, TakeMutation, ReplyMoves
  <1>25. ASSUME Created PROVE ReplyMoves
    BY <1>25
    DEF stateVars, clientVars, BeginCleanup, Created, ReplyMoves
  <1>26. ASSUME Disposed PROVE ReplyMoves
    BY <1>26
    DEF clientVars, sentVars, BeginCleanup, Disposed, ReplyMoves
  <1>27. ASSUME CommandRejected PROVE ReplyMoves
    BY <1>27
    DEF clientVars, sentVars, FailAll, Fail, BeginCleanup, CommandRejected, ReplyMoves
  <1>28. ASSUME CleanedUp PROVE ReplyMoves
    BY <1>28
    DEF stateVars, clientVars, sentVars, CleanedUp, ReplyMoves
  <1>29. ASSUME CleanupDone PROVE ReplyMoves
    BY <1>29
    DEF stateVars, clientVars, sentVars, nodeVars, CleanupDone, ReplyMoves
  <1>30. ASSUME SnapshotReplied PROVE ReplyMoves
    BY <1>30
    DEF stateVars, clientVars, Active, Replied, Storable, SnapshotReplied, SessionType,
        ThreadType, ActorType, NodeType, TypeOK, StoreInv, ReplyMoves
  <1>31. ASSUME SnapshotStored PROVE ReplyMoves
    BY <1>31
    DEF clientVars, sentVars, SnapshotStored, ReplyMoves
  <1>32. ASSUME SnapshotRejected PROVE ReplyMoves
    BY <1>32
    DEF clientVars, sentVars, FailAll, Fail, SnapshotRejected, ReplyMoves
  <1>33. ASSUME SnapshotPassDone PROVE ReplyMoves
    BY <1>33
    DEF stateVars, clientVars, sentVars, nodeVars, BeginCleanup, SnapshotPassDone,
        ReplyMoves
  <1>34. ASSUME MutationError PROVE ReplyMoves
    BY <1>34
    DEF clientVars, sentVars, actorVars, FailAll, Queued, Held, MutationError, Sizes,
        Applied, Frames, Mutations, Requests, Replies, SessionType, ThreadType, ActorType,
        NodeType, TypeOK, StoreInv, ReplyMoves
  <1>35. ASSUME Stop PROVE ReplyMoves
    BY <1>35
    DEF clientVars, sentVars, FailAll, Stop, ReplyMoves
  <1>36. ASSUME NodeRefuses PROVE ReplyMoves
    <2>1. DEFINE f == [op |-> Frame.op, s |-> Frame.s, ok |-> FALSE,
                       offset |-> Nothing.offset, sizes |-> Nothing.sizes]
    <2>2. Nothing \in Applied
      BY <1>36, NothingApplied DEF NodeRefuses
    <2>3. Frame \in PFrames
      BY <1>36, HeadOfPipe DEF NodeRefuses
    <2>4. f \in Replies
      BY <2>2, <2>3 DEF PFrames, Frames, Replies, Applied
    <2>5. replies' = Append(replies, f)
      BY <1>36 DEF NodeRefuses, Reply
    <2>6. QED
      BY <2>4, <2>5 DEF ReplyMoves
  <1>37. ASSUME NodeCreate PROVE ReplyMoves
    <2>1. DEFINE f == [op |-> Frame.op, s |-> Frame.s, ok |-> TRUE,
                       offset |-> Nothing.offset, sizes |-> Nothing.sizes]
    <2>2. Nothing \in Applied
      BY <1>37, NothingApplied DEF NodeCreate
    <2>3. Frame \in PFrames
      BY <1>37, HeadOfPipe DEF NodeCreate
    <2>4. f \in Replies
      BY <2>2, <2>3 DEF PFrames, Frames, Replies, Applied
    <2>5. replies' = Append(replies, f)
      BY <1>37 DEF NodeCreate, Reply
    <2>6. QED
      BY <2>4, <2>5 DEF ReplyMoves
  <1>38. ASSUME NodeWrite PROVE ReplyMoves
    BY <1>38
    DEF stateVars, clientVars, sentVars, actorVars, NodeWrite, ReplyMoves
  <1>39. ASSUME NodeResize PROVE ReplyMoves
    BY <1>39
    DEF stateVars, clientVars, sentVars, actorVars, NodeResize, ReplyMoves
  <1>40. ASSUME NodeSnapshot PROVE ReplyMoves
    <2>1. DEFINE f == [op |-> Frame.op, s |-> Frame.s, ok |-> TRUE,
                       offset |-> node[Frame.s].offset, sizes |-> node[Frame.s].sizes]
    <2>2. node[Frame.s] \in Applied
      BY <1>40, NodeKnown DEF NodeSnapshot
    <2>3. Frame \in PFrames
      BY <1>40, HeadOfPipe DEF NodeSnapshot
    <2>4. f \in Replies
      BY <2>2, <2>3 DEF PFrames, Frames, Replies, Applied
    <2>5. replies' = Append(replies, f)
      BY <1>40 DEF NodeSnapshot, Reply
    <2>6. QED
      BY <2>4, <2>5 DEF ReplyMoves
  <1>41. ASSUME NodeDispose PROVE ReplyMoves
    <2>1. DEFINE f == [op |-> Frame.op, s |-> Frame.s, ok |-> TRUE,
                       offset |-> node[Frame.s].offset, sizes |-> node[Frame.s].sizes]
    <2>2. node[Frame.s] \in Applied
      BY <1>41, NodeKnown DEF NodeDispose
    <2>3. Frame \in PFrames
      BY <1>41, HeadOfPipe DEF NodeDispose
    <2>4. f \in Replies
      BY <2>2, <2>3 DEF PFrames, Frames, Replies, Applied
    <2>5. replies' = Append(replies, f)
      BY <1>41 DEF NodeDispose, Reply
    <2>6. QED
      BY <2>4, <2>5 DEF ReplyMoves
  <1>42. CASE UNCHANGED vars
    BY <1>42
    DEF stateVars, clientVars, sentVars, actorVars, nodeVars, vars, ReplyMoves
  <1>43. QED
    BY <1>1, <1>2, <1>3, <1>4, <1>5, <1>6, <1>7, <1>8, <1>9, <1>10, <1>11, <1>12, <1>13,
       <1>14, <1>15, <1>16, <1>17, <1>18, <1>19, <1>20, <1>21, <1>22, <1>23, <1>24, <1>25,
       <1>26, <1>27, <1>28, <1>29, <1>30, <1>31, <1>32, <1>33, <1>34, <1>35, <1>36, <1>37,
       <1>38, <1>39, <1>40, <1>41, <1>42
    DEF Next, WriterRuns, DeleterRuns, ActorTakes, ActorGoesOn, Node


\* So all of them keep their types, and the queue its bound.
LEMMA QueuesStep ==
    ASSUME TypeOK, SizeInv, StoreInv, [Next]_vars
    PROVE  /\ queue' \in Seq(QFrames) /\ pipe' \in Seq(PFrames) /\ replies' \in Seq(Replies)
           /\ \A i \in DOMAIN queue' : Sized(queue'[i])
           /\ \A i \in DOMAIN pipe' : Sized(pipe'[i])
           /\ Len(queue) <= QueueCapacity => Len(queue') <= QueueCapacity
  <1>0. /\ queue \in Seq(QFrames) /\ pipe \in Seq(PFrames) /\ replies \in Seq(Replies)
        /\ DOMAIN queue = 1..Len(queue) /\ DOMAIN pipe = 1..Len(pipe)
        /\ Len(queue) \in Nat /\ QueueCapacity \in Nat
    BY LenProperties, VtAssumption DEF TypeOK, ActorType, NodeType, QFrames, PFrames
  <1>1. /\ queue' \in Seq(QFrames) /\ \A i \in DOMAIN queue' : Sized(queue'[i])
        /\ Len(queue) <= QueueCapacity => Len(queue') <= QueueCapacity
    <2>1. CASE queue' = queue
      BY <1>0, <2>1 DEF SizeInv, Sized
    <2>2. CASE \E f \in QFrames : queue' = Append(queue, f) /\ Room(f)
      <3>1. PICK f \in QFrames : queue' = Append(queue, f) /\ Sized(f) /\ Len(queue) < QueueCapacity
        BY <2>2 DEF Room
      <3>2. queue' \in Seq(QFrames) /\ DOMAIN queue' = 1..Len(queue') /\ Len(queue') = Len(queue) + 1
        BY <1>0, <3>1, AppendKeeps, LenProperties
      <3>3. \A i \in DOMAIN queue' : i \in 1..Len(queue) \/ i = Len(queue) + 1
        BY <1>0, <3>2
      <3>4. ASSUME NEW i \in DOMAIN queue' PROVE Sized(queue'[i])
        <4>1. CASE i \in 1..Len(queue)
          BY <1>0, <3>1, <4>1, AppendKeeps DEF SizeInv, Sized
        <4>2. CASE i = Len(queue) + 1
          BY <1>0, <3>1, <4>2, AppendKeeps
        <4>3. QED
          BY <3>3, <4>1, <4>2
      <3>5. QED
        BY <1>0, <3>1, <3>2, <3>4
    <2>3. CASE CanReserve /\ \E i \in DOMAIN queue : queue' = [queue EXCEPT ![i].upto = @ + 1]
      <3>1. PICK i \in DOMAIN queue : queue' = [queue EXCEPT ![i].upto = @ + 1]
        BY <2>3
      <3>2. DEFINE f == [queue[i] EXCEPT !.upto = @ + 1]
      <3>3. queue[i] \in QFrames
        BY <1>0, ElementOfSeq
      <3>4. f \in QFrames /\ f.op = queue[i].op /\ f.sizes = queue[i].sizes
        BY <3>3 DEF QFrames, Frames
      <3>5. queue' = [queue EXCEPT ![i] = f]
        BY <3>1
      <3>6. queue' \in Seq(QFrames) /\ Len(queue') = Len(queue)
            /\ \A j \in 1..Len(queue) : queue'[j] = IF j = i THEN f ELSE queue[j]
        <4> HIDE DEF f
        <4> QED
          BY <1>0, <3>4, <3>5, ExceptSeq
      <3>7. DOMAIN queue' = 1..Len(queue)
        BY <3>6, LenProperties
      <3>8. QED
        BY <1>0, <3>4, <3>6, <3>7 DEF SizeInv, Sized
    <2>4. CASE queue # <<>> /\ queue' = Tail(queue)
      <3>1. queue' \in Seq(QFrames) /\ DOMAIN queue' = 1..Len(queue') /\ Len(queue') = Len(queue) - 1
        BY <1>0, <2>4, TailKeeps, LenProperties
      <3>2. \A i \in 1..Len(queue') : queue'[i] = queue[i + 1] /\ i + 1 \in 1..Len(queue)
        BY <1>0, <2>4, TailKeeps
      <3>3. \A i \in DOMAIN queue' : Sized(queue'[i])
        BY <1>0, <3>1, <3>2 DEF SizeInv, Sized
      <3>4. Len(queue') \in Nat /\ Len(queue') <= Len(queue)
        BY <1>0, <3>1, LenProperties
      <3>5. QED
        BY <1>0, <3>1, <3>3, <3>4
    <2>5. CASE queue' = <<>>
      <3>1. queue' \in Seq(QFrames) /\ DOMAIN queue' = 1..0 /\ Len(queue') = 0
        BY <2>5, EmptySeq
      <3>2. QED
        BY <1>0, <3>1
    <2>6. QED
      BY <2>1, <2>2, <2>3, <2>4, <2>5, QueueStep DEF QueueMoves
  <1>2. pipe' \in Seq(PFrames) /\ \A i \in DOMAIN pipe' : Sized(pipe'[i])
    <2>1. CASE pipe' = pipe
      BY <1>0, <2>1 DEF SizeInv, Sized
    <2>2. CASE \E f \in PFrames : pipe' = Append(pipe, f) /\ Sized(f)
      <3>1. PICK f \in PFrames : pipe' = Append(pipe, f) /\ Sized(f)
        BY <2>2
      <3>2. pipe' \in Seq(PFrames) /\ DOMAIN pipe' = 1..Len(pipe') /\ Len(pipe') = Len(pipe) + 1
            /\ Len(pipe) \in Nat
        BY <1>0, <3>1, AppendKeeps, LenProperties
      <3>3. \A i \in DOMAIN pipe' : i \in 1..Len(pipe) \/ i = Len(pipe) + 1
        BY <3>2
      <3>4. ASSUME NEW i \in DOMAIN pipe' PROVE Sized(pipe'[i])
        <4>1. CASE i \in 1..Len(pipe)
          BY <1>0, <3>1, <4>1, AppendKeeps DEF SizeInv, Sized
        <4>2. CASE i = Len(pipe) + 1
          BY <1>0, <3>1, <4>2, AppendKeeps
        <4>3. QED
          BY <3>3, <4>1, <4>2
      <3>5. QED
        BY <3>2, <3>4
    <2>3. CASE pipe # <<>> /\ pipe' = Tail(pipe)
      <3>1. pipe' \in Seq(PFrames) /\ DOMAIN pipe' = 1..Len(pipe')
        BY <1>0, <2>3, TailKeeps, LenProperties
      <3>2. \A i \in 1..Len(pipe') : pipe'[i] = pipe[i + 1] /\ i + 1 \in 1..Len(pipe)
        BY <1>0, <2>3, TailKeeps
      <3>3. QED
        BY <1>0, <3>1, <3>2 DEF SizeInv, Sized
    <2>4. CASE pipe' = <<>>
      <3>1. pipe' \in Seq(PFrames) /\ DOMAIN pipe' = 1..0
        BY <2>4, EmptySeq
      <3>2. QED
        BY <3>1
    <2>5. QED
      BY <2>1, <2>2, <2>3, <2>4, PipeStep DEF PipeMoves
  <1>3. replies' \in Seq(Replies)
    <2>1. ReplyMoves
      BY ReplyStep
    <2>2. CASE \E f \in Replies : replies' = Append(replies, f)
      BY <1>0, <2>2, AppendProperties
    <2>3. CASE replies # <<>> /\ replies' = Tail(replies)
      BY <1>0, <2>3, TailKeeps
    <2>4. CASE replies' = <<>>
      BY <2>4, EmptySeq
    <2>5. QED
      BY <1>0, <2>1, <2>2, <2>3, <2>4 DEF ReplyMoves
  <1>4. QED
    BY <1>1, <1>2, <1>3

\* The state of a session.
LEMMA SessionStep == TypeOK /\ StoreInv /\ [Next]_vars => SessionType'
  <1> SUFFICES ASSUME TypeOK, StoreInv, [Next]_vars PROVE SessionType'
    OBVIOUS
  <1>1. ASSUME NEW s \in Sessions, Create(s) PROVE SessionType'
    BY <1>1
    DEF clientVars, sentVars, actorVars, nodeVars, Create, SessionType, TypeOK
  <1>2. ASSUME NEW s \in Sessions, CreateFails(s) PROVE SessionType'
    BY <1>2
    DEF clientVars, sentVars, actorVars, nodeVars, FailAll, Fail, CreateFails, SessionType,
        TypeOK
  <1>3. ASSUME NEW s \in Sessions, WriteBegin(s) PROVE SessionType'
    BY <1>3
    DEF stateVars, sentVars, actorVars, nodeVars, Writer, WriteBegin, SessionType, TypeOK
  <1>4. ASSUME NEW s \in Sessions, NEW g \in Geometries, ResizeBegin(s, g) PROVE SessionType'
    BY <1>4
    DEF stateVars, sentVars, actorVars, nodeVars, Writer, ResizeBegin, SessionType, TypeOK
  <1>5. ASSUME NEW s \in Sessions, Dispose(s) PROVE SessionType'
    BY <1>5
    DEF sentVars, actorVars, nodeVars, Deleter, Dispose, SessionType, TypeOK
  <1>6. ASSUME NEW s \in Sessions, DisposeSkips(s) PROVE SessionType'
    BY <1>6
    DEF stateVars, sentVars, actorVars, nodeVars, Deleter, DisposeSkips, SessionType, TypeOK
  <1>7. ASSUME NEW s \in Sessions, Forget(s) PROVE SessionType'
    BY <1>7
    DEF stateVars, sentVars, actorVars, nodeVars, Deleter, Forget, SessionType, TypeOK
  <1>8. ASSUME NEW s \in Sessions, WriteSkips(s) PROVE SessionType'
    BY <1>8
    DEF stateVars, sentVars, actorVars, nodeVars, Writer, WriteSkips, SessionType, TypeOK
  <1>9. ASSUME NEW s \in Sessions, NEW i \in DOMAIN queue, WriteAppends(s, i) PROVE SessionType'
    BY <1>9
    DEF stateVars, sentVars, actorVars, nodeVars, Writer, WriteAppends, SessionType, TypeOK
  <1>10. ASSUME NEW s \in Sessions, WriteQueues(s) PROVE SessionType'
    BY <1>10
    DEF stateVars, sentVars, actorVars, nodeVars, Writer, WriteQueues, SessionType, TypeOK
  <1>11. ASSUME NEW s \in Sessions, WriteOverflows(s) PROVE SessionType'
    BY <1>11
    DEF stateVars, sentVars, actorVars, nodeVars, Writer, WriteOverflows, SessionType,
        TypeOK
  <1>12. ASSUME NEW s \in Sessions, WriterFails(s) PROVE SessionType'
    BY <1>12
    DEF sentVars, actorVars, nodeVars, FailAll, Fail, Writer, WriterFails, SessionType,
        TypeOK
  <1>13. ASSUME NEW s \in Sessions, ResizeClears(s) PROVE SessionType'
    BY <1>13
    DEF sentVars, actorVars, nodeVars, Writer, ResizeClears, SessionType, TypeOK
  <1>14. ASSUME NEW s \in Sessions, ResizeQueues(s) PROVE SessionType'
    BY <1>14
    DEF stateVars, sentVars, actorVars, nodeVars, Writer, ResizeQueues, SessionType, TypeOK
  <1>15. ASSUME NEW s \in Sessions, ResizeOverflows(s) PROVE SessionType'
    BY <1>15
    DEF stateVars, sentVars, actorVars, nodeVars, Writer, ResizeOverflows, SessionType,
        TypeOK
  <1>16. ASSUME NEW s \in Sessions, DisposeQueues(s) PROVE SessionType'
    BY <1>16
    DEF stateVars, sentVars, actorVars, nodeVars, Deleter, DisposeQueues, SessionType,
        TypeOK
  <1>17. ASSUME NEW s \in Sessions, DisposeOverflows(s) PROVE SessionType'
    BY <1>17
    DEF sentVars, actorVars, nodeVars, FailAll, Fail, Deleter, DisposeOverflows,
        SessionType, TypeOK
  <1>18. ASSUME NEW s \in Sessions, Clear(s) PROVE SessionType'
    BY <1>18
    DEF clientVars, sentVars, actorVars, nodeVars, Clear, SessionType, TypeOK
  <1>19. ASSUME NEW s \in Sessions, Snapshot(s) PROVE SessionType'
    BY <1>19
    DEF stateVars, clientVars, sentVars, Call, Snapshot, SessionType, TypeOK
  <1>20. ASSUME NEW s \in Sessions, CleanupNext(s) PROVE SessionType'
    BY <1>20
    DEF stateVars, clientVars, sentVars, Call, CleanupNext, SessionType, TypeOK
  <1>21. ASSUME TakeCreate PROVE SessionType'
    BY <1>21
    DEF stateVars, clientVars, sentVars, Call, TakeCreate, SessionType, TypeOK
  <1>22. ASSUME TakeDispose PROVE SessionType'
    BY <1>22
    DEF stateVars, clientVars, sentVars, Call, TakeDispose, SessionType, TypeOK
  <1>23. ASSUME SkipCommand PROVE SessionType'
    BY <1>23
    DEF stateVars, clientVars, sentVars, nodeVars, BeginCleanup, SkipCommand, SessionType,
        TypeOK
  <1>24. ASSUME TakeMutation PROVE SessionType'
    BY <1>24
    DEF stateVars, clientVars, BeginCleanup, TakeMutation, SessionType, TypeOK
  <1>25. ASSUME Created PROVE SessionType'
    BY <1>25
    DEF stateVars, clientVars, BeginCleanup, Created, SessionType, TypeOK
  <1>26. ASSUME Disposed PROVE SessionType'
    BY <1>26
    DEF clientVars, sentVars, BeginCleanup, Disposed, SessionType, TypeOK
  <1>27. ASSUME CommandRejected PROVE SessionType'
    BY <1>27
    DEF clientVars, sentVars, FailAll, Fail, BeginCleanup, CommandRejected, SessionType,
        TypeOK
  <1>28. ASSUME CleanedUp PROVE SessionType'
    BY <1>28
    DEF stateVars, clientVars, sentVars, CleanedUp, SessionType, TypeOK
  <1>29. ASSUME CleanupDone PROVE SessionType'
    BY <1>29
    DEF stateVars, clientVars, sentVars, nodeVars, CleanupDone, SessionType, TypeOK
  <1>30. ASSUME SnapshotReplied PROVE SessionType'
    BY <1>30
    DEF stateVars, clientVars, SnapshotReplied, SessionType, TypeOK
  <1>31. ASSUME SnapshotStored PROVE SessionType'
    BY <1>31, HeadOfReplies
    DEF clientVars, sentVars, CachedSnapshots, SnapshotStored, Sizes, Applied, Frames,
        Mutations, Requests, Replies, SessionType, ThreadType, ActorType, NodeType, TypeOK,
        StoreInv
  <1>32. ASSUME SnapshotRejected PROVE SessionType'
    BY <1>32
    DEF clientVars, sentVars, FailAll, Fail, SnapshotRejected, SessionType, TypeOK
  <1>33. ASSUME SnapshotPassDone PROVE SessionType'
    BY <1>33
    DEF stateVars, clientVars, sentVars, nodeVars, BeginCleanup, SnapshotPassDone,
        SessionType, TypeOK
  <1>34. ASSUME MutationError PROVE SessionType'
    BY <1>34
    DEF clientVars, sentVars, actorVars, FailAll, MutationError, SessionType, TypeOK
  <1>35. ASSUME Stop PROVE SessionType'
    BY <1>35
    DEF clientVars, sentVars, FailAll, Stop, SessionType, TypeOK
  <1>36. ASSUME NodeRefuses PROVE SessionType'
    BY <1>36
    DEF stateVars, clientVars, sentVars, actorVars, Reply, NodeRefuses, SessionType, TypeOK
  <1>37. ASSUME NodeCreate PROVE SessionType'
    BY <1>37
    DEF stateVars, clientVars, sentVars, actorVars, Reply, NodeCreate, SessionType, TypeOK
  <1>38. ASSUME NodeWrite PROVE SessionType'
    BY <1>38
    DEF stateVars, clientVars, sentVars, actorVars, NodeWrite, SessionType, TypeOK
  <1>39. ASSUME NodeResize PROVE SessionType'
    BY <1>39
    DEF stateVars, clientVars, sentVars, actorVars, NodeResize, SessionType, TypeOK
  <1>40. ASSUME NodeSnapshot PROVE SessionType'
    BY <1>40
    DEF stateVars, clientVars, sentVars, actorVars, Reply, NodeSnapshot, SessionType, TypeOK
  <1>41. ASSUME NodeDispose PROVE SessionType'
    BY <1>41
    DEF stateVars, clientVars, sentVars, actorVars, Reply, NodeDispose, SessionType, TypeOK
  <1>42. CASE UNCHANGED vars
    BY <1>42
    DEF stateVars, clientVars, sentVars, actorVars, nodeVars, vars, SessionType, TypeOK
  <1>43. QED
    BY <1>1, <1>2, <1>3, <1>4, <1>5, <1>6, <1>7, <1>8, <1>9, <1>10, <1>11, <1>12, <1>13,
       <1>14, <1>15, <1>16, <1>17, <1>18, <1>19, <1>20, <1>21, <1>22, <1>23, <1>24, <1>25,
       <1>26, <1>27, <1>28, <1>29, <1>30, <1>31, <1>32, <1>33, <1>34, <1>35, <1>36, <1>37,
       <1>38, <1>39, <1>40, <1>41, <1>42
    DEF Next, WriterRuns, DeleterRuns, ActorTakes, ActorGoesOn, Node

\* The threads of terminald.
LEMMA ThreadStep == TypeOK /\ [Next]_vars => ThreadType'
  <1> SUFFICES ASSUME TypeOK, [Next]_vars PROVE ThreadType'
    OBVIOUS
  <1>1. ASSUME NEW s \in Sessions, Create(s) PROVE ThreadType'
    BY <1>1
    DEF clientVars, sentVars, actorVars, nodeVars, Create, ThreadType, TypeOK
  <1>2. ASSUME NEW s \in Sessions, CreateFails(s) PROVE ThreadType'
    BY <1>2
    DEF clientVars, sentVars, actorVars, nodeVars, FailAll, Fail, CreateFails, ThreadType,
        TypeOK
  <1>3. ASSUME NEW s \in Sessions, WriteBegin(s) PROVE ThreadType'
    BY <1>3, Active(s) \in BOOLEAN
    DEF WriteBegin, Writer, Active, stateVars, sentVars, actorVars, nodeVars, ThreadType, SessionType, TypeOK
  <1>4. ASSUME NEW s \in Sessions, NEW g \in Geometries, ResizeBegin(s, g) PROVE ThreadType'
    <2>1. sizes[s] \in Seq(Sizes) /\ [at |-> printed[s], to |-> g] \in Sizes
      BY DEF TypeOK, ThreadType, Sizes
    <2>2. Append(sizes[s], [at |-> printed[s], to |-> g]) \in Seq(Sizes)
      BY <2>1, AppendProperties
    <2>3. QED
      BY <1>4, <2>2
      DEF ResizeBegin, Writer, stateVars, sentVars, actorVars, nodeVars, ThreadType, TypeOK
  <1>5. ASSUME NEW s \in Sessions, Dispose(s) PROVE ThreadType'
    BY <1>5
    DEF sentVars, actorVars, nodeVars, Deleter, Dispose, ThreadType, TypeOK
  <1>6. ASSUME NEW s \in Sessions, DisposeSkips(s) PROVE ThreadType'
    BY <1>6
    DEF stateVars, sentVars, actorVars, nodeVars, Deleter, DisposeSkips, ThreadType, TypeOK
  <1>7. ASSUME NEW s \in Sessions, Forget(s) PROVE ThreadType'
    BY <1>7
    DEF stateVars, sentVars, actorVars, nodeVars, Deleter, Forget, ThreadType, TypeOK
  <1>8. ASSUME NEW s \in Sessions, WriteSkips(s) PROVE ThreadType'
    BY <1>8
    DEF stateVars, sentVars, actorVars, nodeVars, Writer, WriteSkips, ThreadType, TypeOK
  <1>9. ASSUME NEW s \in Sessions, NEW i \in DOMAIN queue, WriteAppends(s, i) PROVE ThreadType'
    BY <1>9
    DEF stateVars, sentVars, actorVars, nodeVars, Writer, WriteAppends, ThreadType, TypeOK
  <1>10. ASSUME NEW s \in Sessions, WriteQueues(s) PROVE ThreadType'
    BY <1>10
    DEF stateVars, sentVars, actorVars, nodeVars, Writer, WriteQueues, ThreadType, TypeOK
  <1>11. ASSUME NEW s \in Sessions, WriteOverflows(s) PROVE ThreadType'
    BY <1>11
    DEF stateVars, sentVars, actorVars, nodeVars, Writer, WriteOverflows, ThreadType, TypeOK
  <1>12. ASSUME NEW s \in Sessions, WriterFails(s) PROVE ThreadType'
    BY <1>12
    DEF sentVars, actorVars, nodeVars, FailAll, Fail, Writer, WriterFails, ThreadType,
        TypeOK
  <1>13. ASSUME NEW s \in Sessions, ResizeClears(s) PROVE ThreadType'
    BY <1>13
    DEF sentVars, actorVars, nodeVars, Writer, ResizeClears, ThreadType, TypeOK
  <1>14. ASSUME NEW s \in Sessions, ResizeQueues(s) PROVE ThreadType'
    BY <1>14
    DEF stateVars, sentVars, actorVars, nodeVars, Writer, ResizeQueues, ThreadType, TypeOK
  <1>15. ASSUME NEW s \in Sessions, ResizeOverflows(s) PROVE ThreadType'
    BY <1>15
    DEF stateVars, sentVars, actorVars, nodeVars, Writer, ResizeOverflows, ThreadType,
        TypeOK
  <1>16. ASSUME NEW s \in Sessions, DisposeQueues(s) PROVE ThreadType'
    BY <1>16
    DEF stateVars, sentVars, actorVars, nodeVars, Deleter, DisposeQueues, ThreadType, TypeOK
  <1>17. ASSUME NEW s \in Sessions, DisposeOverflows(s) PROVE ThreadType'
    BY <1>17
    DEF sentVars, actorVars, nodeVars, FailAll, Fail, Deleter, DisposeOverflows, ThreadType,
        TypeOK
  <1>18. ASSUME NEW s \in Sessions, Clear(s) PROVE ThreadType'
    BY <1>18
    DEF clientVars, sentVars, actorVars, nodeVars, Clear, ThreadType, TypeOK
  <1>19. ASSUME NEW s \in Sessions, Snapshot(s) PROVE ThreadType'
    BY <1>19
    DEF stateVars, clientVars, sentVars, Call, Snapshot, ThreadType, TypeOK
  <1>20. ASSUME NEW s \in Sessions, CleanupNext(s) PROVE ThreadType'
    BY <1>20
    DEF stateVars, clientVars, sentVars, Call, CleanupNext, ThreadType, TypeOK
  <1>21. ASSUME TakeCreate PROVE ThreadType'
    BY <1>21
    DEF stateVars, clientVars, sentVars, Call, TakeCreate, ThreadType, TypeOK
  <1>22. ASSUME TakeDispose PROVE ThreadType'
    BY <1>22
    DEF stateVars, clientVars, sentVars, Call, TakeDispose, ThreadType, TypeOK
  <1>23. ASSUME SkipCommand PROVE ThreadType'
    BY <1>23
    DEF stateVars, clientVars, sentVars, nodeVars, BeginCleanup, SkipCommand, ThreadType,
        TypeOK
  <1>24. ASSUME TakeMutation PROVE ThreadType'
    BY <1>24
    DEF stateVars, clientVars, BeginCleanup, TakeMutation, ThreadType, TypeOK
  <1>25. ASSUME Created PROVE ThreadType'
    BY <1>25
    DEF stateVars, clientVars, BeginCleanup, Created, ThreadType, TypeOK
  <1>26. ASSUME Disposed PROVE ThreadType'
    BY <1>26
    DEF clientVars, sentVars, BeginCleanup, Disposed, ThreadType, TypeOK
  <1>27. ASSUME CommandRejected PROVE ThreadType'
    BY <1>27
    DEF clientVars, sentVars, FailAll, Fail, BeginCleanup, CommandRejected, ThreadType,
        TypeOK
  <1>28. ASSUME CleanedUp PROVE ThreadType'
    BY <1>28
    DEF stateVars, clientVars, sentVars, CleanedUp, ThreadType, TypeOK
  <1>29. ASSUME CleanupDone PROVE ThreadType'
    BY <1>29
    DEF stateVars, clientVars, sentVars, nodeVars, CleanupDone, ThreadType, TypeOK
  <1>30. ASSUME SnapshotReplied PROVE ThreadType'
    BY <1>30
    DEF stateVars, clientVars, SnapshotReplied, ThreadType, TypeOK
  <1>31. ASSUME SnapshotStored PROVE ThreadType'
    BY <1>31
    DEF clientVars, sentVars, SnapshotStored, ThreadType, TypeOK
  <1>32. ASSUME SnapshotRejected PROVE ThreadType'
    BY <1>32
    DEF clientVars, sentVars, FailAll, Fail, SnapshotRejected, ThreadType, TypeOK
  <1>33. ASSUME SnapshotPassDone PROVE ThreadType'
    BY <1>33
    DEF stateVars, clientVars, sentVars, nodeVars, BeginCleanup, SnapshotPassDone,
        ThreadType, TypeOK
  <1>34. ASSUME MutationError PROVE ThreadType'
    BY <1>34
    DEF clientVars, sentVars, actorVars, FailAll, MutationError, ThreadType, TypeOK
  <1>35. ASSUME Stop PROVE ThreadType'
    BY <1>35
    DEF clientVars, sentVars, FailAll, Stop, ThreadType, TypeOK
  <1>36. ASSUME NodeRefuses PROVE ThreadType'
    BY <1>36
    DEF stateVars, clientVars, sentVars, actorVars, Reply, NodeRefuses, ThreadType, TypeOK
  <1>37. ASSUME NodeCreate PROVE ThreadType'
    BY <1>37
    DEF stateVars, clientVars, sentVars, actorVars, Reply, NodeCreate, ThreadType, TypeOK
  <1>38. ASSUME NodeWrite PROVE ThreadType'
    BY <1>38
    DEF stateVars, clientVars, sentVars, actorVars, NodeWrite, ThreadType, TypeOK
  <1>39. ASSUME NodeResize PROVE ThreadType'
    BY <1>39
    DEF stateVars, clientVars, sentVars, actorVars, NodeResize, ThreadType, TypeOK
  <1>40. ASSUME NodeSnapshot PROVE ThreadType'
    BY <1>40
    DEF stateVars, clientVars, sentVars, actorVars, Reply, NodeSnapshot, ThreadType, TypeOK
  <1>41. ASSUME NodeDispose PROVE ThreadType'
    BY <1>41
    DEF stateVars, clientVars, sentVars, actorVars, Reply, NodeDispose, ThreadType, TypeOK
  <1>42. CASE UNCHANGED vars
    BY <1>42
    DEF stateVars, clientVars, sentVars, actorVars, nodeVars, vars, ThreadType, TypeOK
  <1>43. QED
    BY <1>1, <1>2, <1>3, <1>4, <1>5, <1>6, <1>7, <1>8, <1>9, <1>10, <1>11, <1>12, <1>13,
       <1>14, <1>15, <1>16, <1>17, <1>18, <1>19, <1>20, <1>21, <1>22, <1>23, <1>24, <1>25,
       <1>26, <1>27, <1>28, <1>29, <1>30, <1>31, <1>32, <1>33, <1>34, <1>35, <1>36, <1>37,
       <1>38, <1>39, <1>40, <1>41, <1>42
    DEF Next, WriterRuns, DeleterRuns, ActorTakes, ActorGoesOn, Node

\* The actor's own state.
ActorState ==
    /\ sentOffset \in [Sessions -> Nat] /\ sentSizes \in [Sessions -> Seq(Sizes)]
    /\ dirty \in [Sessions -> BOOLEAN]
    /\ actor \in {"idle", "creating", "disposing", "cleanup", "cleaning", "scanning", "snapshot",
                   "storing", "stopped"}
    /\ current \in Sessions \cup {None}
    /\ live \subseteq Sessions /\ scanned \subseteq Sessions /\ todo \subseteq Sessions

\* The actor.
LEMMA ActorStep == TypeOK /\ [Next]_vars => ActorState'
  <1> SUFFICES ASSUME TypeOK, [Next]_vars PROVE ActorState'
    OBVIOUS
  <1>1. ASSUME NEW s \in Sessions, Create(s) PROVE ActorState'
    BY <1>1
    DEF clientVars, sentVars, actorVars, nodeVars, Create, ActorType, TypeOK, ActorState
  <1>2. ASSUME NEW s \in Sessions, CreateFails(s) PROVE ActorState'
    BY <1>2
    DEF clientVars, sentVars, actorVars, nodeVars, FailAll, Fail, CreateFails, ActorType,
        TypeOK, ActorState
  <1>3. ASSUME NEW s \in Sessions, WriteBegin(s) PROVE ActorState'
    BY <1>3
    DEF stateVars, sentVars, actorVars, nodeVars, Writer, WriteBegin, ActorType, TypeOK,
        ActorState
  <1>4. ASSUME NEW s \in Sessions, NEW g \in Geometries, ResizeBegin(s, g) PROVE ActorState'
    BY <1>4
    DEF stateVars, sentVars, actorVars, nodeVars, Writer, ResizeBegin, ActorType, TypeOK,
        ActorState
  <1>5. ASSUME NEW s \in Sessions, Dispose(s) PROVE ActorState'
    BY <1>5
    DEF sentVars, actorVars, nodeVars, Deleter, Dispose, ActorType, TypeOK, ActorState
  <1>6. ASSUME NEW s \in Sessions, DisposeSkips(s) PROVE ActorState'
    BY <1>6
    DEF stateVars, sentVars, actorVars, nodeVars, Deleter, DisposeSkips, ActorType, TypeOK,
        ActorState
  <1>7. ASSUME NEW s \in Sessions, Forget(s) PROVE ActorState'
    BY <1>7
    DEF stateVars, sentVars, actorVars, nodeVars, Deleter, Forget, ActorType, TypeOK,
        ActorState
  <1>8. ASSUME NEW s \in Sessions, WriteSkips(s) PROVE ActorState'
    BY <1>8
    DEF stateVars, sentVars, actorVars, nodeVars, Writer, WriteSkips, ActorType, TypeOK,
        ActorState
  <1>9. ASSUME NEW s \in Sessions, NEW i \in DOMAIN queue, WriteAppends(s, i) PROVE ActorState'
    BY <1>9
    DEF stateVars, sentVars, actorVars, nodeVars, Writer, WriteAppends, ActorType, TypeOK,
        ActorState
  <1>10. ASSUME NEW s \in Sessions, WriteQueues(s) PROVE ActorState'
    BY <1>10
    DEF stateVars, sentVars, actorVars, nodeVars, Writer, WriteQueues, ActorType, TypeOK,
        ActorState
  <1>11. ASSUME NEW s \in Sessions, WriteOverflows(s) PROVE ActorState'
    BY <1>11
    DEF stateVars, sentVars, actorVars, nodeVars, Writer, WriteOverflows, ActorType, TypeOK,
        ActorState
  <1>12. ASSUME NEW s \in Sessions, WriterFails(s) PROVE ActorState'
    BY <1>12
    DEF sentVars, actorVars, nodeVars, FailAll, Fail, Writer, WriterFails, ActorType,
        TypeOK, ActorState
  <1>13. ASSUME NEW s \in Sessions, ResizeClears(s) PROVE ActorState'
    BY <1>13
    DEF sentVars, actorVars, nodeVars, Writer, ResizeClears, ActorType, TypeOK, ActorState
  <1>14. ASSUME NEW s \in Sessions, ResizeQueues(s) PROVE ActorState'
    BY <1>14
    DEF stateVars, sentVars, actorVars, nodeVars, Writer, ResizeQueues, ActorType, TypeOK,
        ActorState
  <1>15. ASSUME NEW s \in Sessions, ResizeOverflows(s) PROVE ActorState'
    BY <1>15
    DEF stateVars, sentVars, actorVars, nodeVars, Writer, ResizeOverflows, ActorType,
        TypeOK, ActorState
  <1>16. ASSUME NEW s \in Sessions, DisposeQueues(s) PROVE ActorState'
    BY <1>16
    DEF stateVars, sentVars, actorVars, nodeVars, Deleter, DisposeQueues, ActorType, TypeOK,
        ActorState
  <1>17. ASSUME NEW s \in Sessions, DisposeOverflows(s) PROVE ActorState'
    BY <1>17
    DEF sentVars, actorVars, nodeVars, FailAll, Fail, Deleter, DisposeOverflows, ActorType,
        TypeOK, ActorState
  <1>18. ASSUME NEW s \in Sessions, Clear(s) PROVE ActorState'
    BY <1>18
    DEF clientVars, sentVars, actorVars, nodeVars, Clear, ActorType, TypeOK, ActorState
  <1>19. ASSUME NEW s \in Sessions, Snapshot(s) PROVE ActorState'
    BY <1>19
    DEF stateVars, clientVars, sentVars, Call, Snapshot, ActorType, TypeOK, ActorState
  <1>20. ASSUME NEW s \in Sessions, CleanupNext(s) PROVE ActorState'
    BY <1>20
    DEF stateVars, clientVars, sentVars, Call, CleanupNext, ActorType, TypeOK, ActorState
  <1>21. ASSUME TakeCreate PROVE ActorState'
    BY <1>21, HeadOfQueue
    DEF stateVars, clientVars, sentVars, CanProcess, Takes, Call, TakeCreate, Sizes,
        Applied, Frames, Mutations, Requests, Replies, SessionType, ThreadType, ActorType,
        NodeType, TypeOK, QFrames, ActorState
  <1>22. ASSUME TakeDispose PROVE ActorState'
    BY <1>22, HeadOfQueue
    DEF stateVars, clientVars, sentVars, CanProcess, Takes, Call, TakeDispose, Sizes,
        Applied, Frames, Mutations, Requests, Replies, SessionType, ThreadType, ActorType,
        NodeType, TypeOK, QFrames, ActorState
  <1>23. ASSUME SkipCommand PROVE ActorState'
    BY <1>23, HeadOfQueue
    DEF stateVars, clientVars, sentVars, nodeVars, CanProcess, Queued, Held, BeginCleanup,
        SkipCommand, Sizes, Applied, Frames, Mutations, Requests, Replies, SessionType,
        ThreadType, ActorType, NodeType, TypeOK, QFrames, ActorState
  <1>24. ASSUME TakeMutation PROVE ActorState'
    BY <1>24, HeadOfQueue
    DEF stateVars, clientVars, CanProcess, Queued, Held, Takes, BeginCleanup, TakeMutation,
        Sizes, Applied, Frames, Mutations, Requests, Replies, SessionType, ThreadType,
        ActorType, NodeType, TypeOK, QFrames, ActorState
  <1>25. ASSUME Created PROVE ActorState'
    BY <1>25
    DEF stateVars, clientVars, BeginCleanup, Created, ActorType, TypeOK, ActorState
  <1>26. ASSUME Disposed PROVE ActorState'
    BY <1>26
    DEF clientVars, sentVars, BeginCleanup, Disposed, ActorType, TypeOK, ActorState
  <1>27. ASSUME CommandRejected PROVE ActorState'
    BY <1>27
    DEF clientVars, sentVars, FailAll, Fail, BeginCleanup, CommandRejected, ActorType,
        TypeOK, ActorState
  <1>28. ASSUME CleanedUp PROVE ActorState'
    BY <1>28
    DEF stateVars, clientVars, sentVars, CleanedUp, ActorType, TypeOK, ActorState
  <1>29. ASSUME CleanupDone PROVE ActorState'
    BY <1>29
    DEF stateVars, clientVars, sentVars, nodeVars, CleanupDone, ActorType, TypeOK,
        ActorState
  <1>30. ASSUME SnapshotReplied PROVE ActorState'
    BY <1>30
    DEF stateVars, clientVars, SnapshotReplied, ActorType, TypeOK, ActorState
  <1>31. ASSUME SnapshotStored PROVE ActorState'
    BY <1>31
    DEF clientVars, sentVars, SnapshotStored, ActorType, TypeOK, ActorState
  <1>32. ASSUME SnapshotRejected PROVE ActorState'
    BY <1>32
    DEF clientVars, sentVars, FailAll, Fail, SnapshotRejected, ActorType, TypeOK, ActorState
  <1>33. ASSUME SnapshotPassDone PROVE ActorState'
    BY <1>33
    DEF stateVars, clientVars, sentVars, nodeVars, BeginCleanup, SnapshotPassDone,
        ActorType, TypeOK, ActorState
  <1>34. ASSUME MutationError PROVE ActorState'
    BY <1>34
    DEF clientVars, sentVars, actorVars, FailAll, MutationError, ActorType, TypeOK,
        ActorState
  <1>35. ASSUME Stop PROVE ActorState'
    BY <1>35
    DEF clientVars, sentVars, FailAll, Stop, ActorType, TypeOK, ActorState
  <1>36. ASSUME NodeRefuses PROVE ActorState'
    BY <1>36
    DEF stateVars, clientVars, sentVars, actorVars, Reply, NodeRefuses, ActorType, TypeOK,
        ActorState
  <1>37. ASSUME NodeCreate PROVE ActorState'
    BY <1>37
    DEF stateVars, clientVars, sentVars, actorVars, Reply, NodeCreate, ActorType, TypeOK,
        ActorState
  <1>38. ASSUME NodeWrite PROVE ActorState'
    BY <1>38
    DEF stateVars, clientVars, sentVars, actorVars, NodeWrite, ActorType, TypeOK, ActorState
  <1>39. ASSUME NodeResize PROVE ActorState'
    BY <1>39
    DEF stateVars, clientVars, sentVars, actorVars, NodeResize, ActorType, TypeOK,
        ActorState
  <1>40. ASSUME NodeSnapshot PROVE ActorState'
    BY <1>40
    DEF stateVars, clientVars, sentVars, actorVars, Reply, NodeSnapshot, ActorType, TypeOK,
        ActorState
  <1>41. ASSUME NodeDispose PROVE ActorState'
    BY <1>41
    DEF stateVars, clientVars, sentVars, actorVars, Reply, NodeDispose, ActorType, TypeOK,
        ActorState
  <1>42. CASE UNCHANGED vars
    BY <1>42
    DEF stateVars, clientVars, sentVars, actorVars, nodeVars, vars, ActorType, TypeOK,
        ActorState
  <1>43. QED
    BY <1>1, <1>2, <1>3, <1>4, <1>5, <1>6, <1>7, <1>8, <1>9, <1>10, <1>11, <1>12, <1>13,
       <1>14, <1>15, <1>16, <1>17, <1>18, <1>19, <1>20, <1>21, <1>22, <1>23, <1>24, <1>25,
       <1>26, <1>27, <1>28, <1>29, <1>30, <1>31, <1>32, <1>33, <1>34, <1>35, <1>36, <1>37,
       <1>38, <1>39, <1>40, <1>41, <1>42
    DEF Next, WriterRuns, DeleterRuns, ActorTakes, ActorGoesOn, Node

NodeState == node \in [Sessions -> Applied \cup {None}]

\* What Node has applied.
LEMMA NodeStep == TypeOK /\ SizeInv /\ [Next]_vars => NodeState'
  <1> SUFFICES ASSUME TypeOK, SizeInv, [Next]_vars PROVE NodeState'
    OBVIOUS
  <1>1. ASSUME NEW s \in Sessions, Create(s) PROVE NodeState'
    BY <1>1
    DEF clientVars, sentVars, actorVars, nodeVars, Create, NodeType, TypeOK, NodeState
  <1>2. ASSUME NEW s \in Sessions, CreateFails(s) PROVE NodeState'
    BY <1>2
    DEF clientVars, sentVars, actorVars, nodeVars, FailAll, Fail, CreateFails, NodeType,
        TypeOK, NodeState
  <1>3. ASSUME NEW s \in Sessions, WriteBegin(s) PROVE NodeState'
    BY <1>3
    DEF stateVars, sentVars, actorVars, nodeVars, Writer, WriteBegin, NodeType, TypeOK,
        NodeState
  <1>4. ASSUME NEW s \in Sessions, NEW g \in Geometries, ResizeBegin(s, g) PROVE NodeState'
    BY <1>4
    DEF stateVars, sentVars, actorVars, nodeVars, Writer, ResizeBegin, NodeType, TypeOK,
        NodeState
  <1>5. ASSUME NEW s \in Sessions, Dispose(s) PROVE NodeState'
    BY <1>5
    DEF sentVars, actorVars, nodeVars, Deleter, Dispose, NodeType, TypeOK, NodeState
  <1>6. ASSUME NEW s \in Sessions, DisposeSkips(s) PROVE NodeState'
    BY <1>6
    DEF stateVars, sentVars, actorVars, nodeVars, Deleter, DisposeSkips, NodeType, TypeOK,
        NodeState
  <1>7. ASSUME NEW s \in Sessions, Forget(s) PROVE NodeState'
    BY <1>7
    DEF stateVars, sentVars, actorVars, nodeVars, Deleter, Forget, NodeType, TypeOK,
        NodeState
  <1>8. ASSUME NEW s \in Sessions, WriteSkips(s) PROVE NodeState'
    BY <1>8
    DEF stateVars, sentVars, actorVars, nodeVars, Writer, WriteSkips, NodeType, TypeOK,
        NodeState
  <1>9. ASSUME NEW s \in Sessions, NEW i \in DOMAIN queue, WriteAppends(s, i) PROVE NodeState'
    BY <1>9
    DEF stateVars, sentVars, actorVars, nodeVars, Writer, WriteAppends, NodeType, TypeOK,
        NodeState
  <1>10. ASSUME NEW s \in Sessions, WriteQueues(s) PROVE NodeState'
    BY <1>10
    DEF stateVars, sentVars, actorVars, nodeVars, Writer, WriteQueues, NodeType, TypeOK,
        NodeState
  <1>11. ASSUME NEW s \in Sessions, WriteOverflows(s) PROVE NodeState'
    BY <1>11
    DEF stateVars, sentVars, actorVars, nodeVars, Writer, WriteOverflows, NodeType, TypeOK,
        NodeState
  <1>12. ASSUME NEW s \in Sessions, WriterFails(s) PROVE NodeState'
    BY <1>12
    DEF sentVars, actorVars, nodeVars, FailAll, Fail, Writer, WriterFails, NodeType, TypeOK,
        NodeState
  <1>13. ASSUME NEW s \in Sessions, ResizeClears(s) PROVE NodeState'
    BY <1>13
    DEF sentVars, actorVars, nodeVars, Writer, ResizeClears, NodeType, TypeOK, NodeState
  <1>14. ASSUME NEW s \in Sessions, ResizeQueues(s) PROVE NodeState'
    BY <1>14
    DEF stateVars, sentVars, actorVars, nodeVars, Writer, ResizeQueues, NodeType, TypeOK,
        NodeState
  <1>15. ASSUME NEW s \in Sessions, ResizeOverflows(s) PROVE NodeState'
    BY <1>15
    DEF stateVars, sentVars, actorVars, nodeVars, Writer, ResizeOverflows, NodeType, TypeOK,
        NodeState
  <1>16. ASSUME NEW s \in Sessions, DisposeQueues(s) PROVE NodeState'
    BY <1>16
    DEF stateVars, sentVars, actorVars, nodeVars, Deleter, DisposeQueues, NodeType, TypeOK,
        NodeState
  <1>17. ASSUME NEW s \in Sessions, DisposeOverflows(s) PROVE NodeState'
    BY <1>17
    DEF sentVars, actorVars, nodeVars, FailAll, Fail, Deleter, DisposeOverflows, NodeType,
        TypeOK, NodeState
  <1>18. ASSUME NEW s \in Sessions, Clear(s) PROVE NodeState'
    BY <1>18
    DEF clientVars, sentVars, actorVars, nodeVars, Clear, NodeType, TypeOK, NodeState
  <1>19. ASSUME NEW s \in Sessions, Snapshot(s) PROVE NodeState'
    BY <1>19
    DEF stateVars, clientVars, sentVars, Call, Snapshot, NodeType, TypeOK, NodeState
  <1>20. ASSUME NEW s \in Sessions, CleanupNext(s) PROVE NodeState'
    BY <1>20
    DEF stateVars, clientVars, sentVars, Call, CleanupNext, NodeType, TypeOK, NodeState
  <1>21. ASSUME TakeCreate PROVE NodeState'
    BY <1>21
    DEF stateVars, clientVars, sentVars, Call, TakeCreate, NodeType, TypeOK, NodeState
  <1>22. ASSUME TakeDispose PROVE NodeState'
    BY <1>22
    DEF stateVars, clientVars, sentVars, Call, TakeDispose, NodeType, TypeOK, NodeState
  <1>23. ASSUME SkipCommand PROVE NodeState'
    BY <1>23
    DEF stateVars, clientVars, sentVars, nodeVars, BeginCleanup, SkipCommand, NodeType,
        TypeOK, NodeState
  <1>24. ASSUME TakeMutation PROVE NodeState'
    BY <1>24
    DEF stateVars, clientVars, BeginCleanup, TakeMutation, NodeType, TypeOK, NodeState
  <1>25. ASSUME Created PROVE NodeState'
    BY <1>25
    DEF stateVars, clientVars, BeginCleanup, Created, NodeType, TypeOK, NodeState
  <1>26. ASSUME Disposed PROVE NodeState'
    BY <1>26
    DEF clientVars, sentVars, BeginCleanup, Disposed, NodeType, TypeOK, NodeState
  <1>27. ASSUME CommandRejected PROVE NodeState'
    BY <1>27
    DEF clientVars, sentVars, FailAll, Fail, BeginCleanup, CommandRejected, NodeType,
        TypeOK, NodeState
  <1>28. ASSUME CleanedUp PROVE NodeState'
    BY <1>28
    DEF stateVars, clientVars, sentVars, CleanedUp, NodeType, TypeOK, NodeState
  <1>29. ASSUME CleanupDone PROVE NodeState'
    BY <1>29
    DEF stateVars, clientVars, sentVars, nodeVars, CleanupDone, NodeType, TypeOK, NodeState
  <1>30. ASSUME SnapshotReplied PROVE NodeState'
    BY <1>30
    DEF stateVars, clientVars, SnapshotReplied, NodeType, TypeOK, NodeState
  <1>31. ASSUME SnapshotStored PROVE NodeState'
    BY <1>31
    DEF clientVars, sentVars, SnapshotStored, NodeType, TypeOK, NodeState
  <1>32. ASSUME SnapshotRejected PROVE NodeState'
    BY <1>32
    DEF clientVars, sentVars, FailAll, Fail, SnapshotRejected, NodeType, TypeOK, NodeState
  <1>33. ASSUME SnapshotPassDone PROVE NodeState'
    BY <1>33
    DEF stateVars, clientVars, sentVars, nodeVars, BeginCleanup, SnapshotPassDone, NodeType,
        TypeOK, NodeState
  <1>34. ASSUME MutationError PROVE NodeState'
    BY <1>34
    DEF clientVars, sentVars, actorVars, FailAll, MutationError, NodeType, TypeOK, NodeState
  <1>35. ASSUME Stop PROVE NodeState'
    BY <1>35 DEF Stop, Each, NodeState
  <1>36. ASSUME NodeRefuses PROVE NodeState'
    BY <1>36
    DEF stateVars, clientVars, sentVars, actorVars, Reply, NodeRefuses, NodeType, TypeOK,
        NodeState
  <1>37. ASSUME NodeCreate PROVE NodeState'
    <2>1. Nothing \in Applied
      BY EmptySeq DEF Nothing, Applied
    <2>2. QED
      BY <1>37, <2>1 DEF NodeCreate, NodeState, TypeOK, NodeType
  <1>38. ASSUME NodeWrite PROVE NodeState'
    <2>1. Frame \in PFrames /\ Frame.upto \in Nat /\ node[Frame.s] \in Applied
      BY <1>38, HeadOfPipe DEF NodeWrite, Refused, Known, PFrames, Frames, TypeOK, NodeType
    <2>2. [node[Frame.s] EXCEPT !.offset = Frame.upto] \in Applied
      BY <2>1 DEF Applied
    <2>3. QED
      BY <1>38, <2>2 DEF NodeWrite, NodeState, TypeOK, NodeType
  <1>39. ASSUME NodeResize PROVE NodeState'
    <2>1. /\ Frame \in PFrames /\ Frame.sizes # <<>> /\ Frame.sizes \in Seq(Sizes)
          /\ node[Frame.s] \in Applied
      BY <1>39, HeadOfPipe DEF NodeResize, Refused, Known, SizeInv, PFrames, Frames, TypeOK, NodeType
    <2>2. Frame.sizes[Len(Frame.sizes)] \in Sizes
      BY <2>1, EmptySeq, ElementOfSeq
    <2>3. Append(node[Frame.s].sizes, Frame.sizes[Len(Frame.sizes)]) \in Seq(Sizes)
      BY <2>1, <2>2, AppendProperties DEF Applied
    <2>4. QED
      BY <1>39, <2>1, <2>3 DEF NodeResize, NodeState, TypeOK, NodeType, Applied, PFrames, Frames
  <1>40. ASSUME NodeSnapshot PROVE NodeState'
    BY <1>40, HeadOfPipe
    DEF stateVars, clientVars, sentVars, actorVars, Reply, NodeSnapshot, NodeType, TypeOK,
        NodeState
  <1>41. ASSUME NodeDispose PROVE NodeState'
    BY <1>41, HeadOfPipe
    DEF stateVars, clientVars, sentVars, actorVars, Reply, NodeDispose, NodeType, TypeOK,
        NodeState
  <1>42. CASE UNCHANGED vars
    BY <1>42
    DEF stateVars, clientVars, sentVars, actorVars, nodeVars, vars, NodeType, TypeOK,
        NodeState
  <1>43. QED
    BY <1>1, <1>2, <1>3, <1>4, <1>5, <1>6, <1>7, <1>8, <1>9, <1>10, <1>11, <1>12, <1>13,
       <1>14, <1>15, <1>16, <1>17, <1>18, <1>19, <1>20, <1>21, <1>22, <1>23, <1>24, <1>25,
       <1>26, <1>27, <1>28, <1>29, <1>30, <1>31, <1>32, <1>33, <1>34, <1>35, <1>36, <1>37,
       <1>38, <1>39, <1>40, <1>41, <1>42
    DEF Next, WriterRuns, DeleterRuns, ActorTakes, ActorGoesOn, Node

LEMMA TypeStep == TypeOK /\ SizeInv /\ StoreInv /\ [Next]_vars => TypeOK'
  BY QueuesStep, SessionStep, ThreadStep, ActorStep, NodeStep
  DEF TypeOK, ActorType, NodeType, ActorState, NodeState, QFrames, PFrames

\* A resize under way has raised the revision.
LEMMA WriterStep == TypeOK /\ SizeInv /\ [Next]_vars => WriterSized'
  <1> SUFFICES ASSUME TypeOK, SizeInv, [Next]_vars PROVE WriterSized'
    OBVIOUS
  <1>1. ASSUME NEW s \in Sessions, Create(s) PROVE WriterSized'
    BY <1>1
    DEF clientVars, sentVars, actorVars, nodeVars, Create, ThreadType, TypeOK, WriterSized,
        SizeInv
  <1>2. ASSUME NEW s \in Sessions, CreateFails(s) PROVE WriterSized'
    BY <1>2
    DEF clientVars, sentVars, actorVars, nodeVars, FailAll, Fail, CreateFails, ThreadType,
        TypeOK, WriterSized, SizeInv
  <1>3. ASSUME NEW s \in Sessions, WriteBegin(s) PROVE WriterSized'
    BY <1>3
    DEF stateVars, sentVars, actorVars, nodeVars, Writer, WriteBegin, ThreadType, TypeOK,
        WriterSized, SizeInv
  <1>4. ASSUME NEW s \in Sessions, NEW g \in Geometries, ResizeBegin(s, g) PROVE WriterSized'
    <2>1. Append(sizes[s], [at |-> printed[s], to |-> g]) # <<>>
      <3>1. sizes[s] \in Seq(Sizes) /\ [at |-> printed[s], to |-> g] \in Sizes
        BY DEF TypeOK, ThreadType, Sizes
      <3>2. QED
        BY <3>1, AppendProperties
    <2>2. QED
      BY <1>4, <2>1
      DEF ResizeBegin, Writer, stateVars, sentVars, actorVars, nodeVars, WriterSized, SizeInv,
          ThreadType, TypeOK
  <1>5. ASSUME NEW s \in Sessions, Dispose(s) PROVE WriterSized'
    BY <1>5
    DEF sentVars, actorVars, nodeVars, Deleter, Dispose, ThreadType, TypeOK, WriterSized,
        SizeInv
  <1>6. ASSUME NEW s \in Sessions, DisposeSkips(s) PROVE WriterSized'
    BY <1>6
    DEF stateVars, sentVars, actorVars, nodeVars, Deleter, DisposeSkips, ThreadType, TypeOK,
        WriterSized, SizeInv
  <1>7. ASSUME NEW s \in Sessions, Forget(s) PROVE WriterSized'
    BY <1>7
    DEF stateVars, sentVars, actorVars, nodeVars, Deleter, Forget, ThreadType, TypeOK,
        WriterSized, SizeInv
  <1>8. ASSUME NEW s \in Sessions, WriteSkips(s) PROVE WriterSized'
    BY <1>8
    DEF stateVars, sentVars, actorVars, nodeVars, Writer, WriteSkips, ThreadType, TypeOK,
        WriterSized, SizeInv
  <1>9. ASSUME NEW s \in Sessions, NEW i \in DOMAIN queue, WriteAppends(s, i) PROVE WriterSized'
    BY <1>9
    DEF stateVars, sentVars, actorVars, nodeVars, Writer, WriteAppends, ThreadType, TypeOK,
        WriterSized, SizeInv
  <1>10. ASSUME NEW s \in Sessions, WriteQueues(s) PROVE WriterSized'
    BY <1>10
    DEF stateVars, sentVars, actorVars, nodeVars, Writer, WriteQueues, ThreadType, TypeOK,
        WriterSized, SizeInv
  <1>11. ASSUME NEW s \in Sessions, WriteOverflows(s) PROVE WriterSized'
    BY <1>11
    DEF stateVars, sentVars, actorVars, nodeVars, Writer, WriteOverflows, ThreadType,
        TypeOK, WriterSized, SizeInv
  <1>12. ASSUME NEW s \in Sessions, WriterFails(s) PROVE WriterSized'
    BY <1>12
    DEF sentVars, actorVars, nodeVars, FailAll, Fail, Writer, WriterFails, ThreadType,
        TypeOK, WriterSized, SizeInv
  <1>13. ASSUME NEW s \in Sessions, ResizeClears(s) PROVE WriterSized'
    BY <1>13
    DEF sentVars, actorVars, nodeVars, Writer, ResizeClears, ThreadType, TypeOK,
        WriterSized, SizeInv
  <1>14. ASSUME NEW s \in Sessions, ResizeQueues(s) PROVE WriterSized'
    BY <1>14
    DEF stateVars, sentVars, actorVars, nodeVars, Writer, ResizeQueues, ThreadType, TypeOK,
        WriterSized, SizeInv
  <1>15. ASSUME NEW s \in Sessions, ResizeOverflows(s) PROVE WriterSized'
    BY <1>15
    DEF stateVars, sentVars, actorVars, nodeVars, Writer, ResizeOverflows, ThreadType,
        TypeOK, WriterSized, SizeInv
  <1>16. ASSUME NEW s \in Sessions, DisposeQueues(s) PROVE WriterSized'
    BY <1>16
    DEF stateVars, sentVars, actorVars, nodeVars, Deleter, DisposeQueues, ThreadType,
        TypeOK, WriterSized, SizeInv
  <1>17. ASSUME NEW s \in Sessions, DisposeOverflows(s) PROVE WriterSized'
    BY <1>17
    DEF sentVars, actorVars, nodeVars, FailAll, Fail, Deleter, DisposeOverflows, ThreadType,
        TypeOK, WriterSized, SizeInv
  <1>18. ASSUME NEW s \in Sessions, Clear(s) PROVE WriterSized'
    BY <1>18
    DEF clientVars, sentVars, actorVars, nodeVars, Clear, ThreadType, TypeOK, WriterSized,
        SizeInv
  <1>19. ASSUME NEW s \in Sessions, Snapshot(s) PROVE WriterSized'
    BY <1>19
    DEF stateVars, clientVars, sentVars, Call, Snapshot, ThreadType, TypeOK, WriterSized,
        SizeInv
  <1>20. ASSUME NEW s \in Sessions, CleanupNext(s) PROVE WriterSized'
    BY <1>20
    DEF stateVars, clientVars, sentVars, Call, CleanupNext, ThreadType, TypeOK, WriterSized,
        SizeInv
  <1>21. ASSUME TakeCreate PROVE WriterSized'
    BY <1>21
    DEF stateVars, clientVars, sentVars, Call, TakeCreate, ThreadType, TypeOK, WriterSized,
        SizeInv
  <1>22. ASSUME TakeDispose PROVE WriterSized'
    BY <1>22
    DEF stateVars, clientVars, sentVars, Call, TakeDispose, ThreadType, TypeOK, WriterSized,
        SizeInv
  <1>23. ASSUME SkipCommand PROVE WriterSized'
    BY <1>23
    DEF stateVars, clientVars, sentVars, nodeVars, BeginCleanup, SkipCommand, ThreadType,
        TypeOK, WriterSized, SizeInv
  <1>24. ASSUME TakeMutation PROVE WriterSized'
    BY <1>24
    DEF stateVars, clientVars, BeginCleanup, TakeMutation, ThreadType, TypeOK, WriterSized,
        SizeInv
  <1>25. ASSUME Created PROVE WriterSized'
    BY <1>25
    DEF stateVars, clientVars, BeginCleanup, Created, ThreadType, TypeOK, WriterSized,
        SizeInv
  <1>26. ASSUME Disposed PROVE WriterSized'
    BY <1>26
    DEF clientVars, sentVars, BeginCleanup, Disposed, ThreadType, TypeOK, WriterSized,
        SizeInv
  <1>27. ASSUME CommandRejected PROVE WriterSized'
    BY <1>27
    DEF clientVars, sentVars, FailAll, Fail, BeginCleanup, CommandRejected, ThreadType,
        TypeOK, WriterSized, SizeInv
  <1>28. ASSUME CleanedUp PROVE WriterSized'
    BY <1>28
    DEF stateVars, clientVars, sentVars, CleanedUp, ThreadType, TypeOK, WriterSized, SizeInv
  <1>29. ASSUME CleanupDone PROVE WriterSized'
    BY <1>29
    DEF stateVars, clientVars, sentVars, nodeVars, CleanupDone, ThreadType, TypeOK,
        WriterSized, SizeInv
  <1>30. ASSUME SnapshotReplied PROVE WriterSized'
    BY <1>30
    DEF stateVars, clientVars, SnapshotReplied, ThreadType, TypeOK, WriterSized, SizeInv
  <1>31. ASSUME SnapshotStored PROVE WriterSized'
    BY <1>31
    DEF clientVars, sentVars, SnapshotStored, ThreadType, TypeOK, WriterSized, SizeInv
  <1>32. ASSUME SnapshotRejected PROVE WriterSized'
    BY <1>32
    DEF clientVars, sentVars, FailAll, Fail, SnapshotRejected, ThreadType, TypeOK,
        WriterSized, SizeInv
  <1>33. ASSUME SnapshotPassDone PROVE WriterSized'
    BY <1>33
    DEF stateVars, clientVars, sentVars, nodeVars, BeginCleanup, SnapshotPassDone,
        ThreadType, TypeOK, WriterSized, SizeInv
  <1>34. ASSUME MutationError PROVE WriterSized'
    BY <1>34
    DEF clientVars, sentVars, actorVars, FailAll, MutationError, ThreadType, TypeOK,
        WriterSized, SizeInv
  <1>35. ASSUME Stop PROVE WriterSized'
    BY <1>35
    DEF clientVars, sentVars, FailAll, Stop, ThreadType, TypeOK, WriterSized, SizeInv
  <1>36. ASSUME NodeRefuses PROVE WriterSized'
    BY <1>36
    DEF stateVars, clientVars, sentVars, actorVars, Reply, NodeRefuses, ThreadType, TypeOK,
        WriterSized, SizeInv
  <1>37. ASSUME NodeCreate PROVE WriterSized'
    BY <1>37
    DEF stateVars, clientVars, sentVars, actorVars, Reply, NodeCreate, ThreadType, TypeOK,
        WriterSized, SizeInv
  <1>38. ASSUME NodeWrite PROVE WriterSized'
    BY <1>38
    DEF stateVars, clientVars, sentVars, actorVars, NodeWrite, ThreadType, TypeOK,
        WriterSized, SizeInv
  <1>39. ASSUME NodeResize PROVE WriterSized'
    BY <1>39
    DEF stateVars, clientVars, sentVars, actorVars, NodeResize, ThreadType, TypeOK,
        WriterSized, SizeInv
  <1>40. ASSUME NodeSnapshot PROVE WriterSized'
    BY <1>40
    DEF stateVars, clientVars, sentVars, actorVars, Reply, NodeSnapshot, ThreadType, TypeOK,
        WriterSized, SizeInv
  <1>41. ASSUME NodeDispose PROVE WriterSized'
    BY <1>41
    DEF stateVars, clientVars, sentVars, actorVars, Reply, NodeDispose, ThreadType, TypeOK,
        WriterSized, SizeInv
  <1>42. CASE UNCHANGED vars
    BY <1>42
    DEF stateVars, clientVars, sentVars, actorVars, nodeVars, vars, ThreadType, TypeOK,
        WriterSized, SizeInv
  <1>43. QED
    BY <1>1, <1>2, <1>3, <1>4, <1>5, <1>6, <1>7, <1>8, <1>9, <1>10, <1>11, <1>12, <1>13,
       <1>14, <1>15, <1>16, <1>17, <1>18, <1>19, <1>20, <1>21, <1>22, <1>23, <1>24, <1>25,
       <1>26, <1>27, <1>28, <1>29, <1>30, <1>31, <1>32, <1>33, <1>34, <1>35, <1>36, <1>37,
       <1>38, <1>39, <1>40, <1>41, <1>42
    DEF Next, WriterRuns, DeleterRuns, ActorTakes, ActorGoesOn, Node

LEMMA SizeStep == TypeOK /\ SizeInv /\ StoreInv /\ [Next]_vars => SizeInv'
  BY QueuesStep, WriterStep DEF SizeInv, Sized, WriterSized

\* Nothing overtakes the snapshot that is being stored.
LEMMA StoreStep == TypeOK /\ StoreInv /\ [Next]_vars => StoreInv'
  <1> SUFFICES ASSUME TypeOK, StoreInv, [Next]_vars PROVE StoreInv'
    OBVIOUS
  <1>1. ASSUME NEW s \in Sessions, Create(s) PROVE StoreInv'
    BY <1>1
    DEF clientVars, sentVars, actorVars, nodeVars, Create, StoreInv
  <1>2. ASSUME NEW s \in Sessions, CreateFails(s) PROVE StoreInv'
    BY <1>2
    DEF clientVars, sentVars, actorVars, nodeVars, FailAll, Fail, CreateFails, StoreInv
  <1>3. ASSUME NEW s \in Sessions, WriteBegin(s) PROVE StoreInv'
    BY <1>3
    DEF stateVars, sentVars, actorVars, nodeVars, Writer, WriteBegin, StoreInv
  <1>4. ASSUME NEW s \in Sessions, NEW g \in Geometries, ResizeBegin(s, g) PROVE StoreInv'
    BY <1>4
    DEF stateVars, sentVars, actorVars, nodeVars, Writer, ResizeBegin, StoreInv
  <1>5. ASSUME NEW s \in Sessions, Dispose(s) PROVE StoreInv'
    BY <1>5
    DEF sentVars, actorVars, nodeVars, Deleter, Dispose, StoreInv
  <1>6. ASSUME NEW s \in Sessions, DisposeSkips(s) PROVE StoreInv'
    BY <1>6
    DEF stateVars, sentVars, actorVars, nodeVars, Deleter, DisposeSkips, StoreInv
  <1>7. ASSUME NEW s \in Sessions, Forget(s) PROVE StoreInv'
    BY <1>7
    DEF stateVars, sentVars, actorVars, nodeVars, Deleter, Forget, StoreInv
  <1>8. ASSUME NEW s \in Sessions, WriteSkips(s) PROVE StoreInv'
    BY <1>8
    DEF stateVars, sentVars, actorVars, nodeVars, Writer, WriteSkips, StoreInv
  <1>9. ASSUME NEW s \in Sessions, NEW i \in DOMAIN queue, WriteAppends(s, i) PROVE StoreInv'
    BY <1>9
    DEF stateVars, sentVars, actorVars, nodeVars, Writer, WriteAppends, StoreInv
  <1>10. ASSUME NEW s \in Sessions, WriteQueues(s) PROVE StoreInv'
    BY <1>10
    DEF stateVars, sentVars, actorVars, nodeVars, Writer, WriteQueues, StoreInv
  <1>11. ASSUME NEW s \in Sessions, WriteOverflows(s) PROVE StoreInv'
    BY <1>11
    DEF stateVars, sentVars, actorVars, nodeVars, Writer, WriteOverflows, StoreInv
  <1>12. ASSUME NEW s \in Sessions, WriterFails(s) PROVE StoreInv'
    BY <1>12
    DEF sentVars, actorVars, nodeVars, FailAll, Fail, Writer, WriterFails, StoreInv
  <1>13. ASSUME NEW s \in Sessions, ResizeClears(s) PROVE StoreInv'
    BY <1>13
    DEF sentVars, actorVars, nodeVars, Writer, ResizeClears, StoreInv
  <1>14. ASSUME NEW s \in Sessions, ResizeQueues(s) PROVE StoreInv'
    BY <1>14
    DEF stateVars, sentVars, actorVars, nodeVars, Writer, ResizeQueues, StoreInv
  <1>15. ASSUME NEW s \in Sessions, ResizeOverflows(s) PROVE StoreInv'
    BY <1>15
    DEF stateVars, sentVars, actorVars, nodeVars, Writer, ResizeOverflows, StoreInv
  <1>16. ASSUME NEW s \in Sessions, DisposeQueues(s) PROVE StoreInv'
    BY <1>16
    DEF stateVars, sentVars, actorVars, nodeVars, Deleter, DisposeQueues, StoreInv
  <1>17. ASSUME NEW s \in Sessions, DisposeOverflows(s) PROVE StoreInv'
    BY <1>17
    DEF sentVars, actorVars, nodeVars, FailAll, Fail, Deleter, DisposeOverflows, StoreInv
  <1>18. ASSUME NEW s \in Sessions, Clear(s) PROVE StoreInv'
    BY <1>18
    DEF clientVars, sentVars, actorVars, nodeVars, Clear, StoreInv
  <1>19. ASSUME NEW s \in Sessions, Snapshot(s) PROVE StoreInv'
    BY <1>19
    DEF stateVars, clientVars, sentVars, Call, Snapshot, StoreInv
  <1>20. ASSUME NEW s \in Sessions, CleanupNext(s) PROVE StoreInv'
    BY <1>20
    DEF stateVars, clientVars, sentVars, Call, CleanupNext, StoreInv
  <1>21. ASSUME TakeCreate PROVE StoreInv'
    BY <1>21
    DEF stateVars, clientVars, sentVars, Call, TakeCreate, StoreInv
  <1>22. ASSUME TakeDispose PROVE StoreInv'
    BY <1>22
    DEF stateVars, clientVars, sentVars, Call, TakeDispose, StoreInv
  <1>23. ASSUME SkipCommand PROVE StoreInv'
    BY <1>23
    DEF stateVars, clientVars, sentVars, nodeVars, BeginCleanup, SkipCommand, StoreInv
  <1>24. ASSUME TakeMutation PROVE StoreInv'
    BY <1>24
    DEF stateVars, clientVars, BeginCleanup, TakeMutation, StoreInv
  <1>25. ASSUME Created PROVE StoreInv'
    BY <1>25
    DEF stateVars, clientVars, BeginCleanup, Created, StoreInv
  <1>26. ASSUME Disposed PROVE StoreInv'
    BY <1>26
    DEF clientVars, sentVars, BeginCleanup, Disposed, StoreInv
  <1>27. ASSUME CommandRejected PROVE StoreInv'
    BY <1>27
    DEF clientVars, sentVars, FailAll, Fail, BeginCleanup, CommandRejected, StoreInv
  <1>28. ASSUME CleanedUp PROVE StoreInv'
    BY <1>28
    DEF stateVars, clientVars, sentVars, CleanedUp, StoreInv
  <1>29. ASSUME CleanupDone PROVE StoreInv'
    BY <1>29
    DEF stateVars, clientVars, sentVars, nodeVars, CleanupDone, StoreInv
  <1>30. ASSUME SnapshotReplied PROVE StoreInv'
    BY <1>30
    DEF stateVars, clientVars, Active, Replied, Storable, SnapshotReplied, Sizes, Applied,
        Frames, Mutations, Requests, Replies, SessionType, ThreadType, ActorType, NodeType,
        TypeOK, StoreInv
  <1>31. ASSUME SnapshotStored PROVE StoreInv'
    BY <1>31
    DEF clientVars, sentVars, SnapshotStored, StoreInv
  <1>32. ASSUME SnapshotRejected PROVE StoreInv'
    BY <1>32
    DEF clientVars, sentVars, FailAll, Fail, SnapshotRejected, StoreInv
  <1>33. ASSUME SnapshotPassDone PROVE StoreInv'
    BY <1>33
    DEF stateVars, clientVars, sentVars, nodeVars, BeginCleanup, SnapshotPassDone, StoreInv
  <1>34. ASSUME MutationError PROVE StoreInv'
    BY <1>34
    DEF clientVars, sentVars, actorVars, FailAll, Queued, Held, MutationError, Sizes,
        Applied, Frames, Mutations, Requests, Replies, SessionType, ThreadType, ActorType,
        NodeType, TypeOK, StoreInv
  <1>35. ASSUME Stop PROVE StoreInv'
    BY <1>35
    DEF clientVars, sentVars, FailAll, Stop, StoreInv
  <1>36. ASSUME NodeRefuses PROVE StoreInv'
    <2>1. replies \in Seq(Replies)
      BY DEF TypeOK, NodeType
    <2>2. PICK f \in Replies : replies' = Append(replies, f)
      BY <1>36, HeadOfPipe, NothingApplied, NodeKnown
      DEF NodeRefuses, Reply, Nothing, Replies, PFrames, Frames, Applied, Refused, Known, Mutations, Requests,
          TypeOK, NodeType
    <2>3. replies # <<>> => Head(replies') = Head(replies)
      BY <2>1, <2>2, AppendKeeps
    <2>4. replies' # <<>>
      BY <2>1, <2>2, AppendKeeps
    <2>5. QED
      BY <1>36, <2>3, <2>4 DEF NodeRefuses, StoreInv, actorVars
  <1>37. ASSUME NodeCreate PROVE StoreInv'
    <2>1. replies \in Seq(Replies)
      BY DEF TypeOK, NodeType
    <2>2. PICK f \in Replies : replies' = Append(replies, f)
      BY <1>37, HeadOfPipe, NothingApplied, NodeKnown
      DEF NodeCreate, Reply, Nothing, Replies, PFrames, Frames, Applied, Refused, Known, Mutations, Requests,
          TypeOK, NodeType
    <2>3. replies # <<>> => Head(replies') = Head(replies)
      BY <2>1, <2>2, AppendKeeps
    <2>4. replies' # <<>>
      BY <2>1, <2>2, AppendKeeps
    <2>5. QED
      BY <1>37, <2>3, <2>4 DEF NodeCreate, StoreInv, actorVars
  <1>38. ASSUME NodeWrite PROVE StoreInv'
    BY <1>38
    DEF stateVars, clientVars, sentVars, actorVars, NodeWrite, StoreInv
  <1>39. ASSUME NodeResize PROVE StoreInv'
    BY <1>39
    DEF stateVars, clientVars, sentVars, actorVars, NodeResize, StoreInv
  <1>40. ASSUME NodeSnapshot PROVE StoreInv'
    <2>1. replies \in Seq(Replies)
      BY DEF TypeOK, NodeType
    <2>2. PICK f \in Replies : replies' = Append(replies, f)
      BY <1>40, HeadOfPipe, NothingApplied, NodeKnown
      DEF NodeSnapshot, Reply, Nothing, Replies, PFrames, Frames, Applied, Refused, Known, Mutations, Requests,
          TypeOK, NodeType
    <2>3. replies # <<>> => Head(replies') = Head(replies)
      BY <2>1, <2>2, AppendKeeps
    <2>4. replies' # <<>>
      BY <2>1, <2>2, AppendKeeps
    <2>5. QED
      BY <1>40, <2>3, <2>4 DEF NodeSnapshot, StoreInv, actorVars
  <1>41. ASSUME NodeDispose PROVE StoreInv'
    <2>1. replies \in Seq(Replies)
      BY DEF TypeOK, NodeType
    <2>2. PICK f \in Replies : replies' = Append(replies, f)
      BY <1>41, HeadOfPipe, NothingApplied, NodeKnown
      DEF NodeDispose, Reply, Nothing, Replies, PFrames, Frames, Applied, Refused, Known, Mutations, Requests,
          TypeOK, NodeType
    <2>3. replies # <<>> => Head(replies') = Head(replies)
      BY <2>1, <2>2, AppendKeeps
    <2>4. replies' # <<>>
      BY <2>1, <2>2, AppendKeeps
    <2>5. QED
      BY <1>41, <2>3, <2>4 DEF NodeDispose, StoreInv, actorVars
  <1>42. CASE UNCHANGED vars
    BY <1>42
    DEF stateVars, clientVars, sentVars, actorVars, nodeVars, vars, StoreInv
  <1>43. QED
    BY <1>1, <1>2, <1>3, <1>4, <1>5, <1>6, <1>7, <1>8, <1>9, <1>10, <1>11, <1>12, <1>13,
       <1>14, <1>15, <1>16, <1>17, <1>18, <1>19, <1>20, <1>21, <1>22, <1>23, <1>24, <1>25,
       <1>26, <1>27, <1>28, <1>29, <1>30, <1>31, <1>32, <1>33, <1>34, <1>35, <1>36, <1>37,
       <1>38, <1>39, <1>40, <1>41, <1>42
    DEF Next, WriterRuns, DeleterRuns, ActorTakes, ActorGoesOn, Node

\* The actor always works for somebody.
LEMMA CurrentStep == TypeOK /\ CurrentInv /\ [Next]_vars => CurrentInv'
  <1> SUFFICES ASSUME TypeOK, CurrentInv, [Next]_vars PROVE CurrentInv'
    OBVIOUS
  <1>1. ASSUME NEW s \in Sessions, Create(s) PROVE CurrentInv'
    BY <1>1
    DEF clientVars, sentVars, actorVars, nodeVars, Create, CurrentInv
  <1>2. ASSUME NEW s \in Sessions, CreateFails(s) PROVE CurrentInv'
    BY <1>2
    DEF clientVars, sentVars, actorVars, nodeVars, FailAll, Fail, CreateFails, CurrentInv
  <1>3. ASSUME NEW s \in Sessions, WriteBegin(s) PROVE CurrentInv'
    BY <1>3
    DEF stateVars, sentVars, actorVars, nodeVars, Writer, WriteBegin, CurrentInv
  <1>4. ASSUME NEW s \in Sessions, NEW g \in Geometries, ResizeBegin(s, g) PROVE CurrentInv'
    BY <1>4
    DEF stateVars, sentVars, actorVars, nodeVars, Writer, ResizeBegin, CurrentInv
  <1>5. ASSUME NEW s \in Sessions, Dispose(s) PROVE CurrentInv'
    BY <1>5
    DEF sentVars, actorVars, nodeVars, Deleter, Dispose, CurrentInv
  <1>6. ASSUME NEW s \in Sessions, DisposeSkips(s) PROVE CurrentInv'
    BY <1>6
    DEF stateVars, sentVars, actorVars, nodeVars, Deleter, DisposeSkips, CurrentInv
  <1>7. ASSUME NEW s \in Sessions, Forget(s) PROVE CurrentInv'
    BY <1>7
    DEF stateVars, sentVars, actorVars, nodeVars, Deleter, Forget, CurrentInv
  <1>8. ASSUME NEW s \in Sessions, WriteSkips(s) PROVE CurrentInv'
    BY <1>8
    DEF stateVars, sentVars, actorVars, nodeVars, Writer, WriteSkips, CurrentInv
  <1>9. ASSUME NEW s \in Sessions, NEW i \in DOMAIN queue, WriteAppends(s, i) PROVE CurrentInv'
    BY <1>9
    DEF stateVars, sentVars, actorVars, nodeVars, Writer, WriteAppends, CurrentInv
  <1>10. ASSUME NEW s \in Sessions, WriteQueues(s) PROVE CurrentInv'
    BY <1>10
    DEF stateVars, sentVars, actorVars, nodeVars, Writer, WriteQueues, CurrentInv
  <1>11. ASSUME NEW s \in Sessions, WriteOverflows(s) PROVE CurrentInv'
    BY <1>11
    DEF stateVars, sentVars, actorVars, nodeVars, Writer, WriteOverflows, CurrentInv
  <1>12. ASSUME NEW s \in Sessions, WriterFails(s) PROVE CurrentInv'
    BY <1>12
    DEF sentVars, actorVars, nodeVars, FailAll, Fail, Writer, WriterFails, CurrentInv
  <1>13. ASSUME NEW s \in Sessions, ResizeClears(s) PROVE CurrentInv'
    BY <1>13
    DEF sentVars, actorVars, nodeVars, Writer, ResizeClears, CurrentInv
  <1>14. ASSUME NEW s \in Sessions, ResizeQueues(s) PROVE CurrentInv'
    BY <1>14
    DEF stateVars, sentVars, actorVars, nodeVars, Writer, ResizeQueues, CurrentInv
  <1>15. ASSUME NEW s \in Sessions, ResizeOverflows(s) PROVE CurrentInv'
    BY <1>15
    DEF stateVars, sentVars, actorVars, nodeVars, Writer, ResizeOverflows, CurrentInv
  <1>16. ASSUME NEW s \in Sessions, DisposeQueues(s) PROVE CurrentInv'
    BY <1>16
    DEF stateVars, sentVars, actorVars, nodeVars, Deleter, DisposeQueues, CurrentInv
  <1>17. ASSUME NEW s \in Sessions, DisposeOverflows(s) PROVE CurrentInv'
    BY <1>17
    DEF sentVars, actorVars, nodeVars, FailAll, Fail, Deleter, DisposeOverflows, CurrentInv
  <1>18. ASSUME NEW s \in Sessions, Clear(s) PROVE CurrentInv'
    BY <1>18
    DEF clientVars, sentVars, actorVars, nodeVars, Clear, CurrentInv
  <1>19. ASSUME NEW s \in Sessions, Snapshot(s) PROVE CurrentInv'
    BY <1>19
    DEF stateVars, clientVars, sentVars, Call, Snapshot, CurrentInv
  <1>20. ASSUME NEW s \in Sessions, CleanupNext(s) PROVE CurrentInv'
    BY <1>20
    DEF stateVars, clientVars, sentVars, Call, CleanupNext, CurrentInv
  <1>21. ASSUME TakeCreate PROVE CurrentInv'
    BY <1>21, HeadOfQueue
    DEF stateVars, clientVars, sentVars, CanProcess, Takes, Call, TakeCreate, Sizes,
        Applied, Frames, Mutations, Requests, Replies, SessionType, ThreadType, ActorType,
        NodeType, TypeOK, CurrentInv, QFrames
  <1>22. ASSUME TakeDispose PROVE CurrentInv'
    BY <1>22, HeadOfQueue
    DEF stateVars, clientVars, sentVars, CanProcess, Takes, Call, TakeDispose, Sizes,
        Applied, Frames, Mutations, Requests, Replies, SessionType, ThreadType, ActorType,
        NodeType, TypeOK, CurrentInv, QFrames
  <1>23. ASSUME SkipCommand PROVE CurrentInv'
    BY <1>23, HeadOfQueue
    DEF stateVars, clientVars, sentVars, nodeVars, BeginCleanup, SkipCommand, CurrentInv
  <1>24. ASSUME TakeMutation PROVE CurrentInv'
    BY <1>24, HeadOfQueue
    DEF stateVars, clientVars, BeginCleanup, TakeMutation, CurrentInv
  <1>25. ASSUME Created PROVE CurrentInv'
    BY <1>25
    DEF stateVars, clientVars, BeginCleanup, Created, CurrentInv
  <1>26. ASSUME Disposed PROVE CurrentInv'
    BY <1>26
    DEF clientVars, sentVars, BeginCleanup, Disposed, CurrentInv
  <1>27. ASSUME CommandRejected PROVE CurrentInv'
    BY <1>27
    DEF clientVars, sentVars, FailAll, Fail, BeginCleanup, CommandRejected, CurrentInv
  <1>28. ASSUME CleanedUp PROVE CurrentInv'
    BY <1>28
    DEF stateVars, clientVars, sentVars, CleanedUp, CurrentInv
  <1>29. ASSUME CleanupDone PROVE CurrentInv'
    BY <1>29
    DEF stateVars, clientVars, sentVars, nodeVars, CleanupDone, CurrentInv
  <1>30. ASSUME SnapshotReplied PROVE CurrentInv'
    BY <1>30
    DEF stateVars, clientVars, SnapshotReplied, CurrentInv
  <1>31. ASSUME SnapshotStored PROVE CurrentInv'
    BY <1>31
    DEF clientVars, sentVars, SnapshotStored, CurrentInv
  <1>32. ASSUME SnapshotRejected PROVE CurrentInv'
    BY <1>32
    DEF clientVars, sentVars, FailAll, Fail, SnapshotRejected, CurrentInv
  <1>33. ASSUME SnapshotPassDone PROVE CurrentInv'
    BY <1>33
    DEF stateVars, clientVars, sentVars, nodeVars, BeginCleanup, SnapshotPassDone,
        CurrentInv
  <1>34. ASSUME MutationError PROVE CurrentInv'
    BY <1>34
    DEF clientVars, sentVars, actorVars, FailAll, MutationError, CurrentInv
  <1>35. ASSUME Stop PROVE CurrentInv'
    BY <1>35
    DEF clientVars, sentVars, FailAll, Stop, CurrentInv
  <1>36. ASSUME NodeRefuses PROVE CurrentInv'
    BY <1>36
    DEF stateVars, clientVars, sentVars, actorVars, Reply, NodeRefuses, CurrentInv
  <1>37. ASSUME NodeCreate PROVE CurrentInv'
    BY <1>37
    DEF stateVars, clientVars, sentVars, actorVars, Reply, NodeCreate, CurrentInv
  <1>38. ASSUME NodeWrite PROVE CurrentInv'
    BY <1>38
    DEF stateVars, clientVars, sentVars, actorVars, NodeWrite, CurrentInv
  <1>39. ASSUME NodeResize PROVE CurrentInv'
    BY <1>39
    DEF stateVars, clientVars, sentVars, actorVars, NodeResize, CurrentInv
  <1>40. ASSUME NodeSnapshot PROVE CurrentInv'
    BY <1>40
    DEF stateVars, clientVars, sentVars, actorVars, Reply, NodeSnapshot, CurrentInv
  <1>41. ASSUME NodeDispose PROVE CurrentInv'
    BY <1>41
    DEF stateVars, clientVars, sentVars, actorVars, Reply, NodeDispose, CurrentInv
  <1>42. CASE UNCHANGED vars
    BY <1>42
    DEF stateVars, clientVars, sentVars, actorVars, nodeVars, vars, CurrentInv
  <1>43. QED
    BY <1>1, <1>2, <1>3, <1>4, <1>5, <1>6, <1>7, <1>8, <1>9, <1>10, <1>11, <1>12, <1>13,
       <1>14, <1>15, <1>16, <1>17, <1>18, <1>19, <1>20, <1>21, <1>22, <1>23, <1>24, <1>25,
       <1>26, <1>27, <1>28, <1>29, <1>30, <1>31, <1>32, <1>33, <1>34, <1>35, <1>36, <1>37,
       <1>38, <1>39, <1>40, <1>41, <1>42
    DEF Next, WriterRuns, DeleterRuns, ActorTakes, ActorGoesOn, Node

\* Snapshots.
LEMMA CacheStep == TypeOK /\ StoreInv /\ CurrentInv /\ CacheInv /\ [Next]_vars => CacheInv'
  <1> SUFFICES ASSUME TypeOK, StoreInv, CurrentInv, CacheInv, [Next]_vars PROVE CacheInv'
    OBVIOUS
  <1>1. ASSUME NEW s \in Sessions, Create(s) PROVE CacheInv'
    BY <1>1
    DEF clientVars, sentVars, actorVars, nodeVars, Active, Create, SessionType, TypeOK,
        DeadHoldsNoCache, CacheInv
  <1>2. ASSUME NEW s \in Sessions, CreateFails(s) PROVE CacheInv'
    BY <1>2
    DEF clientVars, sentVars, actorVars, nodeVars, Active, FailAll, Fail, CreateFails,
        SessionType, ThreadType, ActorType, NodeType, TypeOK, DeadHoldsNoCache, StoreInv,
        CurrentInv, CacheInv
  <1>3. ASSUME NEW s \in Sessions, WriteBegin(s) PROVE CacheInv'
    BY <1>3
    DEF stateVars, sentVars, actorVars, nodeVars, Active, Writer, WriteBegin, SessionType,
        TypeOK, DeadHoldsNoCache, CacheInv
  <1>4. ASSUME NEW s \in Sessions, NEW g \in Geometries, ResizeBegin(s, g) PROVE CacheInv'
    BY <1>4
    DEF stateVars, sentVars, actorVars, nodeVars, Active, Writer, ResizeBegin, SessionType,
        TypeOK, DeadHoldsNoCache, CacheInv
  <1>5. ASSUME NEW s \in Sessions, Dispose(s) PROVE CacheInv'
    BY <1>5
    DEF sentVars, actorVars, nodeVars, Active, Deleter, Dispose, SessionType, TypeOK,
        DeadHoldsNoCache, CacheInv
  <1>6. ASSUME NEW s \in Sessions, DisposeSkips(s) PROVE CacheInv'
    BY <1>6
    DEF stateVars, sentVars, actorVars, nodeVars, Active, Deleter, DisposeSkips,
        SessionType, TypeOK, DeadHoldsNoCache, CacheInv
  <1>7. ASSUME NEW s \in Sessions, Forget(s) PROVE CacheInv'
    BY <1>7
    DEF stateVars, sentVars, actorVars, nodeVars, Active, Deleter, Forget, SessionType,
        TypeOK, DeadHoldsNoCache, CacheInv
  <1>8. ASSUME NEW s \in Sessions, WriteSkips(s) PROVE CacheInv'
    BY <1>8
    DEF stateVars, sentVars, actorVars, nodeVars, Active, Writer, WriteSkips, SessionType,
        TypeOK, DeadHoldsNoCache, CacheInv
  <1>9. ASSUME NEW s \in Sessions, NEW i \in DOMAIN queue, WriteAppends(s, i) PROVE CacheInv'
    BY <1>9
    DEF stateVars, sentVars, actorVars, nodeVars, Active, Writer, WriteAppends, SessionType,
        TypeOK, DeadHoldsNoCache, CacheInv
  <1>10. ASSUME NEW s \in Sessions, WriteQueues(s) PROVE CacheInv'
    BY <1>10
    DEF stateVars, sentVars, actorVars, nodeVars, Active, Writer, WriteQueues, SessionType,
        TypeOK, DeadHoldsNoCache, CacheInv
  <1>11. ASSUME NEW s \in Sessions, WriteOverflows(s) PROVE CacheInv'
    BY <1>11
    DEF stateVars, sentVars, actorVars, nodeVars, Active, Writer, WriteOverflows,
        SessionType, TypeOK, DeadHoldsNoCache, CacheInv
  <1>12. ASSUME NEW s \in Sessions, WriterFails(s) PROVE CacheInv'
    BY <1>12
    DEF sentVars, actorVars, nodeVars, Active, FailAll, Fail, Writer, WriterFails,
        SessionType, ThreadType, ActorType, NodeType, TypeOK, DeadHoldsNoCache, StoreInv,
        CurrentInv, CacheInv
  <1>13. ASSUME NEW s \in Sessions, ResizeClears(s) PROVE CacheInv'
    BY <1>13
    DEF sentVars, actorVars, nodeVars, Active, Writer, ResizeClears, SessionType, TypeOK,
        DeadHoldsNoCache, CacheInv
  <1>14. ASSUME NEW s \in Sessions, ResizeQueues(s) PROVE CacheInv'
    BY <1>14
    DEF stateVars, sentVars, actorVars, nodeVars, Active, Writer, ResizeQueues, SessionType,
        TypeOK, DeadHoldsNoCache, CacheInv
  <1>15. ASSUME NEW s \in Sessions, ResizeOverflows(s) PROVE CacheInv'
    BY <1>15
    DEF stateVars, sentVars, actorVars, nodeVars, Active, Writer, ResizeOverflows,
        SessionType, TypeOK, DeadHoldsNoCache, CacheInv
  <1>16. ASSUME NEW s \in Sessions, DisposeQueues(s) PROVE CacheInv'
    BY <1>16
    DEF stateVars, sentVars, actorVars, nodeVars, Active, Deleter, DisposeQueues,
        SessionType, TypeOK, DeadHoldsNoCache, CacheInv
  <1>17. ASSUME NEW s \in Sessions, DisposeOverflows(s) PROVE CacheInv'
    BY <1>17
    DEF sentVars, actorVars, nodeVars, Active, FailAll, Fail, Deleter, DisposeOverflows,
        SessionType, ThreadType, ActorType, NodeType, TypeOK, DeadHoldsNoCache, StoreInv,
        CurrentInv, CacheInv
  <1>18. ASSUME NEW s \in Sessions, Clear(s) PROVE CacheInv'
    BY <1>18
    DEF clientVars, sentVars, actorVars, nodeVars, Active, Locked, Clear, SessionType,
        ThreadType, ActorType, NodeType, TypeOK, DeadHoldsNoCache, StoreInv, CurrentInv,
        CacheInv
  <1>19. ASSUME NEW s \in Sessions, Snapshot(s) PROVE CacheInv'
    BY <1>19
    DEF stateVars, clientVars, sentVars, Active, Call, Snapshot, SessionType, TypeOK,
        DeadHoldsNoCache, CacheInv
  <1>20. ASSUME NEW s \in Sessions, CleanupNext(s) PROVE CacheInv'
    BY <1>20
    DEF stateVars, clientVars, sentVars, Active, Call, CleanupNext, SessionType, TypeOK,
        DeadHoldsNoCache, CacheInv
  <1>21. ASSUME TakeCreate PROVE CacheInv'
    BY <1>21
    DEF stateVars, clientVars, sentVars, Active, Call, TakeCreate, SessionType, TypeOK,
        DeadHoldsNoCache, CacheInv
  <1>22. ASSUME TakeDispose PROVE CacheInv'
    BY <1>22
    DEF stateVars, clientVars, sentVars, Active, Call, TakeDispose, SessionType, TypeOK,
        DeadHoldsNoCache, CacheInv
  <1>23. ASSUME SkipCommand PROVE CacheInv'
    BY <1>23
    DEF stateVars, clientVars, sentVars, nodeVars, Active, BeginCleanup, SkipCommand,
        SessionType, TypeOK, DeadHoldsNoCache, CacheInv
  <1>24. ASSUME TakeMutation PROVE CacheInv'
    BY <1>24
    DEF stateVars, clientVars, Active, BeginCleanup, TakeMutation, SessionType, TypeOK,
        DeadHoldsNoCache, CacheInv
  <1>25. ASSUME Created PROVE CacheInv'
    BY <1>25
    DEF stateVars, clientVars, Active, BeginCleanup, Created, SessionType, TypeOK,
        DeadHoldsNoCache, CacheInv
  <1>26. ASSUME Disposed PROVE CacheInv'
    BY <1>26
    DEF clientVars, sentVars, Active, BeginCleanup, Disposed, SessionType, TypeOK,
        DeadHoldsNoCache, CacheInv
  <1>27. ASSUME CommandRejected PROVE CacheInv'
    BY <1>27
    DEF clientVars, sentVars, Active, FailAll, Fail, BeginCleanup, CommandRejected,
        SessionType, TypeOK, DeadHoldsNoCache, CacheInv
  <1>28. ASSUME CleanedUp PROVE CacheInv'
    BY <1>28
    DEF stateVars, clientVars, sentVars, Active, CleanedUp, SessionType, TypeOK,
        DeadHoldsNoCache, CacheInv
  <1>29. ASSUME CleanupDone PROVE CacheInv'
    BY <1>29
    DEF stateVars, clientVars, sentVars, nodeVars, Active, CleanupDone, SessionType, TypeOK,
        DeadHoldsNoCache, CacheInv
  <1>30. ASSUME SnapshotReplied PROVE CacheInv'
    BY <1>30
    DEF stateVars, clientVars, Active, Replied, Storable, SnapshotReplied, SessionType,
        ThreadType, ActorType, NodeType, TypeOK, DeadHoldsNoCache, StoreInv, CurrentInv,
        CacheInv
  <1>31. ASSUME SnapshotStored PROVE CacheInv'
    BY <1>31
    DEF clientVars, sentVars, Active, SnapshotStored, SessionType, TypeOK, DeadHoldsNoCache,
        CacheInv
  <1>32. ASSUME SnapshotRejected PROVE CacheInv'
    BY <1>32
    DEF clientVars, sentVars, Active, FailAll, Fail, SnapshotRejected, SessionType, TypeOK,
        DeadHoldsNoCache, CacheInv
  <1>33. ASSUME SnapshotPassDone PROVE CacheInv'
    BY <1>33
    DEF stateVars, clientVars, sentVars, nodeVars, Active, BeginCleanup, SnapshotPassDone,
        SessionType, TypeOK, DeadHoldsNoCache, CacheInv
  <1>34. ASSUME MutationError PROVE CacheInv'
    BY <1>34
    DEF clientVars, sentVars, actorVars, Active, FailAll, Queued, Held, MutationError,
        SessionType, ThreadType, ActorType, NodeType, TypeOK, DeadHoldsNoCache, StoreInv,
        CurrentInv, CacheInv
  <1>35. ASSUME Stop PROVE CacheInv'
    BY <1>35
    DEF clientVars, sentVars, Active, FailAll, Stop, SessionType, TypeOK, DeadHoldsNoCache,
        CacheInv
  <1>36. ASSUME NodeRefuses PROVE CacheInv'
    BY <1>36
    DEF stateVars, clientVars, sentVars, actorVars, Active, Reply, NodeRefuses, SessionType,
        TypeOK, DeadHoldsNoCache, CacheInv
  <1>37. ASSUME NodeCreate PROVE CacheInv'
    BY <1>37
    DEF stateVars, clientVars, sentVars, actorVars, Active, Reply, NodeCreate, SessionType,
        TypeOK, DeadHoldsNoCache, CacheInv
  <1>38. ASSUME NodeWrite PROVE CacheInv'
    BY <1>38
    DEF stateVars, clientVars, sentVars, actorVars, Active, NodeWrite, SessionType, TypeOK,
        DeadHoldsNoCache, CacheInv
  <1>39. ASSUME NodeResize PROVE CacheInv'
    BY <1>39
    DEF stateVars, clientVars, sentVars, actorVars, Active, NodeResize, SessionType, TypeOK,
        DeadHoldsNoCache, CacheInv
  <1>40. ASSUME NodeSnapshot PROVE CacheInv'
    BY <1>40
    DEF stateVars, clientVars, sentVars, actorVars, Active, Reply, NodeSnapshot,
        SessionType, TypeOK, DeadHoldsNoCache, CacheInv
  <1>41. ASSUME NodeDispose PROVE CacheInv'
    BY <1>41
    DEF stateVars, clientVars, sentVars, actorVars, Active, Reply, NodeDispose, SessionType,
        TypeOK, DeadHoldsNoCache, CacheInv
  <1>42. CASE UNCHANGED vars
    BY <1>42
    DEF stateVars, clientVars, sentVars, actorVars, nodeVars, vars, Active, SessionType,
        TypeOK, DeadHoldsNoCache, CacheInv
  <1>43. QED
    BY <1>1, <1>2, <1>3, <1>4, <1>5, <1>6, <1>7, <1>8, <1>9, <1>10, <1>11, <1>12, <1>13,
       <1>14, <1>15, <1>16, <1>17, <1>18, <1>19, <1>20, <1>21, <1>22, <1>23, <1>24, <1>25,
       <1>26, <1>27, <1>28, <1>29, <1>30, <1>31, <1>32, <1>33, <1>34, <1>35, <1>36, <1>37,
       <1>38, <1>39, <1>40, <1>41, <1>42
    DEF Next, WriterRuns, DeleterRuns, ActorTakes, ActorGoesOn, Node

\* Handles.
LEMMA HandleStep == TypeOK /\ HandleInv /\ [Next]_vars => HandleInv'
  <1> SUFFICES ASSUME TypeOK, HandleInv, [Next]_vars PROVE HandleInv'
    OBVIOUS
  <1>1. ASSUME NEW s \in Sessions, Create(s) PROVE HandleInv'
    BY <1>1
    DEF clientVars, sentVars, actorVars, nodeVars, Create, SessionType, ThreadType, TypeOK,
        HandleInv
  <1>2. ASSUME NEW s \in Sessions, CreateFails(s) PROVE HandleInv'
    BY <1>2
    DEF clientVars, sentVars, actorVars, nodeVars, FailAll, Fail, CreateFails, SessionType,
        ThreadType, TypeOK, HandleInv
  <1>3. ASSUME NEW s \in Sessions, WriteBegin(s) PROVE HandleInv'
    BY <1>3
    DEF stateVars, sentVars, actorVars, nodeVars, Writer, WriteBegin, SessionType,
        ThreadType, TypeOK, HandleInv
  <1>4. ASSUME NEW s \in Sessions, NEW g \in Geometries, ResizeBegin(s, g) PROVE HandleInv'
    BY <1>4
    DEF stateVars, sentVars, actorVars, nodeVars, Writer, ResizeBegin, SessionType,
        ThreadType, TypeOK, HandleInv
  <1>5. ASSUME NEW s \in Sessions, Dispose(s) PROVE HandleInv'
    BY <1>5
    DEF sentVars, actorVars, nodeVars, Deleter, Dispose, SessionType, ThreadType, TypeOK,
        HandleInv
  <1>6. ASSUME NEW s \in Sessions, DisposeSkips(s) PROVE HandleInv'
    BY <1>6
    DEF stateVars, sentVars, actorVars, nodeVars, Deleter, DisposeSkips, SessionType,
        ThreadType, TypeOK, HandleInv
  <1>7. ASSUME NEW s \in Sessions, Forget(s) PROVE HandleInv'
    BY <1>7
    DEF stateVars, sentVars, actorVars, nodeVars, Deleter, Forget, SessionType, ThreadType,
        TypeOK, HandleInv
  <1>8. ASSUME NEW s \in Sessions, WriteSkips(s) PROVE HandleInv'
    BY <1>8
    DEF stateVars, sentVars, actorVars, nodeVars, Writer, WriteSkips, SessionType,
        ThreadType, TypeOK, HandleInv
  <1>9. ASSUME NEW s \in Sessions, NEW i \in DOMAIN queue, WriteAppends(s, i) PROVE HandleInv'
    BY <1>9
    DEF stateVars, sentVars, actorVars, nodeVars, Writer, WriteAppends, SessionType,
        ThreadType, TypeOK, HandleInv
  <1>10. ASSUME NEW s \in Sessions, WriteQueues(s) PROVE HandleInv'
    BY <1>10
    DEF stateVars, sentVars, actorVars, nodeVars, Writer, WriteQueues, SessionType,
        ThreadType, TypeOK, HandleInv
  <1>11. ASSUME NEW s \in Sessions, WriteOverflows(s) PROVE HandleInv'
    BY <1>11
    DEF stateVars, sentVars, actorVars, nodeVars, Writer, WriteOverflows, SessionType,
        ThreadType, TypeOK, HandleInv
  <1>12. ASSUME NEW s \in Sessions, WriterFails(s) PROVE HandleInv'
    BY <1>12
    DEF sentVars, actorVars, nodeVars, FailAll, Fail, Writer, WriterFails, SessionType,
        ThreadType, TypeOK, HandleInv
  <1>13. ASSUME NEW s \in Sessions, ResizeClears(s) PROVE HandleInv'
    BY <1>13
    DEF sentVars, actorVars, nodeVars, Writer, ResizeClears, SessionType, ThreadType,
        TypeOK, HandleInv
  <1>14. ASSUME NEW s \in Sessions, ResizeQueues(s) PROVE HandleInv'
    BY <1>14
    DEF stateVars, sentVars, actorVars, nodeVars, Writer, ResizeQueues, SessionType,
        ThreadType, TypeOK, HandleInv
  <1>15. ASSUME NEW s \in Sessions, ResizeOverflows(s) PROVE HandleInv'
    BY <1>15
    DEF stateVars, sentVars, actorVars, nodeVars, Writer, ResizeOverflows, SessionType,
        ThreadType, TypeOK, HandleInv
  <1>16. ASSUME NEW s \in Sessions, DisposeQueues(s) PROVE HandleInv'
    BY <1>16
    DEF stateVars, sentVars, actorVars, nodeVars, Deleter, DisposeQueues, SessionType,
        ThreadType, TypeOK, HandleInv
  <1>17. ASSUME NEW s \in Sessions, DisposeOverflows(s) PROVE HandleInv'
    BY <1>17
    DEF sentVars, actorVars, nodeVars, FailAll, Fail, Deleter, DisposeOverflows,
        SessionType, ThreadType, TypeOK, HandleInv
  <1>18. ASSUME NEW s \in Sessions, Clear(s) PROVE HandleInv'
    BY <1>18
    DEF clientVars, sentVars, actorVars, nodeVars, Clear, SessionType, ThreadType, TypeOK,
        HandleInv
  <1>19. ASSUME NEW s \in Sessions, Snapshot(s) PROVE HandleInv'
    BY <1>19
    DEF stateVars, clientVars, sentVars, Call, Snapshot, SessionType, ThreadType, TypeOK,
        HandleInv
  <1>20. ASSUME NEW s \in Sessions, CleanupNext(s) PROVE HandleInv'
    BY <1>20
    DEF stateVars, clientVars, sentVars, Call, CleanupNext, SessionType, ThreadType, TypeOK,
        HandleInv
  <1>21. ASSUME TakeCreate PROVE HandleInv'
    BY <1>21
    DEF stateVars, clientVars, sentVars, Call, TakeCreate, SessionType, ThreadType, TypeOK,
        HandleInv
  <1>22. ASSUME TakeDispose PROVE HandleInv'
    BY <1>22
    DEF stateVars, clientVars, sentVars, Call, TakeDispose, SessionType, ThreadType, TypeOK,
        HandleInv
  <1>23. ASSUME SkipCommand PROVE HandleInv'
    BY <1>23
    DEF stateVars, clientVars, sentVars, nodeVars, BeginCleanup, SkipCommand, SessionType,
        ThreadType, TypeOK, HandleInv
  <1>24. ASSUME TakeMutation PROVE HandleInv'
    BY <1>24
    DEF stateVars, clientVars, BeginCleanup, TakeMutation, SessionType, ThreadType, TypeOK,
        HandleInv
  <1>25. ASSUME Created PROVE HandleInv'
    BY <1>25
    DEF stateVars, clientVars, BeginCleanup, Created, SessionType, ThreadType, TypeOK,
        HandleInv
  <1>26. ASSUME Disposed PROVE HandleInv'
    BY <1>26
    DEF clientVars, sentVars, BeginCleanup, Disposed, SessionType, ThreadType, TypeOK,
        HandleInv
  <1>27. ASSUME CommandRejected PROVE HandleInv'
    BY <1>27
    DEF clientVars, sentVars, FailAll, Fail, BeginCleanup, CommandRejected, SessionType,
        ThreadType, TypeOK, HandleInv
  <1>28. ASSUME CleanedUp PROVE HandleInv'
    BY <1>28
    DEF stateVars, clientVars, sentVars, CleanedUp, SessionType, ThreadType, TypeOK,
        HandleInv
  <1>29. ASSUME CleanupDone PROVE HandleInv'
    BY <1>29
    DEF stateVars, clientVars, sentVars, nodeVars, CleanupDone, SessionType, ThreadType,
        TypeOK, HandleInv
  <1>30. ASSUME SnapshotReplied PROVE HandleInv'
    BY <1>30
    DEF stateVars, clientVars, SnapshotReplied, SessionType, ThreadType, TypeOK, HandleInv
  <1>31. ASSUME SnapshotStored PROVE HandleInv'
    BY <1>31
    DEF clientVars, sentVars, SnapshotStored, SessionType, ThreadType, TypeOK, HandleInv
  <1>32. ASSUME SnapshotRejected PROVE HandleInv'
    BY <1>32
    DEF clientVars, sentVars, FailAll, Fail, SnapshotRejected, SessionType, ThreadType,
        TypeOK, HandleInv
  <1>33. ASSUME SnapshotPassDone PROVE HandleInv'
    BY <1>33
    DEF stateVars, clientVars, sentVars, nodeVars, BeginCleanup, SnapshotPassDone,
        SessionType, ThreadType, TypeOK, HandleInv
  <1>34. ASSUME MutationError PROVE HandleInv'
    BY <1>34
    DEF clientVars, sentVars, actorVars, FailAll, MutationError, SessionType, ThreadType,
        TypeOK, HandleInv
  <1>35. ASSUME Stop PROVE HandleInv'
    BY <1>35
    DEF clientVars, sentVars, FailAll, Stop, SessionType, ThreadType, TypeOK, HandleInv
  <1>36. ASSUME NodeRefuses PROVE HandleInv'
    BY <1>36
    DEF stateVars, clientVars, sentVars, actorVars, Reply, NodeRefuses, SessionType,
        ThreadType, TypeOK, HandleInv
  <1>37. ASSUME NodeCreate PROVE HandleInv'
    BY <1>37
    DEF stateVars, clientVars, sentVars, actorVars, Reply, NodeCreate, SessionType,
        ThreadType, TypeOK, HandleInv
  <1>38. ASSUME NodeWrite PROVE HandleInv'
    BY <1>38
    DEF stateVars, clientVars, sentVars, actorVars, NodeWrite, SessionType, ThreadType,
        TypeOK, HandleInv
  <1>39. ASSUME NodeResize PROVE HandleInv'
    BY <1>39
    DEF stateVars, clientVars, sentVars, actorVars, NodeResize, SessionType, ThreadType,
        TypeOK, HandleInv
  <1>40. ASSUME NodeSnapshot PROVE HandleInv'
    BY <1>40
    DEF stateVars, clientVars, sentVars, actorVars, Reply, NodeSnapshot, SessionType,
        ThreadType, TypeOK, HandleInv
  <1>41. ASSUME NodeDispose PROVE HandleInv'
    BY <1>41
    DEF stateVars, clientVars, sentVars, actorVars, Reply, NodeDispose, SessionType,
        ThreadType, TypeOK, HandleInv
  <1>42. CASE UNCHANGED vars
    BY <1>42
    DEF stateVars, clientVars, sentVars, actorVars, nodeVars, vars, SessionType, ThreadType,
        TypeOK, HandleInv
  <1>43. QED
    BY <1>1, <1>2, <1>3, <1>4, <1>5, <1>6, <1>7, <1>8, <1>9, <1>10, <1>11, <1>12, <1>13,
       <1>14, <1>15, <1>16, <1>17, <1>18, <1>19, <1>20, <1>21, <1>22, <1>23, <1>24, <1>25,
       <1>26, <1>27, <1>28, <1>29, <1>30, <1>31, <1>32, <1>33, <1>34, <1>35, <1>36, <1>37,
       <1>38, <1>39, <1>40, <1>41, <1>42
    DEF Next, WriterRuns, DeleterRuns, ActorTakes, ActorGoesOn, Node

\* What the actor cleans up.
LEMMA EndedStep == TypeOK /\ CurrentInv /\ EndedInv /\ [Next]_vars => EndedInv'
  <1> SUFFICES ASSUME TypeOK, CurrentInv, EndedInv, [Next]_vars PROVE EndedInv'
    OBVIOUS
  <1>1. ASSUME NEW s \in Sessions, Create(s) PROVE EndedInv'
    BY <1>1
    DEF clientVars, sentVars, actorVars, nodeVars, Create, SessionType, TypeOK, EndedInv
  <1>2. ASSUME NEW s \in Sessions, CreateFails(s) PROVE EndedInv'
    BY <1>2
    DEF clientVars, sentVars, actorVars, nodeVars, FailAll, Fail, CreateFails, SessionType,
        ThreadType, ActorType, NodeType, TypeOK, CurrentInv, EndedInv
  <1>3. ASSUME NEW s \in Sessions, WriteBegin(s) PROVE EndedInv'
    BY <1>3
    DEF stateVars, sentVars, actorVars, nodeVars, Writer, WriteBegin, SessionType, TypeOK,
        EndedInv
  <1>4. ASSUME NEW s \in Sessions, NEW g \in Geometries, ResizeBegin(s, g) PROVE EndedInv'
    BY <1>4
    DEF stateVars, sentVars, actorVars, nodeVars, Writer, ResizeBegin, SessionType, TypeOK,
        EndedInv
  <1>5. ASSUME NEW s \in Sessions, Dispose(s) PROVE EndedInv'
    BY <1>5
    DEF sentVars, actorVars, nodeVars, Active, Deleter, Dispose, SessionType, ThreadType,
        ActorType, NodeType, TypeOK, CurrentInv, EndedInv
  <1>6. ASSUME NEW s \in Sessions, DisposeSkips(s) PROVE EndedInv'
    BY <1>6
    DEF stateVars, sentVars, actorVars, nodeVars, Deleter, DisposeSkips, SessionType,
        TypeOK, EndedInv
  <1>7. ASSUME NEW s \in Sessions, Forget(s) PROVE EndedInv'
    BY <1>7
    DEF stateVars, sentVars, actorVars, nodeVars, Deleter, Forget, SessionType, TypeOK,
        EndedInv
  <1>8. ASSUME NEW s \in Sessions, WriteSkips(s) PROVE EndedInv'
    BY <1>8
    DEF stateVars, sentVars, actorVars, nodeVars, Writer, WriteSkips, SessionType, TypeOK,
        EndedInv
  <1>9. ASSUME NEW s \in Sessions, NEW i \in DOMAIN queue, WriteAppends(s, i) PROVE EndedInv'
    BY <1>9
    DEF stateVars, sentVars, actorVars, nodeVars, Writer, WriteAppends, SessionType, TypeOK,
        EndedInv
  <1>10. ASSUME NEW s \in Sessions, WriteQueues(s) PROVE EndedInv'
    BY <1>10
    DEF stateVars, sentVars, actorVars, nodeVars, Writer, WriteQueues, SessionType, TypeOK,
        EndedInv
  <1>11. ASSUME NEW s \in Sessions, WriteOverflows(s) PROVE EndedInv'
    BY <1>11
    DEF stateVars, sentVars, actorVars, nodeVars, Writer, WriteOverflows, SessionType,
        TypeOK, EndedInv
  <1>12. ASSUME NEW s \in Sessions, WriterFails(s) PROVE EndedInv'
    BY <1>12
    DEF sentVars, actorVars, nodeVars, FailAll, Fail, Writer, WriterFails, SessionType,
        ThreadType, ActorType, NodeType, TypeOK, CurrentInv, EndedInv
  <1>13. ASSUME NEW s \in Sessions, ResizeClears(s) PROVE EndedInv'
    BY <1>13
    DEF sentVars, actorVars, nodeVars, Writer, ResizeClears, SessionType, TypeOK, EndedInv
  <1>14. ASSUME NEW s \in Sessions, ResizeQueues(s) PROVE EndedInv'
    BY <1>14
    DEF stateVars, sentVars, actorVars, nodeVars, Writer, ResizeQueues, SessionType, TypeOK,
        EndedInv
  <1>15. ASSUME NEW s \in Sessions, ResizeOverflows(s) PROVE EndedInv'
    BY <1>15
    DEF stateVars, sentVars, actorVars, nodeVars, Writer, ResizeOverflows, SessionType,
        TypeOK, EndedInv
  <1>16. ASSUME NEW s \in Sessions, DisposeQueues(s) PROVE EndedInv'
    BY <1>16
    DEF stateVars, sentVars, actorVars, nodeVars, Deleter, DisposeQueues, SessionType,
        TypeOK, EndedInv
  <1>17. ASSUME NEW s \in Sessions, DisposeOverflows(s) PROVE EndedInv'
    BY <1>17
    DEF sentVars, actorVars, nodeVars, FailAll, Fail, Deleter, DisposeOverflows,
        SessionType, ThreadType, ActorType, NodeType, TypeOK, CurrentInv, EndedInv
  <1>18. ASSUME NEW s \in Sessions, Clear(s) PROVE EndedInv'
    BY <1>18
    DEF clientVars, sentVars, actorVars, nodeVars, Clear, SessionType, TypeOK, EndedInv
  <1>19. ASSUME NEW s \in Sessions, Snapshot(s) PROVE EndedInv'
    BY <1>19
    DEF stateVars, clientVars, sentVars, Call, Snapshot, SessionType, TypeOK, EndedInv
  <1>20. ASSUME NEW s \in Sessions, CleanupNext(s) PROVE EndedInv'
    BY <1>20
    DEF stateVars, clientVars, sentVars, Call, CleanupNext, SessionType, TypeOK, EndedInv
  <1>21. ASSUME TakeCreate PROVE EndedInv'
    BY <1>21
    DEF stateVars, clientVars, sentVars, Call, TakeCreate, SessionType, TypeOK, EndedInv
  <1>22. ASSUME TakeDispose PROVE EndedInv'
    BY <1>22
    DEF stateVars, clientVars, sentVars, Call, TakeDispose, SessionType, TypeOK, EndedInv
  <1>23. ASSUME SkipCommand PROVE EndedInv'
    BY <1>23
    DEF stateVars, clientVars, sentVars, nodeVars, BeginCleanup, SkipCommand, SessionType,
        TypeOK, EndedInv
  <1>24. ASSUME TakeMutation PROVE EndedInv'
    BY <1>24
    DEF stateVars, clientVars, BeginCleanup, TakeMutation, SessionType, TypeOK, EndedInv
  <1>25. ASSUME Created PROVE EndedInv'
    BY <1>25
    DEF stateVars, clientVars, BeginCleanup, Created, SessionType, TypeOK, EndedInv
  <1>26. ASSUME Disposed PROVE EndedInv'
    BY <1>26
    DEF clientVars, sentVars, BeginCleanup, Disposed, SessionType, TypeOK, EndedInv
  <1>27. ASSUME CommandRejected PROVE EndedInv'
    BY <1>27
    DEF clientVars, sentVars, FailAll, Fail, BeginCleanup, CommandRejected, SessionType,
        TypeOK, EndedInv
  <1>28. ASSUME CleanedUp PROVE EndedInv'
    BY <1>28
    DEF stateVars, clientVars, sentVars, CleanedUp, SessionType, TypeOK, EndedInv
  <1>29. ASSUME CleanupDone PROVE EndedInv'
    BY <1>29
    DEF stateVars, clientVars, sentVars, nodeVars, CleanupDone, SessionType, TypeOK,
        EndedInv
  <1>30. ASSUME SnapshotReplied PROVE EndedInv'
    BY <1>30
    DEF stateVars, clientVars, SnapshotReplied, SessionType, TypeOK, EndedInv
  <1>31. ASSUME SnapshotStored PROVE EndedInv'
    BY <1>31
    DEF clientVars, sentVars, SnapshotStored, SessionType, TypeOK, EndedInv
  <1>32. ASSUME SnapshotRejected PROVE EndedInv'
    BY <1>32
    DEF clientVars, sentVars, FailAll, Fail, Replied, SnapshotRejected, SessionType,
        ThreadType, ActorType, NodeType, TypeOK, CurrentInv, EndedInv
  <1>33. ASSUME SnapshotPassDone PROVE EndedInv'
    BY <1>33
    DEF stateVars, clientVars, sentVars, nodeVars, BeginCleanup, SnapshotPassDone,
        SessionType, TypeOK, EndedInv
  <1>34. ASSUME MutationError PROVE EndedInv'
    BY <1>34
    DEF clientVars, sentVars, actorVars, FailAll, Queued, Held, MutationError, SessionType,
        ThreadType, ActorType, NodeType, TypeOK, CurrentInv, EndedInv
  <1>35. ASSUME Stop PROVE EndedInv'
    BY <1>35
    DEF clientVars, sentVars, FailAll, Queued, Held, Stop, SessionType, ThreadType,
        ActorType, NodeType, TypeOK, CurrentInv, EndedInv
  <1>36. ASSUME NodeRefuses PROVE EndedInv'
    BY <1>36
    DEF stateVars, clientVars, sentVars, actorVars, Reply, NodeRefuses, SessionType, TypeOK,
        EndedInv
  <1>37. ASSUME NodeCreate PROVE EndedInv'
    BY <1>37
    DEF stateVars, clientVars, sentVars, actorVars, Reply, NodeCreate, SessionType, TypeOK,
        EndedInv
  <1>38. ASSUME NodeWrite PROVE EndedInv'
    BY <1>38
    DEF stateVars, clientVars, sentVars, actorVars, NodeWrite, SessionType, TypeOK, EndedInv
  <1>39. ASSUME NodeResize PROVE EndedInv'
    BY <1>39
    DEF stateVars, clientVars, sentVars, actorVars, NodeResize, SessionType, TypeOK,
        EndedInv
  <1>40. ASSUME NodeSnapshot PROVE EndedInv'
    BY <1>40
    DEF stateVars, clientVars, sentVars, actorVars, Reply, NodeSnapshot, SessionType,
        TypeOK, EndedInv
  <1>41. ASSUME NodeDispose PROVE EndedInv'
    BY <1>41
    DEF stateVars, clientVars, sentVars, actorVars, Reply, NodeDispose, SessionType, TypeOK,
        EndedInv
  <1>42. CASE UNCHANGED vars
    BY <1>42
    DEF stateVars, clientVars, sentVars, actorVars, nodeVars, vars, SessionType, TypeOK,
        EndedInv
  <1>43. QED
    BY <1>1, <1>2, <1>3, <1>4, <1>5, <1>6, <1>7, <1>8, <1>9, <1>10, <1>11, <1>12, <1>13,
       <1>14, <1>15, <1>16, <1>17, <1>18, <1>19, <1>20, <1>21, <1>22, <1>23, <1>24, <1>25,
       <1>26, <1>27, <1>28, <1>29, <1>30, <1>31, <1>32, <1>33, <1>34, <1>35, <1>36, <1>37,
       <1>38, <1>39, <1>40, <1>41, <1>42
    DEF Next, WriterRuns, DeleterRuns, ActorTakes, ActorGoesOn, Node


\* A create in the queue stays there until it is taken.
LEMMA AppendKeepsCreate ==
    ASSUME TypeOK, NEW f \in QFrames, queue' = Append(queue, f), NEW s
    PROVE  /\ CreateQueued(s) => CreateQueued(s)'
           /\ f.s = s /\ f.op = "create" => CreateQueued(s)'
  <1>1. /\ queue \in Seq(QFrames) /\ DOMAIN queue = 1..Len(queue)
        /\ queue' \in Seq(QFrames) /\ DOMAIN queue' = 1..Len(queue')
    BY AppendKeeps, LenProperties DEF TypeOK, ActorType, QFrames
  <1>2. \A i \in 1..Len(queue) : queue'[i] = queue[i] /\ i \in 1..Len(queue')
    BY <1>1, AppendKeeps
  <1>3. queue'[Len(queue) + 1] = f /\ Len(queue) + 1 \in 1..Len(queue')
    BY <1>1, AppendKeeps
  <1>4. QED
    BY <1>1, <1>2, <1>3 DEF CreateQueued

LEMMA ExtendKeepsCreate ==
    ASSUME TypeOK, NEW i \in DOMAIN queue, queue' = [queue EXCEPT ![i].upto = @ + 1], NEW s
    PROVE  CreateQueued(s) => CreateQueued(s)'
  <1>1. DOMAIN queue' = DOMAIN queue
    OBVIOUS
  <1>2. ASSUME NEW j \in DOMAIN queue PROVE queue'[j].s = queue[j].s /\ queue'[j].op = queue[j].op
    <2>1. queue[j] \in QFrames /\ queue[i] \in QFrames
      BY LenProperties, ElementOfSeq DEF TypeOK, ActorType, QFrames
    <2>2. QED
      BY <2>1 DEF QFrames, Frames
  <1>3. QED
    BY <1>1, <1>2 DEF CreateQueued

LEMMA TailKeepsCreate ==
    ASSUME TypeOK, queue # <<>>, queue' = Tail(queue), NEW s, CreateQueued(s)
    PROVE  CreateQueued(s)' \/ (Head(queue).s = s /\ Head(queue).op = "create")
  <1>1. /\ queue \in Seq(QFrames) /\ DOMAIN queue = 1..Len(queue)
        /\ queue' \in Seq(QFrames) /\ DOMAIN queue' = 1..Len(queue')
    BY TailKeeps, LenProperties DEF TypeOK, ActorType, QFrames
  <1>2. PICK i \in 1..Len(queue) : queue[i].s = s /\ queue[i].op = "create"
    BY <1>1 DEF CreateQueued
  <1>3. CASE i = 1
    BY <1>1, <1>2, <1>3, TailKeeps
  <1>4. CASE i # 1
    <2>1. i - 1 \in 1..Len(queue') /\ queue'[i - 1] = queue[i]
      BY <1>1, <1>4, TailKeeps
    <2>2. QED
      BY <1>1, <1>2, <2>1 DEF CreateQueued
  <1>5. QED
    BY <1>3, <1>4

LEMMA SameQueueKeepsCreate == queue' = queue => \A s : CreateQueued(s)' = CreateQueued(s)
  BY DEF CreateQueued

\* Sessions that work.
LEMMA TrackedStep == TypeOK /\ SizeInv /\ CurrentInv /\ HandleInv /\ EndedInv /\ TrackedInv /\ [Next]_vars => TrackedInv'
  <1> SUFFICES ASSUME TypeOK, SizeInv, CurrentInv, HandleInv, EndedInv, TrackedInv, [Next]_vars PROVE TrackedInv'
    OBVIOUS
  <1>1. ASSUME NEW s \in Sessions, Create(s) PROVE TrackedInv'
    <2>1. Command(s, "create") \in QFrames
      BY DEF Command, QFrames, Frames, TypeOK, ThreadType, Mutations
    <2>2. \A t \in Sessions : CreateQueued(t) => CreateQueued(t)'
      BY <1>1, <2>1, AppendKeepsCreate DEF Create
    <2>3. CreateQueued(s)'
      BY <1>1, <2>1, AppendKeepsCreate DEF Create, Command
    <2>4. QED
      BY <1>1, <2>2, <2>3
      DEF Create, HasRoom, TrackedInv, StoppedMeansRaw, Active, actorVars, stateVars, TypeOK, SessionType
  <1>2. ASSUME NEW s \in Sessions, CreateFails(s) PROVE TrackedInv'
    BY <1>2, SameQueueKeepsCreate
    DEF clientVars, sentVars, actorVars, nodeVars, Active, FailAll, Fail, CreateFails,
        SessionType, TypeOK, StoppedMeansRaw, TrackedInv
  <1>3. ASSUME NEW s \in Sessions, WriteBegin(s) PROVE TrackedInv'
    BY <1>3, SameQueueKeepsCreate
    DEF stateVars, sentVars, actorVars, nodeVars, Active, Writer, WriteBegin, SessionType,
        TypeOK, StoppedMeansRaw, TrackedInv
  <1>4. ASSUME NEW s \in Sessions, NEW g \in Geometries, ResizeBegin(s, g) PROVE TrackedInv'
    BY <1>4, SameQueueKeepsCreate
    DEF stateVars, sentVars, actorVars, nodeVars, Active, Writer, ResizeBegin, SessionType,
        TypeOK, StoppedMeansRaw, TrackedInv
  <1>5. ASSUME NEW s \in Sessions, Dispose(s) PROVE TrackedInv'
    BY <1>5, SameQueueKeepsCreate
    DEF sentVars, actorVars, nodeVars, Active, Deleter, Dispose, SessionType, TypeOK,
        StoppedMeansRaw, TrackedInv
  <1>6. ASSUME NEW s \in Sessions, DisposeSkips(s) PROVE TrackedInv'
    BY <1>6, SameQueueKeepsCreate
    DEF stateVars, sentVars, actorVars, nodeVars, Active, Deleter, DisposeSkips,
        SessionType, TypeOK, StoppedMeansRaw, TrackedInv
  <1>7. ASSUME NEW s \in Sessions, Forget(s) PROVE TrackedInv'
    BY <1>7, SameQueueKeepsCreate
    DEF stateVars, sentVars, actorVars, nodeVars, Active, Deleter, Forget, SessionType,
        TypeOK, StoppedMeansRaw, TrackedInv
  <1>8. ASSUME NEW s \in Sessions, WriteSkips(s) PROVE TrackedInv'
    BY <1>8, SameQueueKeepsCreate
    DEF stateVars, sentVars, actorVars, nodeVars, Active, Writer, WriteSkips, SessionType,
        TypeOK, StoppedMeansRaw, TrackedInv
  <1>9. ASSUME NEW s \in Sessions, NEW i \in DOMAIN queue, WriteAppends(s, i) PROVE TrackedInv'
    <2>1. \A t \in Sessions : CreateQueued(t) => CreateQueued(t)'
      BY <1>9, ExtendKeepsCreate DEF WriteAppends
    <2>2. QED
      BY <1>9, <2>1
      DEF WriteAppends, TrackedInv, StoppedMeansRaw, Active, actorVars, stateVars, TypeOK, SessionType
  <1>10. ASSUME NEW s \in Sessions, WriteQueues(s) PROVE TrackedInv'
    <2>1. [Command(s, "write") EXCEPT !.from = printed[s] - 1] \in QFrames
      BY <1>10, NewBatch
    <2>2. \A t \in Sessions : CreateQueued(t) => CreateQueued(t)'
      BY <1>10, <2>1, AppendKeepsCreate DEF WriteQueues
    <2>3. TRUE
      BY <1>10, <2>1, AppendKeepsCreate DEF WriteQueues, Command
    <2>4. QED
      BY <1>10, <2>2, <2>3
      DEF WriteQueues, TrackedInv, StoppedMeansRaw, Active, actorVars, stateVars, TypeOK, SessionType
  <1>11. ASSUME NEW s \in Sessions, WriteOverflows(s) PROVE TrackedInv'
    BY <1>11, SameQueueKeepsCreate
    DEF stateVars, sentVars, actorVars, nodeVars, Active, Writer, WriteOverflows,
        SessionType, TypeOK, StoppedMeansRaw, TrackedInv
  <1>12. ASSUME NEW s \in Sessions, WriterFails(s) PROVE TrackedInv'
    BY <1>12, SameQueueKeepsCreate
    DEF sentVars, actorVars, nodeVars, Active, FailAll, Fail, Writer, WriterFails,
        SessionType, TypeOK, StoppedMeansRaw, TrackedInv
  <1>13. ASSUME NEW s \in Sessions, ResizeClears(s) PROVE TrackedInv'
    BY <1>13, SameQueueKeepsCreate
    DEF sentVars, actorVars, nodeVars, Active, Writer, ResizeClears, SessionType, TypeOK,
        StoppedMeansRaw, TrackedInv
  <1>14. ASSUME NEW s \in Sessions, ResizeQueues(s) PROVE TrackedInv'
    <2>1. Command(s, "resize") \in QFrames
      BY DEF Command, QFrames, Frames, TypeOK, ThreadType, Mutations
    <2>2. \A t \in Sessions : CreateQueued(t) => CreateQueued(t)'
      BY <1>14, <2>1, AppendKeepsCreate DEF ResizeQueues
    <2>3. TRUE
      BY <1>14, <2>1, AppendKeepsCreate DEF ResizeQueues, Command
    <2>4. QED
      BY <1>14, <2>2, <2>3
      DEF ResizeQueues, TrackedInv, StoppedMeansRaw, Active, actorVars, stateVars, TypeOK, SessionType
  <1>15. ASSUME NEW s \in Sessions, ResizeOverflows(s) PROVE TrackedInv'
    BY <1>15, SameQueueKeepsCreate
    DEF stateVars, sentVars, actorVars, nodeVars, Active, Writer, ResizeOverflows,
        SessionType, TypeOK, StoppedMeansRaw, TrackedInv
  <1>16. ASSUME NEW s \in Sessions, DisposeQueues(s) PROVE TrackedInv'
    <2>1. Command(s, "dispose") \in QFrames
      BY DEF Command, QFrames, Frames, TypeOK, ThreadType, Mutations
    <2>2. \A t \in Sessions : CreateQueued(t) => CreateQueued(t)'
      BY <1>16, <2>1, AppendKeepsCreate DEF DisposeQueues
    <2>3. TRUE
      BY <1>16, <2>1, AppendKeepsCreate DEF DisposeQueues, Command
    <2>4. QED
      BY <1>16, <2>2, <2>3
      DEF DisposeQueues, TrackedInv, StoppedMeansRaw, Active, actorVars, stateVars, TypeOK, SessionType
  <1>17. ASSUME NEW s \in Sessions, DisposeOverflows(s) PROVE TrackedInv'
    BY <1>17, SameQueueKeepsCreate
    DEF sentVars, actorVars, nodeVars, Active, FailAll, Fail, Deleter, DisposeOverflows,
        SessionType, TypeOK, StoppedMeansRaw, TrackedInv
  <1>18. ASSUME NEW s \in Sessions, Clear(s) PROVE TrackedInv'
    BY <1>18, SameQueueKeepsCreate
    DEF clientVars, sentVars, actorVars, nodeVars, Active, Clear, SessionType, TypeOK,
        StoppedMeansRaw, TrackedInv
  <1>19. ASSUME NEW s \in Sessions, Snapshot(s) PROVE TrackedInv'
    BY <1>19, SameQueueKeepsCreate
    DEF stateVars, clientVars, sentVars, Active, Call, Snapshot, SessionType, TypeOK,
        StoppedMeansRaw, TrackedInv
  <1>20. ASSUME NEW s \in Sessions, CleanupNext(s) PROVE TrackedInv'
    BY <1>20, SameQueueKeepsCreate
    DEF stateVars, clientVars, sentVars, Active, Call, CleanupNext, SessionType, TypeOK,
        StoppedMeansRaw, TrackedInv
  <1>21. ASSUME TakeCreate PROVE TrackedInv'
    <2>1. queue # <<>> /\ queue' = Tail(queue)
      BY <1>21 DEF TakeCreate, Takes
    <2>2. \A t \in Sessions : CreateQueued(t) =>
            CreateQueued(t)' \/ (Head(queue).s = t /\ Head(queue).op = "create")
      BY <2>1, TailKeepsCreate
    <2>3. QED
      BY <1>21, <2>2, HeadOfQueue
      DEF TakeCreate, Takes, Call, TrackedInv, StoppedMeansRaw, Active, stateVars, TypeOK, SessionType
  <1>22. ASSUME TakeDispose PROVE TrackedInv'
    <2>1. queue # <<>> /\ queue' = Tail(queue)
      BY <1>22 DEF TakeDispose, Takes
    <2>2. \A t \in Sessions : CreateQueued(t) =>
            CreateQueued(t)' \/ (Head(queue).s = t /\ Head(queue).op = "create")
      BY <2>1, TailKeepsCreate
    <2>3. QED
      BY <1>22, <2>2, HeadOfQueue
      DEF TakeDispose, Takes, Call, TrackedInv, StoppedMeansRaw, Active, stateVars, TypeOK, SessionType
  <1>23. ASSUME SkipCommand PROVE TrackedInv'
    <2>1. queue # <<>> /\ queue' = Tail(queue)
      BY <1>23 DEF SkipCommand, Takes
    <2>2. \A t \in Sessions : CreateQueued(t) =>
            CreateQueued(t)' \/ (Head(queue).s = t /\ Head(queue).op = "create")
      BY <2>1, TailKeepsCreate
    <2>3. QED
      BY <1>23, <2>2, HeadOfQueue
      DEF SkipCommand, Takes, BeginCleanup, CanProcess, TrackedInv, StoppedMeansRaw, Active, stateVars, TypeOK, SessionType
  <1>24. ASSUME TakeMutation PROVE TrackedInv'
    <2>1. queue # <<>> /\ queue' = Tail(queue)
      BY <1>24 DEF TakeMutation, Takes
    <2>2. \A t \in Sessions : CreateQueued(t) =>
            CreateQueued(t)' \/ (Head(queue).s = t /\ Head(queue).op = "create")
      BY <2>1, TailKeepsCreate
    <2>3. QED
      BY <1>24, <2>2, HeadOfQueue
      DEF TakeMutation, Takes, BeginCleanup, TrackedInv, StoppedMeansRaw, Active, stateVars, TypeOK, SessionType
  <1>25. ASSUME Created PROVE TrackedInv'
    BY <1>25, SameQueueKeepsCreate
    DEF stateVars, clientVars, Active, BeginCleanup, Created, SessionType, TypeOK,
        StoppedMeansRaw, TrackedInv
  <1>26. ASSUME Disposed PROVE TrackedInv'
    BY <1>26, SameQueueKeepsCreate
    DEF clientVars, sentVars, Active, BeginCleanup, Disposed, SessionType, TypeOK,
        StoppedMeansRaw, TrackedInv
  <1>27. ASSUME CommandRejected PROVE TrackedInv'
    BY <1>27, SameQueueKeepsCreate
    DEF clientVars, sentVars, Active, FailAll, Fail, BeginCleanup, CommandRejected,
        SessionType, TypeOK, StoppedMeansRaw, TrackedInv
  <1>28. ASSUME CleanedUp PROVE TrackedInv'
    BY <1>28, SameQueueKeepsCreate
    DEF stateVars, clientVars, sentVars, Active, Replied, CleanedUp, SessionType,
        ThreadType, ActorType, NodeType, TypeOK, StoppedMeansRaw, CurrentInv, EndedInv,
        TrackedInv
  <1>29. ASSUME CleanupDone PROVE TrackedInv'
    BY <1>29, SameQueueKeepsCreate
    DEF stateVars, clientVars, sentVars, nodeVars, Active, CleanupDone, SessionType, TypeOK,
        StoppedMeansRaw, TrackedInv
  <1>30. ASSUME SnapshotReplied PROVE TrackedInv'
    BY <1>30, SameQueueKeepsCreate
    DEF stateVars, clientVars, Active, SnapshotReplied, SessionType, TypeOK,
        StoppedMeansRaw, TrackedInv
  <1>31. ASSUME SnapshotStored PROVE TrackedInv'
    BY <1>31, SameQueueKeepsCreate
    DEF clientVars, sentVars, Active, SnapshotStored, SessionType, TypeOK, StoppedMeansRaw,
        TrackedInv
  <1>32. ASSUME SnapshotRejected PROVE TrackedInv'
    BY <1>32, SameQueueKeepsCreate
    DEF clientVars, sentVars, Active, FailAll, Fail, SnapshotRejected, SessionType, TypeOK,
        StoppedMeansRaw, TrackedInv
  <1>33. ASSUME SnapshotPassDone PROVE TrackedInv'
    BY <1>33, SameQueueKeepsCreate
    DEF stateVars, clientVars, sentVars, nodeVars, Active, BeginCleanup, SnapshotPassDone,
        SessionType, TypeOK, StoppedMeansRaw, TrackedInv
  <1>34. ASSUME MutationError PROVE TrackedInv'
    BY <1>34, SameQueueKeepsCreate
    DEF clientVars, sentVars, actorVars, Active, FailAll, MutationError, SessionType,
        TypeOK, StoppedMeansRaw, TrackedInv
  <1>35. ASSUME Stop PROVE TrackedInv'
    <2>1. \A t \in Sessions : Active(t) => Queued(t) \/ (t \in live /\ Held(t))
      BY DEF TrackedInv, CreateQueued, Queued, HandleInv, Held, Active
    <2>2. QED
      BY <1>35, <2>1 DEF Stop, FailAll, TrackedInv, StoppedMeansRaw, Active, TypeOK, SessionType
  <1>36. ASSUME NodeRefuses PROVE TrackedInv'
    BY <1>36, SameQueueKeepsCreate
    DEF stateVars, clientVars, sentVars, actorVars, Active, Reply, NodeRefuses, SessionType,
        TypeOK, StoppedMeansRaw, TrackedInv
  <1>37. ASSUME NodeCreate PROVE TrackedInv'
    BY <1>37, SameQueueKeepsCreate
    DEF stateVars, clientVars, sentVars, actorVars, Active, Reply, NodeCreate, SessionType,
        TypeOK, StoppedMeansRaw, TrackedInv
  <1>38. ASSUME NodeWrite PROVE TrackedInv'
    BY <1>38, SameQueueKeepsCreate
    DEF stateVars, clientVars, sentVars, actorVars, Active, NodeWrite, SessionType, TypeOK,
        StoppedMeansRaw, TrackedInv
  <1>39. ASSUME NodeResize PROVE TrackedInv'
    BY <1>39, SameQueueKeepsCreate
    DEF stateVars, clientVars, sentVars, actorVars, Active, NodeResize, SessionType, TypeOK,
        StoppedMeansRaw, TrackedInv
  <1>40. ASSUME NodeSnapshot PROVE TrackedInv'
    BY <1>40, SameQueueKeepsCreate
    DEF stateVars, clientVars, sentVars, actorVars, Active, Reply, NodeSnapshot,
        SessionType, TypeOK, StoppedMeansRaw, TrackedInv
  <1>41. ASSUME NodeDispose PROVE TrackedInv'
    BY <1>41, SameQueueKeepsCreate
    DEF stateVars, clientVars, sentVars, actorVars, Active, Reply, NodeDispose, SessionType,
        TypeOK, StoppedMeansRaw, TrackedInv
  <1>42. CASE UNCHANGED vars
    BY <1>42, SameQueueKeepsCreate
    DEF stateVars, clientVars, sentVars, actorVars, nodeVars, vars, Active, SessionType,
        TypeOK, StoppedMeansRaw, TrackedInv
  <1>43. QED
    BY <1>1, <1>2, <1>3, <1>4, <1>5, <1>6, <1>7, <1>8, <1>9, <1>10, <1>11, <1>12, <1>13,
       <1>14, <1>15, <1>16, <1>17, <1>18, <1>19, <1>20, <1>21, <1>22, <1>23, <1>24, <1>25,
       <1>26, <1>27, <1>28, <1>29, <1>30, <1>31, <1>32, <1>33, <1>34, <1>35, <1>36, <1>37,
       <1>38, <1>39, <1>40, <1>41, <1>42
    DEF Next, WriterRuns, DeleterRuns, ActorTakes, ActorGoesOn, Node

\* Fewer snapshots need less.
LEMMA ShrinkingCache ==
    ASSUME CachedInv, CachedSnapshots' \subseteq CachedSnapshots
    PROVE  CachedInv'
  <1>1. /\ IsFiniteSet(CachedSnapshots') /\ Cardinality(CachedSnapshots') <= Cardinality(CachedSnapshots)
        /\ Cardinality(CachedSnapshots') \in Nat /\ Cardinality(CachedSnapshots) \in Nat
    BY FS_Subset, FS_CardinalityType DEF CachedInv
  <1>2. QED
    BY <1>1, VtAssumption DEF CachedInv

\* Budgets.
LEMMA CachedStep == TypeOK /\ BudgetInv /\ [Next]_vars => CachedInv'
  <1> SUFFICES ASSUME TypeOK, BudgetInv, [Next]_vars PROVE CachedInv'
    OBVIOUS
  <1>1. ASSUME NEW s \in Sessions, Create(s) PROVE CachedInv'
    BY <1>1
    DEF clientVars, sentVars, actorVars, nodeVars, Create, CachedSnapshots, CachedInv,
        BudgetInv
  <1>2. ASSUME NEW s \in Sessions, CreateFails(s) PROVE CachedInv'
    BY <1>2
    DEF clientVars, sentVars, actorVars, nodeVars, FailAll, Fail, CreateFails,
        CachedSnapshots, CachedInv, BudgetInv
  <1>3. ASSUME NEW s \in Sessions, WriteBegin(s) PROVE CachedInv'
    BY <1>3
    DEF stateVars, sentVars, actorVars, nodeVars, Writer, WriteBegin, CachedSnapshots,
        CachedInv, BudgetInv
  <1>4. ASSUME NEW s \in Sessions, NEW g \in Geometries, ResizeBegin(s, g) PROVE CachedInv'
    BY <1>4
    DEF stateVars, sentVars, actorVars, nodeVars, Writer, ResizeBegin, CachedSnapshots,
        CachedInv, BudgetInv
  <1>5. ASSUME NEW s \in Sessions, Dispose(s) PROVE CachedInv'
    BY <1>5
    DEF sentVars, actorVars, nodeVars, Deleter, Dispose, CachedSnapshots, CachedInv,
        BudgetInv
  <1>6. ASSUME NEW s \in Sessions, DisposeSkips(s) PROVE CachedInv'
    BY <1>6
    DEF stateVars, sentVars, actorVars, nodeVars, Deleter, DisposeSkips, CachedSnapshots,
        CachedInv, BudgetInv
  <1>7. ASSUME NEW s \in Sessions, Forget(s) PROVE CachedInv'
    BY <1>7
    DEF stateVars, sentVars, actorVars, nodeVars, Deleter, Forget, CachedSnapshots,
        CachedInv, BudgetInv
  <1>8. ASSUME NEW s \in Sessions, WriteSkips(s) PROVE CachedInv'
    BY <1>8
    DEF stateVars, sentVars, actorVars, nodeVars, Writer, WriteSkips, CachedSnapshots,
        CachedInv, BudgetInv
  <1>9. ASSUME NEW s \in Sessions, NEW i \in DOMAIN queue, WriteAppends(s, i) PROVE CachedInv'
    BY <1>9
    DEF stateVars, sentVars, actorVars, nodeVars, Writer, WriteAppends, CachedSnapshots,
        CachedInv, BudgetInv
  <1>10. ASSUME NEW s \in Sessions, WriteQueues(s) PROVE CachedInv'
    BY <1>10
    DEF stateVars, sentVars, actorVars, nodeVars, Writer, WriteQueues, CachedSnapshots,
        CachedInv, BudgetInv
  <1>11. ASSUME NEW s \in Sessions, WriteOverflows(s) PROVE CachedInv'
    BY <1>11
    DEF stateVars, sentVars, actorVars, nodeVars, Writer, WriteOverflows, CachedSnapshots,
        CachedInv, BudgetInv
  <1>12. ASSUME NEW s \in Sessions, WriterFails(s) PROVE CachedInv'
    BY <1>12
    DEF sentVars, actorVars, nodeVars, FailAll, Fail, Writer, WriterFails, CachedSnapshots,
        CachedInv, BudgetInv
  <1>13. ASSUME NEW s \in Sessions, ResizeClears(s) PROVE CachedInv'
    <2>1. CachedSnapshots' \subseteq CachedSnapshots
      BY <1>13 DEF ResizeClears, CachedSnapshots, TypeOK, SessionType
    <2>2. QED
      BY <2>1, ShrinkingCache DEF BudgetInv
  <1>14. ASSUME NEW s \in Sessions, ResizeQueues(s) PROVE CachedInv'
    BY <1>14
    DEF stateVars, sentVars, actorVars, nodeVars, Writer, ResizeQueues, CachedSnapshots,
        CachedInv, BudgetInv
  <1>15. ASSUME NEW s \in Sessions, ResizeOverflows(s) PROVE CachedInv'
    BY <1>15
    DEF stateVars, sentVars, actorVars, nodeVars, Writer, ResizeOverflows, CachedSnapshots,
        CachedInv, BudgetInv
  <1>16. ASSUME NEW s \in Sessions, DisposeQueues(s) PROVE CachedInv'
    BY <1>16
    DEF stateVars, sentVars, actorVars, nodeVars, Deleter, DisposeQueues, CachedSnapshots,
        CachedInv, BudgetInv
  <1>17. ASSUME NEW s \in Sessions, DisposeOverflows(s) PROVE CachedInv'
    BY <1>17
    DEF sentVars, actorVars, nodeVars, FailAll, Fail, Deleter, DisposeOverflows,
        CachedSnapshots, CachedInv, BudgetInv
  <1>18. ASSUME NEW s \in Sessions, Clear(s) PROVE CachedInv'
    <2>1. CachedSnapshots' \subseteq CachedSnapshots
      BY <1>18 DEF Clear, CachedSnapshots, TypeOK, SessionType
    <2>2. QED
      BY <2>1, ShrinkingCache DEF BudgetInv
  <1>19. ASSUME NEW s \in Sessions, Snapshot(s) PROVE CachedInv'
    BY <1>19
    DEF stateVars, clientVars, sentVars, Call, Snapshot, CachedSnapshots, CachedInv,
        BudgetInv
  <1>20. ASSUME NEW s \in Sessions, CleanupNext(s) PROVE CachedInv'
    BY <1>20
    DEF stateVars, clientVars, sentVars, Call, CleanupNext, CachedSnapshots, CachedInv,
        BudgetInv
  <1>21. ASSUME TakeCreate PROVE CachedInv'
    BY <1>21
    DEF stateVars, clientVars, sentVars, Call, TakeCreate, CachedSnapshots, CachedInv,
        BudgetInv
  <1>22. ASSUME TakeDispose PROVE CachedInv'
    BY <1>22
    DEF stateVars, clientVars, sentVars, Call, TakeDispose, CachedSnapshots, CachedInv,
        BudgetInv
  <1>23. ASSUME SkipCommand PROVE CachedInv'
    BY <1>23
    DEF stateVars, clientVars, sentVars, nodeVars, BeginCleanup, SkipCommand,
        CachedSnapshots, CachedInv, BudgetInv
  <1>24. ASSUME TakeMutation PROVE CachedInv'
    BY <1>24
    DEF stateVars, clientVars, BeginCleanup, TakeMutation, CachedSnapshots, CachedInv,
        BudgetInv
  <1>25. ASSUME Created PROVE CachedInv'
    BY <1>25
    DEF stateVars, clientVars, BeginCleanup, Created, CachedSnapshots, CachedInv, BudgetInv
  <1>26. ASSUME Disposed PROVE CachedInv'
    BY <1>26
    DEF clientVars, sentVars, BeginCleanup, Disposed, CachedSnapshots, CachedInv, BudgetInv
  <1>27. ASSUME CommandRejected PROVE CachedInv'
    BY <1>27
    DEF clientVars, sentVars, FailAll, Fail, BeginCleanup, CommandRejected, CachedSnapshots,
        CachedInv, BudgetInv
  <1>28. ASSUME CleanedUp PROVE CachedInv'
    BY <1>28
    DEF stateVars, clientVars, sentVars, CleanedUp, CachedSnapshots, CachedInv, BudgetInv
  <1>29. ASSUME CleanupDone PROVE CachedInv'
    BY <1>29
    DEF stateVars, clientVars, sentVars, nodeVars, CleanupDone, CachedSnapshots, CachedInv,
        BudgetInv
  <1>30. ASSUME SnapshotReplied PROVE CachedInv'
    BY <1>30
    DEF stateVars, clientVars, CachedSnapshots, SnapshotReplied, CachedInv, BudgetInv
  <1>31. ASSUME SnapshotStored PROVE CachedInv'
    <2>1. CASE cache[current] # None \/ Cardinality(CachedSnapshots) >= MaxCached
      <3>1. CachedSnapshots' \subseteq CachedSnapshots
        <4>1. CASE cache[current] # None
          BY <1>31, <4>1 DEF SnapshotStored, CachedSnapshots, TypeOK, SessionType
        <4>2. CASE cache[current] = None
          <5>1. ~(Cardinality(CachedSnapshots) < MaxCached)
            BY <2>1, <4>2, VtAssumption, FS_CardinalityType DEF BudgetInv, CachedInv
          <5>2. cache' = cache
            BY <1>31, <4>2, <5>1 DEF SnapshotStored, TypeOK, SessionType
          <5>3. QED
            BY <5>2 DEF CachedSnapshots
        <4>3. QED
          BY <4>1, <4>2
      <3>2. QED
        BY <3>1, ShrinkingCache DEF BudgetInv
    <2>2. CASE Cardinality(CachedSnapshots) < MaxCached
      <3>1. CachedSnapshots' \subseteq CachedSnapshots \cup {current}
        BY <1>31 DEF SnapshotStored, CachedSnapshots, TypeOK, SessionType
      <3>0. IsFiniteSet(CachedSnapshots)
        BY DEF BudgetInv, CachedInv
      <3>2. /\ IsFiniteSet(CachedSnapshots \cup {current}) /\ Cardinality(CachedSnapshots) \in Nat
            /\ Cardinality(CachedSnapshots \cup {current}) <= Cardinality(CachedSnapshots) + 1
        BY <3>0, FS_AddElement, FS_CardinalityType
      <3>3. /\ IsFiniteSet(CachedSnapshots')
            /\ Cardinality(CachedSnapshots') <= Cardinality(CachedSnapshots \cup {current})
            /\ Cardinality(CachedSnapshots') \in Nat /\ Cardinality(CachedSnapshots \cup {current}) \in Nat
        BY <3>1, <3>2, FS_Subset, FS_CardinalityType
      <3>4. QED
        BY <2>2, <3>2, <3>3, VtAssumption DEF CachedInv
    <2>3. QED
      BY <2>1, <2>2, VtAssumption, FS_CardinalityType DEF BudgetInv, CachedInv
  <1>32. ASSUME SnapshotRejected PROVE CachedInv'
    BY <1>32
    DEF clientVars, sentVars, FailAll, Fail, CachedSnapshots, SnapshotRejected, CachedInv,
        BudgetInv
  <1>33. ASSUME SnapshotPassDone PROVE CachedInv'
    BY <1>33
    DEF stateVars, clientVars, sentVars, nodeVars, BeginCleanup, CachedSnapshots,
        SnapshotPassDone, CachedInv, BudgetInv
  <1>34. ASSUME MutationError PROVE CachedInv'
    BY <1>34
    DEF clientVars, sentVars, actorVars, FailAll, CachedSnapshots, MutationError, CachedInv,
        BudgetInv
  <1>35. ASSUME Stop PROVE CachedInv'
    BY <1>35
    DEF clientVars, sentVars, FailAll, CachedSnapshots, Stop, CachedInv, BudgetInv
  <1>36. ASSUME NodeRefuses PROVE CachedInv'
    BY <1>36
    DEF stateVars, clientVars, sentVars, actorVars, CachedSnapshots, Reply, NodeRefuses,
        CachedInv, BudgetInv
  <1>37. ASSUME NodeCreate PROVE CachedInv'
    BY <1>37
    DEF stateVars, clientVars, sentVars, actorVars, CachedSnapshots, Reply, NodeCreate,
        CachedInv, BudgetInv
  <1>38. ASSUME NodeWrite PROVE CachedInv'
    BY <1>38
    DEF stateVars, clientVars, sentVars, actorVars, CachedSnapshots, NodeWrite, CachedInv,
        BudgetInv
  <1>39. ASSUME NodeResize PROVE CachedInv'
    BY <1>39
    DEF stateVars, clientVars, sentVars, actorVars, CachedSnapshots, NodeResize, CachedInv,
        BudgetInv
  <1>40. ASSUME NodeSnapshot PROVE CachedInv'
    BY <1>40
    DEF stateVars, clientVars, sentVars, actorVars, CachedSnapshots, Reply, NodeSnapshot,
        CachedInv, BudgetInv
  <1>41. ASSUME NodeDispose PROVE CachedInv'
    BY <1>41
    DEF stateVars, clientVars, sentVars, actorVars, CachedSnapshots, Reply, NodeDispose,
        CachedInv, BudgetInv
  <1>42. CASE UNCHANGED vars
    BY <1>42
    DEF stateVars, clientVars, sentVars, actorVars, nodeVars, vars, CachedSnapshots,
        CachedInv, BudgetInv
  <1>43. QED
    BY <1>1, <1>2, <1>3, <1>4, <1>5, <1>6, <1>7, <1>8, <1>9, <1>10, <1>11, <1>12, <1>13,
       <1>14, <1>15, <1>16, <1>17, <1>18, <1>19, <1>20, <1>21, <1>22, <1>23, <1>24, <1>25,
       <1>26, <1>27, <1>28, <1>29, <1>30, <1>31, <1>32, <1>33, <1>34, <1>35, <1>36, <1>37,
       <1>38, <1>39, <1>40, <1>41, <1>42
    DEF Next, WriterRuns, DeleterRuns, ActorTakes, ActorGoesOn, Node


\* Output pending in the queue: what is taken is given back, and what is added was reserved.
LEMMA PendingStep == TypeOK /\ SizeInv /\ PendingInv /\ [Next]_vars => PendingInv'
  <1> SUFFICES ASSUME TypeOK, SizeInv, PendingInv, [Next]_vars PROVE PendingInv'
    OBVIOUS
  <1>0. queue \in Seq(QFrames) /\ DOMAIN queue = 1..Len(queue) /\ Len(queue) \in Nat
    BY LenProperties DEF TypeOK, ActorType, QFrames
  <1>1. ASSUME PendingUnits' \subseteq PendingUnits PROVE PendingInv'
    <2>1. /\ IsFiniteSet(PendingUnits') /\ Cardinality(PendingUnits') <= Cardinality(PendingUnits)
          /\ Cardinality(PendingUnits') \in Nat /\ Cardinality(PendingUnits) \in Nat
      BY <1>1, FS_Subset, FS_CardinalityType DEF PendingInv
    <2>2. QED
      BY <2>1, VtAssumption DEF PendingInv
  <1>2. ASSUME NEW u, CanReserve, PendingUnits' \subseteq PendingUnits \cup {u} PROVE PendingInv'
    <2>1. /\ IsFiniteSet(PendingUnits \cup {u}) /\ Cardinality(PendingUnits) \in Nat
          /\ Cardinality(PendingUnits \cup {u}) <= Cardinality(PendingUnits) + 1
      BY FS_AddElement, FS_CardinalityType DEF PendingInv
    <2>2. /\ IsFiniteSet(PendingUnits')
          /\ Cardinality(PendingUnits') <= Cardinality(PendingUnits \cup {u})
          /\ Cardinality(PendingUnits') \in Nat /\ Cardinality(PendingUnits \cup {u}) \in Nat
      BY <1>2, <2>1, FS_Subset, FS_CardinalityType
    <2>3. QED
      BY <1>2, <2>1, <2>2, VtAssumption DEF PendingInv, CanReserve
  <1>3. CASE queue' = queue
    BY <1>1, <1>3 DEF PendingUnits
  <1>4. ASSUME NEW f \in QFrames, queue' = Append(queue, f), Room(f) PROVE PendingInv'
    <2>1. PendingUnits' \subseteq PendingUnits \cup Units(f)
      <3>1. /\ DOMAIN queue' = 1..Len(queue') /\ Len(queue') = Len(queue) + 1
            /\ \A i \in 1..Len(queue) : queue'[i] = queue[i]
            /\ queue'[Len(queue) + 1] = f
        BY <1>0, <1>4, AppendKeeps, LenProperties
      <3>2. \A i \in DOMAIN queue' : i \in 1..Len(queue) \/ i = Len(queue) + 1
        BY <1>0, <3>1
      <3>3. \A i \in DOMAIN queue' : Units(queue'[i]) \subseteq PendingUnits \cup Units(f)
        BY <1>0, <3>1, <3>2 DEF PendingUnits
      <3>4. PendingUnits' = UNION {Units(queue'[i]) : i \in DOMAIN queue'}
        BY DEF PendingUnits, Units
      <3>5. QED
        BY <3>3, <3>4
    <2>2. CASE f.from = f.upto
      <3>1. Units(f) = {}
        BY <2>2 DEF Units, QFrames, Frames
      <3>2. QED
        BY <1>1, <2>1, <3>1
    <2>3. CASE f.from + 1 = f.upto /\ CanReserve
      <3>1. Units(f) = {<<f.s, f.upto>>}
        BY <2>3 DEF Units, QFrames, Frames
      <3>2. QED
        BY <1>2, <2>1, <2>3, <3>1
    <2>4. QED
      BY <1>4, <2>2, <2>3 DEF Room
  <1>5. ASSUME NEW i \in DOMAIN queue, CanReserve, queue' = [queue EXCEPT ![i].upto = @ + 1]
        PROVE PendingInv'
    <2>1. queue[i] \in QFrames
      BY <1>0, ElementOfSeq
    <2>2. /\ DOMAIN queue' = DOMAIN queue /\ \A j \in DOMAIN queue : j # i => queue'[j] = queue[j]
          /\ queue'[i] = [queue[i] EXCEPT !.upto = @ + 1]
      BY <1>5
    <2>3. Units(queue'[i]) \subseteq Units(queue[i]) \cup {<<queue[i].s, queue[i].upto + 1>>}
      BY <2>1, <2>2 DEF Units, QFrames, Frames
    <2>4. \A j \in DOMAIN queue' :
             Units(queue'[j]) \subseteq PendingUnits \cup {<<queue[i].s, queue[i].upto + 1>>}
      BY <2>2, <2>3 DEF PendingUnits
    <2>5. PendingUnits' = UNION {Units(queue'[j]) : j \in DOMAIN queue'}
      BY DEF PendingUnits, Units
    <2>6. QED
      BY <1>2, <1>5, <2>4, <2>5
  <1>6. CASE queue # <<>> /\ queue' = Tail(queue)
    <2>1. DOMAIN queue' = 1..Len(queue') /\ Len(queue') = Len(queue) - 1
      BY <1>0, <1>6, TailKeeps, LenProperties
    <2>2. \A i \in DOMAIN queue' : queue'[i] = queue[i + 1] /\ i + 1 \in DOMAIN queue
      BY <1>0, <1>6, <2>1, TailKeeps
    <2>3. PendingUnits' = UNION {Units(queue'[j]) : j \in DOMAIN queue'}
      BY DEF PendingUnits, Units
    <2>4. QED
      BY <1>1, <2>2, <2>3 DEF PendingUnits
  <1>7. CASE queue' = <<>>
    BY <1>1, <1>7, EmptySeq DEF PendingUnits
  <1>8. QED
    BY <1>3, <1>4, <1>5, <1>6, <1>7, QueueStep DEF QueueMoves

LEMMA BudgetStep == TypeOK /\ SizeInv /\ StoreInv /\ BudgetInv /\ [Next]_vars => BudgetInv'
  <1> SUFFICES ASSUME TypeOK, SizeInv, StoreInv, BudgetInv, [Next]_vars PROVE BudgetInv'
    OBVIOUS
  <1>1. CachedInv'
    BY CachedStep
  <1>2. Len(queue') <= QueueCapacity
    BY QueuesStep DEF BudgetInv
  <1>3. PendingInv'
    BY PendingStep DEF BudgetInv
  <1>4. QED
    BY <1>1, <1>2, <1>3 DEF BudgetInv

-----------------------------------------------------------------------------
(* The theorems *)

LEMMA InitInv == Init => IInv
  <1> SUFFICES ASSUME Init PROVE IInv
    OBVIOUS
  <1>1. TypeOK
    BY InitType
  <1>2. SizeInv /\ StoreInv /\ CurrentInv
    BY EmptySeq DEF Init, Each, SizeInv, WriterSized, StoreInv, CurrentInv
  <1>3. CacheInv /\ HandleInv /\ EndedInv
    BY DEF Init, Each, CacheInv, DeadHoldsNoCache, HandleInv, EndedInv
  <1>4. TrackedInv
    BY DEF Init, Each, TrackedInv, StoppedMeansRaw, Active
  <1>5. BudgetInv
    <2>1. CachedSnapshots = {} /\ PendingUnits = {} /\ Len(queue) = 0
      BY EmptySeq DEF Init, Each, CachedSnapshots, PendingUnits
    <2>2. QED
      BY <2>1, FS_EmptySet, VtAssumption DEF BudgetInv, CachedInv, PendingInv
  <1>6. QED
    BY <1>1, <1>2, <1>3, <1>4, <1>5 DEF IInv

LEMMA NextInv == IInv /\ [Next]_vars => IInv'
  <1> SUFFICES ASSUME IInv, [Next]_vars PROVE IInv'
    OBVIOUS
  <1>1. TypeOK' /\ SizeInv' /\ StoreInv' /\ CurrentInv'
    BY TypeStep, SizeStep, StoreStep, CurrentStep DEF IInv
  <1>2. CacheInv' /\ HandleInv' /\ EndedInv' /\ TrackedInv'
    BY CacheStep, HandleStep, EndedStep, TrackedStep DEF IInv
  <1>3. BudgetInv'
    BY BudgetStep DEF IInv
  <1>4. QED
    BY <1>1, <1>2, <1>3 DEF IInv

LEMMA AlwaysIInv == Spec => []IInv
  BY InitInv, NextInv, PTL DEF Spec

\* Whatever sessions share the worker, and however their threads, the actor and Node
\* interleave, no variable leaves its type.
THEOREM TypeCorrect == Spec => []TypeOK
  <1>1. IInv => TypeOK
    BY DEF IInv
  <1>2. QED
    BY <1>1, AlwaysIInv, PTL

\* store_snapshot looks at the status again under the snapshot lock: no snapshot in
\* flight comes back to a session that has failed or is being disposed.
THEOREM DeadStaysEmpty == Spec => []DeadHoldsNoCache
  <1>1. IInv => DeadHoldsNoCache
    BY DEF IInv, CacheInv
  <1>2. QED
    BY <1>1, AlwaysIInv, PTL

\* The exit of the actor fails every session it tracks and every one a command in the
\* queue belongs to: together these are all that work.
THEOREM StopFallsBack == Spec => []StoppedMeansRaw
  <1>1. IInv => StoppedMeansRaw
    BY DEF IInv, TrackedInv
  <1>2. QED
    BY <1>1, AlwaysIInv, PTL

\* try_send never overfills the queue, reserve_write_bytes never admits more output to it
\* than MaxPending over all sessions, and store_snapshot never caches more snapshots than
\* the budget allows, whoever of the sessions asks.
THEOREM LimitsAreKept == Spec => []BudgetsHold
  <1>1. IInv => BudgetsHold
    BY DEF IInv, BudgetInv, CachedInv, PendingInv, BudgetsHold
  <1>2. QED
    BY <1>1, AlwaysIInv, PTL

=============================================================================
