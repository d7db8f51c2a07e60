----------------------- MODULE TerminalStreamProofs ------------------------
(***************************************************************************)
(* Proofs about TerminalStream, for any set of attachments, any scrollback *)
(* and channel size, and any amount of output and of client messages.      *)
(***************************************************************************)
EXTENDS TerminalStream, SequenceTheorems, TLAPS

-----------------------------------------------------------------------------
(* The inductive invariant *)

\* Whoever holds the delivery gate is in the middle of a send that drops it, and a
\* controller's frame is only sent by the owner under the gate.
Gated(b) ==
    /\ gate = b => st[b] = "sending" /\ frame[b] \notin {"waiting", "observing", "refused"}
    /\ st[b] = "gate" => frame[b] \in StreamFrames
    /\ (st[b] = "sending" /\ grant[b] # None
           /\ frame[b] \in StreamFrames \cup {"claimed", "written"})
         => gate = b /\ owner = [by |-> b, gen |-> grant[b]]

GateInv == \A b \in Attachments : Gated(b)

\* The owner in the controller has the newest generation, no input is newer, and
\* input is in order.
InputInv ==
    /\ owner # None => owner.gen = generation
    /\ \A i \in 1..Len(input) : input[i] <= generation
    /\ \A i, j \in 1..Len(input) : i <= j => input[i] <= input[j]

\* The offset at which the receiver's next event continues: that of the event, or of what
\* is printed next.
OffsetAt(log, end, i) == IF i = Len(log) + 1 THEN end ELSE log[i].offset

\* Events are numbered by the output they follow: one unit lies between an output event
\* and the next, and nothing is printed after the end of the output.
EventInv ==
    /\ base <= next
    /\ \A i \in 1..Len(events) :
         /\ OffsetAt(events, next, i + 1)
              = OffsetAt(events, next, i) + (IF events[i].kind = "output" THEN 1 ELSE 0)
         /\ OffsetAt(events, next, i + 1) <= next
         /\ events[i].kind = "closed" => closed /\ OffsetAt(events, next, i) = next
         /\ events[i].kind = "status" => status # "Running"

\* A task that follows the live events, and the loop a frame in between returns to.
Following(b) ==
    \/ st[b] \in {"live", "lost", "input", "describe"}
    \/ frame[b] \in {"running", "written", "failed"}
    \/ back[b] = "live" /\ (st[b] \in {"claim", "seize"} \/ frame[b] \in {"waiting", "refused"})

\* The client has rendered all that comes before the receiver's next event.
Follows(b) ==
    /\ pos[b] <= Len(events) + 1
    /\ rendered[b] = expected[b] /\ rendered[b] = OffsetAt(events, next, pos[b])
    /\ sawClosed[b] => rendered[b] = next

\* What the client has rendered, and what its task is about to send, wherever it stands.
Screen(b) ==
    /\ intact[b]
    /\ st[b] \in {"none", "connect"} => back[b] = "idle"
    /\ frame[b] # "none" => st[b] \in {"gate", "sending"}
    /\ frame[b] \in {"claimed", "observing", "header"} => chunk[b] <= upto[b]
    /\ st[b] = "chunks" \/ frame[b] = "chunk" => rendered[b] = chunk[b] /\ chunk[b] <= upto[b]
    /\ frame[b] = "chunk" => chunk[b] # upto[b]
    /\ st[b] \in {"catchup", "subscribe", "boundary"} => rendered[b] = expected[b]
    /\ st[b] = "boundary" =>
         /\ chunk[b] <= upto[b] /\ upto[b] = OffsetAt(events, next, pos[b])
         /\ pos[b] <= Len(events) + 1
         /\ sawClosed[b] => upto[b] = next
    /\ Following(b) => Follows(b)
    /\ frame[b] = "output" =>
         /\ rendered[b] = expected[b] /\ rendered[b] = chunk[b] /\ ~sawClosed[b]
         /\ OffsetAt(events, next, pos[b]) = chunk[b] + 1 /\ pos[b] <= Len(events) + 1

\* What the task knows of the end, and what it has told.
Ending(b) ==
    /\ sawClosed[b] => closed
    /\ pending[b] => status # "Running"
    /\ frame[b] = "final" \/ final[b] => closed /\ status # "Running" /\ rendered[b] = next
    /\ final[b] => st[b] \in {"closing", "closed"}

ScreenInv == \A b \in Attachments : Screen(b) /\ Ending(b)

IInv == TypeOK /\ GateInv /\ InputInv /\ EventInv /\ ScreenInv

-----------------------------------------------------------------------------
(* Type correctness *)

LEMMA InitType == Init => TypeOK
  <1> SUFFICES ASSUME Init PROVE TypeOK
    OBVIOUS
  <1>1. SharedType
    BY DEF Init, SharedType
  <1>2. OutputType
    <2>1. events \in Seq([kind : Kinds, offset : Nat])
      BY EmptySeq DEF Init
    <2>2. QED
      BY <2>1 DEF Init, OutputType
  <1>3. TaskType
    BY DEF Init, Each, TaskType, States, Frames, StreamFrames
  <1>4. ClaimType /\ StreamType
    BY DEF Init, Each, ClaimType, StreamType
  <1>5. ClientType
    BY DEF Init, Each, ClientType
  <1>6. QED
    BY <1>1, <1>2, <1>3, <1>4, <1>5 DEF TypeOK

\* Every step of the shell, of DELETE, of a client or of a task keeps the types.
LEMMA TypeStep == TypeOK /\ [Next]_vars => TypeOK'
  <1> SUFFICES ASSUME TypeOK, [Next]_vars PROVE TypeOK'
    OBVIOUS
  <1> USE DEF TypeOK
  <1>1. ASSUME AppendOutput PROVE TypeOK'
    <2>1. OutputType'
      BY <1>1, StreamAssumption, SMTT(30)
      DEF AppendOutput, Broadcast, OutputType, Kinds
    <2>2. SharedType' /\ TaskType' /\ ClaimType' /\ StreamType' /\ ClientType'
      BY <1>1
      DEF AppendOutput, sharedVars, taskVars, claimVars, streamVars, clientVars, SharedType,
          TaskType, ClaimType, StreamType, ClientType
    <2>3. QED
      BY <2>1, <2>2 DEF TypeOK
  <1>2. ASSUME CloseOutput PROVE TypeOK'
    <2>1. OutputType'
      BY <1>2, StreamAssumption
      DEF Broadcast, CloseOutput, OutputType, Kinds
    <2>2. SharedType' /\ TaskType' /\ ClaimType' /\ StreamType' /\ ClientType'
      BY <1>2
      DEF CloseOutput, sharedVars, taskVars, claimVars, streamVars, clientVars, SharedType,
          TaskType, ClaimType, StreamType, ClientType
    <2>3. QED
      BY <2>1, <2>2 DEF TypeOK
  <1>3. ASSUME MarkExited PROVE TypeOK'
    <2>1. OutputType'
      BY <1>3, StreamAssumption
      DEF MarkExited, OutputType, Kinds
    <2>2. SharedType' /\ TaskType' /\ ClaimType' /\ StreamType' /\ ClientType'
      BY <1>3
      DEF MarkExited, sharedVars, taskVars, claimVars, streamVars, clientVars, SharedType,
          TaskType, ClaimType, StreamType, ClientType
    <2>3. QED
      BY <2>1, <2>2 DEF TypeOK
  <1>4. ASSUME AnnounceStatus PROVE TypeOK'
    <2>1. OutputType'
      BY <1>4, StreamAssumption
      DEF AnnounceStatus, Broadcast, OutputType, Kinds
    <2>2. SharedType' /\ TaskType' /\ ClaimType' /\ StreamType' /\ ClientType'
      BY <1>4
      DEF AnnounceStatus, sharedVars, taskVars, claimVars, streamVars, clientVars, SharedType,
          TaskType, ClaimType, StreamType, ClientType
    <2>3. QED
      BY <2>1, <2>2 DEF TypeOK
  <1>5. ASSUME Delete PROVE TypeOK'
    <2>1. OutputType'
      BY <1>5, StreamAssumption
      DEF Delete, OutputType, Kinds
    <2>2. SharedType' /\ TaskType' /\ ClaimType' /\ StreamType' /\ ClientType'
      BY <1>5
      DEF Delete, sharedVars, taskVars, claimVars, streamVars, clientVars, SharedType,
          TaskType, ClaimType, StreamType, ClientType
    <2>3. QED
      BY <2>1, <2>2 DEF TypeOK
  <1>6. ASSUME AnnounceDelete PROVE TypeOK'
    <2>1. OutputType'
      BY <1>6, StreamAssumption
      DEF AnnounceDelete, Broadcast, OutputType, Kinds
    <2>2. SharedType' /\ TaskType' /\ ClaimType' /\ StreamType' /\ ClientType'
      BY <1>6
      DEF AnnounceDelete, sharedVars, taskVars, claimVars, streamVars, clientVars, SharedType,
          TaskType, ClaimType, StreamType, ClientType
    <2>3. QED
      BY <2>1, <2>2 DEF TypeOK
  <1>7. ASSUME NEW a \in Attachments, NEW from \in ResumePoints, Attach(a, from)
         PROVE TypeOK'
    <2>1. TaskType'
      BY <1>7
      DEF Attach, Goto, TaskType, States, Frames, StreamFrames
    <2>2. ClientType'
      BY <1>7 DEF Attach, ResumePoints, ClientType, OutputType
    <2>3. OutputType'
      BY <1>7 DEF Attach, OutputType
    <2>4. SharedType' /\ ClaimType' /\ StreamType'
      BY <1>7
      DEF Attach, sharedVars, claimVars, streamVars, SharedType, ClaimType, StreamType
    <2>5. QED
      BY <2>1, <2>2, <2>3, <2>4 DEF TypeOK
  <1>8. ASSUME NEW a \in Attachments, NEW f \in BOOLEAN, IdleClaim(a, f) PROVE TypeOK'
    <2>1. TaskType'
      BY <1>8
      DEF Goto, IdleClaim, TaskType, States, Frames, StreamFrames
    <2>2. ClaimType'
      BY <1>8
      DEF IdleClaim, ClaimType, SharedType, Owners
    <2>3. ClientType'
      BY <1>8 DEF IdleClaim, Sent, ClientType
    <2>4. SharedType' /\ OutputType' /\ StreamType'
      BY <1>8
      DEF IdleClaim, sharedVars, outputVars, streamVars, SharedType, OutputType, StreamType
    <2>5. QED
      BY <2>1, <2>2, <2>3, <2>4 DEF TypeOK
  <1>9. ASSUME NEW a \in Attachments, NEW f \in BOOLEAN, LiveClaim(a, f) PROVE TypeOK'
    <2>1. TaskType'
      BY <1>9
      DEF Goto, LiveClaim, TaskType, States, Frames, StreamFrames
    <2>2. ClaimType'
      BY <1>9
      DEF LiveClaim, ClaimType, SharedType, Owners
    <2>3. ClientType'
      BY <1>9 DEF LiveClaim, Sent, ClientType
    <2>4. SharedType' /\ OutputType' /\ StreamType'
      BY <1>9
      DEF LiveClaim, sharedVars, outputVars, streamVars, SharedType, OutputType, StreamType
    <2>5. QED
      BY <2>1, <2>2, <2>3, <2>4 DEF TypeOK
  <1>10. ASSUME NEW a \in Attachments, IdleObserve(a) PROVE TypeOK'
    <2>1. TaskType'
      BY <1>10
      DEF Goto, IdleObserve, TaskType, States, Frames, StreamFrames
    <2>2. ClaimType'
      BY <1>10
      DEF IdleObserve, ClaimType, SharedType, Owners
    <2>3. ClientType'
      BY <1>10 DEF IdleObserve, Sent, ClientType
    <2>4. SharedType' /\ OutputType' /\ StreamType'
      BY <1>10
      DEF IdleObserve, sharedVars, outputVars, streamVars, SharedType, OutputType, StreamType
    <2>5. QED
      BY <2>1, <2>2, <2>3, <2>4 DEF TypeOK
  <1>11. ASSUME NEW a \in Attachments, IdleInput(a) PROVE TypeOK'
    <2>1. TaskType'
      BY <1>11
      DEF IdleInput, SendNow, TaskType, States, Frames, StreamFrames
    <2>2. ClaimType'
      BY <1>11
      DEF IdleInput, ClaimType, SharedType, Owners
    <2>3. ClientType'
      BY <1>11 DEF IdleInput, Sent, ClientType
    <2>4. SharedType' /\ OutputType' /\ StreamType'
      BY <1>11
      DEF IdleInput, sharedVars, outputVars, streamVars, SharedType, OutputType, StreamType
    <2>5. QED
      BY <2>1, <2>2, <2>3, <2>4 DEF TypeOK
  <1>12. ASSUME NEW a \in Attachments, LiveObserve(a) PROVE TypeOK'
    <2>1. SharedType'
      BY <1>12, StreamAssumption
      DEF Each, LiveObserve, Notified, Vacated, SharedType, Owners
    <2>2. TaskType'
      BY <1>12
      DEF Each, Goto, LiveObserve, Notified, Vacated, TaskType, States, Frames, StreamFrames
    <2>3. ClaimType'
      <3>1. Notified(a) \in [Attachments -> BOOLEAN]
        BY DEF Notified, Each, ClaimType
      <3>2. QED
        BY <1>12, <3>1 DEF LiveObserve, ClaimType
    <2>4. ClientType'
      BY <1>12 DEF LiveObserve, Sent, ClientType
    <2>5. OutputType' /\ StreamType'
      BY <1>12
      DEF LiveObserve, outputVars, streamVars, OutputType, StreamType
    <2>6. QED
      BY <2>1, <2>2, <2>3, <2>4, <2>5 DEF TypeOK
  <1>13. ASSUME NEW a \in Attachments, LiveInput(a) PROVE TypeOK'
    <2>1. TaskType'
      BY <1>13
      DEF Goto, LiveInput, TaskType, States, Frames, StreamFrames
    <2>2. ClientType'
      BY <1>13 DEF LiveInput, Sent, ClientType
    <2>3. SharedType' /\ OutputType' /\ ClaimType' /\ StreamType'
      BY <1>13
      DEF LiveInput, sharedVars, outputVars, claimVars, streamVars, SharedType, OutputType,
          ClaimType, StreamType
    <2>4. QED
      BY <2>1, <2>2, <2>3 DEF TypeOK
  <1>14. ASSUME NEW a \in Attachments, LiveInputRefused(a) PROVE TypeOK'
    <2>1. TaskType'
      BY <1>14
      DEF LiveInputRefused, SendNow, TaskType, States, Frames, StreamFrames
    <2>2. ClaimType'
      BY <1>14
      DEF LiveInputRefused, ClaimType, SharedType, Owners
    <2>3. ClientType'
      BY <1>14 DEF LiveInputRefused, Sent, ClientType
    <2>4. SharedType' /\ OutputType' /\ StreamType'
      BY <1>14
      DEF LiveInputRefused, sharedVars, outputVars, streamVars, SharedType, OutputType,
          StreamType
    <2>5. QED
      BY <2>1, <2>2, <2>3, <2>4 DEF TypeOK
  <1>15. ASSUME NEW a \in Attachments, Leave(a) PROVE TypeOK'
    <2>1. TaskType'
      BY <1>15
      DEF Goto, Leave, TaskType, States, Frames, StreamFrames
    <2>2. SharedType' /\ OutputType' /\ ClaimType' /\ StreamType' /\ ClientType'
      BY <1>15
      DEF Leave, sharedVars, outputVars, claimVars, streamVars, clientVars, SharedType,
          OutputType, ClaimType, StreamType, ClientType
    <2>3. QED
      BY <2>1, <2>2 DEF TypeOK
  <1>16. ASSUME NEW a \in Attachments, IdleDeleted(a) PROVE TypeOK'
    <2>1. TaskType'
      BY <1>16
      DEF IdleDeleted, SendNow, TaskType, States, Frames, StreamFrames
    <2>2. SharedType' /\ OutputType' /\ ClaimType' /\ StreamType' /\ ClientType'
      BY <1>16
      DEF IdleDeleted, sharedVars, outputVars, claimVars, streamVars, clientVars, SharedType,
          OutputType, ClaimType, StreamType, ClientType
    <2>3. QED
      BY <2>1, <2>2 DEF TypeOK
  <1>17. ASSUME NEW a \in Attachments, IdleRetry(a) PROVE TypeOK'
    <2>1. TaskType'
      BY <1>17
      DEF Goto, IdleRetry, TaskType, States, Frames, StreamFrames
    <2>2. ClaimType'
      BY <1>17
      DEF IdleRetry, ClaimType, SharedType, Owners
    <2>3. SharedType' /\ OutputType' /\ StreamType' /\ ClientType'
      BY <1>17
      DEF IdleRetry, sharedVars, outputVars, streamVars, clientVars, SharedType, OutputType,
          StreamType, ClientType
    <2>4. QED
      BY <2>1, <2>2, <2>3 DEF TypeOK
  <1>18. ASSUME NEW a \in Attachments, Close(a) PROVE TypeOK'
    <2>1. SharedType'
      BY <1>18, StreamAssumption
      DEF Close, Each, Notified, Vacated, SharedType, Owners
    <2>2. TaskType'
      BY <1>18
      DEF Close, Each, Goto, Notified, Vacated, TaskType, States, Frames, StreamFrames
    <2>3. ClaimType'
      BY <1>18
      DEF Close, Each, Notified, Vacated, ClaimType, SharedType, Owners
    <2>4. StreamType'
      BY <1>18
      DEF Close, Each, Notified, Vacated, StreamType, OutputType
    <2>5. OutputType' /\ ClientType'
      BY <1>18
      DEF Close, outputVars, clientVars, OutputType, ClientType
    <2>6. QED
      BY <2>1, <2>2, <2>3, <2>4, <2>5 DEF TypeOK
  <1>19. ASSUME NEW a \in Attachments, ObserveRefused(a) PROVE TypeOK'
    <2>1. TaskType'
      BY <1>19
      DEF ObserveRefused, SendNow, TaskType, States, Frames, StreamFrames
    <2>2. SharedType' /\ OutputType' /\ ClaimType' /\ StreamType' /\ ClientType'
      BY <1>19
      DEF ObserveRefused, sharedVars, outputVars, claimVars, streamVars, clientVars,
          SharedType, OutputType, ClaimType, StreamType, ClientType
    <2>3. QED
      BY <2>1, <2>2 DEF TypeOK
  <1>20. ASSUME NEW a \in Attachments, NEW from \in SnapshotStarts(a), Observe(a, from) PROVE
         TypeOK'
    <2>1. TaskType'
      BY <1>20
      DEF Observe, SendNow, TaskType, States, Frames, StreamFrames
    <2>2. StreamType'
      BY <1>20
      DEF Copy, Observe, Resumable, SnapshotStarts, StreamType, OutputType, ClientType, Kinds
    <2>3. SharedType' /\ OutputType' /\ ClaimType' /\ ClientType'
      BY <1>20
      DEF Observe, sharedVars, outputVars, claimVars, clientVars, SharedType, OutputType,
          ClaimType, ClientType
    <2>4. QED
      BY <2>1, <2>2, <2>3 DEF TypeOK
  <1>21. ASSUME NEW a \in Attachments, SendFails(a) PROVE TypeOK'
    <2>1. SharedType'
      BY <1>21, StreamAssumption
      DEF DropGate, SendFails, SharedType, Owners
    <2>2. TaskType'
      BY <1>21
      DEF Goto, SendFails, TaskType, States, Frames, StreamFrames
    <2>3. OutputType' /\ ClaimType' /\ StreamType' /\ ClientType'
      BY <1>21
      DEF SendFails, outputVars, claimVars, streamVars, clientVars, OutputType, ClaimType,
          StreamType, ClientType
    <2>4. QED
      BY <2>1, <2>2, <2>3 DEF TypeOK
  <1>22. ASSUME NEW a \in Attachments, AckFails(a) PROVE TypeOK'
    <2>1. SharedType'
      BY <1>22, StreamAssumption
      DEF AckFails, DropGate, Each, Notified, Vacated, SharedType, Owners
    <2>2. TaskType'
      BY <1>22
      DEF AckFails, Each, Goto, Notified, Vacated, TaskType, States, Frames, StreamFrames
    <2>3. ClaimType'
      BY <1>22
      DEF AckFails, Each, Notified, Vacated, ClaimType, SharedType, Owners
    <2>4. OutputType' /\ StreamType' /\ ClientType'
      BY <1>22
      DEF AckFails, outputVars, streamVars, clientVars, OutputType, StreamType, ClientType
    <2>5. QED
      BY <2>1, <2>2, <2>3, <2>4 DEF TypeOK
  <1>23. ASSUME NEW a \in Attachments, AckSent(a) PROVE TypeOK'
    <2>1. SharedType'
      BY <1>23, StreamAssumption
      DEF AckSent, DropGate, SharedType, Owners
    <2>2. TaskType'
      BY <1>23
      DEF AckSent, SendStream, TaskType, States, Frames, StreamFrames
    <2>3. OutputType' /\ ClaimType' /\ StreamType' /\ ClientType'
      BY <1>23
      DEF AckSent, outputVars, claimVars, streamVars, clientVars, OutputType, ClaimType,
          StreamType, ClientType
    <2>4. QED
      BY <2>1, <2>2, <2>3 DEF TypeOK
  <1>24. ASSUME NEW a \in Attachments, WaitingSent(a) PROVE TypeOK'
    <2>1. TaskType'
      BY <1>24
      DEF Back, Goto, LoopState, WaitingSent, TaskType, States, Frames, StreamFrames
    <2>2. ClaimType'
      BY <1>24
      DEF Back, LoopState, WaitingSent, ClaimType, SharedType, Owners
    <2>3. SharedType' /\ OutputType' /\ StreamType' /\ ClientType'
      BY <1>24
      DEF WaitingSent, sharedVars, outputVars, streamVars, clientVars, SharedType, OutputType,
          StreamType, ClientType
    <2>4. QED
      BY <2>1, <2>2, <2>3 DEF TypeOK
  <1>25. ASSUME NEW a \in Attachments, ObservingSent(a) PROVE TypeOK'
    <2>1. TaskType'
      BY <1>25
      DEF ObservingSent, SendStream, TaskType, States, Frames, StreamFrames
    <2>2. SharedType' /\ OutputType' /\ ClaimType' /\ StreamType' /\ ClientType'
      BY <1>25
      DEF ObservingSent, sharedVars, outputVars, claimVars, streamVars, clientVars,
          SharedType, OutputType, ClaimType, StreamType, ClientType
    <2>3. QED
      BY <2>1, <2>2 DEF TypeOK
  <1>26. ASSUME NEW a \in Attachments, RefusalSent(a) PROVE TypeOK'
    <2>1. TaskType'
      BY <1>26
      DEF Back, Goto, LoopState, RefusalSent, TaskType, States, Frames, StreamFrames
    <2>2. SharedType' /\ OutputType' /\ ClaimType' /\ StreamType' /\ ClientType'
      BY <1>26
      DEF RefusalSent, sharedVars, outputVars, claimVars, streamVars, clientVars, SharedType,
          OutputType, ClaimType, StreamType, ClientType
    <2>3. QED
      BY <2>1, <2>2 DEF TypeOK
  <1>27. ASSUME NEW a \in Attachments, LastSent(a) PROVE TypeOK'
    <2>1. SharedType'
      BY <1>27, StreamAssumption
      DEF DropGate, LastSent, SharedType, Owners
    <2>2. TaskType'
      BY <1>27
      DEF Goto, LastSent, TaskType, States, Frames, StreamFrames
    <2>3. OutputType' /\ ClaimType' /\ StreamType' /\ ClientType'
      BY <1>27
      DEF LastSent, outputVars, claimVars, streamVars, clientVars, OutputType, ClaimType,
          StreamType, ClientType
    <2>4. QED
      BY <2>1, <2>2, <2>3 DEF TypeOK
  <1>28. ASSUME NEW a \in Attachments, HeaderSent(a) PROVE TypeOK'
    <2>1. SharedType'
      BY <1>28, StreamAssumption
      DEF DropGate, HeaderSent, SharedType, Owners
    <2>2. TaskType'
      BY <1>28
      DEF Goto, HeaderSent, TaskType, States, Frames, StreamFrames
    <2>3. ClientType'
      BY <1>28 DEF HeaderSent, ClientType, StreamType
    <2>4. OutputType' /\ ClaimType' /\ StreamType'
      BY <1>28
      DEF HeaderSent, outputVars, claimVars, streamVars, OutputType, ClaimType, StreamType
    <2>5. QED
      BY <2>1, <2>2, <2>3, <2>4 DEF TypeOK
  <1>29. ASSUME NEW a \in Attachments, ChunkSent(a) PROVE TypeOK'
    <2>1. SharedType'
      BY <1>29, StreamAssumption
      DEF ChunkSent, DropGate, SharedType, Owners
    <2>2. TaskType'
      BY <1>29
      DEF ChunkSent, Goto, TaskType, States, Frames, StreamFrames
    <2>3. StreamType'
      BY <1>29
      DEF ChunkSent, StreamType
    <2>4. ClientType'
      BY <1>29 DEF ChunkSent, Render, ClientType, StreamType
    <2>5. OutputType' /\ ClaimType'
      BY <1>29
      DEF ChunkSent, outputVars, claimVars, OutputType, ClaimType
    <2>6. QED
      BY <2>1, <2>2, <2>3, <2>4, <2>5 DEF TypeOK
  <1>30. ASSUME NEW a \in Attachments, RunningSent(a) PROVE TypeOK'
    <2>1. SharedType'
      BY <1>30, StreamAssumption
      DEF DropGate, LoopState, RunningSent, SharedType, Owners
    <2>2. TaskType'
      BY <1>30
      DEF Goto, LoopState, RunningSent, TaskType, States, Frames, StreamFrames
    <2>3. OutputType' /\ ClaimType' /\ StreamType' /\ ClientType'
      BY <1>30
      DEF RunningSent, outputVars, claimVars, streamVars, clientVars, OutputType, ClaimType,
          StreamType, ClientType
    <2>4. QED
      BY <2>1, <2>2, <2>3 DEF TypeOK
  <1>31. ASSUME NEW a \in Attachments, FinalSent(a) PROVE TypeOK'
    <2>1. SharedType'
      BY <1>31, StreamAssumption
      DEF DropGate, FinalSent, SharedType, Owners
    <2>2. TaskType'
      BY <1>31
      DEF FinalSent, Goto, TaskType, States, Frames, StreamFrames
    <2>3. ClientType'
      BY <1>31 DEF FinalSent, ClientType
    <2>4. OutputType' /\ ClaimType' /\ StreamType'
      BY <1>31
      DEF FinalSent, outputVars, claimVars, streamVars, OutputType, ClaimType, StreamType
    <2>5. QED
      BY <2>1, <2>2, <2>3, <2>4 DEF TypeOK
  <1>32. ASSUME NEW a \in Attachments, OutputSent(a) PROVE TypeOK'
    <2>1. SharedType'
      BY <1>32, StreamAssumption
      DEF DropGate, LoopState, OutputSent, SharedType, Owners
    <2>2. TaskType'
      BY <1>32
      DEF Goto, LoopState, OutputSent, TaskType, States, Frames, StreamFrames
    <2>3. StreamType'
      BY <1>32
      DEF OutputSent, StreamType
    <2>4. ClientType'
      BY <1>32 DEF OutputSent, Render, ClientType, StreamType
    <2>5. OutputType' /\ ClaimType'
      BY <1>32
      DEF OutputSent, outputVars, claimVars, OutputType, ClaimType
    <2>6. QED
      BY <2>1, <2>2, <2>3, <2>4, <2>5 DEF TypeOK
  <1>33. ASSUME NEW a \in Attachments, WrittenSent(a) PROVE TypeOK'
    <2>1. SharedType'
      BY <1>33, StreamAssumption
      DEF DropGate, LoopState, WrittenSent, SharedType, Owners
    <2>2. TaskType'
      BY <1>33
      DEF Goto, LoopState, WrittenSent, TaskType, States, Frames, StreamFrames
    <2>3. OutputType' /\ ClaimType' /\ StreamType' /\ ClientType'
      BY <1>33
      DEF WrittenSent, outputVars, claimVars, streamVars, clientVars, OutputType, ClaimType,
          StreamType, ClientType
    <2>4. QED
      BY <2>1, <2>2, <2>3 DEF TypeOK
  <1>34. ASSUME NEW a \in Attachments, ChunkDeleted(a) PROVE TypeOK'
    <2>1. TaskType'
      BY <1>34
      DEF ChunkDeleted, SendStream, TaskType, States, Frames, StreamFrames
    <2>2. SharedType' /\ OutputType' /\ ClaimType' /\ StreamType' /\ ClientType'
      BY <1>34
      DEF ChunkDeleted, sharedVars, outputVars, claimVars, streamVars, clientVars, SharedType,
          OutputType, ClaimType, StreamType, ClientType
    <2>3. QED
      BY <2>1, <2>2 DEF TypeOK
  <1>35. ASSUME NEW a \in Attachments, NextChunk(a) PROVE TypeOK'
    <2>1. TaskType'
      BY <1>35
      DEF NextChunk, SendStream, TaskType, States, Frames, StreamFrames
    <2>2. SharedType' /\ OutputType' /\ ClaimType' /\ StreamType' /\ ClientType'
      BY <1>35
      DEF NextChunk, sharedVars, outputVars, claimVars, streamVars, clientVars, SharedType,
          OutputType, ClaimType, StreamType, ClientType
    <2>3. QED
      BY <2>1, <2>2 DEF TypeOK
  <1>36. ASSUME NEW a \in Attachments, ChunksDone(a) PROVE TypeOK'
    <2>1. TaskType'
      BY <1>36
      DEF ChunksDone, Goto, TaskType, States, Frames, StreamFrames
    <2>2. StreamType'
      BY <1>36
      DEF ChunksDone, StreamType
    <2>3. SharedType' /\ OutputType' /\ ClaimType' /\ ClientType'
      BY <1>36
      DEF ChunksDone, sharedVars, outputVars, claimVars, clientVars, SharedType, OutputType,
          ClaimType, ClientType
    <2>4. QED
      BY <2>1, <2>2, <2>3 DEF TypeOK
  <1>37. ASSUME NEW a \in Attachments, CatchUpDeleted(a) PROVE TypeOK'
    <2>1. TaskType'
      BY <1>37
      DEF CatchUpDeleted, SendStream, TaskType, States, Frames, StreamFrames
    <2>2. SharedType' /\ OutputType' /\ ClaimType' /\ StreamType' /\ ClientType'
      BY <1>37
      DEF CatchUpDeleted, sharedVars, outputVars, claimVars, streamVars, clientVars,
          SharedType, OutputType, ClaimType, StreamType, ClientType
    <2>3. QED
      BY <2>1, <2>2 DEF TypeOK
  <1>38. ASSUME NEW a \in Attachments, CatchUp(a) PROVE TypeOK'
    <2>1. TaskType'
      BY <1>38
      DEF CatchUp, Goto, TaskType, States, Frames, StreamFrames
    <2>2. SharedType' /\ OutputType' /\ ClaimType' /\ StreamType' /\ ClientType'
      BY <1>38
      DEF CatchUp, sharedVars, outputVars, claimVars, streamVars, clientVars, SharedType,
          OutputType, ClaimType, StreamType, ClientType
    <2>3. QED
      BY <2>1, <2>2 DEF TypeOK
  <1>39. ASSUME NEW a \in Attachments, Subscribe(a) PROVE TypeOK'
    <2>1. TaskType'
      BY <1>39
      DEF Goto, Subscribe, TaskType, States, Frames, StreamFrames
    <2>2. StreamType'
      BY <1>39
      DEF Copy, Subscribe, StreamType, OutputType
    <2>3. SharedType' /\ OutputType' /\ ClaimType' /\ ClientType'
      BY <1>39
      DEF Subscribe, sharedVars, outputVars, claimVars, clientVars, SharedType, OutputType,
          ClaimType, ClientType
    <2>4. QED
      BY <2>1, <2>2, <2>3 DEF TypeOK
  <1>40. ASSUME NEW a \in Attachments, BoundaryGap(a) PROVE TypeOK'
    <2>1. TaskType'
      BY <1>40
      DEF BoundaryGap, SendStream, TaskType, States, Frames, StreamFrames
    <2>2. SharedType' /\ OutputType' /\ ClaimType' /\ StreamType' /\ ClientType'
      BY <1>40
      DEF BoundaryGap, sharedVars, outputVars, claimVars, streamVars, clientVars, SharedType,
          OutputType, ClaimType, StreamType, ClientType
    <2>3. QED
      BY <2>1, <2>2 DEF TypeOK
  <1>41. ASSUME NEW a \in Attachments, BoundarySuffix(a) PROVE TypeOK'
    <2>1. TaskType'
      BY <1>41
      DEF BoundarySuffix, Goto, TaskType, States, Frames, StreamFrames
    <2>2. SharedType' /\ OutputType' /\ ClaimType' /\ StreamType' /\ ClientType'
      BY <1>41
      DEF BoundarySuffix, sharedVars, outputVars, claimVars, streamVars, clientVars,
          SharedType, OutputType, ClaimType, StreamType, ClientType
    <2>3. QED
      BY <2>1, <2>2 DEF TypeOK
  <1>42. ASSUME NEW a \in Attachments, BoundaryEmpty(a) PROVE TypeOK'
    <2>1. TaskType'
      BY <1>42
      DEF BoundaryEmpty, Goto, TaskType, States, Frames, StreamFrames
    <2>2. SharedType' /\ OutputType' /\ ClaimType' /\ StreamType' /\ ClientType'
      BY <1>42
      DEF BoundaryEmpty, sharedVars, outputVars, claimVars, streamVars, clientVars,
          SharedType, OutputType, ClaimType, StreamType, ClientType
    <2>3. QED
      BY <2>1, <2>2 DEF TypeOK
  <1>43. ASSUME NEW a \in Attachments, DescribeDeleted(a) PROVE TypeOK'
    <2>1. TaskType'
      BY <1>43
      DEF DescribeDeleted, SendStream, TaskType, States, Frames, StreamFrames
    <2>2. SharedType' /\ OutputType' /\ ClaimType' /\ StreamType' /\ ClientType'
      BY <1>43
      DEF DescribeDeleted, sharedVars, outputVars, claimVars, streamVars, clientVars,
          SharedType, OutputType, ClaimType, StreamType, ClientType
    <2>3. QED
      BY <2>1, <2>2 DEF TypeOK
  <1>44. ASSUME NEW a \in Attachments, DescribeRunning(a) PROVE TypeOK'
    <2>1. TaskType'
      BY <1>44
      DEF DescribeRunning, SendStream, TaskType, States, Frames, StreamFrames
    <2>2. StreamType'
      BY <1>44
      DEF DescribeRunning, StreamType
    <2>3. SharedType' /\ OutputType' /\ ClaimType' /\ ClientType'
      BY <1>44
      DEF DescribeRunning, sharedVars, outputVars, claimVars, clientVars, SharedType,
          OutputType, ClaimType, ClientType
    <2>4. QED
      BY <2>1, <2>2, <2>3 DEF TypeOK
  <1>45. ASSUME NEW a \in Attachments, DescribeStillRunning(a) PROVE TypeOK'
    <2>1. TaskType'
      BY <1>45
      DEF DescribeStillRunning, Goto, LoopState, TaskType, States, Frames, StreamFrames
    <2>2. SharedType' /\ OutputType' /\ ClaimType' /\ StreamType' /\ ClientType'
      BY <1>45
      DEF DescribeStillRunning, sharedVars, outputVars, claimVars, streamVars, clientVars,
          SharedType, OutputType, ClaimType, StreamType, ClientType
    <2>3. QED
      BY <2>1, <2>2 DEF TypeOK
  <1>46. ASSUME NEW a \in Attachments, DescribePending(a) PROVE TypeOK'
    <2>1. TaskType'
      BY <1>46
      DEF DescribePending, Goto, LoopState, TaskType, States, Frames, StreamFrames
    <2>2. StreamType'
      BY <1>46
      DEF DescribePending, StreamType
    <2>3. SharedType' /\ OutputType' /\ ClaimType' /\ ClientType'
      BY <1>46
      DEF DescribePending, sharedVars, outputVars, claimVars, clientVars, SharedType,
          OutputType, ClaimType, ClientType
    <2>4. QED
      BY <2>1, <2>2, <2>3 DEF TypeOK
  <1>47. ASSUME NEW a \in Attachments, DescribeFinal(a) PROVE TypeOK'
    <2>1. TaskType'
      BY <1>47
      DEF DescribeFinal, SendStream, TaskType, States, Frames, StreamFrames
    <2>2. SharedType' /\ OutputType' /\ ClaimType' /\ StreamType' /\ ClientType'
      BY <1>47
      DEF DescribeFinal, sharedVars, outputVars, claimVars, streamVars, clientVars,
          SharedType, OutputType, ClaimType, StreamType, ClientType
    <2>3. QED
      BY <2>1, <2>2 DEF TypeOK
  <1>48. ASSUME NEW a \in Attachments, LiveLagged(a) PROVE TypeOK'
    <2>1. TaskType'
      BY <1>48
      DEF Goto, LiveLagged, TaskType, States, Frames, StreamFrames
    <2>2. StreamType'
      BY <1>48
      DEF LiveLagged, StreamType
    <2>3. SharedType' /\ OutputType' /\ ClaimType' /\ ClientType'
      BY <1>48
      DEF LiveLagged, sharedVars, outputVars, claimVars, clientVars, SharedType, OutputType,
          ClaimType, ClientType
    <2>4. QED
      BY <2>1, <2>2, <2>3 DEF TypeOK
  <1>49. ASSUME NEW a \in Attachments, LiveOutput(a) PROVE TypeOK'
    <2>1. TaskType'
      BY <1>49
      DEF LiveOutput, SendStream, TaskType, States, Frames, StreamFrames
    <2>2. StreamType'
      <3>1. Len(events) \in Nat /\ pos[a] \in Nat \ {0}
        BY DEF OutputType, StreamType
      <3>2. Len(events) - pos[a] + 1 \in 1..Capacity
        BY <1>49 DEF LiveOutput, Receives, Behind
      <3>3. pos[a] \in 1..Len(events)
        BY <3>1, <3>2, StreamAssumption
      <3>4. events[pos[a]] \in [kind : Kinds, offset : Nat]
        BY <3>3, ElementOfSeq DEF OutputType
      <3>5. events[pos[a]].offset \in Nat
        BY <3>4
      <3>6. QED
        BY <1>49, <3>1, <3>5, SMTT(30) DEF LiveOutput, Received, StreamType
    <2>3. SharedType' /\ OutputType' /\ ClaimType' /\ ClientType'
      BY <1>49
      DEF LiveOutput, sharedVars, outputVars, claimVars, clientVars, SharedType, OutputType,
          ClaimType, ClientType
    <2>4. QED
      BY <2>1, <2>2, <2>3 DEF TypeOK
  <1>50. ASSUME NEW a \in Attachments, LiveStatus(a) PROVE TypeOK'
    <2>1. TaskType'
      BY <1>50
      DEF Goto, LiveStatus, LoopState, TaskType, States, Frames, StreamFrames
    <2>2. StreamType'
      BY <1>50
      DEF LiveStatus, Received, StreamType
    <2>3. SharedType' /\ OutputType' /\ ClaimType' /\ ClientType'
      BY <1>50
      DEF LiveStatus, sharedVars, outputVars, claimVars, clientVars, SharedType, OutputType,
          ClaimType, ClientType
    <2>4. QED
      BY <2>1, <2>2, <2>3 DEF TypeOK
  <1>51. ASSUME NEW a \in Attachments, LiveClosed(a) PROVE TypeOK'
    <2>1. TaskType'
      BY <1>51
      DEF Goto, LiveClosed, LoopState, TaskType, States, Frames, StreamFrames
    <2>2. StreamType'
      BY <1>51
      DEF LiveClosed, Received, StreamType
    <2>3. SharedType' /\ OutputType' /\ ClaimType' /\ ClientType'
      BY <1>51
      DEF LiveClosed, sharedVars, outputVars, claimVars, clientVars, SharedType, OutputType,
          ClaimType, ClientType
    <2>4. QED
      BY <2>1, <2>2, <2>3 DEF TypeOK
  <1>52. ASSUME NEW a \in Attachments, LiveFinal(a) PROVE TypeOK'
    <2>1. TaskType'
      BY <1>52
      DEF LiveFinal, SendStream, TaskType, States, Frames, StreamFrames
    <2>2. StreamType'
      BY <1>52
      DEF LiveFinal, Received, StreamType
    <2>3. SharedType' /\ OutputType' /\ ClaimType' /\ ClientType'
      BY <1>52
      DEF LiveFinal, sharedVars, outputVars, claimVars, clientVars, SharedType, OutputType,
          ClaimType, ClientType
    <2>4. QED
      BY <2>1, <2>2, <2>3 DEF TypeOK
  <1>53. ASSUME NEW a \in Attachments, LiveDeleted(a) PROVE TypeOK'
    <2>1. TaskType'
      BY <1>53
      DEF LiveDeleted, SendStream, TaskType, States, Frames, StreamFrames
    <2>2. StreamType'
      BY <1>53
      DEF LiveDeleted, Received, StreamType
    <2>3. SharedType' /\ OutputType' /\ ClaimType' /\ ClientType'
      BY <1>53
      DEF LiveDeleted, sharedVars, outputVars, claimVars, clientVars, SharedType, OutputType,
          ClaimType, ClientType
    <2>4. QED
      BY <2>1, <2>2, <2>3 DEF TypeOK
  <1>54. ASSUME NEW a \in Attachments, ClaimUnchanged(a) PROVE TypeOK'
    <2>1. TaskType'
      BY <1>54
      DEF Back, ClaimUnchanged, Goto, LoopState, TaskType, States, Frames, StreamFrames
    <2>2. SharedType' /\ OutputType' /\ ClaimType' /\ StreamType' /\ ClientType'
      BY <1>54
      DEF ClaimUnchanged, sharedVars, outputVars, claimVars, streamVars, clientVars,
          SharedType, OutputType, ClaimType, StreamType, ClientType
    <2>3. QED
      BY <2>1, <2>2 DEF TypeOK
  <1>55. ASSUME NEW a \in Attachments, ClaimWaits(a) PROVE TypeOK'
    <2>1. TaskType'
      BY <1>55
      DEF ClaimWaits, SendNow, TaskType, States, Frames, StreamFrames
    <2>2. SharedType' /\ OutputType' /\ ClaimType' /\ StreamType' /\ ClientType'
      BY <1>55
      DEF ClaimWaits, sharedVars, outputVars, claimVars, streamVars, clientVars, SharedType,
          OutputType, ClaimType, StreamType, ClientType
    <2>3. QED
      BY <2>1, <2>2 DEF TypeOK
  <1>56. ASSUME NEW a \in Attachments, ClaimFallsBack(a) PROVE TypeOK'
    <2>1. TaskType'
      BY <1>56
      DEF ClaimFallsBack, Goto, TaskType, States, Frames, StreamFrames
    <2>2. SharedType' /\ OutputType' /\ ClaimType' /\ StreamType' /\ ClientType'
      BY <1>56
      DEF ClaimFallsBack, sharedVars, outputVars, claimVars, streamVars, clientVars,
          SharedType, OutputType, ClaimType, StreamType, ClientType
    <2>3. QED
      BY <2>1, <2>2 DEF TypeOK
  <1>57. ASSUME NEW a \in Attachments, ClaimRefused(a) PROVE TypeOK'
    <2>1. TaskType'
      BY <1>57
      DEF ClaimRefused, SendNow, TaskType, States, Frames, StreamFrames
    <2>2. SharedType' /\ OutputType' /\ ClaimType' /\ StreamType' /\ ClientType'
      BY <1>57
      DEF ClaimRefused, sharedVars, outputVars, claimVars, streamVars, clientVars, SharedType,
          OutputType, ClaimType, StreamType, ClientType
    <2>3. QED
      BY <2>1, <2>2 DEF TypeOK
  <1>58. ASSUME NEW a \in Attachments, NEW from \in SnapshotStarts(a), ClaimWins(a, from)
         PROVE TypeOK'
    <2>1. SharedType'
      BY <1>58, StreamAssumption
      DEF Claim, ClaimWins, Each, SharedType, Owners
    <2>2. TaskType'
      BY <1>58
      DEF ClaimWins, Each, SendNow, TaskType, States, Frames, StreamFrames
    <2>3. ClaimType'
      BY <1>58
      DEF Claim, ClaimWins, Each, ClaimType, SharedType, Owners
    <2>4. StreamType'
      BY <1>58
      DEF Claim, ClaimWins, Copy, Each, Resumable, SnapshotStarts, StreamType, OutputType,
          ClientType, Kinds
    <2>5. OutputType' /\ ClientType'
      BY <1>58
      DEF ClaimWins, Claim, outputVars, clientVars, OutputType, ClientType
    <2>6. QED
      BY <2>1, <2>2, <2>3, <2>4, <2>5 DEF TypeOK
  <1>59. ASSUME NEW a \in Attachments, NEW from \in SnapshotStarts(a), ClaimWinsSilently(a,
         from) PROVE TypeOK'
    <2>1. SharedType'
      BY <1>59, StreamAssumption
      DEF Claim, ClaimWinsSilently, Each, SharedType, Owners
    <2>2. TaskType'
      BY <1>59
      DEF ClaimWinsSilently, Each, TaskType, States, Frames, StreamFrames
    <2>3. ClaimType'
      BY <1>59
      DEF Claim, ClaimWinsSilently, Each, ClaimType, SharedType, Owners
    <2>4. StreamType'
      BY <1>59, SMTT(30)
      DEF Claim, ClaimWinsSilently, Copy, Each, Resumable, SnapshotStarts, StreamType,
          OutputType, ClientType, Kinds
    <2>5. OutputType' /\ ClientType'
      BY <1>59
      DEF ClaimWinsSilently, Claim, outputVars, clientVars, OutputType, ClientType
    <2>6. QED
      BY <2>1, <2>2, <2>3, <2>4, <2>5 DEF TypeOK
  <1>60. ASSUME NEW a \in Attachments, TakeGate(a) PROVE TypeOK'
    <2>1. SharedType'
      BY <1>60, StreamAssumption
      DEF TakeGate, SharedType, Owners
    <2>2. TaskType'
      BY <1>60
      DEF TakeGate, TaskType, States, Frames, StreamFrames
    <2>3. OutputType' /\ ClaimType' /\ StreamType' /\ ClientType'
      BY <1>60
      DEF TakeGate, outputVars, claimVars, streamVars, clientVars, OutputType, ClaimType,
          StreamType, ClientType
    <2>4. QED
      BY <2>1, <2>2, <2>3 DEF TypeOK
  <1>61. ASSUME NEW a \in Attachments, Superseded(a) PROVE TypeOK'
    <2>1. SharedType'
      BY <1>61, StreamAssumption
      DEF Superseded, SharedType, Owners
    <2>2. TaskType'
      BY <1>61
      DEF SendNow, Superseded, TaskType, States, Frames, StreamFrames
    <2>3. OutputType' /\ ClaimType' /\ StreamType' /\ ClientType'
      BY <1>61
      DEF Superseded, outputVars, claimVars, streamVars, clientVars, OutputType, ClaimType,
          StreamType, ClientType
    <2>4. QED
      BY <2>1, <2>2, <2>3 DEF TypeOK
  <1>62. ASSUME NEW a \in Attachments, InputWritten(a) PROVE TypeOK'
    <2>1. TaskType'
      BY <1>62
      DEF Goto, InputWritten, LoopState, TaskType, States, Frames, StreamFrames
    <2>2. ClientType'
      <3>1. grant[a] \in Nat
        BY <1>62, StreamAssumption DEF InputWritten, IsOwner, SharedType, ClaimType, Owners
      <3>2. QED
        BY <1>62, <3>1 DEF InputWritten, ClientType
    <2>3. SharedType' /\ OutputType' /\ ClaimType' /\ StreamType'
      BY <1>62
      DEF InputWritten, sharedVars, outputVars, claimVars, streamVars, SharedType, OutputType,
          ClaimType, StreamType
    <2>4. QED
      BY <2>1, <2>2, <2>3 DEF TypeOK
  <1>63. ASSUME NEW a \in Attachments, InputAcknowledged(a) PROVE TypeOK'
    <2>1. SharedType'
      BY <1>63, StreamAssumption
      DEF InputAcknowledged, SharedType, Owners
    <2>2. TaskType'
      BY <1>63
      DEF InputAcknowledged, SendNow, TaskType, States, Frames, StreamFrames
    <2>3. ClientType'
      <3>1. grant[a] \in Nat
        BY <1>63, StreamAssumption DEF InputAcknowledged, IsOwner, SharedType, ClaimType, Owners
      <3>2. QED
        BY <1>63, <3>1 DEF InputAcknowledged, ClientType
    <2>4. OutputType' /\ ClaimType' /\ StreamType'
      BY <1>63
      DEF InputAcknowledged, outputVars, claimVars, streamVars, OutputType, ClaimType,
          StreamType
    <2>5. QED
      BY <2>1, <2>2, <2>3, <2>4 DEF TypeOK
  <1>64. ASSUME NEW a \in Attachments, InputLost(a) PROVE TypeOK'
    <2>1. SharedType'
      BY <1>64, StreamAssumption
      DEF InputLost, SharedType, Owners
    <2>2. TaskType'
      BY <1>64
      DEF InputLost, SendNow, TaskType, States, Frames, StreamFrames
    <2>3. OutputType' /\ ClaimType' /\ StreamType' /\ ClientType'
      BY <1>64
      DEF InputLost, outputVars, claimVars, streamVars, clientVars, OutputType, ClaimType,
          StreamType, ClientType
    <2>4. QED
      BY <2>1, <2>2, <2>3 DEF TypeOK
  <1>Admit. ASSUME NEW a \in Attachments, Admit(a) PROVE TypeOK'
    <2>1. TaskType'
      BY <1>Admit DEF Admit, Goto, TaskType, States, Frames, StreamFrames
    <2>2. ClaimType'
      BY <1>Admit DEF Admit, ClaimType
    <2>3. SharedType' /\ OutputType' /\ StreamType' /\ ClientType'
      BY <1>Admit
      DEF Admit, sharedVars, outputVars, streamVars, clientVars, SharedType, OutputType,
          StreamType, ClientType
    <2>4. QED
      BY <2>1, <2>2, <2>3 DEF TypeOK
  <1>NotFound. ASSUME NEW a \in Attachments, NotFound(a) PROVE TypeOK'
    <2>1. TaskType'
      BY <1>NotFound DEF NotFound, Goto, TaskType, States, Frames, StreamFrames
    <2>2. SharedType' /\ OutputType' /\ ClaimType' /\ StreamType' /\ ClientType'
      BY <1>NotFound
      DEF NotFound, sharedVars, outputVars, claimVars, streamVars, clientVars, SharedType,
          OutputType, ClaimType, StreamType, ClientType
    <2>3. QED
      BY <2>1, <2>2 DEF TypeOK
  <1>InputFails. ASSUME NEW a \in Attachments, InputFails(a) PROVE TypeOK'
    <2>1. SharedType'
      BY <1>InputFails, StreamAssumption DEF InputFails, SharedType, Owners
    <2>2. TaskType'
      BY <1>InputFails DEF InputFails, SendNow, TaskType, States, Frames, StreamFrames
    <2>3. ClientType'
      <3>1. IsOwner(a) => grant[a] \in Nat
        BY <1>InputFails, StreamAssumption DEF IsOwner, SharedType, ClaimType, Owners
      <3>2. input' \in Seq(Nat)
        <4>1. CASE UNCHANGED input
          BY <4>1 DEF ClientType
        <4>2. CASE IsOwner(a) /\ input' = Append(input, grant[a])
          BY <3>1, <4>2 DEF ClientType
        <4>3. QED
          BY <1>InputFails, <4>1, <4>2 DEF InputFails
      <3>3. QED
        BY <1>InputFails, <3>2 DEF InputFails, ClientType
    <2>4. OutputType' /\ ClaimType' /\ StreamType'
      BY <1>InputFails
      DEF InputFails, outputVars, claimVars, streamVars, OutputType, ClaimType, StreamType
    <2>5. QED
      BY <2>1, <2>2, <2>3, <2>4 DEF TypeOK
  <1>65. CASE UNCHANGED vars
    BY <1>65
    DEF vars, sharedVars, outputVars, taskVars, claimVars, streamVars, clientVars, SharedType,
        OutputType, TaskType, ClaimType, StreamType, ClientType
  <1>66. QED
    BY <1>1, <1>2, <1>3, <1>4, <1>5, <1>6, <1>7, <1>8, <1>9, <1>10, <1>11, <1>12, <1>13,
        <1>14, <1>15, <1>16, <1>17, <1>18, <1>19, <1>20, <1>21, <1>22, <1>23, <1>24, <1>25,
        <1>26, <1>27, <1>28, <1>29, <1>30, <1>31, <1>32, <1>33, <1>34, <1>35, <1>36, <1>37,
        <1>38, <1>39, <1>40, <1>41, <1>42, <1>43, <1>44, <1>45, <1>46, <1>47, <1>48, <1>49,
        <1>50, <1>51, <1>52, <1>53, <1>54, <1>55, <1>56, <1>57, <1>58, <1>59, <1>60, <1>61,
        <1>62, <1>63, <1>64, <1>65, <1>Admit, <1>NotFound, <1>InputFails
    DEF Next, Environment, Client, Progress, UnderGate

\* Every variable keeps its type, for every behaviour of a runtime and its clients.
THEOREM TypeCorrect == Spec => []TypeOK
  BY InitType, TypeStep, PTL DEF Spec

-----------------------------------------------------------------------------
(* The delivery gate *)

\* Control changes hands only while nobody sends under the gate.
LEMMA GateStep ==
  ASSUME SharedType, TaskType, ClaimType, GateInv, [Next]_vars PROVE GateInv'
  <1> SUFFICES ASSUME NEW b \in Attachments PROVE Gated(b)'
    BY DEF GateInv
  <1> Gated(b)
    BY DEF GateInv
  <1>1. CASE Environment
    BY <1>1
    DEF Environment, AppendOutput, CloseOutput, MarkExited, AnnounceStatus, Delete,
        AnnounceDelete, claimVars, sharedVars, taskVars, Gated, At, StreamFrames
  <1>2. ASSUME NEW a \in Attachments, NEW from \in ResumePoints, Attach(a, from)
         PROVE Gated(b)'
    <2> Gated(a)
      BY DEF GateInv
    <2> QED
      BY <1>2, StreamAssumption
      DEF At, Attach, Goto, claimVars, sharedVars, Gated, SharedType, TaskType, ClaimType,
          StreamFrames
  <1>3. ASSUME NEW a \in Attachments, NEW f \in BOOLEAN, IdleClaim(a, f) PROVE Gated(b)'
    <2> Gated(a)
      BY DEF GateInv
    <2> QED
      BY <1>3, StreamAssumption
      DEF At, Goto, IdleClaim, sharedVars, Gated, SharedType, TaskType, ClaimType,
          StreamFrames
  <1>4. ASSUME NEW a \in Attachments, NEW f \in BOOLEAN, LiveClaim(a, f) PROVE Gated(b)'
    <2> Gated(a)
      BY DEF GateInv
    <2> QED
      BY <1>4, StreamAssumption
      DEF At, Goto, LiveClaim, sharedVars, Gated, SharedType, TaskType, ClaimType,
          StreamFrames
  <1>5. ASSUME NEW a \in Attachments, IdleObserve(a) PROVE Gated(b)'
    <2> Gated(a)
      BY DEF GateInv
    <2> QED
      BY <1>5, StreamAssumption
      DEF At, Goto, IdleObserve, sharedVars, Gated, SharedType, TaskType, ClaimType,
          StreamFrames
  <1>6. ASSUME NEW a \in Attachments, IdleInput(a) PROVE Gated(b)'
    <2> Gated(a)
      BY DEF GateInv
    <2> QED
      BY <1>6, StreamAssumption
      DEF At, IdleInput, SendNow, sharedVars, Gated, SharedType, TaskType, ClaimType,
          StreamFrames
  <1>7. ASSUME NEW a \in Attachments, LiveObserve(a) PROVE Gated(b)'
    <2> Gated(a)
      BY DEF GateInv
    <2> QED
      BY <1>7, StreamAssumption
      DEF At, Goto, IsOwner, LiveObserve, Vacated, Gated, SharedType, TaskType, ClaimType,
          StreamFrames
  <1>8. ASSUME NEW a \in Attachments, LiveInput(a) PROVE Gated(b)'
    <2> Gated(a)
      BY DEF GateInv
    <2> QED
      BY <1>8, StreamAssumption
      DEF At, Goto, LiveInput, claimVars, sharedVars, Gated, SharedType, TaskType, ClaimType,
          StreamFrames
  <1>9. ASSUME NEW a \in Attachments, LiveInputRefused(a) PROVE Gated(b)'
    <2> Gated(a)
      BY DEF GateInv
    <2> QED
      BY <1>9, StreamAssumption
      DEF At, LiveInputRefused, SendNow, sharedVars, Gated, SharedType, TaskType, ClaimType,
          StreamFrames
  <1>10. ASSUME NEW a \in Attachments, Leave(a) PROVE Gated(b)'
    <2> Gated(a)
      BY DEF GateInv
    <2> QED
      BY <1>10, StreamAssumption
      DEF Goto, Leave, claimVars, sharedVars, Gated, SharedType, TaskType, ClaimType,
          StreamFrames
  <1>11. ASSUME NEW a \in Attachments, IdleDeleted(a) PROVE Gated(b)'
    <2> Gated(a)
      BY DEF GateInv
    <2> QED
      BY <1>11, StreamAssumption
      DEF At, IdleDeleted, SendNow, claimVars, sharedVars, Gated, SharedType, TaskType,
          ClaimType, StreamFrames
  <1>12. ASSUME NEW a \in Attachments, IdleRetry(a) PROVE Gated(b)'
    <2> Gated(a)
      BY DEF GateInv
    <2> QED
      BY <1>12, StreamAssumption
      DEF At, Goto, IdleRetry, sharedVars, Gated, SharedType, TaskType, ClaimType,
          StreamFrames
  <1>13. ASSUME NEW a \in Attachments, Close(a) PROVE Gated(b)'
    <2> Gated(a)
      BY DEF GateInv
    <2> QED
      BY <1>13, StreamAssumption
      DEF At, Close, Goto, IsOwner, Vacated, Gated, SharedType, TaskType, ClaimType,
          StreamFrames
  <1>14. ASSUME NEW a \in Attachments, ObserveRefused(a) PROVE Gated(b)'
    <2> Gated(a)
      BY DEF GateInv
    <2> QED
      BY <1>14, StreamAssumption
      DEF At, ObserveRefused, SendNow, claimVars, sharedVars, Gated, SharedType, TaskType,
          ClaimType, StreamFrames
  <1>15. ASSUME NEW a \in Attachments, NEW from \in SnapshotStarts(a), Observe(a, from) PROVE
         Gated(b)'
    <2> Gated(a)
      BY DEF GateInv
    <2> QED
      BY <1>15, StreamAssumption
      DEF At, Observe, SendNow, claimVars, sharedVars, Gated, SharedType, TaskType, ClaimType,
          StreamFrames
  <1>16. ASSUME NEW a \in Attachments, SendFails(a) PROVE Gated(b)'
    <2> Gated(a)
      BY DEF GateInv
    <2> QED
      BY <1>16, StreamAssumption
      DEF At, DropGate, Goto, SendFails, claimVars, Gated, SharedType, TaskType, ClaimType,
          StreamFrames
  <1>17. ASSUME NEW a \in Attachments, AckFails(a) PROVE Gated(b)'
    <2> Gated(a)
      BY DEF GateInv
    <2> QED
      BY <1>17, StreamAssumption
      DEF AckFails, At, DropGate, Goto, IsOwner, Sending, Vacated, Gated, SharedType,
          TaskType, ClaimType, StreamFrames
  <1>18. ASSUME NEW a \in Attachments, AckSent(a) PROVE Gated(b)'
    <2> Gated(a)
      BY DEF GateInv
    <2> QED
      BY <1>18, StreamAssumption
      DEF AckSent, At, DropGate, SendStream, Sending, claimVars, Gated, SharedType, TaskType,
          ClaimType, StreamFrames
  <1>19. ASSUME NEW a \in Attachments, WaitingSent(a) PROVE Gated(b)'
    <2> Gated(a)
      BY DEF GateInv
    <2> QED
      BY <1>19, StreamAssumption
      DEF At, Back, Goto, IsOwner, LoopState, Sending, WaitingSent, sharedVars, Gated,
          SharedType, TaskType, ClaimType, StreamFrames
  <1>20. ASSUME NEW a \in Attachments, ObservingSent(a) PROVE Gated(b)'
    <2> Gated(a)
      BY DEF GateInv
    <2> QED
      BY <1>20, StreamAssumption
      DEF At, ObservingSent, SendStream, Sending, claimVars, sharedVars, Gated, SharedType,
          TaskType, ClaimType, StreamFrames
  <1>21. ASSUME NEW a \in Attachments, RefusalSent(a) PROVE Gated(b)'
    <2> Gated(a)
      BY DEF GateInv
    <2> QED
      BY <1>21, StreamAssumption
      DEF At, Back, Goto, IsOwner, LoopState, RefusalSent, Sending, claimVars, sharedVars,
          Gated, SharedType, TaskType, ClaimType, StreamFrames
  <1>22. ASSUME NEW a \in Attachments, LastSent(a) PROVE Gated(b)'
    <2> Gated(a)
      BY DEF GateInv
    <2> QED
      BY <1>22, StreamAssumption
      DEF At, DropGate, Goto, LastSent, claimVars, Gated, SharedType, TaskType, ClaimType,
          StreamFrames
  <1>23. ASSUME NEW a \in Attachments, HeaderSent(a) PROVE Gated(b)'
    <2> Gated(a)
      BY DEF GateInv
    <2> QED
      BY <1>23, StreamAssumption
      DEF At, DropGate, Goto, HeaderSent, Sending, claimVars, Gated, SharedType, TaskType,
          ClaimType, StreamFrames
  <1>24. ASSUME NEW a \in Attachments, ChunkSent(a) PROVE Gated(b)'
    <2> Gated(a)
      BY DEF GateInv
    <2> QED
      BY <1>24, StreamAssumption
      DEF At, ChunkSent, DropGate, Goto, Sending, claimVars, Gated, SharedType, TaskType,
          ClaimType, StreamFrames
  <1>25. ASSUME NEW a \in Attachments, RunningSent(a) PROVE Gated(b)'
    <2> Gated(a)
      BY DEF GateInv
    <2> QED
      BY <1>25, StreamAssumption
      DEF At, DropGate, Goto, IsOwner, LoopState, RunningSent, Sending, claimVars, Gated,
          SharedType, TaskType, ClaimType, StreamFrames
  <1>26. ASSUME NEW a \in Attachments, FinalSent(a) PROVE Gated(b)'
    <2> Gated(a)
      BY DEF GateInv
    <2> QED
      BY <1>26, StreamAssumption
      DEF At, DropGate, FinalSent, Goto, Sending, claimVars, Gated, SharedType, TaskType,
          ClaimType, StreamFrames
  <1>27. ASSUME NEW a \in Attachments, OutputSent(a) PROVE Gated(b)'
    <2> Gated(a)
      BY DEF GateInv
    <2> QED
      BY <1>27, StreamAssumption
      DEF At, DropGate, Goto, IsOwner, LoopState, OutputSent, Sending, claimVars, Gated,
          SharedType, TaskType, ClaimType, StreamFrames
  <1>28. ASSUME NEW a \in Attachments, WrittenSent(a) PROVE Gated(b)'
    <2> Gated(a)
      BY DEF GateInv
    <2> QED
      BY <1>28, StreamAssumption
      DEF At, DropGate, Goto, IsOwner, LoopState, Sending, WrittenSent, claimVars, Gated,
          SharedType, TaskType, ClaimType, StreamFrames
  <1>29. ASSUME NEW a \in Attachments, ChunkDeleted(a) PROVE Gated(b)'
    <2> Gated(a)
      BY DEF GateInv
    <2> QED
      BY <1>29, StreamAssumption
      DEF At, ChunkDeleted, SendStream, claimVars, sharedVars, Gated, SharedType, TaskType,
          ClaimType, StreamFrames
  <1>30. ASSUME NEW a \in Attachments, NextChunk(a) PROVE Gated(b)'
    <2> Gated(a)
      BY DEF GateInv
    <2> QED
      BY <1>30, StreamAssumption
      DEF At, NextChunk, SendStream, claimVars, sharedVars, Gated, SharedType, TaskType,
          ClaimType, StreamFrames
  <1>31. ASSUME NEW a \in Attachments, ChunksDone(a) PROVE Gated(b)'
    <2> Gated(a)
      BY DEF GateInv
    <2> QED
      BY <1>31, StreamAssumption
      DEF At, ChunksDone, Goto, claimVars, sharedVars, Gated, SharedType, TaskType, ClaimType,
          StreamFrames
  <1>32. ASSUME NEW a \in Attachments, CatchUpDeleted(a) PROVE Gated(b)'
    <2> Gated(a)
      BY DEF GateInv
    <2> QED
      BY <1>32, StreamAssumption
      DEF CatchUpDeleted, SendStream, claimVars, sharedVars, Gated, SharedType, TaskType,
          ClaimType, StreamFrames
  <1>33. ASSUME NEW a \in Attachments, CatchUp(a) PROVE Gated(b)'
    <2> Gated(a)
      BY DEF GateInv
    <2> QED
      BY <1>33, StreamAssumption
      DEF At, CatchUp, Goto, claimVars, sharedVars, Gated, SharedType, TaskType, ClaimType,
          StreamFrames
  <1>34. ASSUME NEW a \in Attachments, Subscribe(a) PROVE Gated(b)'
    <2> Gated(a)
      BY DEF GateInv
    <2> QED
      BY <1>34, StreamAssumption
      DEF At, Goto, Subscribe, claimVars, sharedVars, Gated, SharedType, TaskType, ClaimType,
          StreamFrames
  <1>35. ASSUME NEW a \in Attachments, BoundaryGap(a) PROVE Gated(b)'
    <2> Gated(a)
      BY DEF GateInv
    <2> QED
      BY <1>35, StreamAssumption
      DEF At, BoundaryGap, SendStream, Subscribed, claimVars, sharedVars, Gated, SharedType,
          TaskType, ClaimType, StreamFrames
  <1>36. ASSUME NEW a \in Attachments, BoundarySuffix(a) PROVE Gated(b)'
    <2> Gated(a)
      BY DEF GateInv
    <2> QED
      BY <1>36, StreamAssumption
      DEF At, BoundarySuffix, Goto, Subscribed, claimVars, sharedVars, Gated, SharedType,
          TaskType, ClaimType, StreamFrames
  <1>37. ASSUME NEW a \in Attachments, BoundaryEmpty(a) PROVE Gated(b)'
    <2> Gated(a)
      BY DEF GateInv
    <2> QED
      BY <1>37, StreamAssumption
      DEF At, BoundaryEmpty, Goto, Subscribed, claimVars, sharedVars, Gated, SharedType,
          TaskType, ClaimType, StreamFrames
  <1>38. ASSUME NEW a \in Attachments, DescribeDeleted(a) PROVE Gated(b)'
    <2> Gated(a)
      BY DEF GateInv
    <2> QED
      BY <1>38, StreamAssumption
      DEF At, DescribeDeleted, SendStream, claimVars, sharedVars, Gated, SharedType, TaskType,
          ClaimType, StreamFrames
  <1>39. ASSUME NEW a \in Attachments, DescribeRunning(a) PROVE Gated(b)'
    <2> Gated(a)
      BY DEF GateInv
    <2> QED
      BY <1>39, StreamAssumption
      DEF At, DescribeRunning, Describes, SendStream, claimVars, sharedVars, Gated,
          SharedType, TaskType, ClaimType, StreamFrames
  <1>40. ASSUME NEW a \in Attachments, DescribeStillRunning(a) PROVE Gated(b)'
    <2> Gated(a)
      BY DEF GateInv
    <2> QED
      BY <1>40, StreamAssumption
      DEF At, DescribeStillRunning, Describes, Goto, IsOwner, LoopState, claimVars,
          sharedVars, Gated, SharedType, TaskType, ClaimType, StreamFrames
  <1>41. ASSUME NEW a \in Attachments, DescribePending(a) PROVE Gated(b)'
    <2> Gated(a)
      BY DEF GateInv
    <2> QED
      BY <1>41, StreamAssumption
      DEF At, DescribePending, Describes, Goto, IsOwner, LoopState, claimVars, sharedVars,
          Gated, SharedType, TaskType, ClaimType, StreamFrames
  <1>42. ASSUME NEW a \in Attachments, DescribeFinal(a) PROVE Gated(b)'
    <2> Gated(a)
      BY DEF GateInv
    <2> QED
      BY <1>42, StreamAssumption
      DEF At, DescribeFinal, Describes, SendStream, claimVars, sharedVars, Gated, SharedType,
          TaskType, ClaimType, StreamFrames
  <1>43. ASSUME NEW a \in Attachments, LiveLagged(a) PROVE Gated(b)'
    <2> Gated(a)
      BY DEF GateInv
    <2> QED
      BY <1>43, StreamAssumption
      DEF At, Goto, LiveLagged, claimVars, sharedVars, Gated, SharedType, TaskType, ClaimType,
          StreamFrames
  <1>44. ASSUME NEW a \in Attachments, LiveOutput(a) PROVE Gated(b)'
    <2> Gated(a)
      BY DEF GateInv
    <2> QED
      BY <1>44, StreamAssumption
      DEF At, LiveOutput, Receives, SendStream, claimVars, sharedVars, Gated, SharedType,
          TaskType, ClaimType, StreamFrames
  <1>45. ASSUME NEW a \in Attachments, LiveStatus(a) PROVE Gated(b)'
    <2> Gated(a)
      BY DEF GateInv
    <2> QED
      BY <1>45, StreamAssumption
      DEF At, Goto, IsOwner, LiveStatus, LoopState, Receives, claimVars, sharedVars, Gated,
          SharedType, TaskType, ClaimType, StreamFrames
  <1>46. ASSUME NEW a \in Attachments, LiveClosed(a) PROVE Gated(b)'
    <2> Gated(a)
      BY DEF GateInv
    <2> QED
      BY <1>46, StreamAssumption
      DEF At, Goto, IsOwner, LiveClosed, LoopState, Receives, claimVars, sharedVars, Gated,
          SharedType, TaskType, ClaimType, StreamFrames
  <1>47. ASSUME NEW a \in Attachments, LiveFinal(a) PROVE Gated(b)'
    <2> Gated(a)
      BY DEF GateInv
    <2> QED
      BY <1>47, StreamAssumption
      DEF At, LiveFinal, Receives, SendStream, claimVars, sharedVars, Gated, SharedType,
          TaskType, ClaimType, StreamFrames
  <1>48. ASSUME NEW a \in Attachments, LiveDeleted(a) PROVE Gated(b)'
    <2> Gated(a)
      BY DEF GateInv
    <2> QED
      BY <1>48, StreamAssumption
      DEF At, LiveDeleted, Receives, SendStream, claimVars, sharedVars, Gated, SharedType,
          TaskType, ClaimType, StreamFrames
  <1>49. ASSUME NEW a \in Attachments, ClaimUnchanged(a) PROVE Gated(b)'
    <2> Gated(a)
      BY DEF GateInv
    <2> QED
      BY <1>49, StreamAssumption
      DEF Back, ClaimUnchanged, Claims, Goto, IsOwner, LoopState, claimVars, sharedVars,
          Gated, SharedType, TaskType, ClaimType, StreamFrames
  <1>50. ASSUME NEW a \in Attachments, ClaimWaits(a) PROVE Gated(b)'
    <2> Gated(a)
      BY DEF GateInv
    <2> QED
      BY <1>50, StreamAssumption
      DEF At, ClaimWaits, Claims, SendNow, claimVars, sharedVars, Gated, SharedType, TaskType,
          ClaimType, StreamFrames
  <1>51. ASSUME NEW a \in Attachments, ClaimFallsBack(a) PROVE Gated(b)'
    <2> Gated(a)
      BY DEF GateInv
    <2> QED
      BY <1>51, StreamAssumption
      DEF At, ClaimFallsBack, Claims, Goto, claimVars, sharedVars, Gated, SharedType,
          TaskType, ClaimType, StreamFrames
  <1>52. ASSUME NEW a \in Attachments, ClaimRefused(a) PROVE Gated(b)'
    <2> Gated(a)
      BY DEF GateInv
    <2> QED
      BY <1>52, StreamAssumption
      DEF At, ClaimRefused, Claims, MayClaim, SendNow, claimVars, sharedVars, Gated,
          SharedType, TaskType, ClaimType, StreamFrames
  <1>53. ASSUME NEW a \in Attachments, NEW from \in SnapshotStarts(a), ClaimWins(a, from)
         PROVE Gated(b)'
    <2> Gated(a)
      BY DEF GateInv
    <2> QED
      BY <1>53, StreamAssumption
      DEF At, Claim, ClaimWins, Claims, MayClaim, SendNow, Gated, SharedType, TaskType,
          ClaimType, StreamFrames
  <1>54. ASSUME NEW a \in Attachments, NEW from \in SnapshotStarts(a), ClaimWinsSilently(a,
         from) PROVE Gated(b)'
    <2> Gated(a)
      BY DEF GateInv
    <2> QED
      BY <1>54, StreamAssumption
      DEF At, Claim, ClaimWinsSilently, Claims, MayClaim, Gated, SharedType, TaskType,
          ClaimType, StreamFrames
  <1>55. ASSUME NEW a \in Attachments, TakeGate(a) PROVE Gated(b)'
    <2> Gated(a)
      BY DEF GateInv
    <2> QED
      BY <1>55, StreamAssumption
      DEF At, IsOwner, TakeGate, claimVars, Gated, SharedType, TaskType, ClaimType,
          StreamFrames
  <1>56. ASSUME NEW a \in Attachments, Superseded(a) PROVE Gated(b)'
    <2> Gated(a)
      BY DEF GateInv
    <2> QED
      BY <1>56, StreamAssumption
      DEF IsOwner, SendNow, Superseded, claimVars, Gated, SharedType, TaskType, ClaimType,
          StreamFrames
  <1>57. ASSUME NEW a \in Attachments, InputWritten(a) PROVE Gated(b)'
    <2> Gated(a)
      BY DEF GateInv
    <2> QED
      BY <1>57, StreamAssumption
      DEF At, Goto, InputWritten, IsOwner, LoopState, claimVars, sharedVars, Gated,
          SharedType, TaskType, ClaimType, StreamFrames
  <1>58. ASSUME NEW a \in Attachments, InputAcknowledged(a) PROVE Gated(b)'
    <2> Gated(a)
      BY DEF GateInv
    <2> QED
      BY <1>58, StreamAssumption
      DEF At, InputAcknowledged, IsOwner, SendNow, claimVars, Gated, SharedType, TaskType,
          ClaimType, StreamFrames
  <1>59. ASSUME NEW a \in Attachments, InputLost(a) PROVE Gated(b)'
    <2> Gated(a)
      BY DEF GateInv
    <2> QED
      BY <1>59, StreamAssumption
      DEF At, InputLost, IsOwner, SendNow, claimVars, Gated, SharedType, TaskType, ClaimType,
          StreamFrames
  <1>Admit. ASSUME NEW a \in Attachments, Admit(a) PROVE Gated(b)'
    <2> Gated(a)
      BY DEF GateInv
    <2> QED
      BY <1>Admit, StreamAssumption
      DEF At, Admit, Goto, sharedVars, Gated, SharedType, TaskType, ClaimType, StreamFrames
  <1>NotFound. ASSUME NEW a \in Attachments, NotFound(a) PROVE Gated(b)'
    <2> Gated(a)
      BY DEF GateInv
    <2> QED
      BY <1>NotFound, StreamAssumption
      DEF At, NotFound, Goto, claimVars, sharedVars, Gated, SharedType, TaskType, ClaimType,
          StreamFrames
  <1>InputFails. ASSUME NEW a \in Attachments, InputFails(a) PROVE Gated(b)'
    <2> Gated(a)
      BY DEF GateInv
    <2> QED
      BY <1>InputFails, StreamAssumption
      DEF At, InputFails, IsOwner, SendNow, claimVars, Gated, SharedType, TaskType, ClaimType,
          StreamFrames
  <1>60. CASE UNCHANGED vars
    BY <1>60
    DEF vars, claimVars, sharedVars, taskVars, Gated, At
  <1>61. QED
    BY <1>1, <1>2, <1>3, <1>4, <1>5, <1>6, <1>7, <1>8, <1>9, <1>10, <1>11, <1>12, <1>13,
        <1>14, <1>15, <1>16, <1>17, <1>18, <1>19, <1>20, <1>21, <1>22, <1>23, <1>24, <1>25,
        <1>26, <1>27, <1>28, <1>29, <1>30, <1>31, <1>32, <1>33, <1>34, <1>35, <1>36, <1>37,
        <1>38, <1>39, <1>40, <1>41, <1>42, <1>43, <1>44, <1>45, <1>46, <1>47, <1>48, <1>49,
        <1>50, <1>51, <1>52, <1>53, <1>54, <1>55, <1>56, <1>57, <1>58, <1>59, <1>60,
        <1>Admit, <1>NotFound, <1>InputFails
    DEF Next, Client, Progress, UnderGate

-----------------------------------------------------------------------------
(* Input *)

\* A claim is newer than every input, and input is written with the newest claim.
LEMMA InputStep ==
  ASSUME SharedType, ClaimType, ClientType, InputInv, [Next]_vars PROVE InputInv'
  <1>1. CASE Environment
    BY <1>1
    DEF Environment, AppendOutput, CloseOutput, MarkExited, AnnounceStatus, Delete,
        AnnounceDelete, claimVars, clientVars, sharedVars, InputInv
  <1>2. ASSUME NEW a \in Attachments, NEW from \in ResumePoints, Attach(a, from)
         PROVE InputInv'
    BY <1>2, StreamAssumption
    DEF Attach, claimVars, sharedVars, InputInv, SharedType, ClaimType, ClientType, Owners
  <1>3. ASSUME NEW a \in Attachments, NEW f \in BOOLEAN, IdleClaim(a, f) PROVE InputInv'
    BY <1>3, StreamAssumption
    DEF IdleClaim, sharedVars, InputInv, SharedType, ClaimType, ClientType, Owners
  <1>4. ASSUME NEW a \in Attachments, NEW f \in BOOLEAN, LiveClaim(a, f) PROVE InputInv'
    BY <1>4, StreamAssumption
    DEF LiveClaim, sharedVars, InputInv, SharedType, ClaimType, ClientType, Owners
  <1>5. ASSUME NEW a \in Attachments, IdleObserve(a) PROVE InputInv'
    BY <1>5, StreamAssumption
    DEF IdleObserve, sharedVars, InputInv, SharedType, ClaimType, ClientType, Owners
  <1>6. ASSUME NEW a \in Attachments, IdleInput(a) PROVE InputInv'
    BY <1>6, StreamAssumption
    DEF IdleInput, sharedVars, InputInv, SharedType, ClaimType, ClientType, Owners
  <1>7. ASSUME NEW a \in Attachments, LiveObserve(a) PROVE InputInv'
    BY <1>7, StreamAssumption
    DEF IsOwner, LiveObserve, Vacated, InputInv, SharedType, ClaimType, ClientType, Owners
  <1>8. ASSUME NEW a \in Attachments, LiveInput(a) PROVE InputInv'
    BY <1>8, StreamAssumption
    DEF LiveInput, claimVars, sharedVars, InputInv, SharedType, ClaimType, ClientType, Owners
  <1>9. ASSUME NEW a \in Attachments, LiveInputRefused(a) PROVE InputInv'
    BY <1>9, StreamAssumption
    DEF LiveInputRefused, sharedVars, InputInv, SharedType, ClaimType, ClientType, Owners
  <1>10. ASSUME NEW a \in Attachments, Leave(a) PROVE InputInv'
    BY <1>10, StreamAssumption
    DEF Leave, claimVars, clientVars, sharedVars, InputInv, SharedType, ClaimType, ClientType,
        Owners
  <1>11. ASSUME NEW a \in Attachments, IdleDeleted(a) PROVE InputInv'
    BY <1>11, StreamAssumption
    DEF IdleDeleted, claimVars, clientVars, sharedVars, InputInv, SharedType, ClaimType,
        ClientType, Owners
  <1>12. ASSUME NEW a \in Attachments, IdleRetry(a) PROVE InputInv'
    BY <1>12, StreamAssumption
    DEF IdleRetry, clientVars, sharedVars, InputInv, SharedType, ClaimType, ClientType, Owners
  <1>13. ASSUME NEW a \in Attachments, Close(a) PROVE InputInv'
    BY <1>13, StreamAssumption
    DEF Close, IsOwner, Vacated, clientVars, InputInv, SharedType, ClaimType, ClientType,
        Owners
  <1>14. ASSUME NEW a \in Attachments, ObserveRefused(a) PROVE InputInv'
    BY <1>14, StreamAssumption
    DEF ObserveRefused, claimVars, clientVars, sharedVars, InputInv, SharedType, ClaimType,
        ClientType, Owners
  <1>15. ASSUME NEW a \in Attachments, NEW from \in SnapshotStarts(a), Observe(a, from) PROVE
         InputInv'
    BY <1>15, StreamAssumption
    DEF Observe, claimVars, clientVars, sharedVars, InputInv, SharedType, ClaimType,
        ClientType, Owners
  <1>16. ASSUME NEW a \in Attachments, SendFails(a) PROVE InputInv'
    BY <1>16, StreamAssumption
    DEF SendFails, claimVars, clientVars, InputInv, SharedType, ClaimType, ClientType, Owners
  <1>17. ASSUME NEW a \in Attachments, AckFails(a) PROVE InputInv'
    BY <1>17, StreamAssumption
    DEF AckFails, IsOwner, Vacated, clientVars, InputInv, SharedType, ClaimType, ClientType,
        Owners
  <1>18. ASSUME NEW a \in Attachments, AckSent(a) PROVE InputInv'
    BY <1>18, StreamAssumption
    DEF AckSent, claimVars, clientVars, InputInv, SharedType, ClaimType, ClientType, Owners
  <1>19. ASSUME NEW a \in Attachments, WaitingSent(a) PROVE InputInv'
    BY <1>19, StreamAssumption
    DEF IsOwner, WaitingSent, clientVars, sharedVars, InputInv, SharedType, ClaimType,
        ClientType, Owners
  <1>20. ASSUME NEW a \in Attachments, ObservingSent(a) PROVE InputInv'
    BY <1>20, StreamAssumption
    DEF ObservingSent, claimVars, clientVars, sharedVars, InputInv, SharedType, ClaimType,
        ClientType, Owners
  <1>21. ASSUME NEW a \in Attachments, RefusalSent(a) PROVE InputInv'
    BY <1>21, StreamAssumption
    DEF IsOwner, RefusalSent, claimVars, clientVars, sharedVars, InputInv, SharedType,
        ClaimType, ClientType, Owners
  <1>22. ASSUME NEW a \in Attachments, LastSent(a) PROVE InputInv'
    BY <1>22, StreamAssumption
    DEF LastSent, claimVars, clientVars, InputInv, SharedType, ClaimType, ClientType, Owners
  <1>23. ASSUME NEW a \in Attachments, HeaderSent(a) PROVE InputInv'
    BY <1>23, StreamAssumption
    DEF HeaderSent, claimVars, InputInv, SharedType, ClaimType, ClientType, Owners
  <1>24. ASSUME NEW a \in Attachments, ChunkSent(a) PROVE InputInv'
    BY <1>24, StreamAssumption
    DEF ChunkSent, claimVars, InputInv, SharedType, ClaimType, ClientType, Owners
  <1>25. ASSUME NEW a \in Attachments, RunningSent(a) PROVE InputInv'
    BY <1>25, StreamAssumption
    DEF IsOwner, RunningSent, claimVars, clientVars, InputInv, SharedType, ClaimType,
        ClientType, Owners
  <1>26. ASSUME NEW a \in Attachments, FinalSent(a) PROVE InputInv'
    BY <1>26, StreamAssumption
    DEF FinalSent, claimVars, InputInv, SharedType, ClaimType, ClientType, Owners
  <1>27. ASSUME NEW a \in Attachments, OutputSent(a) PROVE InputInv'
    BY <1>27, StreamAssumption
    DEF IsOwner, OutputSent, claimVars, InputInv, SharedType, ClaimType, ClientType, Owners
  <1>28. ASSUME NEW a \in Attachments, WrittenSent(a) PROVE InputInv'
    BY <1>28, StreamAssumption
    DEF IsOwner, WrittenSent, claimVars, clientVars, InputInv, SharedType, ClaimType,
        ClientType, Owners
  <1>29. ASSUME NEW a \in Attachments, ChunkDeleted(a) PROVE InputInv'
    BY <1>29, StreamAssumption
    DEF ChunkDeleted, claimVars, clientVars, sharedVars, InputInv, SharedType, ClaimType,
        ClientType, Owners
  <1>30. ASSUME NEW a \in Attachments, NextChunk(a) PROVE InputInv'
    BY <1>30, StreamAssumption
    DEF NextChunk, claimVars, clientVars, sharedVars, InputInv, SharedType, ClaimType,
        ClientType, Owners
  <1>31. ASSUME NEW a \in Attachments, ChunksDone(a) PROVE InputInv'
    BY <1>31, StreamAssumption
    DEF ChunksDone, claimVars, clientVars, sharedVars, InputInv, SharedType, ClaimType,
        ClientType, Owners
  <1>32. ASSUME NEW a \in Attachments, CatchUpDeleted(a) PROVE InputInv'
    BY <1>32, StreamAssumption
    DEF CatchUpDeleted, claimVars, clientVars, sharedVars, InputInv, SharedType, ClaimType,
        ClientType, Owners
  <1>33. ASSUME NEW a \in Attachments, CatchUp(a) PROVE InputInv'
    BY <1>33, StreamAssumption
    DEF CatchUp, claimVars, clientVars, sharedVars, InputInv, SharedType, ClaimType,
        ClientType, Owners
  <1>34. ASSUME NEW a \in Attachments, Subscribe(a) PROVE InputInv'
    BY <1>34, StreamAssumption
    DEF Subscribe, claimVars, clientVars, sharedVars, InputInv, SharedType, ClaimType,
        ClientType, Owners
  <1>35. ASSUME NEW a \in Attachments, BoundaryGap(a) PROVE InputInv'
    BY <1>35, StreamAssumption
    DEF BoundaryGap, claimVars, clientVars, sharedVars, InputInv, SharedType, ClaimType,
        ClientType, Owners
  <1>36. ASSUME NEW a \in Attachments, BoundarySuffix(a) PROVE InputInv'
    BY <1>36, StreamAssumption
    DEF BoundarySuffix, claimVars, clientVars, sharedVars, InputInv, SharedType, ClaimType,
        ClientType, Owners
  <1>37. ASSUME NEW a \in Attachments, BoundaryEmpty(a) PROVE InputInv'
    BY <1>37, StreamAssumption
    DEF BoundaryEmpty, claimVars, clientVars, sharedVars, InputInv, SharedType, ClaimType,
        ClientType, Owners
  <1>38. ASSUME NEW a \in Attachments, DescribeDeleted(a) PROVE InputInv'
    BY <1>38, StreamAssumption
    DEF DescribeDeleted, claimVars, clientVars, sharedVars, InputInv, SharedType, ClaimType,
        ClientType, Owners
  <1>39. ASSUME NEW a \in Attachments, DescribeRunning(a) PROVE InputInv'
    BY <1>39, StreamAssumption
    DEF DescribeRunning, claimVars, clientVars, sharedVars, InputInv, SharedType, ClaimType,
        ClientType, Owners
  <1>40. ASSUME NEW a \in Attachments, DescribeStillRunning(a) PROVE InputInv'
    BY <1>40, StreamAssumption
    DEF DescribeStillRunning, IsOwner, claimVars, clientVars, sharedVars, InputInv,
        SharedType, ClaimType, ClientType, Owners
  <1>41. ASSUME NEW a \in Attachments, DescribePending(a) PROVE InputInv'
    BY <1>41, StreamAssumption
    DEF DescribePending, IsOwner, claimVars, clientVars, sharedVars, InputInv, SharedType,
        ClaimType, ClientType, Owners
  <1>42. ASSUME NEW a \in Attachments, DescribeFinal(a) PROVE InputInv'
    BY <1>42, StreamAssumption
    DEF DescribeFinal, claimVars, clientVars, sharedVars, InputInv, SharedType, ClaimType,
        ClientType, Owners
  <1>43. ASSUME NEW a \in Attachments, LiveLagged(a) PROVE InputInv'
    BY <1>43, StreamAssumption
    DEF LiveLagged, claimVars, clientVars, sharedVars, InputInv, SharedType, ClaimType,
        ClientType, Owners
  <1>44. ASSUME NEW a \in Attachments, LiveOutput(a) PROVE InputInv'
    BY <1>44, StreamAssumption
    DEF LiveOutput, claimVars, clientVars, sharedVars, InputInv, SharedType, ClaimType,
        ClientType, Owners
  <1>45. ASSUME NEW a \in Attachments, LiveStatus(a) PROVE InputInv'
    BY <1>45, StreamAssumption
    DEF IsOwner, LiveStatus, claimVars, clientVars, sharedVars, InputInv, SharedType,
        ClaimType, ClientType, Owners
  <1>46. ASSUME NEW a \in Attachments, LiveClosed(a) PROVE InputInv'
    BY <1>46, StreamAssumption
    DEF IsOwner, LiveClosed, claimVars, clientVars, sharedVars, InputInv, SharedType,
        ClaimType, ClientType, Owners
  <1>47. ASSUME NEW a \in Attachments, LiveFinal(a) PROVE InputInv'
    BY <1>47, StreamAssumption
    DEF LiveFinal, claimVars, clientVars, sharedVars, InputInv, SharedType, ClaimType,
        ClientType, Owners
  <1>48. ASSUME NEW a \in Attachments, LiveDeleted(a) PROVE InputInv'
    BY <1>48, StreamAssumption
    DEF LiveDeleted, claimVars, clientVars, sharedVars, InputInv, SharedType, ClaimType,
        ClientType, Owners
  <1>49. ASSUME NEW a \in Attachments, ClaimUnchanged(a) PROVE InputInv'
    BY <1>49, StreamAssumption
    DEF ClaimUnchanged, IsOwner, claimVars, clientVars, sharedVars, InputInv, SharedType,
        ClaimType, ClientType, Owners
  <1>50. ASSUME NEW a \in Attachments, ClaimWaits(a) PROVE InputInv'
    BY <1>50, StreamAssumption
    DEF ClaimWaits, claimVars, clientVars, sharedVars, InputInv, SharedType, ClaimType,
        ClientType, Owners
  <1>51. ASSUME NEW a \in Attachments, ClaimFallsBack(a) PROVE InputInv'
    BY <1>51, StreamAssumption
    DEF ClaimFallsBack, claimVars, clientVars, sharedVars, InputInv, SharedType, ClaimType,
        ClientType, Owners
  <1>52. ASSUME NEW a \in Attachments, ClaimRefused(a) PROVE InputInv'
    BY <1>52, StreamAssumption
    DEF ClaimRefused, MayClaim, claimVars, clientVars, sharedVars, InputInv, SharedType,
        ClaimType, ClientType, Owners
  <1>53. ASSUME NEW a \in Attachments, NEW from \in SnapshotStarts(a), ClaimWins(a, from)
         PROVE InputInv'
    BY <1>53, StreamAssumption
    DEF Claim, ClaimWins, MayClaim, clientVars, InputInv, SharedType, ClaimType, ClientType,
        Owners
  <1>54. ASSUME NEW a \in Attachments, NEW from \in SnapshotStarts(a), ClaimWinsSilently(a,
         from) PROVE InputInv'
    BY <1>54, StreamAssumption
    DEF Claim, ClaimWinsSilently, MayClaim, clientVars, InputInv, SharedType, ClaimType,
        ClientType, Owners
  <1>55. ASSUME NEW a \in Attachments, TakeGate(a) PROVE InputInv'
    BY <1>55, StreamAssumption
    DEF IsOwner, TakeGate, claimVars, clientVars, InputInv, SharedType, ClaimType, ClientType,
        Owners
  <1>56. ASSUME NEW a \in Attachments, Superseded(a) PROVE InputInv'
    BY <1>56, StreamAssumption
    DEF IsOwner, Superseded, claimVars, clientVars, InputInv, SharedType, ClaimType,
        ClientType, Owners
  <1>57. ASSUME NEW a \in Attachments, InputWritten(a) PROVE InputInv'
    <2>1. grant[a] = generation /\ generation \in Nat
      BY <1>57, StreamAssumption DEF InputWritten, IsOwner, InputInv, SharedType, ClaimType
    <2>2. input \in Seq(Nat) /\ input' = Append(input, generation)
      BY <1>57, <2>1 DEF InputWritten, ClientType
    <2>3. /\ Len(input') = Len(input) + 1 /\ input'[Len(input) + 1] = generation
          /\ \A i \in 1..Len(input) : input'[i] = input[i] /\ input[i] \in Nat
      BY <2>1, <2>2
    <2>4. owner' = owner /\ generation' = generation
      BY <1>57 DEF InputWritten, sharedVars
    <2>5. QED
      BY <2>1, <2>2, <2>3, <2>4 DEF InputInv
  <1>58. ASSUME NEW a \in Attachments, InputAcknowledged(a) PROVE InputInv'
    <2>1. grant[a] = generation /\ generation \in Nat
      BY <1>58, StreamAssumption DEF InputAcknowledged, IsOwner, InputInv, SharedType, ClaimType
    <2>2. input \in Seq(Nat) /\ input' = Append(input, generation)
      BY <1>58, <2>1 DEF InputAcknowledged, ClientType
    <2>3. /\ Len(input') = Len(input) + 1 /\ input'[Len(input) + 1] = generation
          /\ \A i \in 1..Len(input) : input'[i] = input[i] /\ input[i] \in Nat
      BY <2>1, <2>2
    <2>4. owner' = owner /\ generation' = generation
      BY <1>58 DEF InputAcknowledged, sharedVars
    <2>5. QED
      BY <2>1, <2>2, <2>3, <2>4 DEF InputInv
  <1>59. ASSUME NEW a \in Attachments, InputLost(a) PROVE InputInv'
    BY <1>59, StreamAssumption
    DEF InputLost, IsOwner, claimVars, clientVars, InputInv, SharedType, ClaimType,
        ClientType, Owners
  <1>Admit. ASSUME NEW a \in Attachments, Admit(a) PROVE InputInv'
    BY <1>Admit DEF Admit, sharedVars, clientVars, InputInv
  <1>NotFound. ASSUME NEW a \in Attachments, NotFound(a) PROVE InputInv'
    BY <1>NotFound DEF NotFound, sharedVars, clientVars, InputInv
  <1>InputFails. ASSUME NEW a \in Attachments, InputFails(a) PROVE InputInv'
    <2>1. owner' = owner /\ generation' = generation
      BY <1>InputFails DEF InputFails
    <2>2. CASE UNCHANGED input
      BY <2>1, <2>2 DEF InputInv
    <2>3. CASE IsOwner(a) /\ input' = Append(input, grant[a])
      <3>1. grant[a] = generation /\ generation \in Nat
        BY <2>3, StreamAssumption DEF IsOwner, InputInv, SharedType, ClaimType
      <3>2. input \in Seq(Nat) /\ input' = Append(input, generation)
        BY <2>3, <3>1 DEF ClientType
      <3>3. /\ Len(input') = Len(input) + 1 /\ input'[Len(input) + 1] = generation
            /\ \A i \in 1..Len(input) : input'[i] = input[i] /\ input[i] \in Nat
        BY <3>1, <3>2
      <3>4. QED
        BY <2>1, <3>1, <3>2, <3>3 DEF InputInv
    <2>4. QED
      BY <1>InputFails, <2>2, <2>3 DEF InputFails
  <1>60. CASE UNCHANGED vars
    BY <1>60
    DEF vars, claimVars, clientVars, sharedVars, InputInv
  <1>61. QED
    BY <1>1, <1>2, <1>3, <1>4, <1>5, <1>6, <1>7, <1>8, <1>9, <1>10, <1>11, <1>12, <1>13,
        <1>14, <1>15, <1>16, <1>17, <1>18, <1>19, <1>20, <1>21, <1>22, <1>23, <1>24, <1>25,
        <1>26, <1>27, <1>28, <1>29, <1>30, <1>31, <1>32, <1>33, <1>34, <1>35, <1>36, <1>37,
        <1>38, <1>39, <1>40, <1>41, <1>42, <1>43, <1>44, <1>45, <1>46, <1>47, <1>48, <1>49,
        <1>50, <1>51, <1>52, <1>53, <1>54, <1>55, <1>56, <1>57, <1>58, <1>59, <1>60,
        <1>Admit, <1>NotFound, <1>InputFails
    DEF Next, Client, Progress, UnderGate

-----------------------------------------------------------------------------
(* What the client has rendered *)

\* The next event of a task that follows continues what its client has rendered.
LEMMA Advance ==
  ASSUME OutputType, StreamType, ClientType, EventInv, NEW a \in Attachments, Screen(a),
         NEW kind \in Kinds, Receives(a, kind)
  PROVE  /\ pos[a] \in 1..Len(events) /\ pos[a] + 1 <= Len(events) + 1
         /\ st[a] = "live" /\ events[pos[a]].offset = rendered[a] /\ rendered[a] = expected[a]
         /\ kind = "output" =>
              rendered[a] < next /\ OffsetAt(events, next, pos[a] + 1) = rendered[a] + 1
         /\ kind # "output" => OffsetAt(events, next, pos[a] + 1) = rendered[a]
         /\ kind = "closed" => closed /\ rendered[a] = next
         /\ kind = "status" => status # "Running"
         /\ sawClosed[a] => rendered[a] = next
  <1>1. pos[a] \in 1..Len(events) /\ events[pos[a]].kind = kind /\ At(a, "live")
    <2>1. Len(events) \in Nat /\ pos[a] \in Nat \ {0}
      BY DEF OutputType, StreamType
    <2>2. Len(events) - pos[a] + 1 >= 1
      BY StreamAssumption DEF Receives, Behind
    <2>3. QED
      BY <2>1, <2>2 DEF Receives
  <1>2. /\ rendered[a] = expected[a] /\ rendered[a] = OffsetAt(events, next, pos[a])
        /\ sawClosed[a] => rendered[a] = next
    BY <1>1 DEF Screen, At, Following, Follows
  <1>3. OffsetAt(events, next, pos[a]) = events[pos[a]].offset
    BY <1>1 DEF OffsetAt
  <1>4. /\ OffsetAt(events, next, pos[a] + 1)
             = rendered[a] + (IF kind = "output" THEN 1 ELSE 0)
        /\ OffsetAt(events, next, pos[a] + 1) <= next
        /\ kind = "closed" => closed /\ rendered[a] = next
        /\ kind = "status" => status # "Running"
    BY <1>1, <1>2 DEF EventInv
  <1>5. rendered[a] \in Nat /\ next \in Nat
    BY DEF ClientType, OutputType
  <1>6. pos[a] + 1 <= Len(events) + 1
    BY <1>1 DEF OutputType
  <1>7. QED
    BY <1>1, <1>2, <1>3, <1>4, <1>5, <1>6 DEF At

\* An event is announced at the offset of what is printed next; what was announced keeps
\* its offset.
LEMMA Announced ==
  ASSUME OutputType, EventInv, NEW kind \in Kinds, Broadcast(kind), next' \in Nat,
         base' <= next', next' = next + (IF kind = "output" THEN 1 ELSE 0),
         closed => closed' /\ kind # "output", kind = "closed" => closed',
         status # "Running" => status' # "Running", kind = "status" => status' # "Running"
  PROVE  /\ EventInv' /\ Len(events') = Len(events) + 1
         /\ \A i \in 1..(Len(events) + 1) :
              OffsetAt(events', next', i) = OffsetAt(events, next, i)
  <1> DEFINE e == [kind |-> kind, offset |-> next]
  <1>1. /\ events \in Seq([kind : Kinds, offset : Nat]) /\ next \in Nat
        /\ events' = Append(events, e) /\ e \in [kind : Kinds, offset : Nat]
        /\ e.offset = next /\ e.kind = kind
    BY DEF OutputType, Broadcast
  <1>2. /\ Len(events') = Len(events) + 1 /\ Len(events) \in Nat
        /\ events'[Len(events) + 1] = e
        /\ \A i \in 1..Len(events) :
             events'[i] = events[i] /\ events[i] \in [kind : Kinds, offset : Nat]
    <2>1. /\ Len(events') = Len(events) + 1 /\ Len(events) \in Nat
          /\ events'[Len(events) + 1] = e
          /\ \A i \in 1..Len(events) : events'[i] = events[i]
      BY <1>1
    <2>2. \A i \in 1..Len(events) : events[i] \in [kind : Kinds, offset : Nat]
      BY <1>1, ElementOfSeq
    <2>3. QED
      BY <2>1, <2>2
  <1> HIDE DEF e
  <1>3. \A i \in 1..(Len(events) + 1) :
          OffsetAt(events', next', i) = OffsetAt(events, next, i)
    BY <1>1, <1>2 DEF OffsetAt
  <1>4. /\ OffsetAt(events', next', Len(events) + 2) = next'
        /\ OffsetAt(events', next', Len(events) + 1) = next
    BY <1>1, <1>2 DEF OffsetAt
  <1>5. ASSUME NEW i \in 1..Len(events')
        PROVE  /\ OffsetAt(events', next', i + 1)
                    = OffsetAt(events', next', i) + (IF events'[i].kind = "output" THEN 1 ELSE 0)
               /\ OffsetAt(events', next', i + 1) <= next'
               /\ events'[i].kind = "closed" => closed' /\ OffsetAt(events', next', i) = next'
               /\ events'[i].kind = "status" => status' # "Running"
    <2>1. CASE i = Len(events) + 1
      BY <2>1, <1>1, <1>2, <1>4
    <2>2. CASE i \in 1..Len(events)
      <3>1. i + 1 \in 1..(Len(events) + 1) /\ i \in 1..(Len(events) + 1)
        BY <2>2, <1>2
      <3>2. /\ OffsetAt(events, next, i + 1)
                 = OffsetAt(events, next, i) + (IF events[i].kind = "output" THEN 1 ELSE 0)
            /\ OffsetAt(events, next, i + 1) <= next
            /\ events[i].kind = "closed" => closed /\ OffsetAt(events, next, i) = next
            /\ events[i].kind = "status" => status # "Running"
        BY <2>2 DEF EventInv
      <3>3. /\ OffsetAt(events', next', i + 1) = OffsetAt(events, next, i + 1)
            /\ OffsetAt(events', next', i) = OffsetAt(events, next, i)
            /\ events'[i] = events[i]
        BY <3>1, <2>2, <1>2, <1>3
      <3>4. OffsetAt(events, next, i + 1) \in Nat
        <4>1. CASE i = Len(events)
          BY <4>1, <1>1, <1>2 DEF OffsetAt
        <4>2. CASE i # Len(events)
          <5>1. i + 1 \in 1..Len(events) /\ i + 1 # Len(events) + 1
            BY <4>2, <2>2, <1>2
          <5>2. events[i + 1] \in [kind : Kinds, offset : Nat]
            BY <5>1, <1>2
          <5>3. QED
            BY <5>1, <5>2 DEF OffsetAt
        <4>3. QED
          BY <4>1, <4>2
      <3>5. OffsetAt(events', next', i + 1) <= next'
        BY <3>2, <3>3, <3>4, <1>1
      <3>6. events'[i].kind = "closed" => closed' /\ OffsetAt(events', next', i) = next'
        BY <1>1, <3>2, <3>3
      <3>7. QED
        BY <3>2, <3>3, <3>5, <3>6
    <2>3. QED
      BY <2>1, <2>2, <1>2
  <1>6. QED
    BY <1>2, <1>3, <1>5 DEF EventInv

\* What is printed or announced comes after all that a task has still to send.
LEMMA EnvironmentScreen ==
  ASSUME OutputType, StreamType, TaskType, ClientType, EventInv, ScreenInv, Environment
  PROVE  EventInv' /\ ScreenInv'
  <1>1. /\ closed => closed' /\ next' = next
        /\ status # "Running" => status' # "Running"
        /\ UNCHANGED <<taskVars, claimVars, streamVars, clientVars>>
    BY DEF Environment, AppendOutput, CloseOutput, MarkExited, AnnounceStatus, Delete,
           AnnounceDelete
  <1>2. /\ EventInv' /\ Len(events') >= Len(events)
        /\ \A i \in 1..(Len(events) + 1) :
             OffsetAt(events', next', i) = OffsetAt(events, next, i)
    <2>1. CASE AppendOutput
      <3>1. /\ Broadcast("output") /\ next' = next + 1 /\ ~closed /\ UNCHANGED <<closed, status>>
            /\ base' = IF next + 1 - base > Limit THEN next + 1 - Limit ELSE base
        BY <2>1 DEF AppendOutput
      <3>2. base' <= next' /\ next' \in Nat
        BY <3>1, StreamAssumption DEF EventInv, OutputType
      <3>3. QED
        BY <3>1, <3>2, Announced DEF OutputType, Kinds
    <2>2. CASE CloseOutput
      <3>1. Broadcast("closed") /\ closed' /\ ~closed /\ UNCHANGED <<base, next, status>>
        BY <2>2 DEF CloseOutput
      <3>2. QED
        BY <3>1, Announced DEF OutputType, EventInv, Kinds
    <2>3. CASE AnnounceStatus
      <3>1. Broadcast("status") /\ UNCHANGED <<base, next, closed, status>> /\ status # "Running"
        BY <2>3 DEF AnnounceStatus
      <3>2. QED
        BY <3>1, Announced DEF OutputType, EventInv, Kinds
    <2>4. CASE AnnounceDelete
      <3>1. Broadcast("deleted") /\ UNCHANGED <<base, next, closed, status>>
        BY <2>4 DEF AnnounceDelete
      <3>2. QED
        BY <3>1, Announced DEF OutputType, EventInv, Kinds
    <2>5. CASE MarkExited \/ Delete
      <3>1. UNCHANGED <<base, next, closed, events>> /\ (status # "Running" => status' # "Running")
        BY <2>5 DEF MarkExited, Delete
      <3>2. QED
        BY <3>1 DEF EventInv, OutputType
    <2>6. QED
      BY <2>1, <2>2, <2>3, <2>4, <2>5 DEF Environment
  <1>3. ASSUME NEW b \in Attachments PROVE Screen(b)' /\ Ending(b)'
    <2>1. Screen(b) /\ Ending(b)
      BY DEF ScreenInv
    <2>2. /\ UNCHANGED <<st[b], frame[b], back[b], chunk[b], upto[b], expected[b], pos[b]>>
          /\ UNCHANGED <<sawClosed[b], pending[b], rendered[b], intact[b], final[b]>>
      BY <1>1 DEF taskVars, claimVars, streamVars, clientVars
    <2>3. pos[b] <= Len(events) + 1 =>
            /\ OffsetAt(events', next', pos[b]) = OffsetAt(events, next, pos[b])
            /\ pos[b] <= Len(events') + 1
      <3>1. pos[b] \in Nat \ {0} /\ Len(events) \in Nat
        BY DEF StreamType, OutputType
      <3>2. Len(events') \in Nat
        BY <1>1 DEF Environment, AppendOutput, CloseOutput, MarkExited, AnnounceStatus, Delete,
                    AnnounceDelete, Broadcast, OutputType
      <3>3. QED
        BY <1>2, <3>1, <3>2
    <2>4. QED
      BY <1>1, <2>1, <2>2, <2>3 DEF Screen, Ending, Following, Follows
  <1>4. QED
    BY <1>2, <1>3 DEF ScreenInv

\* A task's step leaves the output alone, and what its client has rendered goes with what
\* the task is about to send.
LEMMA TaskScreen ==
  ASSUME OutputType, StreamType, TaskType, ClientType, ClaimType, EventInv, ScreenInv,
         \/ \E a \in Attachments : Client(a) \/ Progress(a) \/ UnderGate(a)
         \/ UNCHANGED vars,
         NEW b \in Attachments
  PROVE  Screen(b)' /\ Ending(b)'
  <1>t. TaskType
    OBVIOUS
  <1>s. Screen(b) /\ Ending(b)
    BY DEF ScreenInv
  <1>e. base \in Nat /\ next \in Nat /\ base <= next
    BY DEF OutputType, EventInv
  <1>1. ASSUME NEW a \in Attachments, NEW from \in ResumePoints, Attach(a, from) PROVE
         Screen(b)' /\ Ending(b)'
    BY <1>1, <1>t, <1>s
    DEF Attach, At, Goto, claimVars, streamVars, Screen, Ending, Following, Follows, TaskType,
        ClaimType, ClientType
  <1>2. ASSUME NEW a \in Attachments, NEW f \in BOOLEAN, IdleClaim(a, f) PROVE
         Screen(b)' /\ Ending(b)'
    BY <1>2, <1>t, <1>s
    DEF IdleClaim, At, Goto, MaySend, Sent, outputVars, streamVars, Screen, Ending,
        Following, Follows, TaskType, ClaimType
  <1>3. ASSUME NEW a \in Attachments, NEW f \in BOOLEAN, LiveClaim(a, f) PROVE
         Screen(b)' /\ Ending(b)'
    BY <1>3, <1>t, <1>s
    DEF LiveClaim, At, Goto, MaySend, Sent, outputVars, streamVars, Screen, Ending,
        Following, Follows, TaskType, ClaimType
  <1>4. ASSUME NEW a \in Attachments, NEW from \in SnapshotStarts(a), Observe(a, from)
         PROVE Screen(b)' /\ Ending(b)'
    BY <1>4, <1>e, <1>t, <1>s
    DEF Observe, At, Copy, SendNow, outputVars, claimVars, clientVars, Screen,
        Ending, Following, Follows, SnapshotStarts, Resumable, TaskType, StreamType,
        OutputType
  <1>5. ASSUME NEW a \in Attachments, NEW from \in SnapshotStarts(a), ClaimWins(a, from)
         PROVE Screen(b)' /\ Ending(b)'
    BY <1>5, <1>e, <1>t, <1>s, SMTT(60)
    DEF ClaimWins, At, Claim, Claims, Copy, Each, MayClaim, SendNow, Taken,
        outputVars, clientVars, Screen, Ending, Following, Follows, SnapshotStarts,
        Resumable, TaskType, StreamType, OutputType
  <1>6. ASSUME NEW a \in Attachments, NEW from \in SnapshotStarts(a),
         ClaimWinsSilently(a, from) PROVE Screen(b)' /\ Ending(b)'
    BY <1>6, <1>e, <1>t, <1>s, SMTT(60)
    DEF ClaimWinsSilently, At, Claim, Claims, Copy, Each, MayClaim, Taken,
        outputVars, clientVars, Screen, Ending, Following, Follows, SnapshotStarts,
        Resumable, TaskType, StreamType, OutputType
  <1>7. ASSUME NEW a \in Attachments, IdleObserve(a) PROVE Screen(b)' /\ Ending(b)'
    BY <1>7, <1>t, <1>s
    DEF IdleObserve, At, Goto, MaySend, Sent, outputVars, streamVars, Screen,
        Ending, Following, Follows, TaskType
  <1>8. ASSUME NEW a \in Attachments, IdleInput(a) PROVE Screen(b)' /\ Ending(b)'
    BY <1>8, <1>t, <1>s
    DEF IdleInput, At, MaySend, SendNow, Sent, outputVars, streamVars, Screen,
        Ending, Following, Follows, TaskType, ClaimType
  <1>9. ASSUME NEW a \in Attachments, LiveObserve(a) PROVE Screen(b)' /\ Ending(b)'
    BY <1>9, <1>t, <1>s
    DEF LiveObserve, At, Each, Goto, MaySend, Sent, outputVars, streamVars, Screen,
        Ending, Following, Follows, TaskType
  <1>10. ASSUME NEW a \in Attachments, LiveInput(a) PROVE Screen(b)' /\ Ending(b)'
    BY <1>10, <1>t, <1>s
    DEF LiveInput, At, Goto, MaySend, Sent, outputVars, claimVars, streamVars,
        Screen, Ending, Following, Follows, TaskType
  <1>11. ASSUME NEW a \in Attachments, LiveInputRefused(a) PROVE Screen(b)' /\
         Ending(b)'
    BY <1>11, <1>t, <1>s
    DEF LiveInputRefused, At, MaySend, SendNow, Sent, outputVars, streamVars,
        Screen, Ending, Following, Follows, TaskType, ClaimType
  <1>12. ASSUME NEW a \in Attachments, Leave(a) PROVE Screen(b)' /\ Ending(b)'
    BY <1>12, <1>t, <1>s
    DEF Leave, Goto, outputVars, claimVars, streamVars, clientVars, Screen, Ending,
        Following, Follows, TaskType
  <1>13. ASSUME NEW a \in Attachments, IdleDeleted(a) PROVE Screen(b)' /\ Ending(b)'
    BY <1>13, <1>t, <1>s
    DEF IdleDeleted, At, SendNow, Told, outputVars, claimVars, streamVars,
        clientVars, Screen, Ending, Following, Follows, TaskType
  <1>14. ASSUME NEW a \in Attachments, IdleRetry(a) PROVE Screen(b)' /\ Ending(b)'
    BY <1>14, <1>t, <1>s
    DEF IdleRetry, At, Goto, outputVars, streamVars, clientVars, Screen, Ending,
        Following, Follows, TaskType, ClaimType
  <1>15. ASSUME NEW a \in Attachments, Close(a) PROVE Screen(b)' /\ Ending(b)'
    BY <1>15, <1>t, <1>s
    DEF Close, At, Each, Goto, outputVars, clientVars, Screen, Ending, Following,
        Follows, TaskType, ClaimType, StreamType
  <1>16. ASSUME NEW a \in Attachments, ObserveRefused(a) PROVE Screen(b)' /\ Ending(b)'
    BY <1>16, <1>t, <1>s
    DEF ObserveRefused, At, SendNow, outputVars, claimVars, streamVars, clientVars,
        Screen, Ending, Following, Follows, TaskType
  <1>17. ASSUME NEW a \in Attachments, SendFails(a) PROVE Screen(b)' /\ Ending(b)'
    BY <1>17, <1>t, <1>s
    DEF SendFails, At, DropGate, Goto, outputVars, claimVars, streamVars,
        clientVars, Screen, Ending, Following, Follows, TaskType
  <1>18. ASSUME NEW a \in Attachments, AckFails(a) PROVE Screen(b)' /\ Ending(b)'
    BY <1>18, <1>t, <1>s
    DEF AckFails, At, DropGate, Each, Goto, Sending, outputVars, streamVars,
        clientVars, Screen, Ending, Following, Follows, TaskType
  <1>19. ASSUME NEW a \in Attachments, AckSent(a) PROVE Screen(b)' /\ Ending(b)'
    BY <1>19, <1>t, <1>s
    DEF AckSent, At, DropGate, SendStream, Sending, outputVars, claimVars,
        streamVars, clientVars, Screen, Ending, Following, Follows, TaskType
  <1>20. ASSUME NEW a \in Attachments, WaitingSent(a) PROVE Screen(b)' /\ Ending(b)'
    BY <1>20, <1>t, <1>s
    DEF WaitingSent, At, Back, Goto, LoopState, Sending, outputVars, streamVars,
        clientVars, Screen, Ending, Following, Follows, TaskType, ClaimType
  <1>21. ASSUME NEW a \in Attachments, ObservingSent(a) PROVE Screen(b)' /\ Ending(b)'
    BY <1>21, <1>t, <1>s
    DEF ObservingSent, At, SendStream, Sending, outputVars, claimVars, streamVars,
        clientVars, Screen, Ending, Following, Follows, TaskType
  <1>22. ASSUME NEW a \in Attachments, RefusalSent(a) PROVE Screen(b)' /\ Ending(b)'
    BY <1>22, <1>t, <1>s
    DEF RefusalSent, At, Back, Goto, LoopState, Sending, outputVars, claimVars,
        streamVars, clientVars, Screen, Ending, Following, Follows, TaskType,
        ClaimType
  <1>23. ASSUME NEW a \in Attachments, LastSent(a) PROVE Screen(b)' /\ Ending(b)'
    BY <1>23, <1>t, <1>s
    DEF LastSent, At, DropGate, Goto, outputVars, claimVars, streamVars, clientVars,
        Screen, Ending, Following, Follows, TaskType
  <1>24. ASSUME NEW a \in Attachments, HeaderSent(a) PROVE Screen(b)' /\ Ending(b)'
    BY <1>24, <1>t, <1>s
    DEF HeaderSent, At, DropGate, Goto, Sending, outputVars, claimVars, streamVars,
        Screen, Ending, Following, Follows, TaskType, ClientType, StreamType
  <1>25. ASSUME NEW a \in Attachments, ChunkSent(a) PROVE Screen(b)' /\ Ending(b)'
    BY <1>25, <1>t, <1>s
    DEF ChunkSent, At, DropGate, Goto, Render, Sending, outputVars, claimVars,
        Screen, Ending, Following, Follows, TaskType, StreamType, ClientType
  <1>26. ASSUME NEW a \in Attachments, RunningSent(a) PROVE Screen(b)' /\ Ending(b)'
    BY <1>26, <1>t, <1>s
    DEF RunningSent, At, DropGate, Goto, LoopState, Sending, outputVars, claimVars,
        streamVars, clientVars, Screen, Ending, Following, Follows, TaskType
  <1>27. ASSUME NEW a \in Attachments, FinalSent(a) PROVE Screen(b)' /\ Ending(b)'
    BY <1>27, <1>t, <1>s
    DEF FinalSent, At, DropGate, Goto, Sending, outputVars, claimVars, streamVars,
        Screen, Ending, Following, Follows, TaskType, ClientType
  <1>28. ASSUME NEW a \in Attachments, OutputSent(a) PROVE Screen(b)' /\ Ending(b)'
    BY <1>28, <1>t, <1>s
    DEF OutputSent, At, DropGate, Goto, LoopState, Render, Sending, outputVars,
        claimVars, Screen, Ending, Following, Follows, TaskType, StreamType,
        ClientType
  <1>29. ASSUME NEW a \in Attachments, WrittenSent(a) PROVE Screen(b)' /\ Ending(b)'
    BY <1>29, <1>t, <1>s
    DEF WrittenSent, At, DropGate, Goto, LoopState, Sending, outputVars, claimVars,
        streamVars, clientVars, Screen, Ending, Following, Follows, TaskType
  <1>30. ASSUME NEW a \in Attachments, ChunkDeleted(a) PROVE Screen(b)' /\ Ending(b)'
    BY <1>30, <1>t, <1>s
    DEF ChunkDeleted, At, SendStream, outputVars, claimVars, streamVars, clientVars,
        Screen, Ending, Following, Follows, TaskType
  <1>31. ASSUME NEW a \in Attachments, NextChunk(a) PROVE Screen(b)' /\ Ending(b)'
    BY <1>31, <1>t, <1>s
    DEF NextChunk, At, SendStream, outputVars, claimVars, streamVars, clientVars,
        Screen, Ending, Following, Follows, TaskType, StreamType
  <1>32. ASSUME NEW a \in Attachments, ChunksDone(a) PROVE Screen(b)' /\ Ending(b)'
    BY <1>32, <1>t, <1>s
    DEF ChunksDone, At, Goto, outputVars, claimVars, clientVars, Screen, Ending,
        Following, Follows, TaskType, StreamType, ClientType
  <1>33. ASSUME NEW a \in Attachments, CatchUpDeleted(a) PROVE Screen(b)' /\ Ending(b)'
    BY <1>33, <1>t, <1>s
    DEF CatchUpDeleted, SendStream, outputVars, claimVars, streamVars, clientVars,
        Screen, Ending, Following, Follows, TaskType
  <1>34. ASSUME NEW a \in Attachments, CatchUp(a) PROVE Screen(b)' /\ Ending(b)'
    BY <1>34, <1>t, <1>s
    DEF CatchUp, At, Goto, outputVars, claimVars, streamVars, clientVars, Screen,
        Ending, Following, Follows, TaskType
  <1>35. ASSUME NEW a \in Attachments, Subscribe(a) PROVE Screen(b)' /\ Ending(b)'
    BY <1>35, <1>e, <1>t, <1>s
    DEF Subscribe, At, Copy, Goto, outputVars, claimVars, clientVars, Screen,
        Ending, Following, Follows, Resumable, OffsetAt, TaskType, OutputType,
        StreamType
  <1>36. ASSUME NEW a \in Attachments, BoundaryGap(a) PROVE Screen(b)' /\ Ending(b)'
    BY <1>36, <1>t, <1>s
    DEF BoundaryGap, At, SendStream, Subscribed, outputVars, claimVars, streamVars,
        clientVars, Screen, Ending, Following, Follows, TaskType
  <1>37. ASSUME NEW a \in Attachments, BoundarySuffix(a) PROVE Screen(b)' /\ Ending(b)'
    BY <1>37, <1>t, <1>s
    DEF BoundarySuffix, At, Goto, Subscribed, outputVars, claimVars, streamVars,
        clientVars, Screen, Ending, Following, Follows, TaskType
  <1>38. ASSUME NEW a \in Attachments, BoundaryEmpty(a) PROVE Screen(b)' /\ Ending(b)'
    BY <1>38, <1>t, <1>s
    DEF BoundaryEmpty, At, Goto, Subscribed, outputVars, claimVars, streamVars,
        clientVars, Screen, Ending, Following, Follows, TaskType
  <1>39. ASSUME NEW a \in Attachments, DescribeDeleted(a) PROVE Screen(b)' /\ Ending(b)'
    BY <1>39, <1>t, <1>s
    DEF DescribeDeleted, At, SendStream, outputVars, claimVars, streamVars,
        clientVars, Screen, Ending, Following, Follows, TaskType
  <1>40. ASSUME NEW a \in Attachments, DescribeRunning(a) PROVE Screen(b)' /\ Ending(b)'
    BY <1>40, <1>t, <1>s
    DEF DescribeRunning, At, Describes, HasEnded, SendStream, outputVars, claimVars,
        clientVars, Screen, Ending, Following, Follows, TaskType, StreamType
  <1>41. ASSUME NEW a \in Attachments, DescribeStillRunning(a) PROVE Screen(b)' /\
         Ending(b)'
    BY <1>41, <1>t, <1>s
    DEF DescribeStillRunning, At, Describes, Goto, HasEnded, LoopState, outputVars,
        claimVars, streamVars, clientVars, Screen, Ending, Following, Follows,
        TaskType
  <1>42. ASSUME NEW a \in Attachments, DescribePending(a) PROVE Screen(b)' /\ Ending(b)'
    BY <1>42, <1>t, <1>s
    DEF DescribePending, At, Describes, Goto, HasEnded, LoopState, outputVars,
        claimVars, clientVars, Screen, Ending, Following, Follows, TaskType,
        StreamType
  <1>43. ASSUME NEW a \in Attachments, DescribeFinal(a) PROVE Screen(b)' /\ Ending(b)'
    BY <1>43, <1>t, <1>s
    DEF DescribeFinal, At, Describes, HasEnded, SendStream, outputVars, claimVars,
        streamVars, clientVars, Screen, Ending, Following, Follows, TaskType
  <1>44. ASSUME NEW a \in Attachments, LiveLagged(a) PROVE Screen(b)' /\ Ending(b)'
    BY <1>44, <1>t, <1>s
    DEF LiveLagged, At, Behind, Goto, outputVars, claimVars, clientVars, Screen,
        Ending, Following, Follows, TaskType
  <1>45. ASSUME NEW a \in Attachments, LiveOutput(a) PROVE Screen(b)' /\ Ending(b)'
    <2>1. Screen(a)
      BY DEF ScreenInv
    <2>2. /\ pos[a] \in 1..Len(events) /\ pos[a] + 1 <= Len(events) + 1 /\ st[a] = "live"
          /\ rendered[a] = expected[a] /\ (sawClosed[a] => rendered[a] = next)
          /\ events[pos[a]].offset = rendered[a] /\ ~sawClosed[a]
          /\ OffsetAt(events, next, pos[a] + 1) = rendered[a] + 1
      BY <1>45, <2>1, Advance
      DEF LiveOutput, Kinds, OutputType, ClientType
    <2>3. /\ SendStream(a, "output") /\ Received(a)
          /\ chunk' = [chunk EXCEPT ![a] = rendered[a]]
          /\ upto' = [upto EXCEPT ![a] = rendered[a] + 1]
          /\ UNCHANGED <<outputVars, claimVars, expected, sawClosed, pending, clientVars>>
      BY <1>45, <2>2 DEF LiveOutput, Contiguous
    <2> QED
      BY <2>3, <2>2, <1>t, <1>s
      DEF Received, SendStream, outputVars, claimVars, clientVars, Screen, Ending,
          Following, Follows, TaskType, StreamType, ClientType
  <1>46. ASSUME NEW a \in Attachments, LiveStatus(a) PROVE Screen(b)' /\ Ending(b)'
    <2>1. Screen(a)
      BY DEF ScreenInv
    <2>2. /\ pos[a] \in 1..Len(events) /\ pos[a] + 1 <= Len(events) + 1 /\ st[a] = "live"
          /\ rendered[a] = expected[a] /\ (sawClosed[a] => rendered[a] = next)
          /\ OffsetAt(events, next, pos[a] + 1) = rendered[a]
          /\ status # "Running"
      BY <1>46, <2>1, Advance
      DEF LiveStatus, Kinds
    <2> QED
      BY <1>46, <2>2, <1>t, <1>s
      DEF LiveStatus, Goto, LoopState, Received, outputVars, claimVars,
          clientVars, Screen, Ending, Following, Follows, TaskType, StreamType,
          ClientType
  <1>47. ASSUME NEW a \in Attachments, LiveClosed(a) PROVE Screen(b)' /\ Ending(b)'
    <2>1. Screen(a)
      BY DEF ScreenInv
    <2>2. /\ pos[a] \in 1..Len(events) /\ pos[a] + 1 <= Len(events) + 1 /\ st[a] = "live"
          /\ rendered[a] = expected[a] /\ (sawClosed[a] => rendered[a] = next)
          /\ OffsetAt(events, next, pos[a] + 1) = rendered[a]
          /\ closed /\ rendered[a] = next
      BY <1>47, <2>1, Advance
      DEF LiveClosed, Kinds
    <2> QED
      BY <1>47, <2>2, <1>t, <1>s
      DEF LiveClosed, Goto, LoopState, Received, outputVars, claimVars,
          clientVars, Screen, Ending, Following, Follows, TaskType, StreamType,
          ClientType
  <1>48. ASSUME NEW a \in Attachments, LiveFinal(a) PROVE Screen(b)' /\ Ending(b)'
    <2>1. Screen(a)
      BY DEF ScreenInv
    <2>2. /\ pos[a] \in 1..Len(events) /\ pos[a] + 1 <= Len(events) + 1 /\ st[a] = "live"
          /\ rendered[a] = expected[a] /\ (sawClosed[a] => rendered[a] = next)
          /\ OffsetAt(events, next, pos[a] + 1) = rendered[a]
          /\ closed /\ rendered[a] = next /\ status # "Running"
      BY <1>48, <2>1, Advance
      DEF LiveFinal, Kinds, ScreenInv, Ending
    <2> QED
      BY <1>48, <2>2, <1>t, <1>s
      DEF LiveFinal, Received, SendStream, outputVars, claimVars, clientVars,
          Screen, Ending, Following, Follows, TaskType, StreamType, ClientType
  <1>49. ASSUME NEW a \in Attachments, LiveDeleted(a) PROVE Screen(b)' /\ Ending(b)'
    <2>1. Screen(a)
      BY DEF ScreenInv
    <2>2. /\ pos[a] \in 1..Len(events) /\ pos[a] + 1 <= Len(events) + 1 /\ st[a] = "live"
          /\ rendered[a] = expected[a] /\ (sawClosed[a] => rendered[a] = next)
          /\ OffsetAt(events, next, pos[a] + 1) = rendered[a]
      BY <1>49, <2>1, Advance
      DEF LiveDeleted, Kinds
    <2> QED
      BY <1>49, <2>2, <1>t, <1>s
      DEF LiveDeleted, Received, SendStream, outputVars, claimVars, clientVars,
          Screen, Ending, Following, Follows, TaskType, StreamType, ClientType
  <1>50. ASSUME NEW a \in Attachments, ClaimUnchanged(a) PROVE Screen(b)' /\ Ending(b)'
    BY <1>50, <1>t, <1>s
    DEF ClaimUnchanged, Back, Claims, Goto, LoopState, outputVars, claimVars,
        streamVars, clientVars, Screen, Ending, Following, Follows, TaskType,
        ClaimType
  <1>51. ASSUME NEW a \in Attachments, ClaimWaits(a) PROVE Screen(b)' /\ Ending(b)'
    BY <1>51, <1>t, <1>s
    DEF ClaimWaits, At, Claims, SendNow, Taken, outputVars, claimVars, streamVars,
        clientVars, Screen, Ending, Following, Follows, TaskType
  <1>52. ASSUME NEW a \in Attachments, ClaimFallsBack(a) PROVE Screen(b)' /\ Ending(b)'
    BY <1>52, <1>t, <1>s
    DEF ClaimFallsBack, At, Claims, Goto, Taken, outputVars, claimVars, streamVars,
        clientVars, Screen, Ending, Following, Follows, TaskType
  <1>53. ASSUME NEW a \in Attachments, ClaimRefused(a) PROVE Screen(b)' /\ Ending(b)'
    BY <1>53, <1>t, <1>s
    DEF ClaimRefused, At, Claims, MayClaim, SendNow, Taken, outputVars, claimVars,
        streamVars, clientVars, Screen, Ending, Following, Follows, TaskType
  <1>54. ASSUME NEW a \in Attachments, TakeGate(a) PROVE Screen(b)' /\ Ending(b)'
    BY <1>54, <1>t, <1>s
    DEF TakeGate, At, outputVars, claimVars, streamVars, clientVars, Screen, Ending,
        Following, Follows, TaskType
  <1>55. ASSUME NEW a \in Attachments, Superseded(a) PROVE Screen(b)' /\ Ending(b)'
    BY <1>55, <1>t, <1>s
    DEF Superseded, SendNow, outputVars, claimVars, streamVars, clientVars, Screen,
        Ending, Following, Follows, TaskType
  <1>56. ASSUME NEW a \in Attachments, InputWritten(a) PROVE Screen(b)' /\ Ending(b)'
    BY <1>56, <1>t, <1>s
    DEF InputWritten, At, Goto, LoopState, outputVars, claimVars, streamVars,
        Screen, Ending, Following, Follows, TaskType
  <1>57. ASSUME NEW a \in Attachments, InputAcknowledged(a) PROVE Screen(b)' /\
         Ending(b)'
    BY <1>57, <1>t, <1>s
    DEF InputAcknowledged, At, SendNow, outputVars, claimVars, streamVars, Screen,
        Ending, Following, Follows, TaskType
  <1>58. ASSUME NEW a \in Attachments, InputLost(a) PROVE Screen(b)' /\ Ending(b)'
    BY <1>58, <1>t, <1>s
    DEF InputLost, At, SendNow, outputVars, claimVars, streamVars, clientVars,
        Screen, Ending, Following, Follows, TaskType
  <1>Admit. ASSUME NEW a \in Attachments, Admit(a) PROVE Screen(b)' /\ Ending(b)'
    BY <1>Admit, <1>t, <1>s
    DEF Admit, At, Goto, outputVars, streamVars, clientVars, Screen, Ending, Following,
        Follows, TaskType
  <1>NotFound. ASSUME NEW a \in Attachments, NotFound(a) PROVE Screen(b)' /\ Ending(b)'
    BY <1>NotFound, <1>t, <1>s
    DEF NotFound, At, Goto, outputVars, claimVars, streamVars, clientVars, Screen, Ending,
        Following, Follows, TaskType
  <1>InputFails. ASSUME NEW a \in Attachments, InputFails(a) PROVE Screen(b)' /\ Ending(b)'
    BY <1>InputFails, <1>t, <1>s
    DEF InputFails, At, SendNow, outputVars, claimVars, streamVars, Screen, Ending,
        Following, Follows, TaskType
  <1>59. CASE UNCHANGED vars
    BY <1>59, <1>s DEF vars, outputVars, taskVars, claimVars, streamVars, clientVars, Screen,
        Ending, Following, Follows
  <1> QED
    BY <1>1, <1>2, <1>3, <1>4, <1>5, <1>6, <1>7, <1>8, <1>9, <1>10, <1>11, <1>12,
       <1>13, <1>14, <1>15, <1>16, <1>17, <1>18, <1>19, <1>20, <1>21, <1>22, <1>23,
       <1>24, <1>25, <1>26, <1>27, <1>28, <1>29, <1>30, <1>31, <1>32, <1>33, <1>34,
       <1>35, <1>36, <1>37, <1>38, <1>39, <1>40, <1>41, <1>42, <1>43, <1>44, <1>45,
       <1>46, <1>47, <1>48, <1>49, <1>50, <1>51, <1>52, <1>53, <1>54, <1>55, <1>56,
       <1>57, <1>58, <1>59, <1>Admit, <1>NotFound, <1>InputFails
    DEF Client, Progress, UnderGate

\* Environment and tasks together.
LEMMA ScreenStep ==
  ASSUME TypeOK, EventInv, ScreenInv, [Next]_vars PROVE EventInv' /\ ScreenInv'
  <1>1. CASE Environment
    BY <1>1, EnvironmentScreen DEF TypeOK
  <1>2. CASE \/ \E a \in Attachments : Client(a) \/ Progress(a) \/ UnderGate(a)
             \/ UNCHANGED vars
    <2>1. ScreenInv'
      BY <1>2, TaskScreen DEF TypeOK, ScreenInv
    <2>2. UNCHANGED <<base, next, closed, status, events>>
      <3>1. CASE UNCHANGED vars
        BY <3>1 DEF vars, outputVars
      <3>2. ASSUME NEW a \in Attachments, Client(a)
            PROVE  UNCHANGED <<base, next, closed, status, events>>
        BY <3>2 DEF outputVars, Client, Attach, IdleClaim, LiveClaim, IdleObserve,
            IdleInput, LiveObserve, LiveInput, LiveInputRefused, Leave
      <3>3. ASSUME NEW a \in Attachments, Progress(a)
            PROVE  UNCHANGED <<base, next, closed, status, events>>
        BY <3>3 DEF outputVars, Progress, Admit, NotFound, IdleDeleted, IdleRetry, Close,
            ObserveRefused, Observe, SendFails, AckFails, AckSent, WaitingSent, ObservingSent,
            RefusalSent, LastSent, HeaderSent, ChunkSent, RunningSent,
            FinalSent, OutputSent, WrittenSent, ChunkDeleted, NextChunk,
            ChunksDone, CatchUpDeleted, CatchUp, Subscribe, BoundaryGap,
            BoundarySuffix, BoundaryEmpty, DescribeDeleted, DescribeRunning,
            DescribeStillRunning, DescribePending, DescribeFinal, LiveLagged,
            LiveOutput, LiveStatus, LiveClosed, LiveFinal, LiveDeleted
      <3>4. ASSUME NEW a \in Attachments, UnderGate(a)
            PROVE  UNCHANGED <<base, next, closed, status, events>>
        BY <3>4 DEF outputVars, UnderGate, ClaimUnchanged, ClaimWaits, ClaimFallsBack,
            ClaimRefused, ClaimWins, ClaimWinsSilently, TakeGate, Superseded,
            InputWritten, InputAcknowledged, InputFails, InputLost, Claim
      <3>5. QED
        BY <1>2, <3>1, <3>2, <3>3, <3>4
    <2>3. QED
      BY <2>1, <2>2 DEF EventInv
  <1>3. QED
    BY <1>1, <1>2 DEF Next

-----------------------------------------------------------------------------
(* The invariant, and the theorems *)

LEMMA InitIInv == Init => IInv
  <1> SUFFICES ASSUME Init PROVE IInv
    OBVIOUS
  <1>1. TypeOK
    BY InitType
  <1>2. GateInv
    BY StreamAssumption DEF Init, Each, GateInv, Gated
  <1>3. InputInv
    BY DEF Init, InputInv
  <1>4. EventInv
    BY DEF Init, EventInv
  <1>5. ScreenInv
    BY DEF Init, Each, ScreenInv, Screen, Ending, Following
  <1>6. QED
    BY <1>1, <1>2, <1>3, <1>4, <1>5 DEF IInv

LEMMA Invariance == Spec => []IInv
  <1>1. IInv /\ [Next]_vars => IInv'
    BY TypeStep, GateStep, InputStep, ScreenStep DEF IInv, TypeOK
  <1>2. QED
    BY InitIInv, <1>1, PTL DEF Spec

\* send_owned: no frame of the stream is under way to a controller that has been
\* superseded, whoever claims and however slow the clients are.
THEOREM DeliveryIsExclusive == Spec => []ExclusiveDelivery
  <1>1. IInv => ExclusiveDelivery
    BY DEF IInv, GateInv, Gated, ExclusiveDelivery, At, IsOwner
  <1>2. QED
    BY Invariance, <1>1, PTL

\* write_input: the PTY never gets input of a controller after that of a later one.
THEOREM InputKeepsOrder == Spec => []InputInOrder
  <1>1. IInv => InputInOrder
    <2> SUFFICES ASSUME IInv PROVE InputInOrder
      OBVIOUS
    <2>1. DOMAIN input = 1..Len(input)
      BY DEF IInv, TypeOK, ClientType
    <2>2. QED
      BY <2>1 DEF IInv, InputInv, InputInOrder
  <1>2. QED
    BY Invariance, <1>1, PTL

\* catch_up_stream and the live loop: however far a receiver lags, and whatever leaves the
\* scrollback meanwhile, a client renders consecutive units of output.
THEOREM ScreensAreContiguous == Spec => []ScreenIsContiguous
  <1>1. IInv => ScreenIsContiguous
    BY DEF IInv, ScreenInv, Screen, ScreenIsContiguous
  <1>2. QED
    BY Invariance, <1>1, PTL

\* snapshot_and_subscribe: the output a live attachment receives follows on what it sent,
\* so that the gap the live loop looks for is never there.
THEOREM BoundariesHold == Spec => []LiveBoundary
  <1>1. IInv => LiveBoundary
    BY Advance DEF IInv, TypeOK, ScreenInv, LiveBoundary, Contiguous, Kinds
  <1>2. QED
    BY Invariance, <1>1, PTL

\* The status that ends a stream is sent after all output, and of a shell that has ended.
THEOREM FinalComesLast == Spec => []FinalIsLast
  <1>1. IInv => FinalIsLast
    BY DEF IInv, ScreenInv, Ending, FinalIsLast
  <1>2. QED
    BY Invariance, <1>1, PTL

=============================================================================
