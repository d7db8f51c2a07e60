--------------------------- MODULE TerminalStream ---------------------------
(***************************************************************************)
(* One terminald runtime and the WebSocket attachments to it: the reader   *)
(* thread that fills the scrollback, the broadcast channel, the controller *)
(* hand-off, and the task of every attachment that replays, catches up and *)
(* then follows the live output.                                           *)
(*                                                                         *)
(* Output is counted, not represented: byte n of the PTY is the n-th unit, *)
(* every read and every replay chunk carries one unit.  A step is what one *)
(* task does while it holds one lock, or between two awaits.               *)
(***************************************************************************)
EXTENDS Integers, Sequences, FiniteSets

CONSTANTS
    Attachments,   \* the WebSocket connections
    Legacy,        \* those that do not ask for control=v2: forced claim, no acks
    Fallback,      \* those with observer=v1: a claim that has to wait observes
    None,
    Limit,         \* SCROLLBACK_LIMIT
    Capacity,      \* OUTPUT_CHANNEL_CAPACITY
    MaxOutput,     \* bound: units the shell prints
    MaxMessages,   \* bound: Claim, Observe and input messages per client
    Ends           \* bound: what may end: the output, the shell, the runtime

ASSUME StreamAssumption ==
    /\ Legacy \subseteq Attachments /\ Fallback \subseteq Attachments
    /\ None \notin Attachments /\ None \notin Nat /\ None \notin [by : Attachments, gen : Nat \cup {None}]
    /\ Limit \in Nat \ {0} /\ Capacity \in Nat \ {0}
    /\ MaxOutput \in Nat /\ MaxMessages \in Nat
    /\ Ends \subseteq {"closed", "status", "deleted"}

VARIABLES
    owner,        \* ControllerState.owner
    generation,   \* ControllerState.generation
    gate,         \* who holds Runtime.delivery_gate
    base, next,   \* OutputState.base_offset and next_offset
    closed,       \* OutputState.closed
    status,       \* RuntimeMetadata.status
    deleted,      \* Runtime.deleted
    alerted,      \* whose deleted_changed receiver has an unseen revision
    events,       \* everything ever sent to Runtime.events

    st,           \* where the task of an attachment stands
    frame,        \* the frame it is about to send, or is sending
    back,         \* the loop a claim or a refusal returns to: "idle" or "live"
    waiting,      \* its waiting flag
    notified,     \* its controller_changed receiver has an unseen revision
    grant,        \* the generation it holds: held_owner and ActiveStream.owner

    chunk, upto,  \* the copied output it is sending: the next unit, and the end
    expected,     \* ActiveStream.expected_offset, or that of a catch-up
    phase,        \* what the replay is for: "replay", "init" or "lag"
    pos,          \* its broadcast receiver: the index of the next event
    sawClosed,    \* ActiveStream.output_closed
    pending,      \* ActiveStream.pending_status is set

    resume,       \* the offset the client resumes after, or None
    rendered,     \* the client: the offset its terminal has rendered up to
    intact,       \* the client: no unit was lost, repeated or out of order
    final,        \* the client: has been told how the shell ended
    input,        \* the generations whose input reached the PTY, in order
    messages      \* how many messages the client has sent

sharedVars == <<owner, generation, gate>>
outputVars == <<base, next, closed, status, deleted, alerted, events>>
claimVars == <<back, waiting, notified, grant>>
streamVars == <<chunk, upto, expected, phase, pos, sawClosed, pending>>
clientVars == <<resume, rendered, intact, final, input, messages>>
taskVars == <<st, frame>>
vars == <<sharedVars, outputVars, taskVars, claimVars, streamVars, clientVars>>

Each(v) == [a \in Attachments |-> v]

Init ==
    /\ owner = None /\ generation = 0 /\ gate = None
    /\ base = 0 /\ next = 0 /\ closed = FALSE
    /\ status = "Running" /\ deleted = FALSE /\ alerted = {} /\ events = <<>>
    /\ st = Each("none") /\ frame = Each("none") /\ back = Each("idle")
    /\ waiting = Each(FALSE) /\ notified = Each(FALSE)
    /\ grant = Each(None)
    /\ chunk = Each(0) /\ upto = Each(0) /\ expected = Each(0) /\ phase = Each("replay")
    /\ pos = Each(1) /\ sawClosed = Each(FALSE) /\ pending = Each(FALSE)
    /\ resume = Each(None) /\ rendered = Each(0) /\ intact = Each(TRUE) /\ final = Each(FALSE)
    /\ input = <<>> /\ messages = Each(0)

-----------------------------------------------------------------------------
(* The reader thread, the wait thread, and DELETE *)

Told(kind) == \E i \in DOMAIN events : events[i].kind = kind

Broadcast(kind) == events' = Append(events, [kind |-> kind, offset |-> next])

\* append_output: scrollback and broadcast under the output lock.
AppendOutput ==
    /\ ~closed /\ next < MaxOutput
    /\ next' = next + 1
    /\ base' = IF next + 1 - base > Limit THEN next + 1 - Limit ELSE base
    /\ Broadcast("output")
    /\ UNCHANGED <<sharedVars, closed, status, deleted, alerted, taskVars, claimVars, streamVars, clientVars>>

\* close_output, when reading the PTY ends.
CloseOutput ==
    /\ "closed" \in Ends /\ ~closed
    /\ closed' = TRUE
    /\ Broadcast("closed")
    /\ UNCHANGED <<sharedVars, base, next, status, deleted, alerted, taskVars, claimVars, streamVars,
                   clientVars>>

\* mark_reaped, unless the runtime is deleted: the metadata first ...
MarkExited ==
    /\ "status" \in Ends /\ status = "Running" /\ ~deleted
    /\ status' = "Exited"
    /\ UNCHANGED <<sharedVars, base, next, closed, deleted, alerted, events, taskVars, claimVars,
                   streamVars, clientVars>>

\* ... then the event, whether or not DELETE came in between.
AnnounceStatus ==
    /\ status # "Running" /\ ~Told("status")
    /\ Broadcast("status")
    /\ UNCHANGED <<sharedVars, base, next, closed, status, deleted, alerted, taskVars, claimVars,
                   streamVars, clientVars>>

\* notify_deleted: the flag first ...
Delete ==
    /\ "deleted" \in Ends /\ ~deleted
    /\ deleted' = TRUE
    /\ UNCHANGED <<sharedVars, base, next, closed, status, alerted, events, taskVars, claimVars,
                   streamVars, clientVars>>

\* ... then the watch that idle attachments read and the event that live ones read; no
\* task looks at both.
AnnounceDelete ==
    /\ deleted /\ ~Told("deleted")
    /\ alerted' = Attachments
    /\ Broadcast("deleted")
    /\ UNCHANGED <<sharedVars, base, next, closed, status, deleted, taskVars, claimVars,
                   streamVars, clientVars>>

-----------------------------------------------------------------------------
(* Helpers *)

\* Runtime::is_owner
IsOwner(a) == owner = [by |-> a, gen |-> grant[a]]

At(a, s) == st[a] = s

Goto(a, s) ==
    /\ st' = [st EXCEPT ![a] = s]
    /\ frame' = [frame EXCEPT ![a] = "none"]

\* send_stream: a controller waits for the gate first, an observer sends at once.
SendStream(a, f) ==
    /\ st' = [st EXCEPT ![a] = IF grant[a] = None THEN "sending" ELSE "gate"]
    /\ frame' = [frame EXCEPT ![a] = f]

\* bounded_send of a frame that is not part of the stream, under whatever the task holds.
SendNow(a, f) ==
    /\ st' = [st EXCEPT ![a] = "sending"]
    /\ frame' = [frame EXCEPT ![a] = f]

\* The top of runtime_socket's loop, for a task with an active stream.
LoopState(a) == IF grant[a] = None \/ IsOwner(a) THEN "live" ELSE "lost"

\* A task that did not get control goes on where it was.
Back(a) == IF back[a] = "idle" THEN "idle" ELSE LoopState(a)

DropGate(a) == gate' = IF gate = a THEN None ELSE gate

\* Runtime::release, and the revision it gives every watch.
Vacated(a) == IF IsOwner(a) THEN None ELSE owner

\* Mutant: a release does not revise the watch.
NotifiedNever(a) == notified

Notified(a) == IF IsOwner(a) THEN Each(TRUE) ELSE notified

\* resume_after, or the offset of a catch-up, is still in the scrollback.
Resumable(offset) == offset # None /\ offset \in base..next

\* Where a snapshot may start: the resume point; else the offset of a VT snapshot,
\* which may be anywhere in the scrollback, or the oldest unit.
SnapshotStarts(a) == IF Resumable(resume[a]) THEN {resume[a]} ELSE base..next

\* The scrollback from there is copied under the output lock.
Copy(a, from) ==
    /\ chunk' = [chunk EXCEPT ![a] = from]
    /\ upto' = [upto EXCEPT ![a] = next]

MaySend(a) == messages[a] < MaxMessages
Sent(a) == messages' = [messages EXCEPT ![a] = @ + 1]

-----------------------------------------------------------------------------
(* A connection without an active stream: handle_waiting_attachment_event *)

\* Where a client resumes that has rendered something; after = 0 asks for no more than None.
ResumePoints == {None} \cup ((base..next) \ {0})

\* Runtime::connection subscribes to the deletion first ...  A client resumes where it
\* has rendered up to.
Attach(a, from) ==
    /\ At(a, "none")
    /\ Goto(a, "connect")
    /\ alerted' = alerted \ {a}
    /\ resume' = [resume EXCEPT ![a] = from]
    /\ rendered' = [rendered EXCEPT ![a] = IF from = None THEN 0 ELSE from]
    /\ UNCHANGED <<sharedVars, base, next, closed, status, deleted, events, claimVars, streamVars,
                   intact, final, input, messages>>

\* Mutant: the deletion is not looked for after subscribing.
AdmitAnyway(a) ==
    /\ At(a, "connect")
    /\ Goto(a, IF a \in Legacy THEN "seize" ELSE "idle")
    /\ notified' = [notified EXCEPT ![a] = FALSE]
    /\ UNCHANGED <<sharedVars, outputVars, back, waiting, grant, streamVars, clientVars>>

\* ... and then looks whether it has missed it.
Admit(a) ==
    /\ At(a, "connect") /\ ~deleted
    /\ Goto(a, IF a \in Legacy THEN "seize" ELSE "idle")
    /\ notified' = [notified EXCEPT ![a] = FALSE]
    /\ UNCHANGED <<sharedVars, outputVars, back, waiting, grant, streamVars, clientVars>>

NotFound(a) ==
    /\ At(a, "connect") /\ deleted
    /\ Goto(a, "closed")
    /\ UNCHANGED <<sharedVars, outputVars, claimVars, streamVars, clientVars>>

IdleClaim(a, f) ==
    /\ At(a, "idle") /\ MaySend(a) /\ Sent(a)
    /\ Goto(a, IF f THEN "seize" ELSE "claim")
    /\ back' = [back EXCEPT ![a] = "idle"]
    /\ UNCHANGED <<sharedVars, outputVars, waiting, notified, grant, streamVars, resume,
                   rendered, intact, final, input>>

IdleObserve(a) ==
    /\ At(a, "idle") /\ MaySend(a) /\ Sent(a)
    /\ Goto(a, "observe")
    /\ waiting' = [waiting EXCEPT ![a] = FALSE]
    /\ UNCHANGED <<sharedVars, outputVars, back, notified, grant, streamVars, resume,
                   rendered, intact, final, input>>

\* Input or resize without control is refused, and what is no message.
IdleInput(a) ==
    /\ At(a, "idle") /\ MaySend(a) /\ Sent(a)
    /\ SendNow(a, "refused")
    /\ back' = [back EXCEPT ![a] = "idle"]
    /\ UNCHANGED <<sharedVars, outputVars, waiting, notified, grant, streamVars, resume,
                   rendered, intact, final, input>>

IdleDeleted(a) ==
    /\ At(a, "idle") /\ a \in alerted
    /\ SendNow(a, "rejected")
    /\ UNCHANGED <<sharedVars, outputVars, claimVars, streamVars, clientVars>>

\* A waiter retries, without force, on every revision of the owner.
IdleRetry(a) ==
    /\ At(a, "idle") /\ waiting[a] /\ notified[a]
    /\ Goto(a, "claim")
    /\ notified' = [notified EXCEPT ![a] = FALSE]
    /\ back' = [back EXCEPT ![a] = "idle"]
    /\ UNCHANGED <<sharedVars, outputVars, waiting, grant, streamVars, clientVars>>

\* The client closes the socket, or it breaks.
Leave(a) ==
    /\ st[a] \in {"idle", "live"}
    /\ Goto(a, "closing")
    /\ UNCHANGED <<sharedVars, outputVars, claimVars, streamVars, clientVars>>

\* runtime_socket releases what the task holds, closes the socket and is gone, its
\* locals with it.
Close(a) ==
    /\ At(a, "closing")
    /\ Goto(a, "closed")
    /\ owner' = Vacated(a) /\ notified' = Notified(a)
    /\ grant' = [grant EXCEPT ![a] = None]
    /\ back' = [back EXCEPT ![a] = "idle"] /\ waiting' = [waiting EXCEPT ![a] = FALSE]
    /\ chunk' = [chunk EXCEPT ![a] = 0] /\ upto' = [upto EXCEPT ![a] = 0]
    /\ expected' = [expected EXCEPT ![a] = 0] /\ phase' = [phase EXCEPT ![a] = "replay"]
    /\ pos' = [pos EXCEPT ![a] = 1]
    /\ sawClosed' = [sawClosed EXCEPT ![a] = FALSE] /\ pending' = [pending EXCEPT ![a] = FALSE]
    /\ UNCHANGED <<generation, gate, outputVars, clientVars>>

-----------------------------------------------------------------------------
(* begin_claim and begin_observation *)

Claims(a) == st[a] \in {"claim", "seize"} /\ gate = None

Taken(a) == owner # None /\ owner.by # a

\* Control is to be had: it is vacant, or the claim has the force flag.
MayClaim(a) == owner = None \/ (Taken(a) /\ At(a, "seize"))

ClaimUnchanged(a) ==
    /\ Claims(a) /\ owner # None /\ owner.by = a
    /\ Goto(a, Back(a))
    /\ UNCHANGED <<sharedVars, outputVars, claimVars, streamVars, clientVars>>

\* The gate is dropped before the slow client hears that it has to wait.
ClaimWaits(a) ==
    /\ Claims(a) /\ Taken(a) /\ At(a, "claim")
    /\ back[a] = "live" \/ a \notin Fallback
    /\ SendNow(a, "waiting")
    /\ UNCHANGED <<sharedVars, outputVars, claimVars, streamVars, clientVars>>

ClaimFallsBack(a) ==
    /\ Claims(a) /\ Taken(a) /\ At(a, "claim")
    /\ back[a] = "idle" /\ a \in Fallback
    /\ Goto(a, "observe")
    /\ UNCHANGED <<sharedVars, outputVars, claimVars, streamVars, clientVars>>

ClaimRefused(a) ==
    /\ Claims(a) /\ MayClaim(a) /\ deleted
    /\ SendNow(a, "rejected")
    /\ UNCHANGED <<sharedVars, outputVars, claimVars, streamVars, clientVars>>

\* Runtime::claim.
Claim(a, from) ==
    /\ Claims(a) /\ MayClaim(a) /\ ~deleted
    /\ generation' = generation + 1
    /\ owner' = [by |-> a, gen |-> generation + 1]
    /\ grant' = [grant EXCEPT ![a] = generation + 1]
    /\ notified' = Each(TRUE)
    /\ waiting' = [waiting EXCEPT ![a] = FALSE]
    /\ phase' = [phase EXCEPT ![a] = "replay"]
    /\ Copy(a, from)
    /\ UNCHANGED <<outputVars, back, expected, pos, sawClosed, pending, clientVars>>

\* The acknowledgement is sent before the gate is dropped.
ClaimWins(a, from) ==
    /\ a \notin Legacy
    /\ Claim(a, from)
    /\ gate' = a
    /\ SendNow(a, "claimed")

\* A legacy client gets none: its stream is the next thing that needs the gate.
ClaimWinsSilently(a, from) ==
    /\ a \in Legacy
    /\ Claim(a, from)
    /\ st' = [st EXCEPT ![a] = "gate"]
    /\ frame' = [frame EXCEPT ![a] = "header"]
    /\ UNCHANGED gate

ObserveRefused(a) ==
    /\ At(a, "observe") /\ deleted
    /\ SendNow(a, "rejected")
    /\ UNCHANGED <<sharedVars, outputVars, claimVars, streamVars, clientVars>>

Observe(a, from) ==
    /\ At(a, "observe") /\ ~deleted
    /\ SendNow(a, "observing")
    /\ phase' = [phase EXCEPT ![a] = "replay"]
    /\ Copy(a, from)
    /\ UNCHANGED <<sharedVars, outputVars, claimVars, expected, pos, sawClosed, pending, clientVars>>

-----------------------------------------------------------------------------
(* send_owned and bounded_send *)

\* Mutant: the owner is not checked again under the gate.
TakeGateUnchecked(a) ==
    /\ At(a, "gate") /\ gate = None
    /\ gate' = a
    /\ st' = [st EXCEPT ![a] = "sending"]
    /\ UNCHANGED frame
    /\ UNCHANGED <<owner, generation, outputVars, claimVars, streamVars, clientVars>>

TakeGate(a) ==
    /\ At(a, "gate") /\ gate = None /\ IsOwner(a)
    /\ gate' = a
    /\ st' = [st EXCEPT ![a] = "sending"]
    /\ UNCHANGED frame
    /\ UNCHANGED <<owner, generation, outputVars, claimVars, streamVars, clientVars>>

\* Whoever lost control is told so, under the gate, instead of getting the frame.
Superseded(a) ==
    /\ st[a] \in {"gate", "lost", "live"} /\ gate = None
    /\ grant[a] # None /\ ~IsOwner(a)
    /\ gate' = a
    /\ SendNow(a, "superseded")
    /\ UNCHANGED <<owner, generation, outputVars, claimVars, streamVars, clientVars>>

Sending(a, f) == At(a, "sending") /\ frame[a] = f

\* The client is gone, or did not take the frame within SOCKET_SEND_TIMEOUT.
SendFails(a) ==
    /\ At(a, "sending") /\ frame[a] # "claimed"
    /\ Goto(a, "closing")
    /\ DropGate(a)
    /\ UNCHANGED <<owner, generation, outputVars, claimVars, streamVars, clientVars>>

\* A claim that could not be acknowledged is undone before the gate is dropped.
AckFails(a) ==
    /\ Sending(a, "claimed")
    /\ Goto(a, "closing")
    /\ owner' = Vacated(a) /\ notified' = Notified(a)
    /\ DropGate(a)
    /\ UNCHANGED <<generation, outputVars, back, waiting, grant, streamVars, clientVars>>

AckSent(a) ==
    /\ Sending(a, "claimed")
    /\ SendStream(a, "header")
    /\ DropGate(a)
    /\ UNCHANGED <<owner, generation, outputVars, claimVars, streamVars, clientVars>>

WaitingSent(a) ==
    /\ Sending(a, "waiting")
    /\ Goto(a, Back(a))
    /\ waiting' = [waiting EXCEPT ![a] = @ \/ back[a] = "idle"]
    /\ UNCHANGED <<sharedVars, outputVars, back, notified, grant, streamVars, clientVars>>

ObservingSent(a) ==
    /\ Sending(a, "observing")
    /\ SendStream(a, "header")
    /\ UNCHANGED <<sharedVars, outputVars, claimVars, streamVars, clientVars>>

RefusalSent(a) ==
    /\ Sending(a, "refused")
    /\ Goto(a, Back(a))
    /\ UNCHANGED <<sharedVars, outputVars, claimVars, streamVars, clientVars>>

\* An error or the notice of a takeover ends the attachment.
LastSent(a) ==
    /\ At(a, "sending") /\ frame[a] \in {"error", "rejected", "superseded"}
    /\ Goto(a, "closing")
    /\ DropGate(a)
    /\ UNCHANGED <<owner, generation, outputVars, claimVars, streamVars, clientVars>>

-----------------------------------------------------------------------------
(* initialize_stream_attachment and catch_up_stream *)

\* The client starts its stream at the announced offset.
HeaderSent(a) ==
    /\ Sending(a, "header")
    /\ Goto(a, "chunks")
    /\ rendered' = [rendered EXCEPT ![a] = chunk[a]]
    /\ DropGate(a)
    /\ UNCHANGED <<owner, generation, outputVars, claimVars, streamVars, resume, intact, final,
                   input, messages>>

\* Only a catch-up looks for a deletion before every chunk.
ChunkDeleted(a) ==
    /\ At(a, "chunks") /\ chunk[a] < upto[a]
    /\ phase[a] # "replay" /\ deleted
    /\ SendStream(a, "error")
    /\ UNCHANGED <<sharedVars, outputVars, claimVars, streamVars, clientVars>>

NextChunk(a) ==
    /\ At(a, "chunks") /\ chunk[a] < upto[a]
    /\ phase[a] = "replay" \/ ~deleted
    /\ SendStream(a, "chunk")
    /\ UNCHANGED <<sharedVars, outputVars, claimVars, streamVars, clientVars>>

\* The client renders the next unit, if it is the next unit.
Render(a) ==
    /\ rendered' = [rendered EXCEPT ![a] = chunk[a] + 1]
    /\ intact' = [intact EXCEPT ![a] = @ /\ rendered[a] = chunk[a]]

ChunkSent(a) ==
    /\ Sending(a, "chunk")
    /\ Goto(a, "chunks")
    /\ Render(a)
    /\ chunk' = [chunk EXCEPT ![a] = @ + 1]
    /\ DropGate(a)
    /\ UNCHANGED <<owner, generation, outputVars, claimVars, upto, expected, phase, pos,
                   sawClosed, pending, resume, final, input, messages>>

ChunksDone(a) ==
    /\ At(a, "chunks") /\ chunk[a] = upto[a]
    /\ Goto(a, "catchup")
    /\ expected' = [expected EXCEPT ![a] = upto[a]]
    /\ phase' = [phase EXCEPT ![a] = IF @ = "replay" THEN "init" ELSE @]
    /\ UNCHANGED <<sharedVars, outputVars, claimVars, chunk, upto, pos, sawClosed, pending, clientVars>>

\* The deletion is looked for before and again after subscribing.
CatchUpDeleted(a) ==
    /\ st[a] \in {"catchup", "boundary"} /\ deleted
    /\ SendStream(a, "error")
    /\ UNCHANGED <<sharedVars, outputVars, claimVars, streamVars, clientVars>>

CatchUp(a) ==
    /\ At(a, "catchup") /\ ~deleted
    /\ Goto(a, "subscribe")
    /\ UNCHANGED <<sharedVars, outputVars, claimVars, streamVars, clientVars>>

\* Mutant: the receiver of an earlier pass is kept.
SubscribeOnce(a) ==
    /\ At(a, "subscribe")
    /\ Goto(a, "boundary")
    /\ Copy(a, IF Resumable(expected[a]) THEN expected[a] ELSE base)
    /\ sawClosed' = [sawClosed EXCEPT ![a] = closed]
    /\ UNCHANGED <<sharedVars, outputVars, claimVars, expected, phase, pos, pending, clientVars>>

\* snapshot_and_subscribe: receiver and copy under one hold of the output lock.
Subscribe(a) ==
    /\ At(a, "subscribe")
    /\ Goto(a, "boundary")
    /\ pos' = [pos EXCEPT ![a] = Len(events) + 1]
    /\ Copy(a, IF Resumable(expected[a]) THEN expected[a] ELSE base)
    /\ sawClosed' = [sawClosed EXCEPT ![a] = closed]
    /\ UNCHANGED <<sharedVars, outputVars, claimVars, expected, phase, pending, clientVars>>

\* Mutant: no second look for a deletion.
SubscribedAnyway(a) == At(a, "boundary")

\* Whoever is not told of a deletion here will find its event in the receiver.
Subscribed(a) == At(a, "boundary") /\ ~deleted

\* snapshot.reset: the missing output has left the scrollback.
BoundaryGap(a) ==
    /\ Subscribed(a) /\ chunk[a] # expected[a]
    /\ SendStream(a, "error")
    /\ UNCHANGED <<sharedVars, outputVars, claimVars, streamVars, clientVars>>

\* Mutant: the reset of the snapshot is ignored.
BoundaryAnySuffix(a) ==
    /\ Subscribed(a) /\ chunk[a] < upto[a]
    /\ Goto(a, "chunks")
    /\ UNCHANGED <<sharedVars, outputVars, claimVars, streamVars, clientVars>>

BoundarySuffix(a) ==
    /\ Subscribed(a) /\ chunk[a] = expected[a] /\ chunk[a] < upto[a]
    /\ Goto(a, "chunks")
    /\ UNCHANGED <<sharedVars, outputVars, claimVars, streamVars, clientVars>>

\* Mutant: what was printed during the replay is not caught up with.
BoundaryOnce(a) ==
    /\ Subscribed(a) /\ chunk[a] = expected[a]
    /\ Goto(a, "describe")
    /\ UNCHANGED <<sharedVars, outputVars, claimVars, streamVars, clientVars>>

BoundaryEmpty(a) ==
    /\ Subscribed(a) /\ chunk[a] = expected[a] /\ chunk[a] = upto[a]
    /\ Goto(a, "describe")
    /\ UNCHANGED <<sharedVars, outputVars, claimVars, streamVars, clientVars>>

-----------------------------------------------------------------------------
(* The status the caught-up stream starts or goes on with *)

Describes(a) == At(a, "describe") /\ (phase[a] = "init" \/ ~deleted)

\* Mutant: the metadata is not read again.
HasEndedBefore(a) == phase[a] = "lag" /\ pending[a]

\* Only the live loop keeps a status from before, and looks for a deletion.
HasEnded(a) == status # "Running" \/ (phase[a] = "lag" /\ pending[a])

DescribeDeleted(a) ==
    /\ At(a, "describe") /\ phase[a] = "lag" /\ deleted
    /\ SendStream(a, "error")
    /\ UNCHANGED <<sharedVars, outputVars, claimVars, streamVars, clientVars>>

DescribeRunning(a) ==
    /\ Describes(a) /\ phase[a] = "init" /\ ~HasEnded(a)
    /\ pending' = [pending EXCEPT ![a] = FALSE]
    /\ SendStream(a, "running")
    /\ UNCHANGED <<sharedVars, outputVars, claimVars, chunk, upto, expected, phase, pos, sawClosed,
                   clientVars>>

DescribeStillRunning(a) ==
    /\ Describes(a) /\ phase[a] = "lag" /\ ~HasEnded(a)
    /\ Goto(a, LoopState(a))
    /\ UNCHANGED <<sharedVars, outputVars, claimVars, streamVars, clientVars>>

DescribePending(a) ==
    /\ Describes(a) /\ HasEnded(a) /\ ~sawClosed[a]
    /\ pending' = [pending EXCEPT ![a] = TRUE]
    /\ Goto(a, LoopState(a))
    /\ UNCHANGED <<sharedVars, outputVars, claimVars, chunk, upto, expected, phase, pos, sawClosed,
                   clientVars>>

DescribeFinal(a) ==
    /\ Describes(a) /\ HasEnded(a) /\ sawClosed[a]
    /\ SendStream(a, "final")
    /\ UNCHANGED <<sharedVars, outputVars, claimVars, streamVars, clientVars>>

RunningSent(a) ==
    /\ Sending(a, "running")
    /\ Goto(a, LoopState(a))
    /\ DropGate(a)
    /\ UNCHANGED <<owner, generation, outputVars, claimVars, streamVars, clientVars>>

FinalSent(a) ==
    /\ Sending(a, "final")
    /\ Goto(a, "closing")
    /\ final' = [final EXCEPT ![a] = TRUE]
    /\ DropGate(a)
    /\ UNCHANGED <<owner, generation, outputVars, claimVars, streamVars, resume, rendered, intact,
                   input, messages>>

-----------------------------------------------------------------------------
(* handle_runtime_event *)

Behind(a) == Len(events) - pos[a] + 1

\* The receiver yields an event of this kind: it is not overwritten yet.
Receives(a, kind) ==
    /\ At(a, "live") /\ Behind(a) \in 1..Capacity
    /\ events[pos[a]].kind = kind

Received(a) == pos' = [pos EXCEPT ![a] = @ + 1]

Contiguous(a) == events[pos[a]].offset = expected[a]

\* RecvError::Lagged: repaired from the scrollback.
LiveLagged(a) ==
    /\ At(a, "live") /\ Behind(a) > Capacity
    /\ Goto(a, "catchup")
    /\ phase' = [phase EXCEPT ![a] = "lag"]
    /\ UNCHANGED <<sharedVars, outputVars, claimVars, chunk, upto, expected, pos, sawClosed, pending,
                   clientVars>>

\* An event that does not continue the stream would end it.
LiveOutput(a) ==
    /\ Receives(a, "output")
    /\ Received(a)
    /\ chunk' = [chunk EXCEPT ![a] = events[pos[a]].offset]
    /\ upto' = [upto EXCEPT ![a] = events[pos[a]].offset + 1]
    /\ SendStream(a, IF Contiguous(a) THEN "output" ELSE "error")
    /\ UNCHANGED <<sharedVars, outputVars, claimVars, expected, phase, sawClosed, pending,
                   clientVars>>

OutputSent(a) ==
    /\ Sending(a, "output")
    /\ Goto(a, LoopState(a))
    /\ Render(a)
    /\ chunk' = [chunk EXCEPT ![a] = @ + 1]
    /\ expected' = [expected EXCEPT ![a] = @ + 1]
    /\ DropGate(a)
    /\ UNCHANGED <<owner, generation, outputVars, claimVars, upto, phase, pos, sawClosed,
                   pending, resume, final, input, messages>>

LiveStatus(a) ==
    /\ Receives(a, "status") /\ ~sawClosed[a]
    /\ Received(a)
    /\ pending' = [pending EXCEPT ![a] = TRUE]
    /\ Goto(a, LoopState(a))
    /\ UNCHANGED <<sharedVars, outputVars, claimVars, chunk, upto, expected, phase, sawClosed, clientVars>>

LiveClosed(a) ==
    /\ Receives(a, "closed") /\ ~pending[a]
    /\ Received(a)
    /\ sawClosed' = [sawClosed EXCEPT ![a] = TRUE]
    /\ Goto(a, LoopState(a))
    /\ UNCHANGED <<sharedVars, outputVars, claimVars, chunk, upto, expected, phase, pending, clientVars>>

\* Mutant: the status is final as soon as it comes.
LiveFinalEarly(a) ==
    /\ Receives(a, "status") \/ (Receives(a, "closed") /\ pending[a])
    /\ Received(a)
    /\ SendStream(a, "final")
    /\ UNCHANGED <<sharedVars, outputVars, claimVars, chunk, upto, expected, phase, sawClosed,
                   pending, clientVars>>

\* The final status waits for the end of the output, and the end of the output for it.
LiveFinal(a) ==
    /\ \/ Receives(a, "status") /\ sawClosed[a]
       \/ Receives(a, "closed") /\ pending[a]
    /\ Received(a)
    /\ SendStream(a, "final")
    /\ UNCHANGED <<sharedVars, outputVars, claimVars, chunk, upto, expected, phase, sawClosed,
                   pending, clientVars>>

LiveDeleted(a) ==
    /\ Receives(a, "deleted")
    /\ Received(a)
    /\ SendStream(a, "error")
    /\ UNCHANGED <<sharedVars, outputVars, claimVars, chunk, upto, expected, phase, sawClosed,
                   pending, clientVars>>

-----------------------------------------------------------------------------
(* handle_client_message *)

LiveClaim(a, f) ==
    /\ At(a, "live") /\ MaySend(a) /\ Sent(a)
    /\ Goto(a, IF f THEN "seize" ELSE "claim")
    /\ back' = [back EXCEPT ![a] = "live"]
    /\ UNCHANGED <<sharedVars, outputVars, waiting, notified, grant, streamVars, resume,
                   rendered, intact, final, input>>

\* A controller that turns observer releases first.
LiveObserve(a) ==
    /\ At(a, "live") /\ MaySend(a) /\ Sent(a)
    /\ Goto(a, "observe")
    /\ owner' = Vacated(a) /\ notified' = Notified(a)
    /\ grant' = [grant EXCEPT ![a] = None]
    /\ UNCHANGED <<generation, gate, outputVars, back, waiting, streamVars, resume,
                   rendered, intact, final, input>>

\* Input or resize of a controller waits for the gate ...
LiveInput(a) ==
    /\ At(a, "live") /\ MaySend(a) /\ Sent(a) /\ grant[a] # None
    /\ Goto(a, "input")
    /\ UNCHANGED <<sharedVars, outputVars, claimVars, streamVars, resume, rendered, intact,
                   final, input>>

\* ... an observer's is refused, and so is what is invalid or too long, of anyone.
LiveInputRefused(a) ==
    /\ At(a, "live") /\ MaySend(a) /\ Sent(a)
    /\ SendNow(a, "refused")
    /\ back' = [back EXCEPT ![a] = "live"]
    /\ UNCHANGED <<sharedVars, outputVars, waiting, notified, grant, streamVars, resume,
                   rendered, intact, final, input>>

\* Mutant: input is written without looking at the owner.
InputUnchecked(a) ==
    /\ At(a, "input") /\ gate = None
    /\ input' = Append(input, grant[a])
    /\ Goto(a, LoopState(a))
    /\ UNCHANGED <<sharedVars, outputVars, claimVars, streamVars, resume, rendered, intact,
                   final, messages>>

\* write_input: the owner is checked and the bytes are written under one lock.
InputWritten(a) ==
    /\ At(a, "input") /\ gate = None /\ IsOwner(a)
    /\ input' = Append(input, grant[a])
    /\ Goto(a, LoopState(a))
    /\ UNCHANGED <<sharedVars, outputVars, claimVars, streamVars, resume, rendered, intact,
                   final, messages>>

\* A Write or a Resize is acknowledged under the gate.
InputAcknowledged(a) ==
    /\ At(a, "input") /\ gate = None /\ IsOwner(a)
    /\ input' = Append(input, grant[a])
    /\ gate' = a
    /\ SendNow(a, "written")
    /\ UNCHANGED <<owner, generation, outputVars, claimVars, streamVars, resume, rendered, intact,
                   final, messages>>

\* The PTY takes part of the input or nothing, or no such size: the stream goes on, but
\* for a Write, which the client could not tell from one that was lost.
InputFails(a) ==
    /\ At(a, "input") /\ gate = None
    /\ gate' = a
    /\ SendNow(a, "failed") \/ (IsOwner(a) /\ SendNow(a, "rejected"))
    /\ UNCHANGED input \/ (IsOwner(a) /\ input' = Append(input, grant[a]))
    /\ UNCHANGED <<owner, generation, outputVars, claimVars, streamVars, resume, rendered, intact,
                   final, messages>>

InputLost(a) ==
    /\ At(a, "input") /\ gate = None /\ ~IsOwner(a)
    /\ gate' = a
    /\ SendNow(a, "superseded")
    /\ UNCHANGED <<owner, generation, outputVars, claimVars, streamVars, clientVars>>

WrittenSent(a) ==
    /\ Sending(a, "written") \/ Sending(a, "failed")
    /\ Goto(a, LoopState(a))
    /\ DropGate(a)
    /\ UNCHANGED <<owner, generation, outputVars, claimVars, streamVars, clientVars>>

-----------------------------------------------------------------------------
Environment ==
    AppendOutput \/ CloseOutput \/ MarkExited \/ AnnounceStatus \/ Delete \/ AnnounceDelete

Client(a) ==
    \/ \E from \in ResumePoints : Attach(a, from)
    \/ \E f \in BOOLEAN : IdleClaim(a, f) \/ LiveClaim(a, f)
    \/ IdleObserve(a) \/ IdleInput(a) \/ LiveObserve(a) \/ LiveInput(a) \/ LiveInputRefused(a)
    \/ Leave(a)

\* What the task does without waiting for another one.
Progress(a) ==
    \/ Admit(a) \/ NotFound(a) \/ IdleDeleted(a) \/ IdleRetry(a) \/ Close(a)
    \/ ObserveRefused(a) \/ (\E from \in SnapshotStarts(a) : Observe(a, from))
    \/ SendFails(a) \/ AckFails(a) \/ AckSent(a) \/ WaitingSent(a) \/ ObservingSent(a)
    \/ RefusalSent(a) \/ LastSent(a) \/ HeaderSent(a) \/ ChunkSent(a) \/ RunningSent(a)
    \/ FinalSent(a) \/ OutputSent(a) \/ WrittenSent(a)
    \/ ChunkDeleted(a) \/ NextChunk(a) \/ ChunksDone(a)
    \/ CatchUpDeleted(a) \/ CatchUp(a) \/ Subscribe(a)
    \/ BoundaryGap(a) \/ BoundarySuffix(a) \/ BoundaryEmpty(a)
    \/ DescribeDeleted(a) \/ DescribeRunning(a) \/ DescribeStillRunning(a)
    \/ DescribePending(a) \/ DescribeFinal(a)
    \/ LiveLagged(a) \/ LiveOutput(a) \/ LiveStatus(a) \/ LiveClosed(a)
    \/ LiveFinal(a) \/ LiveDeleted(a)

\* What it does once it has the gate.
UnderGate(a) ==
    \/ ClaimUnchanged(a) \/ ClaimWaits(a) \/ ClaimFallsBack(a) \/ ClaimRefused(a)
    \/ \E from \in SnapshotStarts(a) : ClaimWins(a, from) \/ ClaimWinsSilently(a, from)
    \/ TakeGate(a) \/ Superseded(a)
    \/ InputWritten(a) \/ InputAcknowledged(a) \/ InputFails(a) \/ InputLost(a)

Next == Environment \/ \E a \in Attachments : Client(a) \/ Progress(a) \/ UnderGate(a)

\* Threads that announce go on, tasks are scheduled, a send ends within
\* SOCKET_SEND_TIMEOUT, and the gate is a fair (first in, first out) lock.
\* The shell, DELETE and the clients do as they like.
Fairness ==
    /\ WF_vars(AnnounceStatus) /\ WF_vars(AnnounceDelete)
    /\ \A a \in Attachments : WF_vars(Progress(a)) /\ SF_vars(UnderGate(a))

Spec == Init /\ [][Next]_vars /\ Fairness

-----------------------------------------------------------------------------
Owners == [by : Attachments, gen : Nat]
States == {"none", "connect", "idle", "claim", "seize", "observe", "gate", "sending", "chunks", "catchup", "subscribe",
           "boundary", "describe", "live", "lost", "input", "closing", "closed"}
StreamFrames == {"header", "chunk", "output", "running", "final", "error"}
Frames == StreamFrames \cup {"none", "claimed", "waiting", "observing", "refused", "rejected", "failed", "written",
                             "superseded"}
Kinds == {"output", "closed", "status", "deleted"}

SharedType ==
    owner \in Owners \cup {None} /\ generation \in Nat /\ gate \in Attachments \cup {None}

OutputType ==
    /\ base \in Nat /\ next \in Nat /\ closed \in BOOLEAN /\ deleted \in BOOLEAN
    /\ alerted \subseteq Attachments
    /\ status \in {"Running", "Exited"}
    /\ events \in Seq([kind : Kinds, offset : Nat])

TaskType == st \in [Attachments -> States] /\ frame \in [Attachments -> Frames]

ClaimType ==
    /\ back \in [Attachments -> {"idle", "live"}]
    /\ waiting \in [Attachments -> BOOLEAN] /\ notified \in [Attachments -> BOOLEAN]
    /\ grant \in [Attachments -> Nat \cup {None}]

StreamType ==
    /\ chunk \in [Attachments -> Nat] /\ upto \in [Attachments -> Nat]
    /\ expected \in [Attachments -> Nat] /\ phase \in [Attachments -> {"replay", "init", "lag"}]
    /\ pos \in [Attachments -> Nat \ {0}]
    /\ sawClosed \in [Attachments -> BOOLEAN] /\ pending \in [Attachments -> BOOLEAN]

ClientType ==
    /\ resume \in [Attachments -> Nat \cup {None}] /\ rendered \in [Attachments -> Nat]
    /\ intact \in [Attachments -> BOOLEAN] /\ final \in [Attachments -> BOOLEAN]
    /\ input \in Seq(Nat) /\ messages \in [Attachments -> Nat]

\* Every variable keeps its type.
TypeOK == SharedType /\ OutputType /\ TaskType /\ ClaimType /\ StreamType /\ ClientType

\* send_owned: while a frame of the stream is on its way to an attachment that was
\* granted control, that attachment is the controller: whoever is being told that it
\* has taken over need not fear a frame for its predecessor.
ExclusiveDelivery ==
    \A a \in Attachments :
        At(a, "sending") /\ grant[a] # None /\ frame[a] \in StreamFrames \cup {"claimed", "written"}
            => IsOwner(a) /\ gate = a

\* write_input: once the PTY has got input of a controller it gets none of an earlier one.
InputInOrder ==
    \A i, j \in DOMAIN input : i <= j => input[i] <= input[j]

\* replay, catch-up and live events: every terminal renders consecutive units from the
\* offset its stream starts at, whatever the lag and the truncation of the scrollback.
ScreenIsContiguous == \A a \in Attachments : intact[a]

\* snapshot_and_subscribe: the first output a live attachment receives is the one that
\* follows its snapshot, and none comes twice: the output_gap of the live loop is idle.
LiveBoundary == \A a \in Attachments : Receives(a, "output") => Contiguous(a)

\* The final status is sent after all output, whichever of wait and reader ends first.
FinalIsLast ==
    \A a \in Attachments : final[a] => closed /\ status # "Running" /\ rendered[a] = next

\* controller_changed: no waiter sleeps through a vacancy, though the watch coalesces
\* revisions and a retry may lose to another waiter; unless it stops waiting first.
WaiterTakesVacancy ==
    \A a \in Attachments :
        (At(a, "idle") /\ waiting[a] /\ owner = None) ~> (owner # None \/ ~waiting[a])

\* Once the shell is reaped and its output read, every stream ends, also one that was
\* catching up when both were announced.
EndIsTold ==
    \A a \in Attachments :
        (At(a, "live") /\ closed /\ status # "Running" /\ ~deleted) ~> (At(a, "closed") \/ deleted)

\* catch_up_stream: a stream that goes on shows, in the end, everything printed.
ScreensCatchUp == <>[](\A a \in Attachments : At(a, "live") => rendered[a] = next)

\* notify_deleted: every attachment hears of it, connecting, idle, live or between two
\* receivers.
DeletionEndsAll ==
    deleted ~> \A a \in Attachments : st[a] \in {"none", "closed"}

=============================================================================
