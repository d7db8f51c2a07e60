--------------------------- MODULE TerminalHosting ---------------------------
(***************************************************************************)
(* Who types into an agent's terminal: the person in a browser, a task     *)
(* submitted from the CLI, and the autopilot, which reviews each finished  *)
(* turn and pastes the review's conclusion.  One pane, made by `agent      *)
(* create`: its durable hosting record, the gate and the lease that        *)
(* serialize the three, the autopilot's worker with its recovery after a   *)
(* restart, and terminald's side of their connections.                     *)
(*                                                                         *)
(* A worker is a hosting id with the start of the server it runs in.       *)
(***************************************************************************)
EXTENDS Naturals, Sequences, FiniteSets

CONSTANTS
    None,
    Hostings,    \* the ids of hostings to come
    Browsers,
    Creation,    \* the initialization of the agent, which submits a first task
    Submissions, \* of the CLI
    MaxInputs,   \* TerminalHosting.max_inputs
    MaxCrashes,  \* bound: restarts of the server
    MaxFrames,   \* bound: frames all browsers send, and connections they make again
    MaxQueue,    \* bound: prompts the agent has queued; a further one joins the last
    Faults       \* bound: "timeout"s, "io" of the record, the "runner" of reviews, the "agent"

Boots == 0..MaxCrashes
Workers == Hostings \X Boots
Submitters == Submissions \cup {Creation}
Clients == Browsers \cup Submitters \cup Workers

\* A hosting record, as it is saved.
Phases == {"Waiting", "Reviewing", "Collecting", "Submitting", "Completed", "LimitReached", "Failed"}
Records == [id : Hostings, phase : Phases, count : 0..MaxInputs, run : Nat]

ASSUME HostingAssumption ==
    /\ None \notin Hostings \cup Clients \cup Records
    /\ Creation \notin Submissions
    /\ Browsers \cap Submitters = {} /\ (Browsers \cup Submitters) \cap Workers = {}
    /\ MaxInputs \in Nat \ {0} /\ MaxCrashes \in Nat /\ MaxFrames \in Nat /\ MaxQueue \in Nat \ {0}
    /\ Faults \subseteq {"timeout", "io", "runner", "agent"}

VARIABLES
    hosting,    \* TerminalPane.hosting: durable
    phase,      \* AgentTerminalState.phase: durable
    used,       \* ids given to a hosting so far
    boot,       \* restarts so far

    gate,       \* who holds hosting_gate
    leased,     \* who holds the exclusive lease of agent_operation
    guard,      \* browsers with browser_control_guard, its shared lease
    linked,     \* browsers whose bridge runs

    pc,         \* where a worker or a submission stands
    copy,       \* a worker's own copy of its hosting record
    events,     \* how many completions wait in a worker's subscription
    review,     \* the run of the hosting's latest review, as hosted_run finds it

    owner,      \* terminald's ControllerState.owner
    waiting,    \* its attachments that wait for control
    pipe,       \* frames on their way to terminald
    inbox,      \* its messages on their way back
    pasted,     \* the reviews whose conclusions were pasted

    prompts,    \* prompts whose turns the agent has not ended, or the poll not seen
    frames,     \* bound: what browsers have sent of them
    late        \* history: <<c, d>> where d's forced claim is on its way since before c's own claim

recordVars == <<hosting, phase, used, boot>>
lockVars == <<gate, leased, guard, linked>>
workVars == <<pc, copy, events, review>>
daemonVars == <<owner, waiting, pipe, inbox, pasted>>
vars == <<recordVars, lockVars, workVars, daemonVars, prompts, frames, late>>

Fresh(h) == [id |-> h, phase |-> "Waiting", count |-> 0, run |-> 0]

Stopped(r) == r.phase \in {"Completed", "LimitReached", "Failed"}
Hosted == hosting # None
Owns(w) == Hosted /\ hosting.id = w[1]
Live(w) == Owns(w) /\ ~Stopped(hosting)

Init ==
    /\ hosting = None /\ phase = "Starting" /\ used = {} /\ boot = 0
    /\ gate = None /\ leased = Creation /\ guard = {} /\ linked = Browsers
    /\ pc = [c \in Workers \cup Submitters |-> IF c = Creation THEN "claim" ELSE "off"]
    /\ copy = [w \in Workers |-> Fresh(w[1])] /\ events = [w \in Workers |-> 0]
    /\ review = [h \in Hostings |-> "none"]
    /\ owner = None /\ waiting = {}
    /\ pipe = [c \in Clients |-> <<>>] /\ inbox = [c \in Clients |-> <<>>]
    /\ pasted = <<>> /\ prompts = 0 /\ frames = 0 /\ late = {}

-----------------------------------------------------------------------------
(* Helpers *)

At(c, l) == pc[c] = l
Goto(c, l) == pc' = [pc EXCEPT ![c] = l]

Frame(op) == [op |-> op, text |-> None]

\* terminald has closed the attachment; what is still written to it is lost.
Dead(c) == \E i \in DOMAIN inbox[c] : inbox[c][i] = "closed"
Sends(c, f) == pipe' = IF Dead(c) THEN pipe ELSE [pipe EXCEPT ![c] = Append(@, f)]
Closes(c) == Sends(c, Frame("close"))
Drops(c) == Closes(c) /\ inbox' = [inbox EXCEPT ![c] = <<>>]

Reads(c, m) ==
    /\ inbox[c] # <<>> /\ Head(inbox[c]) = m
    /\ inbox' = [inbox EXCEPT ![c] = Tail(@)]

\* AgentConnection::check: an error, an exit or a close.
Lost(c) == inbox[c] # <<>> /\ Head(inbox[c]) \in {"waiting", "refused", "closed"}

\* Whatever waits for an answer may also time out.
CallFails(c) == Lost(c) \/ "timeout" \in Faults

FreeGate(c) == gate' = IF gate = c THEN None ELSE gate

\* The forced claims of others that terminald has not read; nothing waits for them.
ForceUnread(d) == \E i \in DOMAIN pipe[d] : pipe[d][i].op = "force"

\* claim_with_force: a connection of its own, and the claim as its first frame.
Attaches(c, op) ==
    /\ pipe' = [pipe EXCEPT ![c] = <<Frame(op)>>]
    /\ late' = late \cup {<<c, d>> : d \in {x \in Clients \ {c} : ForceUnread(x)}}

\* History: the claims that terminald has read are late no more.
Forgets == late' = {p \in late : ForceUnread(p[2])'}

NoLease == leased = None /\ guard = {}

-----------------------------------------------------------------------------
(* terminald: one attachment's frames in order, those of different ones in any *)

Is(c, op) == pipe[c] # <<>> /\ Head(pipe[c]).op = op

Connected(c) ==
    \/ c \in linked
    \/ c \notin Browsers
       /\ pc[c] \in {"claiming", "pasting", "entering", "finishing", "enabling", "restoring", "first",
                     "loop", "starting", "dispatching", "collecting", "entered"}

\* A browser only passes on what it is told.
Told(box, c, m) ==
    IF Connected(c) /\ (c \in Browsers => m = "closed")
    THEN [box EXCEPT ![c] = Append(@, m)] ELSE box

\* A claim that takes control: the old controller is told, and read no more.
Grant(c) ==
    /\ owner' = c /\ waiting' = waiting \ {c}
    /\ inbox' = Told(IF owner = None THEN inbox ELSE Told(inbox, owner, "closed"), c, "claimed")

DaemonClaims(c) ==
    /\ Is(c, "force") \/ (Is(c, "claim") /\ owner = None)
    /\ owner # c
    /\ Grant(c)
    /\ pipe' = [d \in Clients |-> CASE d = c -> Tail(pipe[d]) [] d = owner -> <<>> [] OTHER -> pipe[d]]
    /\ Forgets
    /\ UNCHANGED <<recordVars, lockVars, workVars, pasted, prompts, frames>>

\* A client that does not force waits for a vacancy; a browser may go on observing instead.
DaemonRefuses(c) ==
    /\ Is(c, "claim") /\ owner \notin {None, c}
    /\ waiting' = waiting \cup {c} \/ (c \in Browsers /\ UNCHANGED waiting)
    /\ inbox' = Told(inbox, c, "waiting")
    /\ pipe' = [pipe EXCEPT ![c] = Tail(@)]
    /\ UNCHANGED <<recordVars, lockVars, workVars, owner, pasted, prompts, frames, late>>

DaemonUnchanged(c) ==
    /\ Is(c, "claim") \/ Is(c, "force")
    /\ owner = c
    /\ pipe' = [pipe EXCEPT ![c] = Tail(@)]
    /\ Forgets
    /\ UNCHANGED <<recordVars, lockVars, workVars, owner, waiting, inbox, pasted, prompts, frames>>

DaemonVacancy(c) ==
    /\ c \in waiting /\ owner = None
    /\ Grant(c)
    /\ UNCHANGED <<recordVars, lockVars, workVars, pipe, pasted, prompts, frames, late>>

\* Observe gives control up, and so does the end of an attachment.
DaemonReleases(c) ==
    /\ Is(c, "observe") \/ Is(c, "close")
    /\ owner' = IF owner = c THEN None ELSE owner
    /\ waiting' = waiting \ {c}
    /\ inbox' = IF Is(c, "close") /\ c \in Submitters THEN Told(inbox, c, "closed") ELSE inbox
    /\ pipe' = [pipe EXCEPT ![c] = Tail(@)]
    /\ UNCHANGED <<recordVars, lockVars, workVars, pasted, prompts, frames, late>>

\* Only the controller's input reaches the agent.
DaemonWrites(c) ==
    /\ \E op \in {"paste", "enter", "keys"} : Is(c, op)
    /\ LET f == Head(pipe[c]) IN
        /\ pasted' = IF owner = c /\ f.op = "paste" /\ c \in Workers
                     THEN Append(pasted, f.text) ELSE pasted
        /\ prompts' = IF owner # c \/ f.op = "paste" \/ prompts = MaxQueue
                      THEN prompts ELSE prompts + 1
    /\ inbox' = Told(inbox, c, IF owner = c THEN "written" ELSE "refused")
    /\ pipe' = [pipe EXCEPT ![c] = Tail(@)]
    /\ UNCHANGED <<recordVars, lockVars, workVars, owner, waiting, frames, late>>

-----------------------------------------------------------------------------
(* The agent, and the notifications that watch its sessions *)

\* A worker is subscribed from enable, or from its recovery, until run returns.
Subscribed(w) == pc[w] \notin {"off", "failing", "unsaved"}

\* A turn ends, and the next poll sends one completion to all that are subscribed.
TurnEnds ==
    /\ prompts > 0
    /\ prompts' = prompts - 1
    /\ events' = [w \in Workers |-> IF Subscribed(w) THEN events[w] + 1 ELSE events[w]]
    /\ UNCHANGED <<recordVars, lockVars, pc, copy, review, daemonVars, frames, late>>

-----------------------------------------------------------------------------
(* The bridge of a browser: one frame under the gate *)

Forwards(b, op) == Sends(b, Frame(op)) /\ frames' = frames + 1

Passes(b) == b \in linked /\ gate = None /\ frames < MaxFrames

\* Mutant: a takeover does not wait for the gate.
TakeOverAtOnce(b) ==
    /\ b \in linked /\ frames < MaxFrames
    /\ hosting' = None
    /\ IF phase = "Ready" /\ leased = None
       THEN guard' = guard \cup {b} /\ Forwards(b, "force")
       ELSE UNCHANGED guard /\ Forwards(b, "observe")
    /\ UNCHANGED <<phase, used, boot, gate, leased, linked, workVars, owner, waiting, inbox,
                   pasted, prompts, late>>

\* A forced claim removes the hosting; it waits for a submission that is under way.
TakeOver(b) ==
    /\ Passes(b)
    /\ hosting' = None
    /\ IF phase = "Ready" /\ leased = None
       THEN guard' = guard \cup {b} /\ Forwards(b, "force")
       ELSE UNCHANGED guard /\ Forwards(b, "observe")
    /\ UNCHANGED <<phase, used, boot, gate, leased, linked, workVars, owner, waiting, inbox,
                   pasted, prompts, late>>

\* The hosting is removed, and the frame not forwarded: the bridge ends.
TakeOverFails(b) ==
    /\ Passes(b) /\ Hosted
    /\ hosting' = None
    /\ linked' = linked \ {b} /\ guard' = guard \ {b}
    /\ Drops(b)
    /\ UNCHANGED <<phase, used, boot, gate, leased, workVars, owner, waiting, pasted, prompts,
                   frames, late>>

\* Any other claim needs the lease this browser has got with a forced one.
Claims(b) ==
    /\ Passes(b) /\ ~Hosted /\ b \in guard
    /\ Forwards(b, "claim")
    /\ UNCHANGED <<recordVars, lockVars, workVars, owner, waiting, inbox, pasted, prompts, late>>

\* Observe, or a claim that the bridge makes one of.
Observes(b) ==
    /\ Passes(b)
    /\ guard' = guard \ {b}
    /\ Forwards(b, "observe")
    /\ UNCHANGED <<recordVars, gate, leased, linked, workVars, owner, waiting, inbox, pasted,
                   prompts, late>>

\* Whatever else a browser sends while it may not is dropped.
Types(b) ==
    /\ Passes(b) /\ ~Hosted /\ b \in guard
    /\ Forwards(b, "keys")
    /\ UNCHANGED <<recordVars, lockVars, workVars, owner, waiting, inbox, pasted, prompts, late>>

\* The browser leaves, or a frame could not be forwarded or a takeover not saved.
Leaves(b) ==
    /\ b \in linked
    /\ linked' = linked \ {b} /\ guard' = guard \ {b}
    /\ Drops(b)
    /\ UNCHANGED <<recordVars, gate, leased, workVars, owner, waiting, pasted, prompts, frames, late>>

\* terminald has closed the attachment.
BridgeEnds(b) ==
    /\ b \in linked /\ Reads(b, "closed")
    /\ linked' = linked \ {b} /\ guard' = guard \ {b}
    /\ pipe' = [pipe EXCEPT ![b] = <<>>]
    /\ UNCHANGED <<recordVars, gate, leased, workVars, owner, waiting, pasted, prompts, frames, late>>

\* Bound: when terminald is done with this browser's last attachment.
Reconnects(b) ==
    /\ b \notin linked /\ pipe[b] = <<>> /\ owner # b /\ frames < MaxFrames
    /\ linked' = linked \cup {b} /\ frames' = frames + 1
    /\ inbox' = [inbox EXCEPT ![b] = <<>>]
    /\ UNCHANGED <<recordVars, gate, leased, guard, workVars, owner, waiting, pipe, pasted,
                   prompts, late>>

-----------------------------------------------------------------------------
(* submit of the CLI, and initialize_agent: claim, paste, Enter, close *)

\* The gate and the lease are held to the end.
SubmitBegin(s) ==
    /\ At(s, "off") /\ gate = None /\ ~Hosted /\ NoLease /\ phase = "Ready"
    /\ gate' = s /\ leased' = s
    /\ Goto(s, "claim")
    /\ UNCHANGED <<recordVars, guard, linked, copy, events, review, daemonVars, prompts, frames, late>>

SubmitClaims(s) ==
    /\ At(s, "claim")
    /\ Attaches(s, "claim")
    /\ Goto(s, "claiming")
    /\ UNCHANGED <<recordVars, lockVars, copy, events, review, owner, waiting, inbox, pasted,
                   prompts, frames>>

\* An agent may be created without a first task.
Claimed(s) ==
    /\ At(s, "claiming") /\ Reads(s, "claimed")
    /\ \/ Sends(s, Frame("paste")) /\ Goto(s, "pasting")
       \/ s = Creation /\ Closes(s) /\ Goto(s, "finishing")
    /\ UNCHANGED <<recordVars, lockVars, copy, events, review, owner, waiting, pasted, prompts,
                   frames, late>>

\* AgentConnection::submit: Enter follows when the paste is acknowledged.
Pasted(c) ==
    /\ At(c, "pasting") /\ Reads(c, "written")
    /\ Sends(c, Frame("enter"))
    /\ Goto(c, "entering")
    /\ UNCHANGED <<recordVars, lockVars, copy, events, review, owner, waiting, pasted, prompts,
                   frames, late>>

Entered(s) ==
    /\ At(s, "entering") /\ Reads(s, "written")
    /\ Closes(s)
    /\ Goto(s, "finishing")
    /\ UNCHANGED <<recordVars, lockVars, copy, events, review, owner, waiting, pasted, prompts,
                   frames, late>>

SubmitEnds(s, outcome) ==
    /\ \/ phase' = IF s = Creation THEN outcome ELSE phase
       \/ "io" \in Faults /\ UNCHANGED phase
    /\ leased' = None /\ FreeGate(s)
    /\ Goto(s, "done")
    /\ UNCHANGED <<hosting, used, boot, guard, linked, copy, events, review, owner, waiting,
                   pasted, prompts, frames, late>>

Finished(s) ==
    /\ At(s, "finishing") /\ Reads(s, "closed")
    /\ SubmitEnds(s, "Ready")
    /\ UNCHANGED pipe

\* Delivery is unknown: it is not tried again.
SubmitFails(s) ==
    /\ \/ pc[s] \in {"claiming", "pasting", "entering"} /\ CallFails(s)
       \/ At(s, "finishing") /\ "timeout" \in Faults
    /\ Drops(s)
    /\ SubmitEnds(s, "Failed")

-----------------------------------------------------------------------------
(* The autopilot: enable, and recover after a restart *)

\* The worker of a hosting in this run of the server.
Worker(h) == <<h, boot>>

\* run returns: its record, its subscription and its connection are dropped.
Returns(w, l) ==
    /\ Goto(w, l) /\ Drops(w)
    /\ copy' = [copy EXCEPT ![w] = Fresh(w[1])] /\ events' = [events EXCEPT ![w] = 0]

\* With an error, which is then saved under the gate.
Errs(w) == Returns(w, "failing")

\* Mutant: the record is saved whoever's it is.
SavesAnyway(w, r, l) ==
    /\ hosting' = r /\ copy' = [copy EXCEPT ![w] = r]
    /\ Goto(w, l) /\ UNCHANGED <<pipe, inbox, events>>

\* save: the record as the worker has it, if it is still the worker's.
Saves(w, r, l) ==
    \/ /\ Owns(w)
       /\ hosting' = r /\ copy' = [copy EXCEPT ![w] = r]
       /\ Goto(w, l) /\ UNCHANGED <<pipe, inbox, events>>
    \/ /\ ~Owns(w) \/ "io" \in Faults
       /\ Errs(w) /\ UNCHANGED hosting

\* The completions are subscribed to and the record saved before control is claimed.
Enable(h) ==
    /\ h \notin used /\ ~Hosted /\ gate = None /\ phase = "Ready"
    /\ hosting' = Fresh(h) /\ used' = used \cup {h}
    /\ gate' = Worker(h)
    /\ Attaches(Worker(h), "force")
    /\ Goto(Worker(h), "enabling")
    /\ UNCHANGED <<phase, boot, leased, guard, linked, copy, events, review, owner, waiting,
                   inbox, pasted, prompts, frames>>

\* Unless it is to wait for a completion, a new hosting begins with a review.
Enabled(w) ==
    /\ At(w, "enabling") /\ Reads(w, "claimed")
    /\ Goto(w, "first") \/ Goto(w, "loop")
    /\ FreeGate(w)
    /\ UNCHANGED <<recordVars, leased, guard, linked, copy, events, review, owner, waiting, pipe,
                   pasted, prompts, frames, late>>

\* No worker is started; if even that cannot be saved, the record stays.
EnableFails(w) ==
    /\ At(w, "enabling") /\ CallFails(w)
    /\ \/ /\ hosting' = IF Owns(w) THEN [hosting EXCEPT !.phase = "Failed"] ELSE hosting
          /\ Returns(w, "off")
       \/ "io" \in Faults /\ UNCHANGED hosting /\ Returns(w, "unsaved")
    /\ FreeGate(w)
    /\ UNCHANGED <<phase, used, boot, leased, guard, linked, review, owner, waiting, pasted,
                   prompts, frames, late>>

\* A hosting that was taken over, or ended, while the gate was awaited is left alone.
RecoverSkips(w) ==
    /\ At(w, "recover") /\ gate = None
    /\ ~Live(w)
    /\ Goto(w, "off")
    /\ UNCHANGED <<recordVars, lockVars, copy, events, review, daemonVars, prompts, frames, late>>

\* What was being submitted may have been delivered.
RecoverRefuses(w) ==
    /\ At(w, "recover") /\ gate = None /\ Live(w)
    /\ hosting.phase = "Submitting"
    /\ Goto(w, "failing")
    /\ UNCHANGED <<recordVars, lockVars, copy, events, review, daemonVars, prompts, frames, late>>

\* Mutant: an interrupted submission is submitted again.
RecoverResumes(w) ==
    /\ At(w, "recover") /\ gate = None
    /\ Live(w)
    /\ copy' = [copy EXCEPT ![w] =
                  IF hosting.phase = "Submitting"
                  THEN [hosting EXCEPT !.phase = "Collecting"] ELSE hosting]
    /\ gate' = w
    /\ Attaches(w, "force")
    /\ Goto(w, "restoring")
    /\ UNCHANGED <<recordVars, leased, guard, linked, events, review, owner, waiting, inbox,
                   pasted, prompts, frames>>

Recovers(w) ==
    /\ At(w, "recover") /\ gate = None
    /\ Owns(w) /\ ~Stopped(hosting) /\ hosting.phase # "Submitting"
    /\ copy' = [copy EXCEPT ![w] = hosting]
    /\ gate' = w
    /\ Attaches(w, "force")
    /\ Goto(w, "restoring")
    /\ UNCHANGED <<recordVars, leased, guard, linked, events, review, owner, waiting, inbox,
                   pasted, prompts, frames>>

Recovered(w) ==
    /\ At(w, "restoring") /\ Reads(w, "claimed")
    /\ Goto(w, "loop")
    /\ FreeGate(w)
    /\ UNCHANGED <<recordVars, leased, guard, linked, copy, events, review, owner, waiting, pipe,
                   pasted, prompts, frames, late>>

\* Whatever a restored connection could not be had for.
RestoreFails(w) ==
    /\ At(w, "restoring") /\ CallFails(w)
    /\ Errs(w)
    /\ FreeGate(w)
    /\ UNCHANGED <<recordVars, leased, guard, linked, review, owner, waiting, pasted, prompts,
                   frames, late>>

-----------------------------------------------------------------------------
(* Its rounds: a completed turn, the review of it, the conclusion pasted *)

\* The worker returns; its connection goes with it.
LoopEnds(w) ==
    /\ pc[w] \in {"first", "loop"}
    /\ ~Live(w)
    /\ Returns(w, "off")
    /\ UNCHANGED <<recordVars, lockVars, review, owner, waiting, pasted, prompts, frames, late>>

FirstReview(w) ==
    /\ At(w, "first") /\ Owns(w)
    /\ Goto(w, "starting")
    /\ UNCHANGED <<recordVars, lockVars, copy, events, review, daemonVars, prompts, frames, late>>

\* Another has taken control, or the terminal has ended.
NoticeLost(w) ==
    /\ At(w, "loop")
    /\ Lost(w)
    /\ Errs(w)
    /\ UNCHANGED <<recordVars, lockVars, review, owner, waiting, pasted, prompts, frames, late>>

\* Only a waiting hosting heeds a completion.
TakeEvent(w) ==
    /\ At(w, "loop") /\ events[w] > 0
    /\ events' = [events EXCEPT ![w] = @ - 1]
    /\ IF copy[w].phase = "Waiting" THEN Goto(w, "starting") ELSE UNCHANGED pc
    /\ UNCHANGED <<recordVars, lockVars, copy, review, daemonVars, prompts, frames, late>>

\* The id of the run is saved before the run is dispatched.
StartReview(w) ==
    /\ At(w, "starting")
    /\ Saves(w, [copy[w] EXCEPT !.phase = "Reviewing", !.run = @ + 1], "dispatching")
    /\ review' = IF pc'[w] = "dispatching" THEN [review EXCEPT ![w[1]] = "none"] ELSE review
    /\ UNCHANGED <<phase, used, boot, lockVars, owner, waiting, pasted, prompts, frames, late>>

\* A runner that was launched may never come to write its record.
Dispatched(w) ==
    /\ At(w, "dispatching")
    /\ \/ review' = [review EXCEPT ![w[1]] = "running"]
       \/ "runner" \in Faults /\ UNCHANGED review
    /\ Goto(w, "loop")
    /\ UNCHANGED <<recordVars, lockVars, copy, events, daemonVars, prompts, frames, late>>

\* No slot, or no launch: the run is recorded as failed and the error returned.
DispatchFails(w) ==
    /\ At(w, "dispatching") /\ "runner" \in Faults
    /\ review' = [review EXCEPT ![w[1]] = "failed"]
    /\ Errs(w)
    /\ UNCHANGED <<recordVars, lockVars, owner, waiting, pasted, prompts, frames, late>>

\* Of a run that completed, the output may pass the work or tell what is missing.
\* Bound: a review ends while somebody waits for it.
Outcomes == {"passed", "feedback"}

ReviewEnds(h) ==
    /\ review[h] = "running" /\ \E i \in Boots : pc[<<h, i>>] # "off"
    /\ \E r \in Outcomes \cup {"failed"} : review' = [review EXCEPT ![h] = r]
    /\ UNCHANGED <<recordVars, lockVars, pc, copy, events, daemonVars, prompts, frames, late>>

ReviewDone(w) ==
    /\ At(w, "loop") /\ copy[w].phase = "Reviewing" /\ review[w[1]] \in Outcomes
    /\ Saves(w, [copy[w] EXCEPT !.phase = "Collecting"], "loop")
    /\ UNCHANGED <<phase, used, boot, lockVars, review, owner, waiting, pasted, prompts, frames, late>>

\* Without a record it is given 90 seconds.
ReviewFails(w) ==
    /\ At(w, "loop") /\ copy[w].phase = "Reviewing"
    /\ review[w[1]] = "failed" \/ ("runner" \in Faults /\ review[w[1]] = "none")
    /\ Errs(w)
    /\ UNCHANGED <<recordVars, lockVars, review, owner, waiting, pasted, prompts, frames, late>>

\* The result and the agent's session are read without the gate.
CollectBegin(w) ==
    /\ At(w, "loop") /\ copy[w].phase = "Collecting"
    /\ Goto(w, "collecting")
    /\ UNCHANGED <<recordVars, lockVars, copy, events, review, daemonVars, prompts, frames, late>>

Collects(w) == At(w, "collecting") /\ gate = None

\* It was taken over meanwhile: nothing is typed.
CollectAbandoned(w) ==
    /\ Collects(w) /\ ~Owns(w)
    /\ Goto(w, "loop")
    /\ UNCHANGED <<recordVars, lockVars, copy, events, review, daemonVars, prompts, frames, late>>

\* Mutant: one more round than was allowed.
AtLimitLate(w) == copy[w].count > MaxInputs

AtLimit(w) == copy[w].count >= MaxInputs

\* A review that passes wins over the limit.
Outcome(w) ==
    CASE review[w[1]] = "passed" -> "Completed"
      [] review[w[1]] # "passed" /\ AtLimit(w) -> "LimitReached"
      [] OTHER -> "Submitting"

CollectEnds(w) ==
    /\ Collects(w) /\ Owns(w) /\ Outcome(w) # "Submitting"
    /\ Saves(w, [copy[w] EXCEPT !.phase = Outcome(w)], "loop")
    /\ UNCHANGED <<phase, used, boot, lockVars, review, owner, waiting, pasted, prompts, frames, late>>

\* What is missing may be told in a way that will not do as a task.
CollectUnusable(w) ==
    /\ Collects(w) /\ Owns(w) /\ Outcome(w) = "Submitting" /\ "runner" \in Faults
    /\ Errs(w)
    /\ UNCHANGED <<recordVars, lockVars, review, owner, waiting, pasted, prompts, frames, late>>

\* Submitting is saved before anything is typed, and completions told of until now are dropped.
SubmitConclusion(w) ==
    /\ Collects(w) /\ Owns(w) /\ Outcome(w) = "Submitting"
    /\ \/ /\ hosting' = [copy[w] EXCEPT !.phase = "Submitting"]
          /\ copy' = [copy EXCEPT ![w] = hosting']
          /\ gate' = w
          /\ events' = [events EXCEPT ![w] = 0]
          /\ Sends(w, [op |-> "paste", text |-> <<w[1], copy[w].run>>])
          /\ Goto(w, "pasting") /\ UNCHANGED inbox
       \/ "io" \in Faults /\ Errs(w) /\ UNCHANGED <<hosting, gate>>
    /\ UNCHANGED <<phase, used, boot, leased, guard, linked, review, owner, waiting, pasted,
                   prompts, frames, late>>

WorkerEntered(w) ==
    /\ At(w, "entering") /\ Reads(w, "written")
    /\ Goto(w, "entered")
    /\ UNCHANGED <<recordVars, lockVars, copy, events, review, owner, waiting, pipe, pasted,
                   prompts, frames, late>>

\* Mutant: the old completions are dropped once the conclusion is submitted.
SubmittedLate(w) ==
    /\ At(w, "entered") /\ Owns(w)
    /\ hosting' = [copy[w] EXCEPT !.phase = "Waiting", !.count = @ + 1]
    /\ copy' = [copy EXCEPT ![w] = hosting']
    /\ events' = [events EXCEPT ![w] = 0]
    /\ Goto(w, "loop")
    /\ FreeGate(w)
    /\ UNCHANGED <<phase, used, boot, leased, guard, linked, review, owner, waiting, pipe, inbox,
                   pasted, prompts, frames, late>>

\* The Enter is acknowledged: the hosting waits for the turn to end.
Submitted(w) ==
    /\ At(w, "entered")
    /\ Saves(w, [copy[w] EXCEPT !.phase = "Waiting", !.count = @ + 1], "loop")
    /\ FreeGate(w)
    /\ UNCHANGED <<phase, used, boot, leased, guard, linked, review, owner, waiting, pasted,
                   prompts, frames, late>>

WorkerSubmitFails(w) ==
    /\ pc[w] \in {"pasting", "entering"} /\ CallFails(w)
    /\ Errs(w)
    /\ FreeGate(w)
    /\ UNCHANGED <<recordVars, leased, guard, linked, review, owner, waiting, pasted, prompts,
                   frames, late>>

\* source::read or same_process finds another process or session, or none.
AgentChanged(w) ==
    /\ "agent" \in Faults
    /\ \/ pc[w] \in {"loop", "starting", "collecting"} /\ Errs(w)
       \/ At(w, "recover") /\ gate = None /\ Live(w) /\ Goto(w, "failing")
          /\ UNCHANGED <<copy, events, pipe, inbox>>
    /\ UNCHANGED <<recordVars, lockVars, review, owner, waiting, pasted, prompts, frames, late>>

\* Mutant: the error of run is only logged.
FailSilently(w) ==
    /\ At(w, "failing") /\ gate = None
    /\ Goto(w, "off")
    /\ UNCHANGED <<recordVars, lockVars, copy, events, review, daemonVars, prompts, frames, late>>

\* The failure is saved under the gate, unless the hosting is gone or has ended.
Fail(w) ==
    /\ At(w, "failing") /\ gate = None
    /\ IF Live(w)
       THEN \/ hosting' = [hosting EXCEPT !.phase = "Failed"] /\ Goto(w, "off")
            \/ "io" \in Faults /\ UNCHANGED hosting /\ Goto(w, "unsaved")
       ELSE UNCHANGED hosting /\ Goto(w, "off")
    /\ UNCHANGED <<phase, used, boot, lockVars, copy, events, review, daemonVars, prompts, frames, late>>

-----------------------------------------------------------------------------
(* The server restarts; terminald and the agent live on *)

\* Turns that end meanwhile are not told of later, and an initialization is not resumed.
Crash ==
    /\ boot < MaxCrashes
    /\ boot' = boot + 1
    /\ phase' = IF phase = "Starting" THEN "Failed" ELSE phase
    /\ gate' = None /\ leased' = None /\ guard' = {} /\ linked' = {}
    /\ pc' = [c \in Workers \cup Submitters |->
                CASE c \in Workers /\ Live(c) /\ c[2] = boot' -> "recover"
                  [] c \in Submitters /\ pc[c] # "off" -> "done"
                  [] OTHER -> "off"]
    /\ copy' = [w \in Workers |-> Fresh(w[1])]
    /\ events' = [w \in Workers |-> 0]
    /\ pipe' = [c \in Clients |-> IF Connected(c) /\ ~Dead(c)
                                  THEN Append(pipe[c], Frame("close")) ELSE pipe[c]]
    /\ inbox' = [c \in Clients |-> <<>>]
    /\ prompts' \in 0..prompts
    /\ UNCHANGED <<hosting, used, review, owner, waiting, pasted, frames, late>>

-----------------------------------------------------------------------------

DaemonStep(c) ==
    \/ DaemonClaims(c) \/ DaemonRefuses(c) \/ DaemonUnchanged(c) \/ DaemonVacancy(c)
    \/ DaemonReleases(c) \/ DaemonWrites(c)

BrowserStep(b) ==
    \/ TakeOver(b) \/ TakeOverFails(b) \/ Claims(b) \/ Observes(b) \/ Types(b)
    \/ Leaves(b) \/ BridgeEnds(b) \/ Reconnects(b)

SubmitStep(s) ==
    \/ SubmitClaims(s) \/ Claimed(s) \/ Pasted(s) \/ Entered(s) \/ Finished(s) \/ SubmitFails(s)

\* What a worker does under the gate.
GateStep(w) ==
    \/ RecoverSkips(w) \/ RecoverRefuses(w) \/ Recovers(w)
    \/ CollectAbandoned(w) \/ CollectEnds(w) \/ CollectUnusable(w) \/ SubmitConclusion(w)
    \/ Fail(w)

WorkerStep(w) ==
    \/ Enabled(w) \/ EnableFails(w) \/ Recovered(w) \/ RestoreFails(w)
    \/ FirstReview(w) \/ TakeEvent(w) \/ StartReview(w) \/ Dispatched(w) \/ DispatchFails(w)
    \/ ReviewDone(w) \/ ReviewFails(w) \/ CollectBegin(w)
    \/ Pasted(w) \/ WorkerEntered(w) \/ Submitted(w) \/ WorkerSubmitFails(w)
    \/ LoopEnds(w) \/ NoticeLost(w)

Next ==
    \/ \E c \in Clients : DaemonStep(c)
    \/ \E b \in Browsers : BrowserStep(b)
    \/ \E s \in Submissions : SubmitBegin(s)
    \/ \E s \in Submitters : SubmitStep(s)
    \/ \E h \in Hostings : Enable(h) \/ ReviewEnds(h)
    \/ \E w \in Workers : GateStep(w) \/ WorkerStep(w) \/ AgentChanged(w)
    \/ TurnEnds \/ Crash

\* A submission has a time limit, and a worker is passed over by neither the gate, which is a fair
\* lock, nor its timer. Nobody else need act, terminald neither.
Fairness ==
    /\ \A s \in Submitters : WF_vars(SubmitStep(s))
    /\ \A w \in Workers : SF_vars(GateStep(w) \/ WorkerStep(w))

Spec == Init /\ [][Next]_vars
FairSpec == Spec /\ Fairness

-----------------------------------------------------------------------------
(* Properties *)

Ops == {"claim", "force", "observe", "paste", "enter", "keys", "close"}
Frames == [op : Ops, text : {None} \cup (Hostings \X Nat)]
Pipes == [Clients -> Seq(Frames)]
Messages == {"claimed", "waiting", "closed", "written", "refused"}
Boxes == [Clients -> Seq(Messages)]
Labels == {"off", "claim", "claiming", "pasting", "entering", "finishing", "done", "enabling", "recover",
           "restoring", "first", "loop", "starting", "dispatching", "collecting", "entered", "failing",
           "unsaved"}

RecordType ==
    /\ hosting = None \/ (hosting \in Records /\ hosting.id \in used)
    /\ phase \in {"Starting", "Ready", "Failed"} /\ used \subseteq Hostings /\ boot \in Boots

LockType ==
    /\ gate \in Workers \cup Submissions \cup {None} /\ leased \in Submitters \cup {None}
    /\ guard \subseteq linked /\ linked \subseteq Browsers

WorkType ==
    /\ pc \in [Workers \cup Submitters -> Labels]
    /\ copy \in [Workers -> Records] /\ \A w \in Workers : copy[w].id = w[1]
    /\ events \in [Workers -> Nat]
    /\ review \in [Hostings -> Outcomes \cup {"none", "running", "failed"}]

DaemonType ==
    /\ owner \in Clients \cup {None} /\ waiting \subseteq Clients
    /\ pipe \in Pipes /\ inbox \in Boxes
    /\ pasted \in Seq(Hostings \X Nat)

\* Type invariant; a hosting is among those whose ids were given.
TypeOK ==
    /\ RecordType /\ LockType /\ WorkType /\ DaemonType
    /\ prompts \in 0..MaxQueue /\ frames \in 0..MaxFrames /\ late \subseteq Clients \X Clients

\* The conclusion of a review is pasted at most once, and a hosting pastes no more conclusions
\* than it was allowed, however often the server restarts and whatever answers are lost: those
\* that were interrupted count, because Submitting is saved first and never resumed from.
PastedOnce ==
    /\ \A i, j \in DOMAIN pasted : pasted[i] = pasted[j] => i = j
    /\ \A h \in Hostings : Cardinality({i \in DOMAIN pasted : pasted[i][1] = h}) <= MaxInputs

\* A takeover is final: no late save, of a review or of a failure, brings a hosting back.
RemovedStaysRemoved ==
    [][hosting' # None /\ (~Hosted \/ hosting.id # hosting'.id) => hosting'.id \notin used]_vars

\* From the paste to the acknowledged Enter, control is lost at most to a forced claim that was on
\* its way before the typist's own claim was sent: by a browser that left at once, or a call that
\* timed out.  Nobody who comes later takes it.
SubmissionKeepsControl ==
    [][\A c \in Workers \cup Submitters :
         pc[c] \in {"pasting", "entering"} /\ owner = c =>
             owner' = c \/ <<c, owner'>> \in late]_vars

\* The completion of the turn that a conclusion began is not dropped with those of earlier turns:
\* until a restart, a hosting that waits has a turn to wait for, or its completion.  A worker that
\* recovers subscribes anew and goes on waiting, also for a turn that ended in between.
NoTurnForgotten ==
    \A h \in Hostings :
        LET w == Worker(h) IN
        boot = 0 /\ Owns(w) /\ hosting.phase = "Waiting" /\ hosting.count > 0 /\ At(w, "loop") =>
            prompts + events[w] > 0

\* A hosting that is shown as under way has control, or gets it back, or is shown as failed, ended
\* or removed, unless its failure could not be saved.
Attended(h) ==
    \/ ~Hosted \/ hosting.id # h \/ Stopped(hosting)
    \/ owner = Worker(h) \/ At(Worker(h), "unsaved")
ControlIsSettled == \A h \in Hostings : []<>Attended(h)

=============================================================================
