------------------------------ MODULE AcpTurns ------------------------------
(* The turns of one ACP conversation.                                         *)
(* The service admits a prompt under the lock of the thread store, enqueues it *)
(* to the agent before it unlocks, and a task of its own waits for the result. *)
(* Input given while a turn runs (steering) is sent at once; the agent injects *)
(* it, starts a turn of its own with it, or leaves it to be sent as an ordinary *)
(* prompt (the fallback). Results, answers and reports of activity come back in *)
(* the order the agent wrote them; a report takes effect when it is read, but  *)
(* a result waits for its task to get the lock. The connection may break, and  *)
(* the conversation may be closed and opened again.                            *)
EXTENDS Naturals, Sequences, FiniteSets

CONSTANTS
    MaxInputs,   \* inputs the user gives, in this order
    MaxFaulted,  \* inputs of a behaviour in which the connection or the route goes
    MaxStops,    \* times the user stops the conversation
    Faults       \* among "io", "loss" and "close"

ASSUME TurnsAssumption ==
    MaxInputs \in Nat \ {0} /\ MaxFaulted \in 0..MaxInputs /\ MaxStops \in Nat

VARIABLES
    thread,      \* the SessionSnapshot
    inputs,      \* inputs admitted so far
    first,       \* the first input since the thread was installed
    pc,          \* pc[t]: the step of task t
    answer,      \* answer[t]: the response that has reached task t
    captured,    \* captured[t]: the pending input that t's fallback has read
    stops,       \* stops made, and those of them whose cancel is not sent yet
    closing,     \* close_session waits for the agent
    route,       \* the thread is registered at the connection
    link,        \* "up", "broken" (no message passes), "stopped", "handled"
    agent,       \* the agent process
    wire,        \* what the agent has written and the dispatcher has not read
    sent,        \* sent[n]: prompts sent with input n
    consumed,    \* consumed[n]: times the agent took steering input n
    told,        \* told[n]: how the agent answered prompt n
    reported,    \* reported[n]: calls of turn_completed for n
    stopped      \* the inputs that were pending when the user stopped

taskVars == <<pc, answer, captured>>
logVars == <<sent, consumed, told, reported, stopped>>
vars == <<thread, inputs, first, taskVars, stops, closing, route, link, agent, wire, logVars>>

Inputs == 1..MaxInputs
Tasks == {"prompt", "steer"} \X Inputs
Activities == {"active", "idle", "failed"}
NoPending == [id |-> 0, required |-> FALSE, cancelled |-> FALSE,
              sawIdle |-> FALSE, sawActive |-> FALSE, terminal |-> "none"]

\* A new_snapshot keeps nothing but the verified outcomes and deliveries of the old one.
Fresh(t) == [t EXCEPT
    !.status = "idle", !.active = 0, !.pending = NoPending, !.activity = "none",
    !.detached = FALSE, !.detachedActive = FALSE, !.cancelled = FALSE,
    !.untracked = FALSE, !.completion = 0, !.stopReason = "none", !.error = FALSE]

\* "last" is the input of the last of the thread's turns.
NewThread == Fresh(
    [status |-> "idle", active |-> 0, pending |-> NoPending, activity |-> "none",
     detached |-> FALSE, detachedActive |-> FALSE, cancelled |-> FALSE,
     untracked |-> FALSE, completion |-> 0, stopReason |-> "none", error |-> FALSE, last |-> 0,
     outcome |-> [n \in Inputs |-> "none"], delivery |-> [n \in Inputs |-> "none"]])

\* An agent reports its activity or does not, the end of a turn before or after the
\* prompt's response, and leaves idle steering input unconsumed or starts a turn with it.
Agent(reports, leaves) ==
    [reports |-> reports, leaves |-> leaves, running |-> 0, announced |-> FALSE,
     queue |-> {}, asked |-> [n \in Inputs |-> "none"], cancelled |-> {}]

Init ==
    /\ thread = NewThread /\ inputs = 0 /\ first = 1
    /\ pc = [t \in Tasks |-> "none"] /\ answer = [t \in Tasks |-> "none"]
    /\ captured = [t \in Tasks |-> 0]
    /\ stops = [made |-> 0, unsent |-> 0] /\ closing = FALSE
    /\ route = TRUE /\ link = "up"
    /\ \E reports \in {"never", "before", "after"}, leaves \in BOOLEAN :
          agent = Agent(reports, leaves)
    /\ wire = <<>>
    /\ sent = [n \in Inputs |-> 0] /\ consumed = [n \in Inputs |-> 0]
    /\ told = [n \in Inputs |-> "none"] /\ reported = [n \in Inputs |-> 0]
    /\ stopped = {}

-----------------------------------------------------------------------------
(* Functions of the snapshot. *)

HasPending(t) == t.pending.id # 0

\* Mutant: a detached turn does not keep the conversation working.
SettleForgettingDetached(t) ==
    IF t.status = "disconnected" THEN t
    ELSE [t EXCEPT !.status = IF t.active # 0 \/ HasPending(t) THEN "working" ELSE "idle"]

SettleStatus(t) ==
    IF t.status = "disconnected" THEN t
    ELSE [t EXCEPT !.status = IF t.active # 0 \/ HasPending(t) \/ t.detached
                              THEN "working" ELSE "idle"]

\* finish_record: how a turn is recorded that ends with this stop reason and error.
Recorded(t) ==
    IF t.stopReason = "end_turn" THEN "completed"
    ELSE IF t.error /\ t.stopReason # "cancelled" /\ t.status # "disconnected"
         THEN "failed" ELSE "interrupted"

\* The tail of every ThreadStore::update: a thread that does not work has no open turn.
Updated(t) ==
    IF t.status = "working" THEN t
    ELSE [t EXCEPT !.outcome = [n \in Inputs |->
            IF @[n] = "in_progress" THEN Recorded(t) ELSE @[n]]]

\* delivery: it only ever replaces "sending".
Deliver(t, n, how) ==
    [t EXCEPT !.delivery[n] = IF @ = "sending" THEN how ELSE @]

FinishDetached(t, activity) ==
    LET u == [t EXCEPT !.detached = FALSE, !.detachedActive = FALSE, !.untracked = FALSE,
                       !.stopReason = IF t.cancelled THEN "cancelled" ELSE "none",
                       !.error = activity = "failed"]
    IN SettleStatus([u EXCEPT !.outcome[t.last] =
           IF u.error THEN "failed" ELSE IF t.cancelled THEN "interrupted" ELSE "unknown"])

\* What the answer to pending steering input will want to know.
PendingSees(p, activity) ==
    CASE activity = "idle" ->
           [p EXCEPT !.sawIdle = TRUE, !.terminal = IF p.sawActive THEN "idle" ELSE @]
      [] activity = "active" /\ p.sawIdle ->
           [p EXCEPT !.sawActive = TRUE, !.terminal = "none"]
      [] activity = "failed" /\ p.sawActive -> [p EXCEPT !.terminal = "failed"]
      [] OTHER -> p

ObserveActivity(t, activity) ==
    LET u == [t EXCEPT !.activity = activity,
                       !.pending = IF HasPending(t) THEN PendingSees(@, activity) ELSE @]
    IN CASE ~t.detached -> u
         [] t.detached /\ activity = "active" ->
              [u EXCEPT !.detachedActive = TRUE, !.untracked = FALSE]
         [] OTHER -> IF t.detachedActive THEN FinishDetached(u, activity) ELSE u

\* steering::disconnected: identities are gone, what was sent is of unknown fate.
Disconnected(t) ==
    [t EXCEPT !.delivery = [n \in Inputs |-> IF @[n] = "sending" THEN "unknown" ELSE @[n]],
              !.pending = NoPending, !.untracked = FALSE, !.activity = "none",
              !.detached = FALSE, !.detachedActive = FALSE, !.cancelled = FALSE,
              !.completion = 0]

-----------------------------------------------------------------------------
(* The wire. What is written on a broken connection is answered with an error. *)

Activity(a) == [kind |-> "activity", what |-> a, to |-> <<"none", 0>>]
Response(t, how) == [kind |-> "response", what |-> how, to |-> t]
Reports(a, what) == IF a.reports = "never" THEN <<>> ELSE <<Activity(what)>>

Asked(n, kind) ==
    /\ pc' = [pc EXCEPT ![<<kind, n>>] = "waiting"]
    /\ answer' = [answer EXCEPT ![<<kind, n>>] = IF link = "up" THEN "none" ELSE "lost"]
    /\ UNCHANGED captured

SendPrompt(n) ==
    /\ Asked(n, "prompt")
    /\ sent' = [sent EXCEPT ![n] = @ + 1]
    /\ agent' = IF link = "up" THEN [agent EXCEPT !.queue = @ \cup {n}] ELSE agent
    /\ UNCHANGED wire

\* session/cancel is for all the agent has begun or will begin with.
Cancelled(a) ==
    [a EXCEPT !.cancelled = @ \cup a.queue \cup ({a.running} \ {0})]
SendCancel == agent' = IF link = "up" THEN Cancelled(agent) ELSE agent

\* session_connection finds the connection and connected() holds.
Connected == route /\ link \in {"up", "broken"}
Whole == link = "up" /\ route /\ ~closing /\ first = 1
MayInput == inputs < IF Whole THEN MaxInputs ELSE MaxFaulted
MayFail == inputs <= MaxFaulted /\ first = 1
Answered(t) == pc[t] = "waiting" /\ answer[t] # "none"
Goto(t, step) ==
    /\ pc' = [pc EXCEPT ![t] = step] /\ answer' = [answer EXCEPT ![t] = "none"]
    /\ captured' = [captured EXCEPT ![t] = 0]

-----------------------------------------------------------------------------
(* Prompts. *)

\* What every admission asks for, a fallback's too.
Admissible(t) == t.status # "disconnected" /\ t.active = 0 /\ ~t.detached

Admits(t) == Admissible(t) /\ t.status = "idle" /\ ~HasPending(t)

\* The turn begins: the snapshot of start_prompt_inner before it is saved.
Begun(t, n) ==
    [t EXCEPT !.active = n, !.activity = "none", !.status = "working",
              !.error = FALSE, !.stopReason = "none", !.outcome[n] = "in_progress", !.last = n]

Prompt ==
    LET n == inputs + 1 IN
    /\ MayInput /\ Connected /\ Admits(thread)
    /\ inputs' = n
    /\ thread' = Updated(Begun(thread, n))
    /\ SendPrompt(n)
    /\ UNCHANGED <<first, stops, closing, route, link, consumed, told, reported, stopped>>

\* The save fails: the snapshot is restored and nothing is sent.
PromptUnsaved ==
    /\ "io" \in Faults /\ MayInput /\ Connected /\ Admits(thread)
    /\ thread' = Updated([thread EXCEPT !.error = TRUE])
    /\ UNCHANGED <<inputs, first, taskVars, stops, closing, route, link, agent, wire, logVars>>

\* The agent's result in the snapshot of a turn that is still the active one.
WithResult(t, n, how) ==
    LET later == t.detached \/ t.last # n
        ended == [t EXCEPT
            !.active = 0,
            !.status = IF link \in {"up", "broken"} /\ @ # "disconnected"
                       THEN "idle" ELSE "disconnected",
            !.stopReason = IF how \in {"lost", "error"} THEN @ ELSE how,
            !.error = @ \/ how \in {"lost", "error"}]
        recorded == [ended EXCEPT !.outcome[n] = Recorded(ended)]
    IN SettleStatus(IF later THEN [recorded EXCEPT !.stopReason = t.stopReason, !.error = t.error]
                    ELSE recorded)

\* Mutant: what is left to the steering answer is told at once too.
HostHearsAnyway(completed, t) == completed

HostHears(completed, t) == completed /\ ~HasPending(t)

\* Mutant: the result of any prompt is applied to the thread.
PromptResultUnchecked(n) ==
    LET t == <<"prompt", n>>
        settled == WithResult(thread, n, answer[t]) IN
    /\ Answered(t)
    /\ thread' = Updated(settled)
    /\ Goto(t, "peek")
    /\ UNCHANGED <<inputs, first, stops, closing, route, link, agent, wire, logVars>>

\* completed_turn decides whether the host is told; while steering is pending its
\* answer will tell. A save that fails keeps the host from being told.
PromptResult(n) ==
    LET t == <<"prompt", n>>
        settled == WithResult(thread, n, answer[t])
        succeeded == answer[t] \notin {"lost", "error"}
        completed == succeeded /\ settled.outcome[n] = "completed"
        kept == IF succeeded /\ HasPending(settled)
                THEN [settled EXCEPT !.completion = IF completed THEN n ELSE 0]
                ELSE settled
        tell == HostHears(completed, settled) IN
    /\ Answered(t) /\ thread.active = n
    /\ thread' = Updated(kept)
    /\ \E saved \in {TRUE} \cup (IF "io" \in Faults /\ settled.status # "working"
                                 THEN {FALSE} ELSE {}) :
          reported' = [reported EXCEPT ![n] = IF tell /\ saved THEN @ + 1 ELSE @]
    /\ Goto(t, "peek")
    /\ UNCHANGED <<inputs, first, stops, closing, route, link, agent, wire,
                   sent, consumed, told, stopped>>

\* Another turn, or none, is the active one: the task ends.
PromptResultLate(n) ==
    /\ Answered(<<"prompt", n>>) /\ thread.active # n
    /\ Goto(<<"prompt", n>>, "done")
    /\ UNCHANGED <<thread, inputs, first, stops, closing, route, link, agent, wire, logVars>>

-----------------------------------------------------------------------------
(* Steering. *)

\* A save that fails restores the thread and sends nothing.
Steer ==
    LET n == inputs + 1 IN
    /\ MayInput /\ Connected
    /\ thread.status = "working" /\ ~HasPending(thread)
    /\ inputs' = n
    /\ thread' = Updated([thread EXCEPT
          !.pending = [NoPending EXCEPT !.id = n, !.sawIdle = thread.activity = "idle"],
          !.delivery[n] = "sending"])
    /\ Asked(n, "steer")
    /\ agent' = IF link = "up" THEN [agent EXCEPT !.asked[n] = "new"] ELSE agent
    /\ UNCHANGED <<first, stops, closing, route, link, wire, logVars>>

\* startedNewTurn: the adapter runs a turn that no prompt of ours owns.
StartedNewTurn(t, p) ==
    LET u == [Deliver(t, p.id, "started") EXCEPT
                  !.outcome[p.id] = "in_progress", !.last = p.id,
                  !.stopReason = "none", !.error = FALSE,
                  !.detached = TRUE, !.detachedActive = p.sawActive,
                  !.cancelled = p.cancelled, !.untracked = ~p.sawActive]
    IN IF p.terminal # "none" THEN FinishDetached(u, p.terminal) ELSE u

\* Mutant: a stop that came before the answer is forgotten.
PromptRequiredAlways(t, p) ==
    [(IF t.detached THEN FinishDetached(t, "idle") ELSE t) EXCEPT
        !.pending = [p EXCEPT !.required = TRUE, !.cancelled = FALSE]]

\* promptRequired with noRunningTurn: the input is unconsumed.
PromptRequired(t, p) ==
    IF p.cancelled THEN Deliver(t, p.id, "cancelled")
    ELSE [(IF t.detached THEN FinishDetached(t, "idle") ELSE t) EXCEPT
             !.pending = [p EXCEPT !.required = TRUE]]

WithAnswer(t, how) ==
    LET p == t.pending
        u == [t EXCEPT !.pending = NoPending]
    IN SettleStatus(
         CASE how = "injected" -> Deliver(u, p.id, "injected")
           [] how = "started" -> StartedNewTurn(u, p)
           [] how = "required" -> PromptRequired(u, p)
           [] how = "refused" -> Deliver(u, p.id, "failed")
           [] OTHER -> Deliver(u, p.id, "unknown"))

\* A turn of the agent's own that was stopped before it was known of is cancelled again.
SteerAnswer(n) ==
    LET t == <<"steer", n>>
        settled == WithAnswer(thread, answer[t]) IN
    /\ Answered(t) /\ thread.pending.id = n
    /\ thread' = Updated([settled EXCEPT !.completion = 0])
    /\ reported' = [m \in Inputs |->
          IF m = settled.completion THEN reported[m] + 1 ELSE reported[m]]
    /\ Goto(t, IF answer[t] = "started" /\ thread.pending.cancelled THEN "cancel" ELSE "peek")
    /\ UNCHANGED <<inputs, first, stops, closing, route, link, agent, wire,
                   sent, consumed, told, stopped>>

SteerAnswerLate(n) ==
    /\ Answered(<<"steer", n>>) /\ thread.pending.id # n
    /\ Goto(<<"steer", n>>, "done")
    /\ UNCHANGED <<thread, inputs, first, stops, closing, route, link, agent, wire, logVars>>

CancelAgain(n) ==
    /\ pc[<<"steer", n>>] = "cancel"
    /\ SendCancel
    /\ Goto(<<"steer", n>>, "peek")
    /\ UNCHANGED <<thread, inputs, first, stops, closing, route, link, wire, logVars>>

-----------------------------------------------------------------------------
(* The fallback, that both kinds of task try when they are done. *)

\* Mutant: input is sent once the end of the turn is reported, not once it is known.
FallbackDueReported(t) ==
    HasPending(t) /\ t.pending.required /\ ~t.pending.cancelled /\ t.activity = "idle"

FallbackDue(t) ==
    HasPending(t) /\ t.pending.required /\ ~t.pending.cancelled /\ t.active = 0

\* start_steering_fallback reads a snapshot, and admission reads the thread again.
Peek(t) ==
    /\ pc[t] = "peek"
    /\ LET due == FallbackDue(thread) IN
       /\ pc' = [pc EXCEPT ![t] = IF due THEN "start" ELSE "done"]
       /\ captured' = [captured EXCEPT ![t] = IF due THEN thread.pending.id ELSE 0]
    /\ UNCHANGED <<answer, thread, inputs, first, stops, closing, route, link, agent, wire, logVars>>

\* Mutant: the admission of a fallback trusts the snapshot.
AdmitsFallbackAsRead(t, n) == t.status # "disconnected"

AdmitsFallback(t, n) ==
    /\ Admissible(t)
    /\ t.pending.id = n /\ t.pending.required /\ ~t.pending.cancelled

FallbackStart(t) ==
    LET n == captured[t] IN
    /\ pc[t] = "start" /\ Connected /\ AdmitsFallback(thread, n)
    /\ thread' = Updated(Begun([Deliver(thread, n, "started") EXCEPT !.pending = NoPending], n))
    /\ pc' = [pc EXCEPT ![t] = "done", ![<<"prompt", n>>] = "waiting"]
    /\ answer' = [answer EXCEPT ![<<"prompt", n>>] = IF link = "up" THEN "none" ELSE "lost"]
    /\ captured' = [captured EXCEPT ![t] = 0]
    /\ sent' = [sent EXCEPT ![n] = @ + 1]
    /\ agent' = IF link = "up" THEN [agent EXCEPT !.queue = @ \cup {n}] ELSE agent
    /\ UNCHANGED <<inputs, first, stops, closing, route, link, wire,
                   consumed, told, reported, stopped>>

\* An input that is still pending must not wait for ever. Here no save can fail: the thread
\* works before and after.
FallbackRefused(t) ==
    LET n == captured[t] IN
    /\ pc[t] = "start" /\ ~(Connected /\ AdmitsFallback(thread, n))
    /\ thread' = IF thread.pending.id = n
                 THEN Updated(SettleStatus(
                        [Deliver(thread, n, "failed") EXCEPT !.pending = NoPending]))
                 ELSE thread
    /\ Goto(t, "done")
    /\ UNCHANGED <<inputs, first, stops, closing, route, link, agent, wire, logVars>>

-----------------------------------------------------------------------------
(* The user stops, closes and reopens the conversation. *)

\* The part of cancel that runs under the lock.
StopMarked(t) ==
    LET u == [t EXCEPT !.cancelled = TRUE,
                       !.pending.cancelled = HasPending(t)]
    IN IF t.pending.required
       THEN SettleStatus([Deliver(u, t.pending.id, "cancelled") EXCEPT !.pending = NoPending])
       ELSE u

Stop ==
    /\ stops.made < MaxStops /\ route
    /\ stops' = [made |-> stops.made + 1, unsent |-> stops.unsent + 1]
    /\ thread' = Updated(StopMarked(thread))
    /\ stopped' = stopped \cup ({thread.pending.id} \ {0})
    /\ UNCHANGED <<inputs, first, taskVars, closing, route, link, agent, wire,
                   sent, consumed, told, reported>>

\* session/cancel is sent after the lock is gone.
StopSent ==
    /\ stops.unsent > 0
    /\ stops' = [stops EXCEPT !.unsent = @ - 1]
    /\ IF route THEN SendCancel ELSE UNCHANGED agent
    /\ UNCHANGED <<thread, inputs, first, taskVars, closing, route, link, wire, logVars>>

\* close_session: a working agent is stopped, and asked to close if it can.
Close ==
    /\ "close" \in Faults /\ MayFail /\ route /\ ~closing
    /\ closing' = TRUE
    /\ IF link \in {"up", "broken"} /\ thread.status = "working"
       THEN SendCancel ELSE UNCHANGED agent
    /\ UNCHANGED <<thread, inputs, first, taskVars, stops, route, link, wire, logVars>>

\* The snapshot of detach_session.
DetachedSession(t) == [Disconnected(t) EXCEPT !.status = "disconnected", !.active = 0]

Closed ==
    /\ closing /\ closing' = FALSE
    /\ route' = FALSE
    /\ thread' = Updated(DetachedSession(thread))
    /\ UNCHANGED <<inputs, first, taskVars, stops, link, agent, wire, logVars>>

\* The agent refuses to close the session, or never answers.
CloseFails ==
    /\ closing /\ closing' = FALSE
    /\ UNCHANGED <<thread, inputs, first, taskVars, stops, route, link, agent, wire, logVars>>

\* A load is installed: on the same connection, or on a new one if that is gone.
Reopen ==
    /\ thread.status = "disconnected" /\ ~closing /\ first = 1
    /\ \/ link = "up" /\ ~route /\ UNCHANGED <<link, agent>>
       \/ link = "handled" /\ link' = "up" /\ UNCHANGED agent
    /\ thread' = Fresh(thread)
    /\ route' = TRUE /\ first' = inputs + 1
    /\ UNCHANGED <<inputs, taskVars, stops, closing, wire, logVars>>

-----------------------------------------------------------------------------
(* The connection. *)

\* The dispatcher reads the next message; without a route an update goes nowhere.
Receive ==
    /\ wire # <<>> /\ wire' = Tail(wire)
    /\ LET m == Head(wire) IN
       IF m.kind = "activity"
       THEN /\ thread' = IF route THEN Updated(ObserveActivity(thread, m.what)) ELSE thread
            /\ UNCHANGED answer
       ELSE /\ answer' = [answer EXCEPT ![m.to] = m.what]
            /\ UNCHANGED thread
    /\ UNCHANGED <<pc, captured, inputs, first, stops, closing, route, link, agent, logVars>>

\* The adapter is gone, and every request ends with an error.
Break ==
    /\ "loss" \in Faults /\ MayFail /\ link = "up" /\ link' = "broken"
    /\ wire' = <<>> /\ agent' = Agent(agent.reports, agent.leaves)
    /\ answer' = [t \in Tasks |->
          IF pc[t] = "waiting" /\ answer[t] = "none" THEN "lost" ELSE answer[t]]
    /\ UNCHANGED <<pc, captured, thread, inputs, first, stops, closing, route, logVars>>

StopConnection ==
    /\ link = "broken" /\ link' = "stopped"
    /\ UNCHANGED <<thread, inputs, first, taskVars, stops, closing, route, agent, wire, logVars>>

\* ClientContext::disconnected. The active prompt is left to its own task.
ConnectionLost ==
    /\ link = "stopped" /\ link' = "handled"
    /\ thread' = IF route
                 THEN Updated(Disconnected(
                        [thread EXCEPT !.error = @ \/ thread.status = "working",
                                       !.status = "disconnected"]))
                 ELSE thread
    /\ UNCHANGED <<inputs, first, taskVars, stops, closing, route, agent, wire, logVars>>

-----------------------------------------------------------------------------
(* The agent, as far as the service depends on it. A prompt is answered once its *)
(* turn has ended; activity is reported, by agents that do, where it changes.    *)

AgentStep(a, messages) == link = "up" /\ agent' = a /\ wire' = wire \o messages
AgentFrame == UNCHANGED <<thread, inputs, first, taskVars, stops, closing, route, link>>

AgentBegins ==
    /\ agent.running = 0
    /\ \E n \in agent.queue :
       /\ \A m \in agent.queue : n <= m
       /\ AgentStep([agent EXCEPT !.running = n, !.queue = @ \ {n}, !.announced = TRUE],
                    Reports(agent, "active"))
    /\ AgentFrame /\ UNCHANGED logVars

\* A turn ends as it ends, or for a stop.
AgentEnds ==
    /\ agent.running # 0 /\ agent.announced
    /\ LET n == agent.running
           idle == [agent EXCEPT !.running = 0, !.announced = FALSE, !.cancelled = @ \ {n}]
           ends == {"end_turn", "error"} \cup (IF n \in agent.cancelled THEN {"cancelled"} ELSE {})
       IN IF sent[n] > 0
          THEN \E how \in ends :
                 LET result == <<Response(<<"prompt", n>>, how)>>
                     report == Reports(agent, "idle") IN
                 /\ AgentStep(idle, IF agent.reports = "before" THEN report \o result
                                    ELSE result \o report)
                 /\ told' = [told EXCEPT ![n] = how]
          ELSE /\ \E how \in {"idle", "failed"} : AgentStep(idle, Reports(agent, how))
               /\ UNCHANGED told
    /\ AgentFrame /\ UNCHANGED <<sent, consumed, reported, stopped>>

\* Steering meets a running turn, or an idle agent.
AgentConsumes(n) ==
    /\ agent.asked[n] = "new" /\ agent.queue = {}
    /\ IF agent.running # 0
       THEN AgentStep([agent EXCEPT !.asked[n] = "injected"], <<>>)
       ELSE /\ ~agent.leaves
            /\ AgentStep([agent EXCEPT !.asked[n] = "started", !.running = n,
                                       !.announced = FALSE], <<>>)
    /\ consumed' = [consumed EXCEPT ![n] = @ + 1]
    /\ AgentFrame /\ UNCHANGED <<sent, told, reported, stopped>>

AgentAnnounces ==
    /\ agent.running # 0 /\ ~agent.announced
    /\ AgentStep([agent EXCEPT !.announced = TRUE], Reports(agent, "active"))
    /\ AgentFrame /\ UNCHANGED logVars

AgentAnswers(n) ==
    /\ LET reply(how) == AgentStep([agent EXCEPT !.asked[n] = "none"],
                                   <<Response(<<"steer", n>>, how)>>) IN
       CASE agent.asked[n] \in {"injected", "started"} -> reply(agent.asked[n])
         [] agent.asked[n] = "new" /\ agent.queue = {} ->
              \/ reply("refused") \/ reply("failed")
              \/ agent.running = 0 /\ agent.leaves /\ reply("required")
         [] OTHER -> FALSE
    /\ AgentFrame /\ UNCHANGED logVars

-----------------------------------------------------------------------------
Task(t) == Peek(t) \/ FallbackStart(t) \/ FallbackRefused(t)

Settling ==
    \/ \E n \in Inputs : \/ PromptResult(n) \/ PromptResultLate(n)
                         \/ SteerAnswer(n) \/ SteerAnswerLate(n) \/ CancelAgain(n)
    \/ \E t \in Tasks : Task(t)
    \/ StopSent \/ Closed \/ CloseFails \/ Receive \/ StopConnection \/ ConnectionLost

AgentNext ==
    \/ AgentBegins \/ AgentEnds \/ AgentAnnounces
    \/ \E n \in Inputs : AgentConsumes(n) \/ AgentAnswers(n)

User == Prompt \/ PromptUnsaved \/ Steer \/ Stop \/ Close \/ Reopen \/ Break

Next == User \/ Settling \/ AgentNext

\* The runtime polls every ready task and the agent gets on with what it was asked;
\* nobody has to give input, and the adapter need not fail.
Fairness == WF_vars(Settling) /\ WF_vars(AgentNext)

Spec == Init /\ [][Next]_vars /\ Fairness

-----------------------------------------------------------------------------
(* Properties. *)

Outcomes == {"none", "in_progress", "completed", "failed", "interrupted", "unknown"}
Deliveries == {"none", "sending", "injected", "started", "cancelled", "failed", "unknown"}
PendingSteer ==
    [id : 0..MaxInputs, required : BOOLEAN, cancelled : BOOLEAN, sawIdle : BOOLEAN,
     sawActive : BOOLEAN, terminal : {"none", "idle", "failed"}]
Snapshot ==
    [status : {"idle", "working", "disconnected"}, active : 0..MaxInputs,
     pending : PendingSteer, activity : Activities \cup {"none"},
     detached : BOOLEAN, detachedActive : BOOLEAN, cancelled : BOOLEAN,
     untracked : BOOLEAN, completion : 0..MaxInputs,
     stopReason : {"none", "end_turn", "cancelled"}, error : BOOLEAN, last : 0..MaxInputs,
     outcome : [Inputs -> Outcomes], delivery : [Inputs -> Deliveries]]

\* The variables have their types; an end is noted for pending input only after a beginning.
TypeOK ==
    /\ thread \in Snapshot
    /\ thread.pending.terminal # "none" => thread.pending.sawActive
    /\ inputs \in 0..MaxInputs /\ first \in 1..MaxInputs + 1
    /\ pc \in [Tasks -> {"none", "waiting", "peek", "cancel", "start", "done"}]
    /\ captured \in [Tasks -> 0..MaxInputs]
    /\ stops.unsent <= stops.made /\ stops.made <= MaxStops
    /\ route \in BOOLEAN /\ closing \in BOOLEAN
    /\ link \in {"up", "broken", "stopped", "handled"}

\* An input reaches the agent once: as one prompt, or as steering the agent has taken, never
\* as both (start_prompt_inner's second admission, and the answers of steering.rs:129-210).
NeverResent == \A n \in Inputs : sent[n] + consumed[n] <= 1

\* A conversation that is shown as idle has no prompt at the agent, so that the next one
\* finds it free, and no turn of the agent's own unless the agent reports: a report that
\* comes late is read as the end of the turn that follows it. What outlives a close is of
\* an earlier life (settle_status, observe_activity).
IdleMeansQuiet ==
    thread.status = "idle" /\ link = "up" =>
        \A n \in first..MaxInputs :
            /\ n \notin agent.queue
            /\ agent.running = n => sent[n] = 0 /\ agent.reports # "never"

\* A turn is recorded as completed only if the agent ended its own prompt so: no late result,
\* and no report of activity, completes another turn (finish_at, finish_detached).
CompletedByItsOwn ==
    \A n \in Inputs : thread.outcome[n] = "completed" => told[n] = "end_turn"

\* The host hears of a turn at most once, and only of one that has completed; of an input
\* that was interrupted, failed or is unknown it hears nothing (turn_completed).
ReportedOnce ==
    \A n \in Inputs : reported[n] <= 1 /\ (reported[n] = 1 => thread.outcome[n] = "completed")

\* Stopping holds: input that was still pending is not sent as a prompt afterwards, whichever
\* of the two tasks has already decided to (cancel and the admission of a fallback).
StopHolds ==
    [][\A n \in stopped : sent'[n] = sent[n]]_vars

\* Nothing is on its way, and every task has ended.
AtRest ==
    /\ wire = <<>> /\ stops.unsent = 0 /\ ~closing /\ link \in {"up", "handled"}
    /\ \A t \in Tasks : pc[t] \in {"none", "done"}
    /\ link = "up" => agent.running = 0 /\ agent.queue = {}

\* Once all is at rest, every piece of steering input has been told its fate (injected,
\* started, cancelled, failed or unknown), and a conversation that still says it works
\* says too that it waits for a turn nobody reports on (steering.rs:129-254, settle_status).
RestIsSettled ==
    AtRest => /\ \A n \in Inputs : thread.delivery[n] # "sending"
              /\ thread.status = "working" => thread.untracked

\* What README.md says of turn_completed: it receives each successfully completed live prompt.
CompletionReported ==
    \A n \in Inputs : thread.outcome[n] = "completed" ~> reported[n] = 1
=============================================================================
