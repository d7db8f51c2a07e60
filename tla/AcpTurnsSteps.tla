--------------------------- MODULE AcpTurnsSteps ----------------------------
(* The inductive invariant of AcpTurns in its parts; what the functions of the *)
(* snapshot and the steps of the model do, as contracts that the proofs use in *)
(* place of the definitions; and the invariants about types, status and turns.  *)
EXTENDS AcpTurns, TLAPS

\* The prompt or steering request of a task has one answer: it is with the agent, on the
\* wire, or has reached the task, which still waits for it.
PromptEnds == {"end_turn", "error", "cancelled"}
SteerEnds == {"injected", "started", "refused", "failed", "required"}
Ends(t) == IF t[1] = "prompt" THEN PromptEnds ELSE SteerEnds

Messages ==
    [kind : {"activity"}, what : Activities, to : {<<"none", 0>>}]
      \cup [kind : {"response"}, what : PromptEnds, to : {"prompt"} \X Inputs]
      \cup [kind : {"response"}, what : SteerEnds, to : {"steer"} \X Inputs]

AgentState ==
    [reports : {"never", "before", "after"}, leaves : BOOLEAN, running : 0..MaxInputs,
     announced : BOOLEAN, queue : SUBSET Inputs,
     asked : [Inputs -> {"none", "new", "injected", "started"}], cancelled : SUBSET Inputs]

\* The types TypeOK leaves out: the agent, what it writes, and the logs.
WorldOK ==
    /\ agent \in AgentState
    /\ wire \in Seq(Messages)
    /\ answer \in [Tasks -> PromptEnds \cup SteerEnds \cup {"none", "lost"}]
    /\ \A t \in Tasks : answer[t] \in Ends(t) \cup {"none", "lost"}
    /\ sent \in [Inputs -> Nat] /\ consumed \in [Inputs -> Nat] /\ reported \in [Inputs -> Nat]
    /\ told \in [Inputs -> PromptEnds \cup {"none"}]
    /\ stopped \subseteq Inputs
    /\ stops \in [made : Nat, unsent : Nat]

Typed == TypeOK /\ WorldOK

OnWire(t, how) == \E i \in 1..Len(wire) : wire[i].to = t /\ wire[i].what = how
Wired(t) == \E i \in 1..Len(wire) : wire[i].to = t

\* The agent has the prompt: it is queued, or the turn that runs is the prompt's.
AtAgent(n) == n \in agent.queue \/ (agent.running = n /\ sent[n] > 0)

\* Nothing is known yet of an input that was not given.
FreshInv ==
    /\ \A n \in Inputs : n > inputs =>
         /\ sent[n] = 0 /\ consumed[n] = 0 /\ told[n] = "none" /\ reported[n] = 0
         /\ pc[<<"prompt", n>>] = "none" /\ pc[<<"steer", n>>] = "none"
         /\ n \notin stopped
    /\ thread.last <= inputs /\ thread.active <= inputs /\ thread.pending.id \in {0, inputs}
    /\ first <= inputs + 1

\* A task waits for a response that has not been written.
Expects(t) == pc[t] = "waiting" /\ answer[t] = "none" /\ ~Wired(t)

OneAnswer ==
    \A i, j \in 1..Len(wire) : wire[i].kind = "response" /\ wire[i].to = wire[j].to => i = j

\* A request is unanswered in one place at a time, and has one answer.
MailInv ==
    /\ \A t \in Tasks : answer[t] # "none" => pc[t] = "waiting"
    /\ \A t \in Tasks : Wired(t) => pc[t] = "waiting" /\ answer[t] = "none"
    /\ OneAnswer
    /\ \A n \in Inputs : agent.asked[n] # "none" => Expects(<<"steer", n>>)
    /\ \A n \in Inputs : AtAgent(n) => Expects(<<"prompt", n>>)
    /\ \A n \in Inputs : pc[<<"prompt", n>>] # "none" => sent[n] > 0
    /\ agent.running \notin agent.queue

\* An input goes to the agent as a prompt, or as steering that it takes.
OnceInv ==
    /\ NeverResent
    /\ \A n \in Inputs :
         /\ agent.asked[n] = "new" => consumed[n] = 0 /\ sent[n] = 0
         /\ agent.asked[n] \in {"injected", "started"} => consumed[n] = 1
         /\ answer[<<"steer", n>>] = "required" \/ OnWire(<<"steer", n>>, "required")
              => consumed[n] = 0 /\ sent[n] = 0
         /\ thread.pending.id = n => sent[n] = 0
         /\ thread.pending.id = n /\ thread.pending.required
              => consumed[n] = 0 /\ pc[<<"steer", n>>] \notin {"none", "waiting"}
    /\ \A t \in Tasks : pc[t] = "start" <=> captured[t] # 0

\* An agent either leaves input that finds it idle, or starts turns of its own with it.
LeavesInv ==
    /\ agent.leaves =>
         /\ ~thread.detached
         /\ \A n \in Inputs :
              /\ agent.asked[n] # "started" /\ answer[<<"steer", n>>] # "started"
              /\ ~OnWire(<<"steer", n>>, "started")
         /\ agent.running # 0 => sent[agent.running] > 0
    /\ ~agent.leaves =>
         /\ ~thread.pending.required
         /\ \A n \in Inputs :
              answer[<<"steer", n>>] # "required" /\ ~OnWire(<<"steer", n>>, "required")
         /\ \A t \in Tasks : pc[t] # "start"
    /\ \A n \in Inputs : agent.running = n /\ sent[n] = 0 =>
         /\ agent.asked[n] \in {"none", "started"} /\ consumed[n] = 1
         /\ answer[<<"steer", n>>] \in {"none", "lost", "started"}
         /\ \A how \in SteerEnds \ {"started"} : ~OnWire(<<"steer", n>>, how)

\* A conversation that is out of reach has nothing pending, and a broken connection is silent.
LinkInv ==
    /\ thread.status = "disconnected" => ~route \/ link \in {"stopped", "handled"}
    /\ ~route \/ link = "handled" =>
         thread.status = "disconnected" /\ ~HasPending(thread) /\ ~thread.detached
    /\ ~route => thread.active = 0
    /\ link # "up" =>
         /\ wire = <<>> /\ agent.queue = {} /\ agent.running = 0
         /\ \A n \in Inputs : agent.asked[n] = "none"
         /\ \A t \in Tasks : pc[t] = "waiting" => answer[t] # "none"

\* The status says whether anything is under way.
StatusInv ==
    /\ thread.status = "idle" => thread.active = 0 /\ ~HasPending(thread) /\ ~thread.detached
    /\ thread.status = "working" => thread.active # 0 \/ HasPending(thread) \/ thread.detached
    /\ thread.pending.required \/ thread.pending.cancelled \/ thread.pending.sawActive
         => HasPending(thread)
    /\ ~(thread.pending.required /\ thread.pending.cancelled)

\* Which turns are open, and that no reason to call them completed lingers.
TurnInv ==
    /\ \A n \in Inputs :
         /\ thread.outcome[n] = "in_progress" => thread.status = "working" /\ n >= thread.active
         /\ thread.outcome[n] = "in_progress" /\ agent.leaves => n = thread.active
         /\ thread.outcome[n] # "none" => n <= thread.last
         /\ thread.pending.id = n => thread.last < n
    /\ thread.stopReason = "end_turn" =>
         thread.active = 0 /\ \A n \in Inputs : thread.outcome[n] # "in_progress"
    /\ thread.active # 0 => thread.outcome[thread.active] \notin {"none", "completed"}
    /\ thread.detached =>
         /\ thread.last > thread.active
         /\ thread.outcome[thread.last] \notin {"none", "completed"}

\* The answer to a prompt is what the agent said of it.
ToldInv ==
    /\ CompletedByItsOwn
    /\ \A n \in Inputs :
         /\ answer[<<"prompt", n>>] \in PromptEnds => told[n] = answer[<<"prompt", n>>]
         /\ \A how \in PromptEnds : OnWire(<<"prompt", n>>, how) => told[n] = how
         /\ AtAgent(n) => told[n] = "none"
         /\ told[n] # "none" => sent[n] > 0

ReportInv ==
    /\ ReportedOnce
    /\ thread.completion # 0 =>
         thread.outcome[thread.completion] = "completed" /\ reported[thread.completion] = 0

StopInv == \A n \in stopped : thread.pending.id = n => thread.pending.cancelled

\* What the agent works at is what the conversation works at, and what it has not answered
\* is what is pending.
QuietInv ==
    /\ \A n \in Inputs : link = "up" /\ n >= first =>
         /\ AtAgent(n) => thread.active = n \/ thread.status = "disconnected"
         /\ pc[<<"steer", n>>] = "waiting"
              => thread.pending.id = n \/ thread.status = "disconnected"
         /\ agent.running = n /\ sent[n] = 0 /\ agent.reports = "never" =>
              thread.pending.id = n \/ thread.detached \/ thread.status = "disconnected"
    /\ \A n \in Inputs : answer[<<"steer", n>>] = "lost" => link # "up" \/ n < first
    /\ \A t \in Tasks : \A n \in Inputs :
         captured[t] = n => pc[<<"steer", n>>] \notin {"none", "waiting"}
    /\ agent.reports = "never" =>
         /\ \A i \in 1..Len(wire) : wire[i].kind # "activity"
         /\ ~thread.pending.sawActive /\ ~thread.detachedActive

\* An end of activity is still to be read.
EndOnWire == \E i \in 1..Len(wire) : wire[i].kind = "activity" /\ wire[i].what # "active"
Announced == agent.running # 0 /\ agent.announced

\* Whatever waits has somebody to end the wait.
WaitInv ==
    /\ \A n \in Inputs : thread.delivery[n] = "sending" => thread.pending.id = n
    /\ thread.active # 0 => pc[<<"prompt", thread.active>>] = "waiting"
    /\ HasPending(thread) /\ ~thread.pending.required
         => pc[<<"steer", thread.pending.id>>] = "waiting"
    /\ thread.pending.required =>
         \/ thread.active # 0
         \/ \E t \in Tasks : \/ pc[t] = "peek"
                             \/ pc[t] = "start" /\ captured[t] = thread.pending.id
    /\ thread.detached => (thread.untracked <=> ~thread.detachedActive)
    /\ \A i \in 1..Len(wire) : wire[i].what = "active" =>
         \/ Announced
         \/ \E j \in 1..Len(wire) : j > i /\ wire[j].kind = "activity" /\ wire[j].what # "active"
    /\ (link = "up" /\ ((thread.pending.sawActive /\ thread.pending.terminal = "none")
                          \/ (thread.detached /\ thread.detachedActive)))
         => Announced \/ EndOnWire

-----------------------------------------------------------------------------
(* What the functions of the snapshot do to its fields *)

Terminals == {"none", "idle", "failed"}

\* Zero stands for no input.
LEMMA ZeroType == 0 \in 0..MaxInputs
  BY TurnsAssumption

\* No pending input has the type of pending input.
LEMMA NoPendingType == NoPending \in PendingSteer
  BY TurnsAssumption DEF NoPending, PendingSteer

\* finish_record calls a turn completed for the stop reason end_turn alone.
LEMMA RecordedIs ==
  ASSUME NEW t \in Snapshot
  PROVE  /\ Recorded(t) \in {"completed", "failed", "interrupted"}
         /\ Recorded(t) = "completed" <=> t.stopReason = "end_turn"
  BY DEF Recorded, Snapshot

\* The tail of an update changes nothing but the outcome of turns that are open.
Tailed(t, u) ==
    /\ u \in Snapshot
    /\ u.status = t.status /\ u.active = t.active /\ u.pending = t.pending
    /\ u.activity = t.activity /\ u.detached = t.detached
    /\ u.detachedActive = t.detachedActive /\ u.untracked = t.untracked
    /\ u.completion = t.completion /\ u.stopReason = t.stopReason
    /\ u.last = t.last /\ u.delivery = t.delivery
    /\ \A m \in Inputs : t.status = "working" \/ t.outcome[m] # "in_progress"
                          => u.outcome[m] = t.outcome[m]
    /\ \A m \in Inputs : t.status # "working" /\ t.outcome[m] = "in_progress"
                          => /\ u.outcome[m] \in {"completed", "failed", "interrupted"}
                             /\ u.outcome[m] = "completed" => t.stopReason = "end_turn"

\* What the tail of an update changes.
LEMMA UpdatedIs == ASSUME NEW t \in Snapshot PROVE Tailed(t, Updated(t))
  <1>1. CASE t.status = "working"
    BY <1>1 DEF Updated, Tailed
  <1>2. CASE t.status # "working"
    <2> DEFINE o == [n \in Inputs |->
                      IF t.outcome[n] = "in_progress" THEN Recorded(t) ELSE t.outcome[n]]
    <2>1. o \in [Inputs -> Outcomes]
      BY RecordedIs DEF Snapshot, Outcomes
    <2>2. Updated(t) = [t EXCEPT !.outcome = o]
      BY <1>2 DEF Updated
    <2>3. \A m \in Inputs : o[m] = IF t.outcome[m] = "in_progress" THEN Recorded(t)
                                   ELSE t.outcome[m]
      OBVIOUS
    <2> HIDE DEF o
    <2>4. [t EXCEPT !.outcome = o] \in Snapshot
      BY <2>1 DEF Snapshot
    <2>5. QED
      BY <1>2, <2>2, <2>3, <2>4, RecordedIs DEF Tailed, Snapshot
  <1>3. QED
    BY <1>1, <1>2

\* settle_status changes the status alone, and never that of a lost conversation.
Settled(t, u) ==
    /\ u \in Snapshot
    /\ u.status = IF t.status = "disconnected" THEN "disconnected"
                  ELSE IF t.active # 0 \/ HasPending(t) \/ t.detached THEN "working" ELSE "idle"
    /\ u.active = t.active /\ u.pending = t.pending
    /\ u.activity = t.activity /\ u.detached = t.detached
    /\ u.detachedActive = t.detachedActive /\ u.untracked = t.untracked
    /\ u.completion = t.completion /\ u.stopReason = t.stopReason
    /\ u.last = t.last /\ u.delivery = t.delivery /\ u.outcome = t.outcome

\* What settle_status changes.
LEMMA SettleStatusIs == ASSUME NEW t \in Snapshot PROVE Settled(t, SettleStatus(t))
  BY DEF SettleStatus, Settled, Snapshot

\* delivery replaces "sending" of one input.
Delivered(t, n, how, u) ==
    /\ u \in Snapshot /\ u = [t EXCEPT !.delivery = u.delivery]
    /\ \A m \in Inputs : u.delivery[m] = IF m = n /\ t.delivery[n] = "sending" THEN how
                                         ELSE t.delivery[m]

\* What a delivery changes.
LEMMA DeliverIs ==
  ASSUME NEW t \in Snapshot, NEW n \in 0..MaxInputs, NEW how \in Deliveries
  PROVE  Delivered(t, n, how, Deliver(t, n, how))
  BY DEF Delivered, Deliver, Snapshot, Inputs

\* finish_detached closes the agent's own turn, which is the last one.
DetachedEnded(t, a, u) ==
    /\ u \in Snapshot
    /\ u.status = IF t.status = "disconnected" THEN "disconnected"
                  ELSE IF t.active # 0 \/ HasPending(t) THEN "working" ELSE "idle"
    /\ u.active = t.active /\ u.pending = t.pending /\ u.activity = t.activity
    /\ ~u.detached /\ ~u.detachedActive /\ ~u.untracked
    /\ u.completion = t.completion /\ u.stopReason \in {"none", "cancelled"}
    /\ u.last = t.last /\ u.delivery = t.delivery
    /\ u.outcome[t.last] \in {"failed", "interrupted", "unknown"}
    /\ \A m \in Inputs \ {t.last} : u.outcome[m] = t.outcome[m]

\* What the end of a detached turn changes.
LEMMA FinishDetachedIs ==
  ASSUME NEW t \in Snapshot, NEW a \in Activities, t.last # 0
  PROVE  DetachedEnded(t, a, FinishDetached(t, a))
  <1> DEFINE u == [t EXCEPT !.detached = FALSE, !.detachedActive = FALSE, !.untracked = FALSE,
                            !.stopReason = IF t.cancelled THEN "cancelled" ELSE "none",
                            !.error = a = "failed"]
             fate == IF u.error THEN "failed" ELSE IF t.cancelled THEN "interrupted" ELSE "unknown"
             v == [u EXCEPT !.outcome[t.last] = fate]
  <1>1. u \in Snapshot /\ fate \in {"failed", "interrupted", "unknown"}
    BY DEF Snapshot
  <1>2. /\ u.status = t.status /\ u.active = t.active /\ u.pending = t.pending
        /\ u.activity = t.activity /\ u.detached = FALSE /\ u.detachedActive = FALSE
        /\ u.untracked = FALSE /\ u.completion = t.completion
        /\ u.stopReason \in {"none", "cancelled"} /\ u.last = t.last
        /\ u.delivery = t.delivery /\ u.outcome = t.outcome
    BY DEF Snapshot
  <1>3. FinishDetached(t, a) = SettleStatus(v)
    BY Zenon DEF FinishDetached
  <1> HIDE DEF fate, u
  <1>4. /\ v \in Snapshot /\ v = [u EXCEPT !.outcome = v.outcome]
        /\ v.outcome = [t.outcome EXCEPT ![t.last] = fate]
    BY <1>1, <1>2 DEF Snapshot, Outcomes, Inputs
  <1> HIDE DEF v
  <1>5. /\ v.status = t.status /\ v.active = t.active /\ v.pending = t.pending
        /\ v.activity = t.activity /\ v.detached = FALSE /\ v.detachedActive = FALSE
        /\ v.untracked = FALSE /\ v.completion = t.completion
        /\ v.stopReason \in {"none", "cancelled"} /\ v.last = t.last /\ v.delivery = t.delivery
    BY <1>1, <1>2, <1>4 DEF Snapshot
  <1>6. /\ v.outcome[t.last] = fate
        /\ \A m \in Inputs \ {t.last} : v.outcome[m] = t.outcome[m]
    <2>1. v.outcome = [t.outcome EXCEPT ![t.last] = fate]
      BY <1>4
    <2>2. t.last \in Inputs /\ DOMAIN t.outcome = Inputs
      BY DEF Snapshot, Inputs
    <2>3. QED
      BY <2>1, <2>2, Zenon
  <1>7. Settled(v, SettleStatus(v))
    BY <1>4, SettleStatusIs
  <1>8. QED
    BY <1>1, <1>3, <1>5, <1>6, <1>7 DEF Settled, DetachedEnded, HasPending

\* A report leaves the pending input what it is.
LEMMA PendingSeesIs ==
  ASSUME NEW p \in PendingSteer, NEW a \in Activities
  PROVE  LET q == PendingSees(p, a) IN
         /\ q \in PendingSteer
         /\ q.id = p.id /\ q.required = p.required /\ q.cancelled = p.cancelled
         /\ q.sawActive => p.sawActive \/ a = "active"
         /\ p.sawActive => q.sawActive
         /\ (p.terminal # "none" => p.sawActive) => (q.terminal # "none" => q.sawActive)
         /\ q.sawActive /\ q.terminal = "none" /\ a # "active"
              => p.sawActive /\ p.terminal = "none" /\ a \notin {"idle", "failed"}
  BY DEF PendingSees, PendingSteer, Activities

\* Only an agent's own turn that has begun can end by a report.
Observed(t, a, u) ==
    LET ends == t.detached /\ t.detachedActive /\ a # "active" IN
    /\ u \in Snapshot
    /\ u.active = t.active /\ u.activity = a /\ u.completion = t.completion
    /\ u.last = t.last /\ u.delivery = t.delivery
    /\ u.pending = IF HasPending(t) THEN PendingSees(t.pending, a) ELSE t.pending
    /\ u.pending.id = t.pending.id
    /\ ends => /\ ~u.detached /\ ~u.detachedActive /\ ~u.untracked
               /\ u.stopReason \in {"none", "cancelled"}
               /\ u.outcome[t.last] \in {"failed", "interrupted", "unknown"}
               /\ \A m \in Inputs \ {t.last} : u.outcome[m] = t.outcome[m]
               /\ u.status = IF t.status = "disconnected" THEN "disconnected"
                             ELSE IF t.active # 0 \/ HasPending(t) THEN "working" ELSE "idle"
    /\ ~ends => /\ u.detached <=> t.detached
                /\ u.detachedActive <=> (t.detachedActive \/ (t.detached /\ a = "active"))
                /\ u.untracked <=> (t.untracked /\ ~(t.detached /\ a = "active"))
                /\ u.stopReason = t.stopReason /\ u.outcome = t.outcome
                /\ u.status = t.status

\* What a report of activity changes.
LEMMA ObserveActivityIs ==
  ASSUME NEW t \in Snapshot, NEW a \in Activities, t.detached => t.last # 0
  PROVE  Observed(t, a, ObserveActivity(t, a))
  <1> DEFINE p == IF HasPending(t) THEN PendingSees(t.pending, a) ELSE t.pending
             u == [t EXCEPT !.activity = a, !.pending = p]
  <1>1. p \in PendingSteer /\ p.id = t.pending.id
    BY PendingSeesIs DEF Snapshot
  <1>2. ObserveActivity(t, a) =
          CASE ~t.detached -> u
            [] t.detached /\ a = "active" -> [u EXCEPT !.detachedActive = TRUE, !.untracked = FALSE]
            [] OTHER -> IF t.detachedActive THEN FinishDetached(u, a) ELSE u
    BY DEF ObserveActivity, Snapshot
  <1>3. /\ u \in Snapshot /\ u.status = t.status /\ u.active = t.active /\ u.pending = p
        /\ u.activity = a /\ u.detached = t.detached /\ u.detachedActive = t.detachedActive
        /\ u.untracked = t.untracked /\ u.completion = t.completion
        /\ u.stopReason = t.stopReason /\ u.last = t.last /\ u.delivery = t.delivery
        /\ u.outcome = t.outcome
    BY <1>1 DEF Snapshot
  <1> DEFINE v == [u EXCEPT !.detachedActive = TRUE, !.untracked = FALSE]
  <1> HIDE DEF u, p
  <1>4. CASE ~t.detached
    <2>1. ObserveActivity(t, a) = u
      BY <1>2, <1>4, Zenon
    <2>2. QED
      BY <1>1, <1>3, <1>4, <2>1 DEF Observed, p
  <1>5. CASE t.detached /\ a = "active"
    <2>1. ObserveActivity(t, a) = v
      BY <1>2, <1>5, Zenon DEF v
    <2>2. /\ v \in Snapshot /\ v.status = t.status /\ v.active = t.active /\ v.pending = p
          /\ v.activity = a /\ v.detached = t.detached /\ v.detachedActive = TRUE
          /\ v.untracked = FALSE /\ v.completion = t.completion
          /\ v.stopReason = t.stopReason /\ v.last = t.last /\ v.delivery = t.delivery
          /\ v.outcome = t.outcome
      BY <1>3 DEF Snapshot
    <2> HIDE DEF v
    <2>3. QED
      BY <1>1, <1>5, <2>1, <2>2 DEF Observed, p
  <1>6. CASE t.detached /\ a # "active" /\ ~t.detachedActive
    <2>1. ObserveActivity(t, a) = u
      BY <1>2, <1>6, Zenon
    <2>2. QED
      BY <1>1, <1>3, <1>6, <2>1 DEF Observed, p
  <1>7. CASE t.detached /\ a # "active" /\ t.detachedActive
    <2>1. ObserveActivity(t, a) = FinishDetached(u, a)
      BY <1>2, <1>7, Zenon
    <2>2. DetachedEnded(u, a, FinishDetached(u, a))
      BY <1>3, <1>7, FinishDetachedIs
    <2>3. HasPending(u) <=> HasPending(t)
      BY <1>1, <1>3 DEF HasPending
    <2>4. QED
      BY <1>1, <1>3, <1>7, <2>1, <2>2, <2>3 DEF Observed, DetachedEnded, p
  <1>8. QED
    BY <1>4, <1>5, <1>6, <1>7

\* What a conversation that lost its connection, or was closed, has left.
Silent(t, u) ==
    /\ u \in Snapshot
    /\ u.pending = NoPending /\ u.activity = "none"
    /\ ~u.detached /\ ~u.detachedActive /\ ~u.untracked /\ u.completion = 0
    /\ u.stopReason = t.stopReason /\ u.last = t.last /\ u.outcome = t.outcome
    /\ \A m \in Inputs : u.delivery[m] =
         IF t.delivery[m] = "sending" THEN "unknown" ELSE t.delivery[m]

\* What the loss of the connection changes.
LEMMA DisconnectedIs ==
  ASSUME NEW t \in Snapshot
  PROVE  LET u == Disconnected(t) IN
         Silent(t, u) /\ u.status = t.status /\ u.active = t.active
  <1> DEFINE d == [m \in Inputs |-> IF t.delivery[m] = "sending" THEN "unknown"
                                    ELSE t.delivery[m]]
  <1>1. d \in [Inputs -> Deliveries]
    BY DEF Snapshot, Deliveries
  <1>2. \A m \in Inputs : d[m] = IF t.delivery[m] = "sending" THEN "unknown" ELSE t.delivery[m]
    OBVIOUS
  <1>3. Disconnected(t) =
          [t EXCEPT !.delivery = d, !.pending = NoPending, !.untracked = FALSE,
                    !.activity = "none", !.detached = FALSE, !.detachedActive = FALSE,
                    !.cancelled = FALSE, !.completion = 0]
    BY DEF Disconnected
  <1> HIDE DEF d
  <1> DEFINE u == Disconnected(t)
  <1>4. u \in Snapshot
    BY <1>1, <1>3, ZeroType, NoPendingType, ZenonT(30) DEF Snapshot
  <1>5. /\ u.pending = NoPending /\ u.activity = "none"
        /\ ~u.detached /\ ~u.detachedActive /\ ~u.untracked /\ u.completion = 0
        /\ u.stopReason = t.stopReason /\ u.last = t.last /\ u.outcome = t.outcome
        /\ u.delivery = d /\ u.status = t.status /\ u.active = t.active
    BY <1>3 DEF Snapshot
  <1>6. QED
    BY <1>2, <1>4, <1>5 DEF Silent

\* What the close of a session changes.
LEMMA DetachedSessionIs ==
  ASSUME NEW t \in Snapshot
  PROVE  LET u == DetachedSession(t) IN
         Silent(t, u) /\ u.status = "disconnected" /\ u.active = 0
  <1>1. Silent(t, Disconnected(t))
    BY DisconnectedIs
  <1>2. QED
    BY <1>1, ZeroType DEF DetachedSession, Silent, Snapshot

\* A thread that is installed anew remembers outcomes and deliveries.
Anew(t, u) ==
    /\ u \in Snapshot
    /\ u.status = "idle" /\ u.active = 0 /\ u.pending = NoPending /\ u.activity = "none"
    /\ ~u.detached /\ ~u.detachedActive /\ ~u.untracked /\ u.completion = 0
    /\ u.stopReason = "none" /\ u.last = t.last
    /\ u.outcome = t.outcome /\ u.delivery = t.delivery

\* What a snapshot that is installed anew keeps.
LEMMA FreshIs == ASSUME NEW t \in Snapshot PROVE Anew(t, Fresh(t))
  <1> DEFINE u == Fresh(t)
  <1>1. u \in Snapshot
    BY ZeroType, NoPendingType, ZenonT(30) DEF Fresh, Snapshot
  <1>2. /\ u.status = "idle" /\ u.active = 0 /\ u.pending = NoPending /\ u.activity = "none"
        /\ ~u.detached /\ ~u.detachedActive /\ ~u.untracked /\ u.completion = 0
        /\ u.stopReason = "none" /\ u.last = t.last
        /\ u.outcome = t.outcome /\ u.delivery = t.delivery
    BY DEF Fresh, Snapshot
  <1>3. QED
    BY <1>1, <1>2 DEF Anew

\* A turn begins.
Begins(t, n, u) ==
    /\ u \in Snapshot
    /\ u.status = "working" /\ u.active = n /\ u.pending = t.pending /\ u.activity = "none"
    /\ u.detached = t.detached /\ u.detachedActive = t.detachedActive
    /\ u.untracked = t.untracked /\ u.completion = t.completion
    /\ u.stopReason = "none" /\ u.last = n /\ u.delivery = t.delivery
    /\ \A m \in Inputs : u.outcome[m] = IF m = n THEN "in_progress" ELSE t.outcome[m]

\* What the beginning of a turn changes.
LEMMA BegunIs ==
  ASSUME NEW t \in Snapshot, NEW n \in Inputs
  PROVE  Begins(t, n, Begun(t, n))
  <1> DEFINE o == [t.outcome EXCEPT ![n] = "in_progress"]
  <1>1. o \in [Inputs -> Outcomes]
    BY DEF Snapshot, Outcomes
  <1>2. \A m \in Inputs : o[m] = IF m = n THEN "in_progress" ELSE t.outcome[m]
    BY DEF Snapshot
  <1>3. Begun(t, n) =
          [t EXCEPT !.active = n, !.activity = "none", !.status = "working", !.error = FALSE,
                    !.stopReason = "none", !.outcome = o, !.last = n]
    BY DEF Begun
  <1> HIDE DEF o
  <1>4. n \in 0..MaxInputs
    BY DEF Inputs
  <1> DEFINE u == Begun(t, n)
  <1>5. u \in Snapshot
    BY <1>1, <1>3, <1>4, ZenonT(30) DEF Snapshot
  <1>6. /\ u.status = "working" /\ u.active = n /\ u.pending = t.pending /\ u.activity = "none"
        /\ u.detached = t.detached /\ u.detachedActive = t.detachedActive
        /\ u.untracked = t.untracked /\ u.completion = t.completion
        /\ u.stopReason = "none" /\ u.last = n /\ u.delivery = t.delivery /\ u.outcome = o
    BY <1>3 DEF Snapshot
  <1>7. QED
    BY <1>2, <1>5, <1>6 DEF Begins

\* What a stop leaves: input that waits to be sent is given up.
LEMMA StopMarkedIs ==
  ASSUME NEW t \in Snapshot, t.pending.required => HasPending(t)
  PROVE  LET u == StopMarked(t) IN
         /\ u \in Snapshot
         /\ u.active = t.active /\ u.activity = t.activity /\ u.completion = t.completion
         /\ u.detached = t.detached /\ u.detachedActive = t.detachedActive
         /\ u.untracked = t.untracked /\ u.stopReason = t.stopReason
         /\ u.last = t.last /\ u.outcome = t.outcome
         /\ t.pending.required =>
              /\ u.pending = NoPending
              /\ u.status = IF t.status = "disconnected" THEN "disconnected"
                            ELSE IF t.active # 0 \/ t.detached THEN "working" ELSE "idle"
              /\ \A m \in Inputs : u.delivery[m] =
                   IF m = t.pending.id /\ t.delivery[m] = "sending" THEN "cancelled"
                   ELSE t.delivery[m]
         /\ ~t.pending.required =>
              /\ u.pending = [t.pending EXCEPT !.cancelled = HasPending(t)]
              /\ u.status = t.status /\ u.delivery = t.delivery
  <1> DEFINE p == [t.pending EXCEPT !.cancelled = HasPending(t)]
             u == [t EXCEPT !.cancelled = TRUE, !.pending = p]
             d == Deliver(u, t.pending.id, "cancelled")
             v == [d EXCEPT !.pending = NoPending]
  <1>1. p \in PendingSteer
    BY DEF Snapshot, PendingSteer, HasPending
  <1>2. StopMarked(t) = IF t.pending.required THEN SettleStatus(v) ELSE u
    BY DEF StopMarked
  <1> HIDE DEF p
  <1>3. /\ u \in Snapshot /\ u.status = t.status /\ u.active = t.active /\ u.pending = p
        /\ u.activity = t.activity /\ u.detached = t.detached
        /\ u.detachedActive = t.detachedActive /\ u.untracked = t.untracked
        /\ u.completion = t.completion /\ u.stopReason = t.stopReason /\ u.last = t.last
        /\ u.delivery = t.delivery /\ u.outcome = t.outcome
    BY <1>1 DEF Snapshot
  <1> HIDE DEF u
  <1>4. t.pending.id \in 0..MaxInputs
    BY DEF Snapshot, PendingSteer
  <1>5. CASE ~t.pending.required
    BY <1>2, <1>3, <1>5 DEF p
  <1>6. CASE t.pending.required
    <2>1. Delivered(u, t.pending.id, "cancelled", d)
      BY <1>3, <1>4, DeliverIs DEF Deliveries
    <2> HIDE DEF d
    <2>2. /\ v \in Snapshot /\ v.status = t.status /\ v.active = t.active /\ v.pending = NoPending
          /\ v.activity = t.activity /\ v.detached = t.detached
          /\ v.detachedActive = t.detachedActive /\ v.untracked = t.untracked
          /\ v.completion = t.completion /\ v.stopReason = t.stopReason /\ v.last = t.last
          /\ v.delivery = d.delivery /\ v.outcome = t.outcome
      BY <1>3, <2>1, NoPendingType DEF Snapshot, Delivered
    <2> HIDE DEF v
    <2>3. Settled(v, SettleStatus(v))
      BY <2>2, SettleStatusIs
    <2>4. ~HasPending(v)
      BY <2>2 DEF HasPending, NoPending
    <2>5. QED
      BY <1>2, <1>3, <1>6, <2>1, <2>2, <2>3, <2>4 DEF Settled, Delivered
  <1>7. QED
    BY <1>5, <1>6

\* What the answer to steering does.
AnswerApplied(t, how, u) ==
    LET n == t.pending.id
        handedBack == how = "required" /\ ~t.pending.cancelled IN
    /\ u \in Snapshot
    /\ u.status = IF t.status = "disconnected" THEN "disconnected"
                  ELSE IF u.active # 0 \/ HasPending(u) \/ u.detached THEN "working" ELSE "idle"
    /\ u.active = t.active /\ u.activity = t.activity /\ u.completion = t.completion
    /\ handedBack => u.pending = [t.pending EXCEPT !.required = TRUE] /\ u.delivery = t.delivery
    /\ ~handedBack => u.pending = NoPending /\ u.delivery[n] # "sending"
    /\ \A m \in Inputs \ {n} : u.delivery[m] = t.delivery[m] /\ u.outcome[m] = t.outcome[m]
    /\ how # "started" =>
         /\ u.detached = t.detached /\ u.detachedActive = t.detachedActive
         /\ u.untracked = t.untracked /\ u.stopReason = t.stopReason
         /\ u.last = t.last /\ u.outcome = t.outcome
    /\ how = "started" =>
         /\ u.last = n /\ u.stopReason \in {"none", "cancelled"}
         /\ u.outcome[n] \in {"in_progress", "failed", "interrupted", "unknown"}
         /\ u.outcome[n] = "in_progress" => u.detached
         /\ u.detached <=> t.pending.terminal = "none"
         /\ u.detachedActive <=> t.pending.terminal = "none" /\ t.pending.sawActive
         /\ u.untracked <=> t.pending.terminal = "none" /\ ~t.pending.sawActive

\* What the answer startedNewTurn changes.
LEMMA StartedIs ==
  ASSUME NEW t \in Snapshot, NEW p \in PendingSteer, p.id # 0
  PROVE  LET u == StartedNewTurn(t, p) IN
         /\ u \in Snapshot
         /\ u.active = t.active /\ u.activity = t.activity /\ u.completion = t.completion
         /\ u.pending = t.pending
         /\ u.delivery[p.id] # "sending"
         /\ \A m \in Inputs \ {p.id} : u.delivery[m] = t.delivery[m] /\ u.outcome[m] = t.outcome[m]
         /\ t.status = "disconnected" <=> u.status = "disconnected"
         /\ u.last = p.id /\ u.stopReason \in {"none", "cancelled"}
         /\ u.outcome[p.id] \in {"in_progress", "failed", "interrupted", "unknown"}
         /\ u.outcome[p.id] = "in_progress" => u.detached
         /\ u.detached <=> p.terminal = "none"
         /\ u.detachedActive <=> p.terminal = "none" /\ p.sawActive
         /\ u.untracked <=> p.terminal = "none" /\ ~p.sawActive
  <1> DEFINE n == p.id
             d == Deliver(t, n, "started")
             o == [d.outcome EXCEPT ![n] = "in_progress"]
             u == [d EXCEPT !.outcome = o, !.last = n, !.stopReason = "none", !.error = FALSE,
                            !.detached = TRUE, !.detachedActive = p.sawActive,
                            !.cancelled = p.cancelled, !.untracked = ~p.sawActive]
  <1>1. n \in Inputs /\ n \in 0..MaxInputs
    BY DEF PendingSteer, Inputs
  <1>2. Delivered(t, n, "started", d)
    BY <1>1, DeliverIs DEF Deliveries
  <1>3. StartedNewTurn(t, p) = IF p.terminal # "none" THEN FinishDetached(u, p.terminal) ELSE u
    BY DEF StartedNewTurn
  <1> HIDE DEF d
  <1>4. d.outcome = t.outcome /\ d.status = t.status /\ d.active = t.active
        /\ d.activity = t.activity /\ d.completion = t.completion /\ d.pending = t.pending
    BY <1>2 DEF Snapshot, Delivered
  <1>5. o \in [Inputs -> Outcomes]
    BY <1>1, <1>2 DEF Snapshot, Outcomes, Delivered
  <1>6. \A m \in Inputs : o[m] = IF m = n THEN "in_progress" ELSE t.outcome[m]
    BY <1>1, <1>4 DEF Snapshot
  <1>7. p.sawActive \in BOOLEAN /\ p.cancelled \in BOOLEAN
        /\ p.terminal \in {"none", "idle", "failed"}
    BY DEF PendingSteer
  <1> HIDE DEF o, n
  <1>8. u \in Snapshot
    BY <1>1, <1>2, <1>5, <1>7, ZenonT(30) DEF Snapshot, Delivered
  <1>9. /\ u.status = t.status /\ u.active = t.active /\ u.pending = t.pending
        /\ u.activity = t.activity /\ u.detached /\ (u.detachedActive <=> p.sawActive)
        /\ (u.untracked <=> ~p.sawActive) /\ u.completion = t.completion
        /\ u.stopReason = "none" /\ u.last = n /\ u.delivery = d.delivery /\ u.outcome = o
    BY <1>2, <1>4, <1>7 DEF Snapshot, Delivered
  <1> HIDE DEF u
  <1>10. CASE p.terminal = "none"
    BY <1>1, <1>2, <1>3, <1>6, <1>8, <1>9, <1>10 DEF n, Delivered
  <1>11. CASE p.terminal # "none"
    <2>1. DetachedEnded(u, p.terminal, FinishDetached(u, p.terminal))
      BY <1>1, <1>7, <1>8, <1>9, <1>11, FinishDetachedIs DEF Activities, Inputs
    <2>2. QED
      BY <1>1, <1>2, <1>3, <1>6, <1>8, <1>9, <1>11, <2>1 DEF n, DetachedEnded, Delivered
  <1>12. QED
    BY <1>10, <1>11

\* What an answer to steering changes.
LEMMA WithAnswerIs ==
  ASSUME NEW t \in Snapshot, NEW how \in SteerEnds \cup {"lost"}, HasPending(t),
         how = "required" => ~t.detached
  PROVE  AnswerApplied(t, how, WithAnswer(t, how))
  <1> DEFINE p == t.pending
             n == p.id
             u == [t EXCEPT !.pending = NoPending]
             v == CASE how = "injected" -> Deliver(u, n, "injected")
                    [] how = "started" -> StartedNewTurn(u, p)
                    [] how = "required" -> PromptRequired(u, p)
                    [] how = "refused" -> Deliver(u, n, "failed")
                    [] OTHER -> Deliver(u, n, "unknown")
             r == [p EXCEPT !.required = TRUE]
  <1>1. p \in PendingSteer /\ n \in 0..MaxInputs /\ n # 0 /\ n \in Inputs
    BY DEF Snapshot, PendingSteer, HasPending, Inputs
  <1>2. /\ u \in Snapshot /\ u.status = t.status /\ u.active = t.active
        /\ u.pending = NoPending /\ u.activity = t.activity /\ u.detached = t.detached
        /\ u.detachedActive = t.detachedActive /\ u.untracked = t.untracked
        /\ u.completion = t.completion /\ u.stopReason = t.stopReason /\ u.last = t.last
        /\ u.delivery = t.delivery /\ u.outcome = t.outcome
    BY NoPendingType DEF Snapshot
  <1>3. WithAnswer(t, how) = SettleStatus(v)
    BY Zenon DEF WithAnswer
  <1> HIDE DEF u
  <1>4. NoPending.id = 0
    BY DEF NoPending
  <1>5. ASSUME NEW w \in Snapshot, NEW fate \in Deliveries \ {"sending"}, Delivered(u, n, fate, w),
               v = w, how # "started", ~(how = "required" /\ ~p.cancelled)
        PROVE  AnswerApplied(t, how, WithAnswer(t, how))
    <2>1. /\ w.status = t.status /\ w.active = t.active
          /\ w.pending = NoPending /\ w.activity = t.activity /\ w.detached = t.detached
          /\ w.detachedActive = t.detachedActive /\ w.untracked = t.untracked
          /\ w.completion = t.completion /\ w.stopReason = t.stopReason /\ w.last = t.last
          /\ w.outcome = t.outcome
      BY <1>2, <1>5 DEF Delivered, Snapshot
    <2>2. w.delivery[n] # "sending" /\ \A m \in Inputs \ {n} : w.delivery[m] = t.delivery[m]
      BY <1>1, <1>2, <1>5 DEF Delivered
    <2>3. Settled(w, SettleStatus(w)) /\ WithAnswer(t, how) = SettleStatus(w)
      BY <1>3, <1>5, SettleStatusIs
    <2>4. HasPending(w) <=> HasPending(SettleStatus(w))
      BY <2>3 DEF HasPending, Settled
    <2> HIDE DEF v
    <2>5. QED
      BY <1>5, <2>1, <2>2, <2>3, <2>4 DEF AnswerApplied, Settled
  <1>6. CASE how = "injected" \/ how = "refused" \/ how \in {"failed", "lost"}
    <2>1. PICK fate \in {"injected", "failed", "unknown"} : v = Deliver(u, n, fate)
      BY <1>6, Zenon
    <2>2. fate \in Deliveries \ {"sending"}
      BY DEF Deliveries
    <2>3. Delivered(u, n, fate, Deliver(u, n, fate))
      BY <1>1, <1>2, <2>2, DeliverIs
    <2> HIDE DEF v
    <2>4. QED
      BY <1>5, <1>6, <2>1, <2>2, <2>3 DEF Delivered
  <1>7. CASE how = "required" /\ p.cancelled
    <2>1. v = Deliver(u, n, "cancelled")
      BY <1>7, Zenon DEF PromptRequired
    <2>2. "cancelled" \in Deliveries \ {"sending"}
      BY DEF Deliveries
    <2>3. Delivered(u, n, "cancelled", Deliver(u, n, "cancelled"))
      BY <1>1, <1>2, <2>2, DeliverIs
    <2> HIDE DEF v
    <2>4. QED
      BY <1>5, <1>7, <2>1, <2>2, <2>3 DEF Delivered
  <1>8. CASE how = "required" /\ ~p.cancelled
    <2> DEFINE w == [u EXCEPT !.pending = r]
    <2>1. v = w
      <3>1. ~u.detached
        BY <1>2, <1>8
      <3>2. v = PromptRequired(u, p)
        BY <1>8, Zenon
      <3>3. QED
        BY <1>8, <3>1, <3>2 DEF PromptRequired
    <2>2. r \in PendingSteer /\ r.id = n
      BY <1>1 DEF PendingSteer
    <2> HIDE DEF r, v
    <2>3. /\ w \in Snapshot /\ w.status = t.status /\ w.active = t.active
          /\ w.pending = r /\ w.activity = t.activity /\ w.detached = t.detached
          /\ w.detachedActive = t.detachedActive /\ w.untracked = t.untracked
          /\ w.completion = t.completion /\ w.stopReason = t.stopReason /\ w.last = t.last
          /\ w.outcome = t.outcome /\ w.delivery = t.delivery
      BY <1>2, <2>2 DEF Snapshot
    <2> HIDE DEF w
    <2>4. Settled(w, SettleStatus(w)) /\ WithAnswer(t, how) = SettleStatus(w)
      BY <1>3, <2>1, <2>3, SettleStatusIs
    <2>5. HasPending(w) <=> HasPending(SettleStatus(w))
      BY <2>4 DEF HasPending, Settled
    <2>6. QED
      BY <1>8, <2>3, <2>4, <2>5 DEF AnswerApplied, Settled, r
  <1>9. CASE how = "started"
    <2>1. v = StartedNewTurn(u, p)
      BY <1>9, Zenon
    <2> HIDE DEF v
    <2> DEFINE w == StartedNewTurn(u, p)
    <2>2. /\ w \in Snapshot
          /\ w.active = u.active /\ w.activity = u.activity /\ w.completion = u.completion
          /\ w.pending = u.pending
          /\ w.delivery[n] # "sending"
          /\ \A m \in Inputs \ {n} : w.delivery[m] = u.delivery[m] /\ w.outcome[m] = u.outcome[m]
          /\ u.status = "disconnected" <=> w.status = "disconnected"
          /\ w.last = n /\ w.stopReason \in {"none", "cancelled"}
          /\ w.outcome[n] \in {"in_progress", "failed", "interrupted", "unknown"}
          /\ w.outcome[n] = "in_progress" => w.detached
          /\ w.detached <=> p.terminal = "none"
          /\ w.detachedActive <=> p.terminal = "none" /\ p.sawActive
          /\ w.untracked <=> p.terminal = "none" /\ ~p.sawActive
      BY <1>1, <1>2, StartedIs
    <2> HIDE DEF w
    <2>3. Settled(w, SettleStatus(w)) /\ WithAnswer(t, how) = SettleStatus(w)
      BY <1>3, <2>1, <2>2, SettleStatusIs DEF w
    <2>4. HasPending(w) <=> HasPending(SettleStatus(w))
      BY <2>3 DEF HasPending, Settled
    <2>5. QED
      BY <1>2, <1>9, <2>2, <2>3, <2>4 DEF AnswerApplied, Settled
  <1>10. QED
    BY <1>6, <1>7, <1>8, <1>9 DEF SteerEnds

\* The result of a prompt says how its own turn ended, and nothing of a later one.
ResultApplied(t, n, how, u) ==
    /\ u \in Snapshot
    /\ u.status = IF link \in {"up", "broken"} /\ t.status # "disconnected"
                  THEN IF HasPending(t) \/ t.detached THEN "working" ELSE "idle"
                  ELSE "disconnected"
    /\ u.active = 0 /\ u.pending = t.pending /\ u.activity = t.activity
    /\ u.detached = t.detached /\ u.detachedActive = t.detachedActive
    /\ u.untracked = t.untracked /\ u.completion = t.completion
    /\ u.last = t.last /\ u.delivery = t.delivery
    /\ u.stopReason = IF t.detached \/ t.last # n \/ how \in {"lost", "error"}
                      THEN t.stopReason ELSE how
    /\ \A m \in Inputs \ {n} : u.outcome[m] = t.outcome[m]
    /\ u.outcome[n] \in {"completed", "failed", "interrupted"}
    /\ t.stopReason # "end_turn" => (u.outcome[n] = "completed" <=> how = "end_turn")

\* What the result of the active prompt changes.
LEMMA WithResultIs ==
  ASSUME NEW t \in Snapshot, NEW n \in Inputs, NEW how \in PromptEnds \cup {"lost"}
  PROVE  ResultApplied(t, n, how, WithResult(t, n, how))
  <1> DEFINE later == t.detached \/ t.last # n
             s == IF link \in {"up", "broken"} /\ t.status # "disconnected"
                  THEN "idle" ELSE "disconnected"
             r == IF how \in {"lost", "error"} THEN t.stopReason ELSE how
             e == t.error \/ how \in {"lost", "error"}
             ended == [t EXCEPT !.active = 0, !.status = s, !.stopReason = r, !.error = e]
             o == [ended.outcome EXCEPT ![n] = Recorded(ended)]
             recorded == [ended EXCEPT !.outcome = o]
             restored == [recorded EXCEPT !.stopReason = t.stopReason, !.error = t.error]
             w == IF later THEN restored ELSE recorded
  <1>1. WithResult(t, n, how) = SettleStatus(w)
    BY Zenon DEF WithResult
  <1>2. /\ s \in {"idle", "disconnected"} /\ e \in BOOLEAN
        /\ r \in {"none", "end_turn", "cancelled"}
    BY DEF Snapshot, PromptEnds
  <1> HIDE DEF s, r, e
  <1>3. ended \in Snapshot
    BY <1>2, ZeroType, ZenonT(30) DEF Snapshot
  <1>4. /\ ended.status = s /\ ended.active = 0 /\ ended.pending = t.pending
        /\ ended.activity = t.activity /\ ended.detached = t.detached
        /\ ended.detachedActive = t.detachedActive /\ ended.untracked = t.untracked
        /\ ended.completion = t.completion /\ ended.stopReason = r /\ ended.last = t.last
        /\ ended.delivery = t.delivery /\ ended.outcome = t.outcome
    BY <1>2 DEF Snapshot
  <1> HIDE DEF ended
  <1>5. /\ Recorded(ended) \in {"completed", "failed", "interrupted"}
        /\ Recorded(ended) = "completed" <=> r = "end_turn"
    BY <1>3, <1>4, RecordedIs
  <1>6. o \in [Inputs -> Outcomes]
    BY <1>3, <1>5 DEF Snapshot, Outcomes
  <1>7. o[n] = Recorded(ended) /\ \A m \in Inputs \ {n} : o[m] = t.outcome[m]
    <2>1. DOMAIN ended.outcome = Inputs
      BY <1>3 DEF Snapshot
    <2>2. QED
      BY <1>4, <2>1, Zenon
  <1> HIDE DEF o
  <1>8. recorded \in Snapshot
    BY <1>3, <1>6, Zenon DEF Snapshot
  <1>9. /\ recorded.status = s /\ recorded.active = 0 /\ recorded.pending = t.pending
        /\ recorded.activity = t.activity /\ recorded.detached = t.detached
        /\ recorded.detachedActive = t.detachedActive /\ recorded.untracked = t.untracked
        /\ recorded.completion = t.completion /\ recorded.stopReason = r
        /\ recorded.last = t.last /\ recorded.delivery = t.delivery /\ recorded.outcome = o
    BY <1>3, <1>4 DEF Snapshot
  <1> HIDE DEF recorded
  <1>10. t.stopReason \in {"none", "end_turn", "cancelled"} /\ t.error \in BOOLEAN
    BY DEF Snapshot
  <1>11. restored \in Snapshot
    BY <1>8, <1>10, Zenon DEF Snapshot
  <1>12. /\ restored.status = s /\ restored.active = 0 /\ restored.pending = t.pending
         /\ restored.activity = t.activity /\ restored.detached = t.detached
         /\ restored.detachedActive = t.detachedActive /\ restored.untracked = t.untracked
         /\ restored.completion = t.completion /\ restored.stopReason = t.stopReason
         /\ restored.last = t.last /\ restored.delivery = t.delivery /\ restored.outcome = o
    BY <1>8, <1>9 DEF Snapshot
  <1> HIDE DEF restored
  <1>13. /\ w \in Snapshot /\ w.status = s /\ w.active = 0 /\ w.pending = t.pending
         /\ w.activity = t.activity /\ w.detached = t.detached
         /\ w.detachedActive = t.detachedActive /\ w.untracked = t.untracked
         /\ w.completion = t.completion
         /\ w.stopReason = IF later THEN t.stopReason ELSE r
         /\ w.last = t.last /\ w.delivery = t.delivery /\ w.outcome = o
    BY <1>8, <1>9, <1>11, <1>12
  <1> HIDE DEF w
  <1>14. Settled(w, SettleStatus(w))
    BY <1>13, SettleStatusIs
  <1>15. HasPending(w) <=> HasPending(t)
    BY <1>13 DEF HasPending
  <1>16. r = "end_turn" => how = "end_turn" \/ t.stopReason = "end_turn"
    BY DEF r
  <1>17. how = "end_turn" => r = "end_turn"
    BY DEF r
  <1> DEFINE u == WithResult(t, n, how)
  <1>18. /\ u \in Snapshot /\ u.active = 0 /\ u.pending = t.pending /\ u.activity = t.activity
         /\ u.detached = t.detached /\ u.detachedActive = t.detachedActive
         /\ u.untracked = t.untracked /\ u.completion = t.completion
         /\ u.last = t.last /\ u.delivery = t.delivery /\ u.outcome = o
         /\ u.stopReason = IF later THEN t.stopReason ELSE r
    BY <1>1, <1>13, <1>14 DEF Settled
  <1>19. u.status = IF link \in {"up", "broken"} /\ t.status # "disconnected"
                    THEN IF HasPending(t) \/ t.detached THEN "working" ELSE "idle"
                    ELSE "disconnected"
    BY <1>1, <1>13, <1>14, <1>15 DEF Settled, s
  <1> HIDE DEF u
  <1>20. QED
    BY <1>5, <1>7, <1>16, <1>17, <1>18, <1>19 DEF ResultApplied, r, u

-----------------------------------------------------------------------------
(* What the steps do to the snapshot *)

\* An open turn ends as failed or interrupted with the update that ends the work.
Evolves(m) ==
    \/ thread'.outcome[m] = thread.outcome[m]
    \/ /\ thread.outcome[m] = "in_progress" /\ thread'.status # "working"
       /\ thread'.outcome[m] \in {"failed", "interrupted"}

\* Nobody shows an open turn of a thread that does not work.
NoneOpen == thread'.status # "working" => \A m \in Inputs : thread'.outcome[m] # "in_progress"

Quiet ==
    /\ thread'.detached = thread.detached /\ thread'.detachedActive = thread.detachedActive
    /\ thread'.untracked = thread.untracked

\* The tail of an update closes open turns and does nothing else to an outcome.
LEMMA UpdatedEvolves ==
  ASSUME NEW t \in Snapshot, thread' = Updated(t), NEW m \in Inputs,
         t.outcome[m] = thread.outcome[m],
         t.stopReason = "end_turn" => t.outcome[m] # "in_progress"
  PROVE  Evolves(m)
  BY UpdatedIs DEF Tailed, Evolves

\* No turn is open after an update of a thread that does not work.
LEMMA UpdatedNoneOpen ==
  ASSUME NEW t \in Snapshot, thread' = Updated(t)
  PROVE  NoneOpen
  BY UpdatedIs DEF Tailed, NoneOpen

AfterPrompt == inputs + 1 \in Inputs /\ Begins(thread, inputs + 1, thread')

\* What a prompt does to the snapshot.
LEMMA PromptDoes == ASSUME Typed, Prompt PROVE AfterPrompt
  <1> DEFINE n == inputs + 1
  <1>1. n \in Inputs
    BY TurnsAssumption DEF Typed, TypeOK, Prompt, MayInput, Inputs
  <1>2. Begins(thread, n, Begun(thread, n))
    BY <1>1, BegunIs DEF Typed, TypeOK
  <1>3. thread' = Updated(Begun(thread, n))
    BY DEF Prompt
  <1>4. Updated(Begun(thread, n)) = Begun(thread, n)
    BY <1>2 DEF Begins, Updated
  <1>5. QED
    BY <1>1, <1>2, <1>3, <1>4 DEF AfterPrompt

\* Nothing that matters changes.
Unmoved ==
    /\ thread' \in Snapshot
    /\ thread'.status = thread.status /\ thread'.active = thread.active
    /\ thread'.pending = thread.pending /\ thread'.activity = thread.activity
    /\ Quiet
    /\ thread'.completion = thread.completion /\ thread'.stopReason = thread.stopReason
    /\ thread'.last = thread.last /\ thread'.delivery = thread.delivery
    /\ \A m \in Inputs : thread'.outcome[m] = thread.outcome[m]

\* What a prompt that is not saved does to the snapshot.
LEMMA PromptUnsavedDoes == ASSUME Typed, TurnInv, PromptUnsaved PROVE Unmoved
  <1> DEFINE t == [thread EXCEPT !.error = TRUE]
  <1>1. thread \in Snapshot /\ thread.status = "idle"
    BY DEF Typed, TypeOK, PromptUnsaved, Admits
  <1>2. /\ t \in Snapshot
        /\ t.status = thread.status /\ t.active = thread.active
        /\ t.pending = thread.pending /\ t.activity = thread.activity
        /\ t.detached = thread.detached /\ t.detachedActive = thread.detachedActive
        /\ t.untracked = thread.untracked
        /\ t.completion = thread.completion /\ t.stopReason = thread.stopReason
        /\ t.last = thread.last /\ t.delivery = thread.delivery
        /\ t.outcome = thread.outcome
    BY <1>1 DEF Snapshot
  <1>3. thread' = Updated(t)
    BY DEF PromptUnsaved
  <1> HIDE DEF t
  <1>4. \A m \in Inputs : thread.outcome[m] # "in_progress"
    BY <1>1 DEF TurnInv
  <1>5. Tailed(t, thread')
    BY <1>2, <1>3, UpdatedIs
  <1>6. QED
    BY <1>2, <1>4, <1>5 DEF Tailed, Unmoved, Quiet

AfterResult(n) ==
    LET how == answer[<<"prompt", n>>] IN
    /\ how \in PromptEnds \cup {"lost"}
    /\ thread' \in Snapshot
    /\ thread'.status = IF link \in {"up", "broken"} /\ thread.status # "disconnected"
                        THEN IF HasPending(thread) \/ thread.detached THEN "working" ELSE "idle"
                        ELSE "disconnected"
    /\ thread'.active = 0 /\ thread'.pending = thread.pending
    /\ thread'.activity = thread.activity /\ Quiet
    /\ thread'.completion = IF how \notin {"lost", "error"} /\ HasPending(thread)
                            THEN IF how = "end_turn" THEN n ELSE 0
                            ELSE thread.completion
    /\ thread'.last = thread.last /\ thread'.delivery = thread.delivery
    /\ thread'.stopReason = IF thread.detached \/ thread.last # n \/ how \in {"lost", "error"}
                            THEN thread.stopReason ELSE how
    /\ thread'.outcome[n] \in {"completed", "failed", "interrupted"}
    /\ thread'.outcome[n] = "completed" <=> how = "end_turn"
    /\ \A m \in Inputs \ {n} : Evolves(m)
    /\ NoneOpen
    /\ reported' = reported \/ (how = "end_turn" /\ ~HasPending(thread)
                                /\ reported' = [reported EXCEPT ![n] = @ + 1])

\* What the result of a prompt does to the snapshot and to the host.
LEMMA PromptResultDoes ==
  ASSUME Typed, TurnInv, NEW n \in Inputs, PromptResult(n)
  PROVE  AfterResult(n)
  <1> DEFINE how == answer[<<"prompt", n>>]
             settled == WithResult(thread, n, how)
             succeeded == how \notin {"lost", "error"}
             completed == succeeded /\ settled.outcome[n] = "completed"
             c == IF completed THEN n ELSE 0
             kept == IF succeeded /\ HasPending(settled) THEN [settled EXCEPT !.completion = c]
                     ELSE settled
  <1>1. thread \in Snapshot /\ thread.active = n /\ n # 0
    BY DEF Typed, TypeOK, PromptResult, Inputs
  <1>2. how \in PromptEnds \cup {"lost"}
    <2>1. <<"prompt", n>> \in Tasks /\ how # "none"
      BY DEF Tasks, PromptResult, Answered
    <2>2. how \in Ends(<<"prompt", n>>) \cup {"none", "lost"}
      BY <2>1 DEF Typed, WorldOK
    <2>3. QED
      BY <2>1, <2>2 DEF Ends
  <1>3. ResultApplied(thread, n, how, settled)
    BY <1>1, <1>2, WithResultIs
  <1>4. thread.stopReason # "end_turn"
    BY <1>1 DEF TurnInv
  <1>5. /\ thread' = Updated(kept)
        /\ reported' = reported \/ (HostHears(completed, settled)
                                    /\ reported' = [reported EXCEPT ![n] = @ + 1])
    <2>1. thread' = Updated(kept)
      BY Zenon DEF PromptResult
    <2>2. PICK saved \in BOOLEAN :
            reported' = [reported EXCEPT ![n] =
              IF HostHears(completed, settled) /\ saved THEN @ + 1 ELSE @]
      BY Zenon DEF PromptResult
    <2>3. reported \in [Inputs -> Nat]
      BY DEF Typed, WorldOK
    <2> HIDE DEF settled, completed, kept
    <2>4. QED
      BY <2>1, <2>2, <2>3
  <1> HIDE DEF how, settled
  <1>6. HasPending(settled) <=> HasPending(thread)
    BY <1>3 DEF ResultApplied, HasPending
  <1>7. completed <=> how = "end_turn"
    BY <1>2, <1>3, <1>4 DEF ResultApplied, PromptEnds
  <1>8. c \in 0..MaxInputs /\ c = IF how = "end_turn" THEN n ELSE 0
    BY <1>7, ZeroType DEF Inputs
  <1> HIDE DEF completed, c
  <1>9. /\ kept \in Snapshot
        /\ kept.status = settled.status /\ kept.active = settled.active
        /\ kept.pending = settled.pending /\ kept.activity = settled.activity
        /\ kept.detached = settled.detached /\ kept.detachedActive = settled.detachedActive
        /\ kept.untracked = settled.untracked /\ kept.stopReason = settled.stopReason
        /\ kept.last = settled.last /\ kept.delivery = settled.delivery
        /\ kept.outcome = settled.outcome
        /\ kept.completion = IF succeeded /\ HasPending(thread) THEN c ELSE thread.completion
    BY <1>3, <1>6, <1>8 DEF ResultApplied, Snapshot
  <1> HIDE DEF kept
  <1>10. Tailed(kept, thread')
    BY <1>5, <1>9, UpdatedIs
  <1>11. ASSUME NEW m \in Inputs \ {n} PROVE Evolves(m)
    <2>1. kept.outcome[m] = thread.outcome[m]
      BY <1>3, <1>9 DEF ResultApplied
    <2>2. kept.stopReason = "end_turn" => ~thread.detached /\ thread.last = n
      BY <1>3, <1>4, <1>9 DEF ResultApplied
    <2>3. thread.outcome[m] = "in_progress" => m >= n /\ m <= thread.last
      BY <1>1 DEF TurnInv
    <2>4. kept.stopReason = "end_turn" => thread.outcome[m] # "in_progress"
      BY <2>2, <2>3 DEF Inputs
    <2>5. QED
      BY <1>5, <1>9, <2>1, <2>4, UpdatedEvolves
  <1>12. NoneOpen
    BY <1>5, <1>9, UpdatedNoneOpen
  <1>13. /\ thread'.outcome[n] \in {"completed", "failed", "interrupted"}
         /\ thread'.outcome[n] = "completed" <=> how = "end_turn"
    BY <1>3, <1>4, <1>9, <1>10 DEF ResultApplied, Tailed
  <1>14. reported' = reported \/ (how = "end_turn" /\ ~HasPending(thread)
                                  /\ reported' = [reported EXCEPT ![n] = @ + 1])
    BY <1>5, <1>6, <1>7 DEF HostHears
  <1>15. /\ thread' \in Snapshot /\ thread'.active = 0 /\ thread'.pending = thread.pending
         /\ thread'.activity = thread.activity /\ Quiet
         /\ thread'.last = thread.last /\ thread'.delivery = thread.delivery
         /\ thread'.stopReason = settled.stopReason /\ thread'.status = settled.status
         /\ thread'.completion = IF succeeded /\ HasPending(thread) THEN c ELSE thread.completion
    BY <1>3, <1>9, <1>10 DEF ResultApplied, Tailed, Quiet
  <1>16. QED
    BY <1>2, <1>3, <1>8, <1>11, <1>12, <1>13, <1>14, <1>15 DEF AfterResult, ResultApplied, how

AfterSteer ==
    LET n == inputs + 1 IN
    /\ n \in Inputs
    /\ thread' \in Snapshot
    /\ thread.status = "working" /\ ~HasPending(thread)
    /\ thread'.status = thread.status /\ thread'.active = thread.active
    /\ thread'.pending \in PendingSteer /\ thread'.pending.id = n
    /\ thread'.pending.required = FALSE /\ thread'.pending.cancelled = FALSE
    /\ thread'.pending.sawActive = FALSE /\ thread'.pending.terminal = "none"
    /\ thread'.activity = thread.activity /\ Quiet
    /\ thread'.completion = thread.completion /\ thread'.stopReason = thread.stopReason
    /\ thread'.last = thread.last /\ thread'.outcome = thread.outcome
    /\ \A m \in Inputs : thread'.delivery[m] = IF m = n THEN "sending" ELSE thread.delivery[m]

\* What steering does to the snapshot.
LEMMA SteerDoes == ASSUME Typed, Steer PROVE AfterSteer
  <1> DEFINE n == inputs + 1
             p == [NoPending EXCEPT !.id = n, !.sawIdle = thread.activity = "idle"]
             d == [thread.delivery EXCEPT ![n] = "sending"]
             t == [thread EXCEPT !.pending = p, !.delivery = d]
  <1>1. n \in Inputs /\ n \in 0..MaxInputs
    BY TurnsAssumption DEF Typed, TypeOK, Steer, MayInput, Inputs
  <1>2. thread \in Snapshot /\ thread.status = "working" /\ ~HasPending(thread)
    BY DEF Typed, TypeOK, Steer
  <1>3. /\ p \in PendingSteer /\ p.id = n /\ p.required = FALSE /\ p.cancelled = FALSE
        /\ p.sawActive = FALSE /\ p.terminal = "none"
    BY <1>1 DEF NoPending, PendingSteer
  <1>4. d \in [Inputs -> Deliveries]
    BY <1>2 DEF Snapshot, Deliveries
  <1>5. \A m \in Inputs : d[m] = IF m = n THEN "sending" ELSE thread.delivery[m]
    BY <1>2 DEF Snapshot
  <1>6. thread' = Updated(t)
    BY DEF Steer
  <1> HIDE DEF p, d, n
  <1>7. /\ t \in Snapshot
        /\ t.status = thread.status /\ t.active = thread.active
        /\ t.pending = p /\ t.activity = thread.activity
        /\ t.detached = thread.detached /\ t.detachedActive = thread.detachedActive
        /\ t.untracked = thread.untracked
        /\ t.completion = thread.completion /\ t.stopReason = thread.stopReason
        /\ t.last = thread.last /\ t.delivery = d
        /\ t.outcome = thread.outcome
    BY <1>2, <1>3, <1>4 DEF Snapshot
  <1> HIDE DEF t
  <1>8. thread' = t
    BY <1>2, <1>6, <1>7 DEF Updated
  <1>9. QED
    BY <1>1, <1>2, <1>3, <1>5, <1>7, <1>8 DEF AfterSteer, Quiet, n

AfterAnswer(n) ==
    LET how == answer[<<"steer", n>>]
        handedBack == how = "required" /\ ~thread.pending.cancelled IN
    /\ how \in SteerEnds \cup {"lost"} /\ thread.pending.id = n
    /\ thread' \in Snapshot
    /\ thread'.status = IF thread.status = "disconnected" THEN "disconnected"
                        ELSE IF thread.active # 0 \/ HasPending(thread)' \/ thread'.detached
                             THEN "working" ELSE "idle"
    /\ thread'.active = thread.active /\ thread'.activity = thread.activity
    /\ thread'.completion = 0
    /\ handedBack => /\ thread'.pending = [thread.pending EXCEPT !.required = TRUE]
                     /\ thread'.delivery = thread.delivery
    /\ ~handedBack => thread'.pending = NoPending /\ thread'.delivery[n] # "sending"
    /\ \A m \in Inputs \ {n} : thread'.delivery[m] = thread.delivery[m] /\ Evolves(m)
    /\ NoneOpen
    /\ how # "started" =>
         /\ Quiet /\ thread'.stopReason = thread.stopReason
         /\ thread'.last = thread.last /\ Evolves(n)
    /\ how = "started" =>
         /\ thread'.last = n /\ thread'.stopReason \in {"none", "cancelled"}
         /\ thread'.outcome[n] \in {"in_progress", "failed", "interrupted", "unknown"}
         /\ thread'.outcome[n] = "in_progress" => thread'.detached
         /\ thread'.detached <=> thread.pending.terminal = "none"
         /\ thread'.detachedActive <=> thread.pending.terminal = "none" /\ thread.pending.sawActive
         /\ thread'.untracked <=> thread.pending.terminal = "none" /\ ~thread.pending.sawActive
    /\ reported' = [m \in Inputs |->
          IF m = thread.completion THEN reported[m] + 1 ELSE reported[m]]

\* What the answer to steering does to the snapshot and to the host.
LEMMA SteerAnswerDoes ==
  ASSUME Typed, TurnInv, LeavesInv, NEW n \in Inputs, SteerAnswer(n)
  PROVE  AfterAnswer(n)
  <1> DEFINE how == answer[<<"steer", n>>]
             settled == WithAnswer(thread, how)
             t == [settled EXCEPT !.completion = 0]
  <1>1. thread \in Snapshot /\ thread.pending.id = n /\ HasPending(thread)
    BY DEF Typed, TypeOK, SteerAnswer, Inputs, HasPending
  <1>2. how \in SteerEnds \cup {"lost"}
    <2>1. <<"steer", n>> \in Tasks /\ how # "none"
      BY DEF Tasks, SteerAnswer, Answered
    <2>2. how \in Ends(<<"steer", n>>) \cup {"none", "lost"}
      BY <2>1 DEF Typed, WorldOK
    <2>3. QED
      BY <2>1, <2>2 DEF Ends
  <1>3. how = "required" => ~thread.detached
    <2>1. how = "required" => agent.leaves
      BY DEF LeavesInv
    <2>2. QED
      BY <2>1 DEF LeavesInv
  <1>4. AnswerApplied(thread, how, settled)
    BY <1>1, <1>2, <1>3, WithAnswerIs
  <1>5. thread' = Updated(t)
    BY Zenon DEF SteerAnswer
  <1>6. reported' = [m \in Inputs |->
          IF m = settled.completion THEN reported[m] + 1 ELSE reported[m]]
    BY DEF SteerAnswer
  <1> HIDE DEF how, settled
  <1>7. /\ t \in Snapshot
        /\ t.status = settled.status /\ t.active = settled.active
        /\ t.pending = settled.pending /\ t.activity = settled.activity
        /\ t.detached = settled.detached /\ t.detachedActive = settled.detachedActive
        /\ t.untracked = settled.untracked
        /\ t.completion = 0 /\ t.stopReason = settled.stopReason
        /\ t.last = settled.last /\ t.delivery = settled.delivery
        /\ t.outcome = settled.outcome
    BY <1>4, ZeroType DEF AnswerApplied, Snapshot
  <1> HIDE DEF t
  <1>8. Tailed(t, thread')
    BY <1>5, <1>7, UpdatedIs
  <1>9. t.stopReason = "end_turn" => \A m \in Inputs : thread.outcome[m] # "in_progress"
    BY <1>4, <1>7 DEF AnswerApplied, TurnInv
  <1>10. ASSUME NEW m \in Inputs, m # n \/ how # "started" PROVE Evolves(m)
    <2>1. t.outcome[m] = thread.outcome[m]
      BY <1>1, <1>4, <1>7, <1>10 DEF AnswerApplied
    <2>2. QED
      BY <1>5, <1>7, <1>9, <2>1, UpdatedEvolves
  <1>11. NoneOpen
    BY <1>5, <1>7, UpdatedNoneOpen
  <1>12. HasPending(thread)' <=> HasPending(settled)
    BY <1>7, <1>8 DEF HasPending, Tailed
  <1>13. /\ thread' \in Snapshot /\ thread'.status = settled.status
         /\ thread'.active = thread.active /\ thread'.activity = thread.activity
         /\ thread'.completion = 0 /\ thread'.pending = settled.pending
         /\ thread'.delivery = settled.delivery /\ thread'.last = settled.last
         /\ thread'.stopReason = settled.stopReason
         /\ thread'.detached = settled.detached
         /\ thread'.detachedActive = settled.detachedActive
         /\ thread'.untracked = settled.untracked
    BY <1>4, <1>7, <1>8 DEF AnswerApplied, Tailed
  <1>14. reported' = [m \in Inputs |->
          IF m = thread.completion THEN reported[m] + 1 ELSE reported[m]]
    BY <1>4, <1>6 DEF AnswerApplied
  <1>15. thread'.status = IF thread.status = "disconnected" THEN "disconnected"
                          ELSE IF thread.active # 0 \/ HasPending(thread)' \/ thread'.detached
                               THEN "working" ELSE "idle"
    BY <1>4, <1>12, <1>13 DEF AnswerApplied
  <1>16. how # "started" => /\ Quiet /\ thread'.stopReason = thread.stopReason
                            /\ thread'.last = thread.last /\ Evolves(n)
    BY <1>4, <1>10, <1>13 DEF AnswerApplied, Quiet
  <1>17. how = "started" =>
         /\ thread'.last = n /\ thread'.stopReason \in {"none", "cancelled"}
         /\ thread'.outcome[n] \in {"in_progress", "failed", "interrupted", "unknown"}
         /\ thread'.outcome[n] = "in_progress" => thread'.detached
         /\ thread'.detached <=> thread.pending.terminal = "none"
         /\ thread'.detachedActive <=> thread.pending.terminal = "none" /\ thread.pending.sawActive
         /\ thread'.untracked <=> thread.pending.terminal = "none" /\ ~thread.pending.sawActive
    <2>1. SUFFICES ASSUME how = "started"
                   PROVE thread'.outcome[n] \in {"in_progress", "failed", "interrupted", "unknown"}
                         /\ (thread'.outcome[n] = "in_progress" => thread'.detached)
      BY <1>1, <1>4, <1>13 DEF AnswerApplied
    <2>2. /\ t.outcome[n] \in {"in_progress", "failed", "interrupted", "unknown"}
          /\ t.outcome[n] = "in_progress" => thread'.detached
          /\ t.stopReason # "end_turn"
      BY <1>1, <1>4, <1>7, <1>13, <2>1 DEF AnswerApplied
    <2>3. QED
      BY <1>8, <2>2 DEF Tailed
  <1>18. QED
    BY <1>1, <1>2, <1>4, <1>10, <1>11, <1>13, <1>14, <1>15, <1>16, <1>17
       DEF AfterAnswer, AnswerApplied, how

AfterFallback(n) ==
    /\ n \in Inputs /\ thread.pending.id = n /\ thread.pending.required
    /\ ~thread.pending.cancelled /\ ~thread.detached /\ thread.active = 0
    /\ thread.status # "disconnected"
    /\ thread' \in Snapshot
    /\ thread'.status = "working" /\ thread'.active = n /\ thread'.pending = NoPending
    /\ thread'.activity = "none" /\ Quiet
    /\ thread'.completion = thread.completion /\ thread'.stopReason = "none"
    /\ thread'.last = n
    /\ \A m \in Inputs \ {n} : thread'.delivery[m] = thread.delivery[m]
    /\ thread'.delivery[n] # "sending"
    /\ \A m \in Inputs : thread'.outcome[m] = IF m = n THEN "in_progress" ELSE thread.outcome[m]

\* What a fallback that is admitted does to the snapshot.
LEMMA FallbackStartDoes ==
  ASSUME Typed, StatusInv, NEW t \in Tasks, FallbackStart(t)
  PROVE  AfterFallback(captured[t])
  <1> DEFINE n == captured[t]
             d == Deliver(thread, n, "started")
             u == [d EXCEPT !.pending = NoPending]
  <1>1. thread \in Snapshot /\ thread.pending \in PendingSteer
    BY DEF Typed, TypeOK, Snapshot
  <1>2. /\ thread.pending.id = n /\ thread.pending.required
        /\ ~thread.pending.cancelled /\ ~thread.detached /\ thread.active = 0
        /\ thread.status # "disconnected"
    BY DEF FallbackStart, AdmitsFallback, Admissible
  <1>3. n \in Inputs /\ n \in 0..MaxInputs
    BY <1>1, <1>2 DEF StatusInv, HasPending, PendingSteer, Inputs
  <1>4. Delivered(thread, n, "started", d)
    BY <1>1, <1>3, DeliverIs DEF Deliveries
  <1>5. thread' = Updated(Begun(u, n))
    BY DEF FallbackStart
  <1> HIDE DEF d, n
  <1>6. /\ u \in Snapshot
        /\ u.status = thread.status /\ u.pending = NoPending
        /\ u.detached = thread.detached /\ u.detachedActive = thread.detachedActive
        /\ u.untracked = thread.untracked /\ u.completion = thread.completion
        /\ u.delivery = d.delivery /\ u.outcome = thread.outcome
    BY <1>1, <1>4, NoPendingType DEF Snapshot, Delivered
  <1> HIDE DEF u
  <1>7. Begins(u, n, Begun(u, n))
    BY <1>3, <1>6, BegunIs
  <1>8. thread' = Begun(u, n)
    BY <1>5, <1>7 DEF Begins, Updated
  <1>9. d.delivery[n] # "sending" /\ \A m \in Inputs \ {n} : d.delivery[m] = thread.delivery[m]
    BY <1>3, <1>4 DEF Delivered
  <1> HIDE DEF d
  <1>10. QED
    BY <1>2, <1>3, <1>6, <1>7, <1>8, <1>9 DEF AfterFallback, Begins, Quiet, n

\* Pending input is given up.
GivenUp ==
    /\ thread' \in Snapshot
    /\ thread'.status = IF thread.status = "disconnected" THEN "disconnected"
                        ELSE IF thread.active # 0 \/ thread.detached THEN "working" ELSE "idle"
    /\ thread'.active = thread.active /\ thread'.pending = NoPending
    /\ thread'.activity = thread.activity /\ Quiet
    /\ thread'.completion = thread.completion /\ thread'.stopReason = thread.stopReason
    /\ thread'.last = thread.last
    /\ \A m \in Inputs : thread'.delivery[m] = thread.delivery[m] \/ thread'.delivery[m] # "sending"
    /\ thread.pending.id \in Inputs => thread'.delivery[thread.pending.id] # "sending"
    /\ \A m \in Inputs : Evolves(m)
    /\ NoneOpen

AfterRefusal(n) ==
    IF thread.pending.id = n THEN GivenUp ELSE thread' = thread

\* What a fallback that is refused does to the snapshot.
LEMMA FallbackRefusedDoes ==
  ASSUME Typed, TurnInv, NEW t \in Tasks, FallbackRefused(t)
  PROVE  AfterRefusal(captured[t])
  <1> DEFINE n == captured[t]
             d == Deliver(thread, n, "failed")
             u == [d EXCEPT !.pending = NoPending]
             s == SettleStatus(u)
  <1>1. CASE thread.pending.id # n
    BY <1>1 DEF FallbackRefused, AfterRefusal
  <1>2. CASE thread.pending.id = n
    <2>1. thread \in Snapshot /\ n \in 0..MaxInputs
      BY DEF Typed, TypeOK
    <2>2. Delivered(thread, n, "failed", d)
      BY <2>1, DeliverIs DEF Deliveries
    <2>3. thread' = Updated(s)
      BY <1>2 DEF FallbackRefused
    <2> HIDE DEF d, n
    <2>4. /\ u \in Snapshot
          /\ u.status = thread.status /\ u.active = thread.active
          /\ u.pending = NoPending /\ u.activity = thread.activity
          /\ u.detached = thread.detached /\ u.detachedActive = thread.detachedActive
          /\ u.untracked = thread.untracked
          /\ u.completion = thread.completion /\ u.stopReason = thread.stopReason
          /\ u.last = thread.last /\ u.delivery = d.delivery
          /\ u.outcome = thread.outcome
      BY <2>1, <2>2, NoPendingType DEF Snapshot, Delivered
    <2> HIDE DEF u
    <2>5. Settled(u, s)
      BY <2>4, SettleStatusIs
    <2>6. ~HasPending(u)
      BY <2>4 DEF HasPending, NoPending
    <2> HIDE DEF s
    <2>7. Tailed(s, thread')
      BY <2>3, <2>5, UpdatedIs DEF Settled
    <2>8. ASSUME NEW m \in Inputs PROVE Evolves(m)
      <3>1. s.outcome[m] = thread.outcome[m] /\ s.stopReason = thread.stopReason
        BY <2>4, <2>5 DEF Settled
      <3>2. s.stopReason = "end_turn" => s.outcome[m] # "in_progress"
        BY <3>1 DEF TurnInv
      <3>3. QED
        BY <2>3, <2>5, <3>1, <3>2, UpdatedEvolves DEF Settled
    <2>9. NoneOpen
      BY <2>3, <2>5, UpdatedNoneOpen DEF Settled
    <2>10. /\ \A m \in Inputs : d.delivery[m] = thread.delivery[m] \/ d.delivery[m] # "sending"
           /\ n \in Inputs => d.delivery[n] # "sending"
      BY <2>2 DEF Delivered
    <2>11. GivenUp
      BY <1>2, <2>4, <2>5, <2>6, <2>7, <2>8, <2>9, <2>10 DEF GivenUp, Settled, Tailed, Quiet
    <2>12. QED
      BY <1>2, <2>11 DEF AfterRefusal, n
  <1>3. QED
    BY <1>1, <1>2

AfterStop ==
    IF thread.pending.required THEN GivenUp
    ELSE /\ thread' \in Snapshot
         /\ thread'.status = thread.status /\ thread'.active = thread.active
         /\ thread'.pending = [thread.pending EXCEPT !.cancelled = HasPending(thread)]
         /\ thread'.activity = thread.activity /\ Quiet
         /\ thread'.completion = thread.completion /\ thread'.stopReason = thread.stopReason
         /\ thread'.last = thread.last /\ thread'.delivery = thread.delivery
         /\ \A m \in Inputs : thread'.outcome[m] = thread.outcome[m]

\* What a stop does to the snapshot.
LEMMA StopDoes == ASSUME Typed, StatusInv, TurnInv, Stop PROVE AfterStop
  <1> DEFINE u == StopMarked(thread)
  <1>1. thread \in Snapshot /\ (thread.pending.required => HasPending(thread))
    BY DEF Typed, TypeOK, StatusInv
  <1>2. /\ u \in Snapshot
        /\ u.active = thread.active /\ u.activity = thread.activity
        /\ u.completion = thread.completion
        /\ u.detached = thread.detached /\ u.detachedActive = thread.detachedActive
        /\ u.untracked = thread.untracked /\ u.stopReason = thread.stopReason
        /\ u.last = thread.last /\ u.outcome = thread.outcome
        /\ thread.pending.required =>
             /\ u.pending = NoPending
             /\ u.status = IF thread.status = "disconnected" THEN "disconnected"
                           ELSE IF thread.active # 0 \/ thread.detached THEN "working" ELSE "idle"
             /\ \A m \in Inputs : u.delivery[m] =
                  IF m = thread.pending.id /\ thread.delivery[m] = "sending" THEN "cancelled"
                  ELSE thread.delivery[m]
        /\ ~thread.pending.required =>
             /\ u.pending = [thread.pending EXCEPT !.cancelled = HasPending(thread)]
             /\ u.status = thread.status /\ u.delivery = thread.delivery
    BY <1>1, StopMarkedIs
  <1>3. thread' = Updated(u)
    BY DEF Stop
  <1> HIDE DEF u
  <1>4. Tailed(u, thread')
    BY <1>2, <1>3, UpdatedIs
  <1>5. ASSUME NEW m \in Inputs PROVE Evolves(m)
    <2>1. u.stopReason = "end_turn" => u.outcome[m] # "in_progress"
      BY <1>2 DEF TurnInv
    <2>2. QED
      BY <1>2, <1>3, <2>1, UpdatedEvolves
  <1>6. NoneOpen
    BY <1>2, <1>3, UpdatedNoneOpen
  <1>7. CASE thread.pending.required
    BY <1>2, <1>4, <1>5, <1>6, <1>7 DEF AfterStop, GivenUp, Tailed, Quiet
  <1>8. CASE ~thread.pending.required
    <2>1. \A m \in Inputs : thread.outcome[m] = "in_progress" => thread.status = "working"
      BY DEF TurnInv
    <2>2. \A m \in Inputs : thread'.outcome[m] = thread.outcome[m]
      BY <1>2, <1>4, <1>8, <2>1 DEF Tailed
    <2>3. QED
      BY <1>2, <1>4, <1>8, <2>2 DEF AfterStop, Tailed, Quiet
  <1>9. QED
    BY <1>7, <1>8

AfterSilence ==
    /\ thread' \in Snapshot
    /\ thread'.status = "disconnected"
    /\ thread'.pending = NoPending /\ thread'.activity = "none"
    /\ ~thread'.detached /\ ~thread'.detachedActive /\ ~thread'.untracked
    /\ thread'.completion = 0
    /\ thread'.stopReason = thread.stopReason /\ thread'.last = thread.last
    /\ \A m \in Inputs : thread'.delivery[m] # "sending"
    /\ \A m \in Inputs : Evolves(m)
    /\ NoneOpen

\* Closing and the loss of the connection leave the same behind.
LEMMA SilenceDoes ==
  ASSUME Typed, TurnInv, NEW t \in Snapshot, NEW u \in Snapshot, Silent(t, u),
         u.status = "disconnected", thread' = Updated(u),
         t.outcome = thread.outcome, t.stopReason = thread.stopReason, t.last = thread.last
  PROVE  AfterSilence /\ thread'.active = u.active
  <1>1. Tailed(u, thread')
    BY UpdatedIs
  <1>2. ASSUME NEW m \in Inputs PROVE Evolves(m)
    <2>1. u.stopReason = "end_turn" => u.outcome[m] # "in_progress"
      BY DEF TurnInv, Silent
    <2>2. QED
      BY <2>1, UpdatedEvolves DEF Silent
  <1>3. NoneOpen
    BY UpdatedNoneOpen
  <1>4. \A m \in Inputs : thread'.delivery[m] # "sending"
    BY <1>1 DEF Silent, Tailed
  <1>5. QED
    BY <1>1, <1>2, <1>3, <1>4 DEF AfterSilence, Silent, Tailed

\* What the close of a conversation does to the snapshot.
LEMMA ClosedDoes == ASSUME Typed, TurnInv, Closed PROVE AfterSilence /\ thread'.active = 0
  <1>1. thread \in Snapshot
    BY DEF Typed, TypeOK
  <1>2. /\ Silent(thread, DetachedSession(thread))
        /\ DetachedSession(thread).status = "disconnected" /\ DetachedSession(thread).active = 0
    BY <1>1, DetachedSessionIs
  <1>3. thread' = Updated(DetachedSession(thread))
    BY DEF Closed
  <1>4. QED
    BY <1>1, <1>2, <1>3, SilenceDoes DEF Silent

\* What the loss of the connection does to the snapshot.
LEMMA ConnectionLostDoes ==
  ASSUME Typed, TurnInv, ConnectionLost
  PROVE  IF route THEN AfterSilence /\ thread'.active = thread.active ELSE thread' = thread
  <1> DEFINE e == thread.error \/ thread.status = "working"
             t == [thread EXCEPT !.error = e, !.status = "disconnected"]
  <1>1. thread \in Snapshot
    BY DEF Typed, TypeOK
  <1>2. CASE ~route
    BY <1>2 DEF ConnectionLost
  <1>3. CASE route
    <2>1. thread' = Updated(Disconnected(t))
      BY <1>3 DEF ConnectionLost
    <2>2. e \in BOOLEAN
      OBVIOUS
    <2> HIDE DEF e
    <2>3. /\ t \in Snapshot /\ t.status = "disconnected" /\ t.active = thread.active
          /\ t.outcome = thread.outcome /\ t.stopReason = thread.stopReason
          /\ t.last = thread.last
      BY <1>1, <2>2 DEF Snapshot
    <2> HIDE DEF t
    <2>4. /\ Silent(t, Disconnected(t)) /\ Disconnected(t).status = "disconnected"
          /\ Disconnected(t).active = thread.active
      BY <2>3, DisconnectedIs
    <2>5. AfterSilence /\ thread'.active = Disconnected(t).active
      BY <2>1, <2>3, <2>4, SilenceDoes DEF Silent
    <2>6. QED
      BY <1>3, <2>4, <2>5
  <1>4. QED
    BY <1>2, <1>3

\* What a load does to the snapshot.
LEMMA ReopenDoes == ASSUME Typed, Reopen PROVE Anew(thread, thread')
  BY FreshIs DEF Typed, TypeOK, Reopen

AfterReport(a) ==
    LET ends == thread.detached /\ thread.detachedActive /\ a # "active" IN
    /\ thread' \in Snapshot
    /\ thread'.active = thread.active /\ thread'.activity = a
    /\ thread'.completion = thread.completion
    /\ thread'.last = thread.last /\ thread'.delivery = thread.delivery
    /\ thread'.pending = IF HasPending(thread) THEN PendingSees(thread.pending, a)
                         ELSE thread.pending
    /\ thread'.pending.id = thread.pending.id
    /\ ends => /\ ~thread'.detached /\ ~thread'.detachedActive /\ ~thread'.untracked
               /\ thread'.stopReason \in {"none", "cancelled"}
               /\ thread'.outcome[thread.last] \in {"failed", "interrupted", "unknown"}
               /\ \A m \in Inputs \ {thread.last} : Evolves(m)
               /\ thread'.status = IF thread.status = "disconnected" THEN "disconnected"
                                   ELSE IF thread.active # 0 \/ HasPending(thread) THEN "working"
                                   ELSE "idle"
    /\ ~ends => /\ thread'.detached <=> thread.detached
                /\ thread'.detachedActive
                     <=> (thread.detachedActive \/ (thread.detached /\ a = "active"))
                /\ thread'.untracked
                     <=> (thread.untracked /\ ~(thread.detached /\ a = "active"))
                /\ thread'.stopReason = thread.stopReason
                /\ \A m \in Inputs : thread'.outcome[m] = thread.outcome[m]
                /\ thread'.status = thread.status
    /\ NoneOpen

\* What a report of activity does to the snapshot.
LEMMA ReportDoes ==
  ASSUME Typed, TurnInv, NEW a \in Activities, thread' = Updated(ObserveActivity(thread, a))
  PROVE  AfterReport(a)
  <1> DEFINE u == ObserveActivity(thread, a)
  <1>1. thread \in Snapshot
    BY DEF Typed, TypeOK
  <1>2. thread.detached => thread.last # 0
    BY <1>1 DEF TurnInv, Snapshot
  <1>3. Observed(thread, a, u)
    BY <1>1, <1>2, ObserveActivityIs
  <1> HIDE DEF u
  <1>4. u \in Snapshot /\ thread' = Updated(u)
    BY <1>3 DEF Observed, u
  <1>5. Tailed(u, thread')
    BY <1>4, UpdatedIs
  <1>6. NoneOpen
    BY <1>4, UpdatedNoneOpen
  <1>7. \A m \in Inputs : thread.outcome[m] = "in_progress" => thread.status = "working"
    BY DEF TurnInv
  <1>8. CASE thread.detached /\ thread.detachedActive /\ a # "active"
    <2>1. thread.last \in Inputs
      BY <1>1, <1>2, <1>8 DEF Snapshot, Inputs
    <2>2. ASSUME NEW m \in Inputs \ {thread.last} PROVE Evolves(m)
      <3>1. u.outcome[m] = thread.outcome[m] /\ u.stopReason # "end_turn"
        BY <1>3, <1>8 DEF Observed
      <3>2. QED
        BY <1>4, <3>1, UpdatedEvolves
    <2>3. thread'.outcome[thread.last] \in {"failed", "interrupted", "unknown"}
      BY <1>3, <1>5, <1>8, <2>1 DEF Observed, Tailed
    <2>4. QED
      BY <1>3, <1>5, <1>6, <1>8, <2>2, <2>3 DEF AfterReport, Observed, Tailed
  <1>9. CASE ~(thread.detached /\ thread.detachedActive /\ a # "active")
    <2>1. \A m \in Inputs : thread'.outcome[m] = thread.outcome[m]
      BY <1>3, <1>5, <1>7, <1>9 DEF Observed, Tailed
    <2>2. QED
      BY <1>3, <1>5, <1>6, <1>9, <2>1 DEF AfterReport, Observed, Tailed
  <1>10. QED
    BY <1>8, <1>9

-----------------------------------------------------------------------------
(* What the steps do to the wire *)

AllEnds == PromptEnds \cup SteerEnds

\* The names of the tasks.
LEMMA TaskFacts ==
  /\ \A n \in Inputs : <<"prompt", n>> \in Tasks /\ <<"steer", n>> \in Tasks
  /\ \A t \in Tasks : \E n \in Inputs : t = <<"prompt", n>> \/ t = <<"steer", n>>
  /\ \A n, m \in Inputs : <<"prompt", n>> # <<"steer", m>>
  /\ \A n, m \in Inputs : <<"prompt", n>> = <<"prompt", m>> => n = m
  /\ \A n, m \in Inputs : <<"steer", n>> = <<"steer", m>> => n = m
  /\ \A t \in Tasks : t[1] = "prompt" => t = <<"prompt", t[2]>> /\ t[2] \in Inputs
  /\ \A t \in Tasks : t[1] # "prompt" => t[1] = "steer" /\ t = <<"steer", t[2]>> /\ t[2] \in Inputs
  /\ <<"none", 0>> \notin Tasks
  BY DEF Tasks

\* The dispatcher takes the first message.
ReadOne ==
    /\ wire # <<>> /\ Head(wire) = wire[1] /\ wire[1] \in Messages /\ 1 \in 1..Len(wire)
    /\ wire' \in Seq(Messages) /\ Len(wire) = Len(wire') + 1 /\ Len(wire') \in Nat
    /\ \A i \in 1..Len(wire') : i + 1 \in 1..Len(wire) /\ wire'[i] = wire[i + 1]
    /\ \A i \in 2..Len(wire) : i - 1 \in 1..Len(wire') /\ wire'[i - 1] = wire[i]

\* The dispatcher takes exactly the first message.
LEMMA ReceiveReads == ASSUME Typed, Receive PROVE ReadOne
  <1>1. wire \in Seq(Messages) /\ wire # <<>> /\ wire' = Tail(wire)
    BY DEF Typed, WorldOK, Receive
  <1>2. Len(wire) \in Nat /\ Len(wire) > 0
    BY <1>1
  <1>3. Head(wire) = wire[1] /\ wire[1] \in Messages
    BY <1>1, <1>2
  <1>4. wire' \in Seq(Messages) /\ Len(wire') = Len(wire) - 1
    BY <1>1
  <1>5. \A i \in 1..Len(wire') : wire'[i] = wire[i + 1]
    BY <1>1, <1>2, <1>4
  <1>6. QED
    BY <1>1, <1>2, <1>3, <1>4, <1>5 DEF ReadOne

\* The agent appends messages.
Wrote(s) ==
    /\ s \in Seq(Messages) /\ wire' \in Seq(Messages)
    /\ Len(wire) \in Nat /\ Len(s) \in Nat
    /\ Len(wire') = Len(wire) + Len(s)
    /\ \A i \in 1..Len(wire) : i \in 1..Len(wire') /\ wire'[i] = wire[i]
    /\ \A i \in 1..Len(s) : Len(wire) + i \in 1..Len(wire') /\ wire'[Len(wire) + i] = s[i]
    /\ \A i \in 1..Len(wire') : i \in 1..Len(wire)
                                \/ (i - Len(wire) \in 1..Len(s) /\ wire'[i] = s[i - Len(wire)])

\* What is appended to the wire is written.
LEMMA AppendWrites ==
  ASSUME Typed, NEW s \in Seq(Messages), wire' = wire \o s
  PROVE  Wrote(s)
  <1>1. wire \in Seq(Messages)
    BY DEF Typed, WorldOK
  <1>2. wire' \in Seq(Messages) /\ Len(wire') = Len(wire) + Len(s)
        /\ Len(wire) \in Nat /\ Len(s) \in Nat
    BY <1>1
  <1>3. \A i \in 1..Len(wire') : wire'[i] = IF i <= Len(wire) THEN wire[i] ELSE s[i - Len(wire)]
    BY <1>1
  <1>4. QED
    BY <1>2, <1>3 DEF Wrote

\* A report of activity is a message, and mute agents make none.
LEMMA ReportType ==
  ASSUME NEW a, NEW what \in Activities
  PROVE  /\ Activity(what) \in Messages /\ Activity(what).kind = "activity"
         /\ Activity(what).what = what /\ Activity(what).to = <<"none", 0>>
         /\ Reports(a, what) \in Seq(Messages)
         /\ a.reports = "never" => Reports(a, what) = <<>> /\ Len(Reports(a, what)) = 0
         /\ a.reports # "never" => /\ Reports(a, what) = <<Activity(what)>>
                                   /\ Len(Reports(a, what)) = 1
                                   /\ Reports(a, what)[1] = Activity(what)
  <1>1. /\ Activity(what) \in Messages /\ Activity(what).kind = "activity"
        /\ Activity(what).what = what /\ Activity(what).to = <<"none", 0>>
    BY DEF Activity, Messages
  <1>2. <<>> \in Seq(Messages) /\ Len(<<>>) = 0
    OBVIOUS
  <1>3. ASSUME NEW m \in Messages
        PROVE  <<m>> \in Seq(Messages) /\ Len(<<m>>) = 1 /\ <<m>>[1] = m
    OBVIOUS
  <1>4. QED
    BY <1>1, <1>2, <1>3 DEF Reports

\* A response is a message.
LEMMA ResponseType ==
  /\ \A n \in Inputs, how \in PromptEnds :
       LET m == Response(<<"prompt", n>>, how) IN
       /\ m \in Messages /\ m.kind = "response" /\ m.what = how /\ m.to = <<"prompt", n>>
  /\ \A n \in Inputs, how \in SteerEnds :
       LET m == Response(<<"steer", n>>, how) IN
       /\ m \in Messages /\ m.kind = "response" /\ m.what = how /\ m.to = <<"steer", n>>
  BY DEF Response, Messages

\* Messages for a task are responses to it.
LEMMA MessageFacts ==
  \A m \in Messages :
    /\ m.kind \in {"activity", "response"}
    /\ m.kind = "activity" => m.what \in Activities /\ m.to = <<"none", 0>> /\ m.to \notin Tasks
    /\ m.kind = "response" => /\ m.to \in Tasks /\ m.what \in Ends(m.to)
                              /\ m.what \notin {"none", "lost"} /\ m.what # "active"
    /\ m.to \in Tasks => m.kind = "response"
  BY DEF Messages, Ends, Tasks, PromptEnds, SteerEnds

\* What is on the wire to a task, before and after.
Same(t) == (Wired(t)' <=> Wired(t)) /\ \A how \in AllEnds : OnWire(t, how)' <=> OnWire(t, how)
Silences == \A t \in Tasks : Same(t)
Tells(u, said) ==
    /\ \A t \in Tasks : t # u => Same(t)
    /\ Wired(u)'
    /\ \A how \in AllEnds : OnWire(u, how)' => OnWire(u, how) \/ how = said

\* Nothing changes for a task to which nothing is written.
LEMMA WroteOthers ==
  ASSUME NEW s, Wrote(s), NEW t \in Tasks, \A i \in 1..Len(s) : s[i].to # t
  PROVE  Same(t)
  <1>1. ASSUME NEW i \in 1..Len(wire), wire[i].to = t
        PROVE  i \in 1..Len(wire') /\ wire'[i].to = t /\ wire'[i].what = wire[i].what
    BY <1>1 DEF Wrote
  <1>2. ASSUME NEW i \in 1..Len(wire'), wire'[i].to = t
        PROVE  i \in 1..Len(wire) /\ wire[i].to = t /\ wire[i].what = wire'[i].what
    BY <1>2 DEF Wrote
  <1>3. Wired(t)' <=> Wired(t)
    BY <1>1, <1>2 DEF Wired
  <1>4. ASSUME NEW how \in AllEnds PROVE OnWire(t, how)' <=> OnWire(t, how)
    BY <1>1, <1>2 DEF OnWire
  <1>5. QED
    BY <1>3, <1>4 DEF Same

\* A report of activity answers no task.
LEMMA WroteActivity ==
  ASSUME NEW s, Wrote(s), \A i \in 1..Len(s) : s[i].to \notin Tasks
  PROVE  Silences
  BY WroteOthers DEF Silences

\* A response answers its own task alone.
LEMMA WroteResponse ==
  ASSUME NEW s, Wrote(s), NEW u \in Tasks, NEW said, NEW k \in 1..Len(s),
         s[k].to = u, s[k].what = said,
         \A i \in 1..Len(s) : i # k => s[i].to \notin Tasks
  PROVE  Tells(u, said)
  <1>1. \A t \in Tasks : t # u => Same(t)
    BY WroteOthers
  <1>2. Wired(u)'
    <2>1. Len(wire) + k \in 1..Len(wire') /\ wire'[Len(wire) + k].to = u
      BY DEF Wrote
    <2>2. QED
      BY <2>1 DEF Wired
  <1>3. ASSUME NEW how \in AllEnds, OnWire(u, how)' PROVE OnWire(u, how) \/ how = said
    <2>1. PICK i \in 1..Len(wire') : wire'[i].to = u /\ wire'[i].what = how
      BY <1>3 DEF OnWire
    <2>2. CASE i \in 1..Len(wire)
      BY <2>1, <2>2 DEF Wrote, OnWire
    <2>3. CASE i - Len(wire) \in 1..Len(s) /\ wire'[i] = s[i - Len(wire)]
      BY <2>1, <2>3
    <2>4. QED
      BY <2>2, <2>3 DEF Wrote
  <1>4. QED
    BY <1>1, <1>2, <1>3 DEF Tells

\* A wire that does not change answers no task.
LEMMA UnwrittenWire == ASSUME UNCHANGED wire PROVE Silences
  BY DEF Silences, Same, Wired, OnWire

\* A message that has been read is gone, the others are where they were.
ReadFor(u) ==
    /\ \A t \in Tasks : /\ Wired(t)' => Wired(t)
                        /\ \A how \in AllEnds : OnWire(t, how)' => OnWire(t, how)
    /\ \A t \in Tasks : t # u => Same(t)

\* A message that is read was for one task at most.
LEMMA ReadKeeps == ASSUME ReadOne PROVE ReadFor(wire[1].to)
  <1>1. ASSUME NEW t \in Tasks, NEW i \in 1..Len(wire'), wire'[i].to = t
        PROVE  i + 1 \in 1..Len(wire) /\ wire[i + 1].to = t /\ wire[i + 1].what = wire'[i].what
    BY <1>1 DEF ReadOne
  <1>2. ASSUME NEW t \in Tasks, t # wire[1].to, NEW i \in 1..Len(wire), wire[i].to = t
        PROVE  i - 1 \in 1..Len(wire') /\ wire'[i - 1].to = t /\ wire'[i - 1].what = wire[i].what
    BY <1>2 DEF ReadOne
  <1>3. ASSUME NEW t \in Tasks
        PROVE  /\ Wired(t)' => Wired(t)
               /\ \A how \in AllEnds : OnWire(t, how)' => OnWire(t, how)
    BY <1>1 DEF Wired, OnWire
  <1>4. ASSUME NEW t \in Tasks, t # wire[1].to PROVE Same(t)
    <2>1. Wired(t) => Wired(t)'
      BY <1>2, <1>4 DEF Wired
    <2>2. ASSUME NEW how \in AllEnds, OnWire(t, how) PROVE OnWire(t, how)'
      BY <1>2, <1>4, <2>2 DEF OnWire
    <2>3. QED
      BY <1>3, <2>1, <2>2 DEF Same
  <1>5. QED
    BY <1>3, <1>4 DEF ReadFor

\* A message is a sequence of messages.
LEMMA OneMessage ==
  ASSUME NEW m \in Messages
  PROVE  <<m>> \in Seq(Messages) /\ Len(<<m>>) = 1 /\ <<m>>[1] = m
  OBVIOUS

\* Two messages are a sequence of messages.
LEMMA TwoMessages ==
  ASSUME NEW m \in Messages, NEW k \in Messages
  PROVE  LET s == <<m>> \o <<k>> IN
         s \in Seq(Messages) /\ Len(s) = 2 /\ s[1] = m /\ s[2] = k
  OBVIOUS

\* What an activity report, if the agent makes it, leaves on the wire.
LEMMA ReportWritten ==
  ASSUME Typed, NEW what \in Activities, wire' = wire \o Reports(agent, what)
  PROVE  /\ Wrote(Reports(agent, what)) /\ Silences
         /\ \A i \in 1..Len(Reports(agent, what)) : Reports(agent, what)[i] = Activity(what)
  <1> DEFINE s == Reports(agent, what)
  <1>1. s \in Seq(Messages) /\ \A i \in 1..Len(s) : s[i] = Activity(what)
    BY ReportType
  <1>2. Wrote(s)
    BY <1>1, AppendWrites
  <1>3. Activity(what).to \notin Tasks
    BY ReportType, TaskFacts
  <1>4. Silences
    BY <1>1, <1>2, <1>3, WroteActivity
  <1>5. QED
    BY <1>1, <1>2, <1>4

\* What an agent writes that begins a prompt.
LEMMA BeginsWrites ==
  ASSUME Typed, AgentBegins
  PROVE  wire' = wire \o Reports(agent, "active") /\ Silences
  <1>1. wire' = wire \o Reports(agent, "active")
    BY DEF AgentBegins, AgentStep
  <1>2. "active" \in Activities
    BY DEF Activities
  <1>3. QED
    BY <1>1, <1>2, ReportWritten

\* What an agent writes that announces a turn.
LEMMA AnnouncesWrites ==
  ASSUME Typed, AgentAnnounces
  PROVE  wire' = wire \o Reports(agent, "active") /\ Silences
  <1>1. wire' = wire \o Reports(agent, "active")
    BY DEF AgentAnnounces, AgentStep
  <1>2. "active" \in Activities
    BY DEF Activities
  <1>3. QED
    BY <1>1, <1>2, ReportWritten

\* An agent that takes steering input writes nothing yet.
LEMMA ConsumesWrites == ASSUME Typed, NEW n \in Inputs, AgentConsumes(n)
                        PROVE  wire' = wire /\ Silences
  <1>1. wire' = wire \o <<>> /\ wire \in Seq(Messages)
    BY DEF AgentConsumes, AgentStep, Typed, WorldOK
  <1>2. wire' = wire
    BY <1>1
  <1>3. QED
    BY <1>2, UnwrittenWire

\* The answer to steering.
Replies(n, how) ==
    /\ how \in SteerEnds /\ how # "lost"
    /\ link = "up" /\ agent' = [agent EXCEPT !.asked[n] = "none"]
    /\ wire' = wire \o <<Response(<<"steer", n>>, how)>>
    /\ Tells(<<"steer", n>>, how)
    /\ \/ how = agent.asked[n] /\ how \in {"injected", "started"}
       \/ /\ agent.asked[n] = "new" /\ agent.queue = {} /\ how \in {"refused", "failed", "required"}
          /\ how = "required" => agent.running = 0 /\ agent.leaves

\* What an agent writes that answers steering.
LEMMA AnswersWrites ==
  ASSUME Typed, NEW n \in Inputs, AgentAnswers(n)
  PROVE  \E how \in SteerEnds : Replies(n, how)
  <1> DEFINE Sent(how) == /\ link = "up" /\ agent' = [agent EXCEPT !.asked[n] = "none"]
                          /\ wire' = wire \o <<Response(<<"steer", n>>, how)>>
  <1>1. PICK how \in SteerEnds :
          /\ Sent(how)
          /\ \/ how = agent.asked[n] /\ how \in {"injected", "started"}
             \/ /\ agent.asked[n] = "new" /\ agent.queue = {} /\ how \in {"refused", "failed", "required"}
                /\ how = "required" => agent.running = 0 /\ agent.leaves
    <2>1. CASE agent.asked[n] \in {"injected", "started"}
      <3>1. Sent(agent.asked[n])
        BY <2>1, Zenon DEF AgentAnswers, AgentStep
      <3>2. QED
        BY <2>1, <3>1 DEF SteerEnds
    <2>2. CASE agent.asked[n] \notin {"injected", "started"} /\ agent.asked[n] = "new" /\ agent.queue = {}
      <3>1. \/ Sent("refused") \/ Sent("failed")
            \/ agent.running = 0 /\ agent.leaves /\ Sent("required")
        BY <2>2, Zenon DEF AgentAnswers, AgentStep
      <3>2. QED
        BY <2>2, <3>1 DEF SteerEnds
    <2>3. CASE agent.asked[n] \notin {"injected", "started"} /\ ~(agent.asked[n] = "new" /\ agent.queue = {})
      BY <2>3, Zenon DEF AgentAnswers
    <2>4. QED
      BY <2>1, <2>2, <2>3
  <1> DEFINE r == Response(<<"steer", n>>, how)
  <1>2. r \in Messages /\ r.to = <<"steer", n>> /\ r.what = how
    BY ResponseType
  <1>3. <<r>> \in Seq(Messages) /\ Len(<<r>>) = 1 /\ <<r>>[1] = r
    BY <1>2, OneMessage
  <1>4. Wrote(<<r>>)
    BY <1>1, <1>3, AppendWrites
  <1> HIDE DEF r
  <1>5. Tells(<<"steer", n>>, how)
    <2>1. 1 \in 1..Len(<<r>>)
      BY <1>3
    <2>4. <<"steer", n>> \in Tasks
      BY TaskFacts
    <2>2. \A i \in 1..Len(<<r>>) : i # 1 => <<r>>[i].to \notin Tasks
      BY <1>3
    <2>3. QED
      BY <1>2, <1>3, <1>4, <2>1, <2>2, <2>4, WroteResponse
  <1>6. how # "lost"
    BY DEF SteerEnds
  <1>7. QED
    BY <1>1, <1>5, <1>6 DEF Replies, r

\* The end of a turn: of a prompt, which is answered, or of one of the agent's own.
EndsPrompt(n, how, s) ==
    /\ sent[n] > 0 /\ how \in PromptEnds /\ told' = [told EXCEPT ![n] = how]
    /\ Tells(<<"prompt", n>>, how)
    /\ wire' = wire \o s /\ Wrote(s)
    /\ \A i \in 1..Len(s) : \/ s[i] = Response(<<"prompt", n>>, how)
                            \/ s[i] = Activity("idle") /\ agent.reports # "never"
    /\ agent.reports # "never" => \E i \in 1..Len(s) : s[i] = Activity("idle")
    /\ \A i, j \in 1..Len(s) : s[i] = Response(<<"prompt", n>>, how)
                               /\ s[j] = Response(<<"prompt", n>>, how) => i = j
EndsOwn(n, how) ==
    /\ ~(sent[n] > 0) /\ how \in {"idle", "failed"} /\ told' = told
    /\ Silences /\ wire' = wire \o Reports(agent, how)

\* What an agent writes that ends a turn.
LEMMA EndsWrites ==
  ASSUME Typed, AgentEnds
  PROVE  /\ agent.running \in Inputs /\ agent.announced /\ link = "up"
         /\ agent' = [agent EXCEPT !.running = 0, !.announced = FALSE,
                                   !.cancelled = @ \ {agent.running}]
         /\ \/ \E how \in PromptEnds, s \in Seq(Messages) : EndsPrompt(agent.running, how, s)
            \/ \E how \in {"idle", "failed"} : EndsOwn(agent.running, how)
  <1> DEFINE n == agent.running
             idle == [agent EXCEPT !.running = 0, !.announced = FALSE, !.cancelled = @ \ {n}]
  <1>1. n \in Inputs /\ agent.announced /\ link = "up" /\ agent' = idle
    <2>1. link = "up" /\ agent' = idle
      BY Zenon DEF AgentEnds, AgentStep
    <2>2. n \in 0..MaxInputs /\ n # 0 /\ agent.announced
      BY DEF AgentEnds, Typed, WorldOK, AgentState
    <2>3. QED
      BY <2>1, <2>2 DEF Inputs
  <1>2. CASE sent[n] > 0
    <2> DEFINE result(how) == <<Response(<<"prompt", n>>, how)>>
               report == Reports(agent, "idle")
               s(how) == IF agent.reports = "before" THEN report \o result(how)
                         ELSE result(how) \o report
    <2>1. PICK how \in PromptEnds : wire' = wire \o s(how) /\ told' = [told EXCEPT ![n] = how]
      <3>1. PICK how \in {"end_turn", "error"} \cup (IF n \in agent.cancelled THEN {"cancelled"} ELSE {}) :
              wire' = wire \o s(how) /\ told' = [told EXCEPT ![n] = how]
        BY <1>2, Zenon DEF AgentEnds, AgentStep
      <3>2. how \in PromptEnds
        BY DEF PromptEnds
      <3>3. QED
        BY <3>1, <3>2
    <2> DEFINE r == Response(<<"prompt", n>>, how)
               a == Activity("idle")
    <2>2. /\ r \in Messages /\ r.to = <<"prompt", n>> /\ r.what = how /\ r.kind = "response"
          /\ a \in Messages /\ a.kind = "activity" /\ a.to = <<"none", 0>>
      <3>1. "idle" \in Activities
        BY DEF Activities
      <3>2. a \in Messages /\ a.kind = "activity" /\ a.to = <<"none", 0>>
        BY <3>1, ReportType
      <3>3. n \in Inputs /\ how \in PromptEnds
        BY <1>1
      <3>4. r \in Messages /\ r.to = <<"prompt", n>> /\ r.what = how /\ r.kind = "response"
        BY <3>3, ResponseType
      <3>5. QED
        BY <3>2, <3>4
    <2>3. agent.reports \in {"never", "before", "after"}
      BY DEF Typed, WorldOK, AgentState
    <2>4. r # a /\ <<"prompt", n>> \in Tasks /\ a.to \notin Tasks
      <3>1. r # a
        BY <2>2
      <3>2. <<"prompt", n>> \in Tasks /\ <<"none", 0>> \notin Tasks
        BY <1>1, TaskFacts
      <3>3. QED
        BY <2>2, <3>1, <3>2
    <2>5. ASSUME NEW q \in Seq(Messages), wire' = wire \o q, NEW k \in 1..Len(q), q[k] = r,
                 \A i \in 1..Len(q) : i # k => q[i] = a /\ agent.reports # "never",
                 agent.reports # "never" => \E i \in 1..Len(q) : i # k
          PROVE  EndsPrompt(n, how, q)
      <3>1. Wrote(q)
        BY <2>5, AppendWrites
      <3>2. Tells(<<"prompt", n>>, how)
        BY <2>2, <2>4, <2>5, <3>1, WroteResponse
      <3> HIDE DEF r, a
      <3>3. QED
        BY <1>2, <2>1, <2>4, <2>5, <3>1, <3>2 DEF EndsPrompt, r, a
    <2>6. \E q \in Seq(Messages) : EndsPrompt(n, how, q)
      <3>1. CASE agent.reports = "never"
        <4>1. s(how) = <<r>> \o <<>> /\ wire' = wire \o s(how)
          BY <2>1, <3>1 DEF Reports
        <4> HIDE DEF r, a
        <4> DEFINE q == <<r>>
        <4>2. q \in Seq(Messages) /\ Len(q) = 1 /\ q[1] = r /\ <<r>> \o <<>> = q
          BY <2>2
        <4> HIDE DEF q
        <4>3. 1 \in 1..Len(q) /\ \A i \in 1..Len(q) : i # 1 => q[i] = a /\ agent.reports # "never"
          BY <4>2
        <4>4. wire' = wire \o q
          BY <4>1, <4>2
        <4>5. EndsPrompt(n, how, q)
          BY <2>5, <3>1, <4>2, <4>3, <4>4
        <4>6. QED
          BY <4>2, <4>5
      <3>2. CASE agent.reports = "before"
        <4>1. s(how) = <<a>> \o <<r>> /\ wire' = wire \o s(how)
          BY <2>1, <3>2 DEF Reports
        <4> HIDE DEF r, a
        <4> DEFINE q == <<a>> \o <<r>>
        <4>2. q \in Seq(Messages) /\ Len(q) = 2 /\ q[1] = a /\ q[2] = r
          BY <2>2
        <4> HIDE DEF q
        <4>3. /\ 2 \in 1..Len(q) /\ \A i \in 1..Len(q) : i # 2 => q[i] = a
              /\ \E i \in 1..Len(q) : i # 2
          BY <4>2
        <4>4. wire' = wire \o q
          BY <4>1 DEF q
        <4>5. EndsPrompt(n, how, q)
          BY <2>5, <3>2, <4>2, <4>3, <4>4
        <4>6. QED
          BY <4>2, <4>5
      <3>3. CASE agent.reports = "after"
        <4>1. s(how) = <<r>> \o <<a>> /\ wire' = wire \o s(how)
          BY <2>1, <3>3 DEF Reports
        <4> HIDE DEF r, a
        <4> DEFINE q == <<r>> \o <<a>>
        <4>2. q \in Seq(Messages) /\ Len(q) = 2 /\ q[1] = r /\ q[2] = a
          BY <2>2
        <4> HIDE DEF q
        <4>3. /\ 1 \in 1..Len(q) /\ \A i \in 1..Len(q) : i # 1 => q[i] = a
              /\ \E i \in 1..Len(q) : i # 1
          BY <4>2
        <4>4. wire' = wire \o q
          BY <4>1 DEF q
        <4>5. EndsPrompt(n, how, q)
          BY <2>5, <3>3, <4>2, <4>3, <4>4
        <4>6. QED
          BY <4>2, <4>5
      <3>4. QED
        BY <2>3, <3>1, <3>2, <3>3
    <2>7. QED
      BY <1>1, <2>6
  <1>3. CASE ~(sent[n] > 0)
    <2>1. PICK how \in {"idle", "failed"} : wire' = wire \o Reports(agent, how) /\ told' = told
      BY <1>3, Zenon DEF AgentEnds, AgentStep
    <2>2. Silences
      <3>1. how \in Activities
        BY DEF Activities
      <3>2. QED
        BY <2>1, <3>1, ReportWritten
    <2>3. EndsOwn(n, how)
      BY <1>3, <2>1, <2>2 DEF EndsOwn
    <2>4. QED
      BY <1>1, <2>3
  <1>4. QED
    BY <1>2, <1>3

-----------------------------------------------------------------------------
(* What the steps do to the agent *)

\* A stop is noted by the agent, that goes on with what it does.
AgentKeeps ==
    /\ agent' \in AgentState
    /\ agent'.reports = agent.reports /\ agent'.leaves = agent.leaves
    /\ agent'.running = agent.running /\ agent'.announced = agent.announced
    /\ agent'.queue = agent.queue /\ agent'.asked = agent.asked

\* A cancel changes nothing but what the agent has cancelled.
LEMMA SendCancelDoes == ASSUME Typed, SendCancel \/ UNCHANGED agent PROVE AgentKeeps
  <1>1. agent \in AgentState
    BY DEF Typed, WorldOK
  <1>2. CASE agent' = agent
    BY <1>1, <1>2 DEF AgentKeeps
  <1>3. CASE agent' = Cancelled(agent)
    <2> DEFINE c == agent.cancelled \cup agent.queue \cup ({agent.running} \ {0})
    <2>1. c \in SUBSET Inputs
      BY <1>1 DEF AgentState, Inputs
    <2>2. agent' = [agent EXCEPT !.cancelled = c]
      BY <1>3 DEF Cancelled
    <2> HIDE DEF c
    <2>3. QED
      BY <1>1, <2>1, <2>2 DEF AgentState, AgentKeeps
  <1>4. QED
    BY <1>2, <1>3 DEF SendCancel

\* A prompt is queued, if the agent can be reached.
Queued(n) ==
    /\ agent' \in AgentState
    /\ agent'.reports = agent.reports /\ agent'.leaves = agent.leaves
    /\ agent'.running = agent.running /\ agent'.announced = agent.announced
    /\ agent'.asked = agent.asked
    /\ agent'.queue = IF link = "up" THEN agent.queue \cup {n} ELSE agent.queue

\* What a prompt that is sent does to the agent.
LEMMA QueuedIs ==
  ASSUME Typed, NEW n \in Inputs,
         agent' = IF link = "up" THEN [agent EXCEPT !.queue = @ \cup {n}] ELSE agent
  PROVE  Queued(n)
  <1>1. agent \in AgentState
    BY DEF Typed, WorldOK
  <1>2. QED
    BY <1>1 DEF AgentState, Queued

\* Steering is with the agent, or has its answer.
Consults(n, kind) ==
    /\ agent' \in AgentState
    /\ agent'.reports = agent.reports /\ agent'.leaves = agent.leaves
    /\ agent'.queue = agent.queue
    /\ agent'.asked = [agent.asked EXCEPT ![n] = kind]

\* What a steering request, and the answer to it, do to the agent.
LEMMA ConsultsIs ==
  ASSUME Typed, NEW n \in Inputs, NEW kind \in {"none", "new", "injected", "started"}
  PROVE  /\ agent' = [agent EXCEPT !.asked[n] = kind]
              => /\ Consults(n, kind)
                 /\ agent'.running = agent.running /\ agent'.announced = agent.announced
         /\ agent' = [agent EXCEPT !.asked[n] = kind, !.running = n, !.announced = FALSE]
              => Consults(n, kind) /\ agent'.running = n /\ agent'.announced = FALSE
  <1>1. agent \in AgentState
    BY DEF Typed, WorldOK
  <1>2. [agent.asked EXCEPT ![n] = kind] \in [Inputs -> {"none", "new", "injected", "started"}]
    BY <1>1 DEF AgentState
  <1>3. n \in 0..MaxInputs
    BY DEF Inputs
  <1> DEFINE asked == [agent.asked EXCEPT ![n] = kind]
             a == [agent EXCEPT !.asked = asked]
             b == [agent EXCEPT !.asked = asked, !.running = n, !.announced = FALSE]
  <1>4. asked \in [Inputs -> {"none", "new", "injected", "started"}]
    BY <1>2
  <1>5. /\ [agent EXCEPT !.asked[n] = kind] = a
        /\ [agent EXCEPT !.asked[n] = kind, !.running = n, !.announced = FALSE] = b
    OBVIOUS
  <1>6. asked = [agent.asked EXCEPT ![n] = kind]
    OBVIOUS
  <1> HIDE DEF asked
  <1>7. a \in AgentState /\ b \in AgentState
    BY <1>1, <1>3, <1>4, Zenon DEF AgentState
  <1>8. /\ a.reports = agent.reports /\ a.leaves = agent.leaves /\ a.queue = agent.queue
        /\ a.asked = asked /\ a.running = agent.running /\ a.announced = agent.announced
        /\ b.reports = agent.reports /\ b.leaves = agent.leaves /\ b.queue = agent.queue
        /\ b.asked = asked /\ b.running = n /\ b.announced = FALSE
    BY <1>1 DEF AgentState
  <1> HIDE DEF a, b
  <1>9. QED
    BY <1>5, <1>6, <1>7, <1>8 DEF Consults

\* The agent takes up a prompt of its queue.
AfterBegins ==
    \E n \in Inputs :
      /\ link = "up" /\ agent.running = 0 /\ n \in agent.queue
      /\ agent' \in AgentState
      /\ agent'.reports = agent.reports /\ agent'.leaves = agent.leaves
      /\ agent'.asked = agent.asked
      /\ agent'.running = n /\ agent'.announced /\ agent'.queue = agent.queue \ {n}

\* What the agent does that begins a prompt.
LEMMA BeginsDoes == ASSUME Typed, AgentBegins PROVE AfterBegins
  <1>1. agent \in AgentState
    BY DEF Typed, WorldOK
  <1>2. PICK n \in agent.queue :
          /\ link = "up"
          /\ agent' = [agent EXCEPT !.running = n, !.queue = @ \ {n}, !.announced = TRUE]
    BY Zenon DEF AgentBegins, AgentStep
  <1>3. n \in Inputs /\ n \in 0..MaxInputs
    BY <1>1 DEF AgentState, Inputs
  <1>4. agent.running = 0
    BY DEF AgentBegins
  <1>5. QED
    BY <1>1, <1>2, <1>3, <1>4 DEF AgentState, AfterBegins

\* The agent ends its turn, or reports that it has begun.
AfterEnds ==
    /\ agent' \in AgentState
    /\ agent'.reports = agent.reports /\ agent'.leaves = agent.leaves
    /\ agent'.queue = agent.queue /\ agent'.asked = agent.asked
    /\ agent'.running = 0 /\ agent'.announced = FALSE

\* What the agent does that ends a turn.
LEMMA EndsDoes ==
  ASSUME Typed, agent' = [agent EXCEPT !.running = 0, !.announced = FALSE,
                                       !.cancelled = @ \ {agent.running}]
  PROVE  AfterEnds
  <1>1. agent \in AgentState
    BY DEF Typed, WorldOK
  <1>2. QED
    BY <1>1, ZeroType DEF AgentState, AfterEnds

AfterAnnounces ==
    /\ link = "up" /\ agent.running # 0 /\ agent.announced = FALSE
    /\ agent' \in AgentState
    /\ agent'.reports = agent.reports /\ agent'.leaves = agent.leaves
    /\ agent'.queue = agent.queue /\ agent'.asked = agent.asked
    /\ agent'.running = agent.running /\ agent'.announced

\* What the agent does that announces a turn.
LEMMA AnnouncesDoes == ASSUME Typed, AgentAnnounces PROVE AfterAnnounces
  <1>1. agent \in AgentState
    BY DEF Typed, WorldOK
  <1>2. QED
    BY <1>1 DEF AgentState, AgentAnnounces, AgentStep, AfterAnnounces

AfterConsumes(n) ==
    /\ link = "up" /\ agent.asked[n] = "new" /\ agent.queue = {}
    /\ \/ /\ agent.running # 0
          /\ Consults(n, "injected")
          /\ agent'.running = agent.running /\ agent'.announced = agent.announced
       \/ /\ agent.running = 0 /\ ~agent.leaves
          /\ Consults(n, "started") /\ agent'.running = n /\ agent'.announced = FALSE

\* What the agent does that takes steering input.
LEMMA ConsumesDoes == ASSUME Typed, NEW n \in Inputs, AgentConsumes(n) PROVE AfterConsumes(n)
  <1>1. CASE agent.running # 0
    <2>1. agent' = [agent EXCEPT !.asked[n] = "injected"]
      BY <1>1 DEF AgentConsumes, AgentStep
    <2>2. QED
      BY <1>1, <2>1, ConsultsIs DEF AgentConsumes, AgentStep, AfterConsumes
  <1>2. CASE agent.running = 0
    <2>1. /\ ~agent.leaves
          /\ agent' = [agent EXCEPT !.asked[n] = "started", !.running = n, !.announced = FALSE]
      BY <1>2 DEF AgentConsumes, AgentStep
    <2>2. QED
      BY <1>2, <2>1, ConsultsIs DEF AgentConsumes, AgentStep, AfterConsumes
  <1>3. QED
    BY <1>1, <1>2

\* A connection that breaks, or the adapter that is started again, has nothing to do.
LEMMA IdleAgent ==
  ASSUME Typed, NEW a, a = Agent(agent.reports, agent.leaves)
  PROVE  /\ a \in AgentState
         /\ a.reports = agent.reports /\ a.leaves = agent.leaves
         /\ a.running = 0 /\ a.announced = FALSE /\ a.queue = {}
         /\ \A n \in Inputs : a.asked[n] = "none"
  <1>1. agent \in AgentState
    BY DEF Typed, WorldOK
  <1>2. QED
    BY <1>1, ZeroType DEF AgentState, Agent

-----------------------------------------------------------------------------
(* The types *)

\* What the dispatcher does with the message it reads.
AfterRead ==
    /\ ReadOne
    /\ \/ /\ wire[1].kind = "activity" /\ wire[1].what \in Activities /\ answer' = answer
          /\ IF route THEN AfterReport(wire[1].what) ELSE thread' = thread
       \/ /\ wire[1].kind = "response" /\ wire[1].to \in Tasks
          /\ wire[1].what \in Ends(wire[1].to)
          /\ answer' = [answer EXCEPT ![wire[1].to] = wire[1].what] /\ thread' = thread

\* What a message does to the snapshot that is read.
LEMMA ReadDoes == ASSUME Typed, TurnInv, Receive PROVE AfterRead
  <1> DEFINE m == wire[1]
  <1>1. ReadOne
    BY ReceiveReads
  <1>2. m \in Messages /\ Head(wire) = m
    BY <1>1 DEF ReadOne
  <1>3. IF m.kind = "activity"
        THEN /\ thread' = IF route THEN Updated(ObserveActivity(thread, m.what)) ELSE thread
             /\ UNCHANGED answer
        ELSE answer' = [answer EXCEPT ![m.to] = m.what] /\ UNCHANGED thread
    BY <1>2, Zenon DEF Receive
  <1> HIDE DEF m
  <1>4. CASE m.kind = "activity"
    <2>1. m.what \in Activities
      BY <1>2, <1>4, MessageFacts
    <2>2. route => AfterReport(m.what)
      BY <1>3, <1>4, <2>1, ReportDoes
    <2>3. QED
      BY <1>1, <1>3, <1>4, <2>1, <2>2 DEF AfterRead, m
  <1>5. CASE m.kind # "activity"
    <2>1. m.kind = "response" /\ m.to \in Tasks /\ m.what \in Ends(m.to)
      BY <1>2, <1>5, MessageFacts
    <2>2. QED
      BY <1>1, <1>3, <1>5, <2>1 DEF AfterRead, m
  <1>6. QED
    BY <1>4, <1>5

ThreadOK == thread \in Snapshot /\ (thread.pending.terminal # "none" => thread.pending.sawActive)
PlacesOK ==
    /\ inputs \in 0..MaxInputs /\ first \in 1..MaxInputs + 1
    /\ pc \in [Tasks -> {"none", "waiting", "peek", "cancel", "start", "done"}]
    /\ captured \in [Tasks -> 0..MaxInputs]
    /\ stops.unsent <= stops.made /\ stops.made <= MaxStops
    /\ route \in BOOLEAN /\ closing \in BOOLEAN
    /\ link \in {"up", "broken", "stopped", "handled"}

\* The parts of the types.
LEMMA TypeSplit == Typed => ThreadOK /\ PlacesOK /\ stops \in [made : Nat, unsent : Nat]
  BY DEF Typed, TypeOK, ThreadOK, PlacesOK, WorldOK

\* The snapshot keeps its type.
LEMMA ThreadStep == Typed /\ TurnInv /\ StatusInv /\ LeavesInv /\ [Next]_vars => ThreadOK'
  <1> SUFFICES ASSUME Typed, TurnInv, StatusInv, LeavesInv, [Next]_vars PROVE ThreadOK'
    OBVIOUS
  <1>1. ASSUME Prompt PROVE ThreadOK'
    BY <1>1, PromptDoes, TypeSplit
       DEF AfterPrompt, Begins, ThreadOK
  <1>2. ASSUME PromptUnsaved PROVE ThreadOK'
    BY <1>2, PromptUnsavedDoes, TypeSplit
       DEF Unmoved, ThreadOK
  <1>3. ASSUME Steer PROVE ThreadOK'
    BY <1>3, SteerDoes, TypeSplit
       DEF AfterSteer, ThreadOK
  <1>4. ASSUME Stop PROVE ThreadOK'
    <2>1. CASE thread.pending.required
      BY <1>4, <2>1, StopDoes DEF AfterStop, GivenUp, NoPending, ThreadOK
    <2>2. CASE ~thread.pending.required
      BY <1>4, <2>2, StopDoes, TypeSplit DEF AfterStop, Snapshot, PendingSteer, ThreadOK
    <2>3. QED
      BY <2>1, <2>2
  <1>5. ASSUME Reopen PROVE ThreadOK'
    BY <1>5, ReopenDoes
       DEF Anew, NoPending, ThreadOK
  <1>6. ASSUME NEW n \in Inputs, PromptResult(n) PROVE ThreadOK'
    BY <1>6, PromptResultDoes, TypeSplit
       DEF AfterResult, ThreadOK
  <1>7. ASSUME NEW n \in Inputs, SteerAnswer(n) PROVE ThreadOK'
    <2>1. AfterAnswer(n)
      BY <1>7, SteerAnswerDoes
    <2>2. thread' \in Snapshot /\ thread.pending \in PendingSteer
      BY <2>1, TypeSplit DEF AfterAnswer, ThreadOK, Snapshot
    <2>3. \/ thread'.pending = NoPending
          \/ thread'.pending = [thread.pending EXCEPT !.required = TRUE]
      BY <2>1 DEF AfterAnswer
    <2>4. QED
      BY <2>2, <2>3, TypeSplit DEF ThreadOK, PendingSteer, NoPending
  <1>8. ASSUME NEW t \in Tasks, FallbackStart(t) PROVE ThreadOK'
    BY <1>8, FallbackStartDoes
       DEF AfterFallback, NoPending, ThreadOK
  <1>9. ASSUME NEW t \in Tasks, FallbackRefused(t) PROVE ThreadOK'
    <2>1. CASE thread.pending.id = captured[t]
      BY <1>9, <2>1, FallbackRefusedDoes DEF AfterRefusal, GivenUp, NoPending, ThreadOK
    <2>2. CASE thread.pending.id # captured[t]
      BY <1>9, <2>2, FallbackRefusedDoes, TypeSplit DEF AfterRefusal, ThreadOK
    <2>3. QED
      BY <2>1, <2>2
  <1>10. ASSUME Closed PROVE ThreadOK'
    BY <1>10, ClosedDoes
       DEF AfterSilence, NoPending, ThreadOK
  <1>11. ASSUME Receive PROVE ThreadOK'
    <2>1. AfterRead
      BY <1>11, ReadDoes
    <2>2. CASE wire[1].kind = "activity" /\ route
      <3>1. AfterReport(wire[1].what) /\ wire[1].what \in Activities
        BY <2>1, <2>2 DEF AfterRead
      <3>2. thread.pending \in PendingSteer
        BY TypeSplit DEF ThreadOK, Snapshot
      <3>3. PendingSees(thread.pending, wire[1].what).terminal # "none"
              => PendingSees(thread.pending, wire[1].what).sawActive
        BY <3>1, <3>2, PendingSeesIs, TypeSplit DEF ThreadOK
      <3>4. QED
        BY <3>1, <3>3, TypeSplit DEF AfterReport, ThreadOK
    <2>3. CASE ~(wire[1].kind = "activity" /\ route)
      BY <2>1, <2>3, TypeSplit DEF AfterRead, ThreadOK
    <2>4. QED
      BY <2>2, <2>3
  <1>12. ASSUME ConnectionLost PROVE ThreadOK'
    BY <1>12, ConnectionLostDoes, TypeSplit
       DEF AfterSilence, NoPending, ThreadOK
  <1>13. ASSUME UNCHANGED thread PROVE ThreadOK'
    BY <1>13, TypeSplit
       DEF ThreadOK
  <1> QED
    BY <1>1, <1>2, <1>3, <1>4, <1>5, <1>6, <1>7, <1>8, <1>9, <1>10, <1>11, <1>12, <1>13
       DEF Next, User, Settling, Task, AgentNext, Close, Break, PromptResultLate,
           SteerAnswerLate, CancelAgain, Peek, StopSent, CloseFails, StopConnection,
           AgentBegins, AgentEnds, AgentAnnounces, AgentConsumes, AgentAnswers, SendCancel,
           Goto, AgentStep, AgentFrame, vars, taskVars, logVars

\* The tasks and the connection keep their types.
LEMMA PlacesStep == Typed /\ StatusInv /\ [Next]_vars => PlacesOK'
  <1> SUFFICES ASSUME Typed, StatusInv, [Next]_vars PROVE PlacesOK'
    OBVIOUS
  <1>1. ASSUME Prompt PROVE PlacesOK'
    <2>1. inputs + 1 \in Inputs
      BY <1>1, PromptDoes DEF AfterPrompt
    <2>2. inputs' = inputs + 1
      BY <1>1, Zenon DEF Prompt
    <2>3. inputs' \in 0..MaxInputs
      BY <2>1, <2>2 DEF Inputs
    <2>4. <<"prompt", inputs + 1>> \in Tasks
      BY <2>1, TaskFacts
    <2>5. QED
      BY <1>1, <2>3, <2>4, TypeSplit, Zenon DEF Prompt, SendPrompt, Asked, PlacesOK
  <1>2. ASSUME Steer PROVE PlacesOK'
    <2>1. inputs + 1 \in Inputs
      BY <1>2, SteerDoes DEF AfterSteer
    <2>2. inputs' = inputs + 1
      BY <1>2, Zenon DEF Steer
    <2>3. inputs' \in 0..MaxInputs
      BY <2>1, <2>2 DEF Inputs
    <2>4. <<"steer", inputs + 1>> \in Tasks
      BY <2>1, TaskFacts
    <2>5. QED
      BY <1>2, <2>3, <2>4, TypeSplit, Zenon DEF Steer, Asked, PlacesOK
  <1>3. ASSUME Stop PROVE PlacesOK'
    <2>1. /\ stops.made < MaxStops /\ stops' = [made |-> stops.made + 1, unsent |-> stops.unsent + 1]
          /\ UNCHANGED <<inputs, first, pc, captured, closing, route, link>>
      BY <1>3, Zenon DEF Stop, taskVars
    <2>2. QED
      BY <2>1, TypeSplit, TurnsAssumption DEF PlacesOK
  <1>4. ASSUME Close PROVE PlacesOK'
    BY <1>4, TypeSplit
       DEF Close, taskVars, PlacesOK
  <1>5. ASSUME Reopen PROVE PlacesOK'
    <2>1. /\ first' = inputs + 1 /\ route' = TRUE /\ link' \in {link, "up"}
          /\ UNCHANGED <<inputs, pc, captured, stops, closing>>
      BY <1>5 DEF Reopen, taskVars
    <2>2. QED
      BY <2>1, TypeSplit, TurnsAssumption DEF PlacesOK
  <1>6. ASSUME Break PROVE PlacesOK'
    BY <1>6, TypeSplit
       DEF Break, PlacesOK
  <1>7. ASSUME NEW n \in Inputs, PromptResult(n) PROVE PlacesOK'
    <2>1. /\ pc' = [pc EXCEPT ![<<"prompt", n>>] = "peek"]
          /\ captured' = [captured EXCEPT ![<<"prompt", n>>] = 0]
          /\ UNCHANGED <<inputs, first, stops, closing, route, link>>
      BY <1>7, Zenon DEF PromptResult, Goto
    <2>2. QED
      BY <2>1, TypeSplit, ZeroType DEF PlacesOK
  <1>8. ASSUME NEW n \in Inputs, PromptResultLate(n) PROVE PlacesOK'
    BY <1>8, TypeSplit, ZeroType
       DEF PromptResultLate, Goto, PlacesOK
  <1>9. ASSUME NEW n \in Inputs, SteerAnswer(n) PROVE PlacesOK'
    <2>1. /\ pc' = [pc EXCEPT ![<<"steer", n>>] = "peek"] \/ pc' = [pc EXCEPT ![<<"steer", n>>] = "cancel"]
          /\ captured' = [captured EXCEPT ![<<"steer", n>>] = 0]
          /\ UNCHANGED <<inputs, first, stops, closing, route, link>>
      BY <1>9, Zenon DEF SteerAnswer, Goto
    <2>2. QED
      BY <2>1, TypeSplit, ZeroType DEF PlacesOK
  <1>10. ASSUME NEW n \in Inputs, SteerAnswerLate(n) PROVE PlacesOK'
    BY <1>10, TypeSplit, ZeroType
       DEF SteerAnswerLate, Goto, PlacesOK
  <1>11. ASSUME NEW n \in Inputs, CancelAgain(n) PROVE PlacesOK'
    BY <1>11, TypeSplit, ZeroType
       DEF CancelAgain, Goto, PlacesOK
  <1>12. ASSUME NEW t \in Tasks, Peek(t) PROVE PlacesOK'
    BY <1>12, TypeSplit, ZeroType
       DEF Peek, ThreadOK, Snapshot, PendingSteer, PlacesOK
  <1>13. ASSUME NEW t \in Tasks, FallbackStart(t) PROVE PlacesOK'
    <2>1. captured[t] \in Inputs
      BY <1>13, FallbackStartDoes DEF AfterFallback
    <2>2. /\ pc' = [pc EXCEPT ![t] = "done", ![<<"prompt", captured[t]>>] = "waiting"]
          /\ captured' = [captured EXCEPT ![t] = 0]
          /\ UNCHANGED <<inputs, first, stops, closing, route, link>>
      BY <1>13, Zenon DEF FallbackStart
    <2>3. QED
      BY <2>1, <2>2, TypeSplit, ZeroType DEF PlacesOK
  <1>14. ASSUME NEW t \in Tasks, FallbackRefused(t) PROVE PlacesOK'
    <2>1. /\ pc' = [pc EXCEPT ![t] = "done"] /\ captured' = [captured EXCEPT ![t] = 0]
          /\ UNCHANGED <<inputs, first, stops, closing, route, link>>
      BY <1>14, Zenon DEF FallbackRefused, Goto
    <2>2. QED
      BY <2>1, TypeSplit, ZeroType DEF PlacesOK
  <1>15. ASSUME StopSent PROVE PlacesOK'
    <2>1. /\ stops.unsent > 0 /\ stops' = [stops EXCEPT !.unsent = @ - 1]
          /\ UNCHANGED <<inputs, first, pc, captured, closing, route, link>>
      BY <1>15, Zenon DEF StopSent, taskVars
    <2>2. QED
      BY <2>1, TypeSplit, TurnsAssumption DEF PlacesOK
  <1>16. ASSUME Closed PROVE PlacesOK'
    BY <1>16, TypeSplit
       DEF Closed, taskVars, PlacesOK
  <1>17. ASSUME CloseFails PROVE PlacesOK'
    BY <1>17, TypeSplit
       DEF CloseFails, taskVars, PlacesOK
  <1>18. ASSUME StopConnection PROVE PlacesOK'
    BY <1>18, TypeSplit
       DEF StopConnection, taskVars, PlacesOK
  <1>19. ASSUME ConnectionLost PROVE PlacesOK'
    BY <1>19, TypeSplit
       DEF ConnectionLost, taskVars, PlacesOK
  <1>20. ASSUME UNCHANGED <<inputs, first, pc, captured, stops, closing, route, link>>
           PROVE PlacesOK'
    BY <1>20, TypeSplit
       DEF PlacesOK
  <1> QED
    BY <1>1, <1>2, <1>3, <1>4, <1>5, <1>6, <1>7, <1>8, <1>9, <1>10, <1>11, <1>12, <1>13,
       <1>14, <1>15, <1>16, <1>17, <1>18, <1>19, <1>20
       DEF Next, User, Settling, Task, AgentNext, PromptUnsaved, Receive, AgentBegins,
           AgentEnds, AgentAnnounces, AgentConsumes, AgentAnswers, AgentStep, AgentFrame,
           vars, taskVars, logVars

AgentOK == agent \in AgentState
WireOK == wire \in Seq(Messages)
AnswerOK == /\ answer \in [Tasks -> PromptEnds \cup SteerEnds \cup {"none", "lost"}]
            /\ \A t \in Tasks : answer[t] \in Ends(t) \cup {"none", "lost"}
LogsOK == /\ sent \in [Inputs -> Nat] /\ consumed \in [Inputs -> Nat] /\ reported \in [Inputs -> Nat]
          /\ told \in [Inputs -> PromptEnds \cup {"none"}] /\ stopped \subseteq Inputs
          /\ stops \in [made : Nat, unsent : Nat]

\* The parts of the types of the world.
LEMMA WorldSplit == WorldOK <=> AgentOK /\ WireOK /\ AnswerOK /\ LogsOK
  BY DEF WorldOK, AgentOK, WireOK, AnswerOK, LogsOK

\* The agent keeps its type.
LEMMA AgentStepTyped == Typed /\ StatusInv /\ [Next]_vars => AgentOK'
  <1> SUFFICES ASSUME Typed, StatusInv, [Next]_vars PROVE AgentOK'
    OBVIOUS
  <1>1. ASSUME Prompt PROVE AgentOK'
    <2>1. inputs + 1 \in Inputs
      BY <1>1, PromptDoes DEF AfterPrompt
    <2>2. Queued(inputs + 1)
      BY <1>1, <2>1, QueuedIs DEF Prompt, SendPrompt
    <2>3. QED
      BY <2>2 DEF Queued, AgentOK
  <1>2. ASSUME Steer PROVE AgentOK'
    <2>1. inputs + 1 \in Inputs
      BY <1>2, SteerDoes DEF AfterSteer
    <2>2. CASE link = "up"
      BY <1>2, <2>1, <2>2, ConsultsIs DEF Steer, Consults, AgentOK
    <2>3. CASE link # "up"
      BY <1>2, <2>3 DEF Steer, AgentOK, Typed, WorldOK
    <2>4. QED
      BY <2>2, <2>3
  <1>3. ASSUME Close PROVE AgentOK'
    <2>1. SendCancel \/ UNCHANGED agent
      BY <1>3, Zenon DEF Close
    <2>2. QED
      BY <2>1, SendCancelDoes DEF AgentKeeps, AgentOK
  <1>4. ASSUME Break PROVE AgentOK'
    BY <1>4, IdleAgent
       DEF Break, AgentOK
  <1>5. ASSUME NEW n \in Inputs, CancelAgain(n) PROVE AgentOK'
    <2>1. SendCancel \/ UNCHANGED agent
      BY <1>5, Zenon DEF CancelAgain
    <2>2. QED
      BY <2>1, SendCancelDoes DEF AgentKeeps, AgentOK
  <1>6. ASSUME NEW t \in Tasks, FallbackStart(t) PROVE AgentOK'
    <2>1. captured[t] \in Inputs
      BY <1>6, FallbackStartDoes DEF AfterFallback
    <2>2. Queued(captured[t])
      BY <1>6, <2>1, QueuedIs DEF FallbackStart
    <2>3. QED
      BY <2>2 DEF Queued, AgentOK
  <1>7. ASSUME StopSent PROVE AgentOK'
    <2>1. SendCancel \/ UNCHANGED agent
      BY <1>7, Zenon DEF StopSent
    <2>2. QED
      BY <2>1, SendCancelDoes DEF AgentKeeps, AgentOK
  <1>8. ASSUME AgentBegins PROVE AgentOK'
    BY <1>8, BeginsDoes
       DEF AfterBegins, AgentOK
  <1>9. ASSUME AgentEnds PROVE AgentOK'
    BY <1>9, EndsWrites, EndsDoes
       DEF AfterEnds, AgentOK
  <1>10. ASSUME AgentAnnounces PROVE AgentOK'
    BY <1>10, AnnouncesDoes
       DEF AfterAnnounces, AgentOK
  <1>11. ASSUME NEW n \in Inputs, AgentConsumes(n) PROVE AgentOK'
    BY <1>11, ConsumesDoes
       DEF AfterConsumes, Consults, AgentOK
  <1>12. ASSUME NEW n \in Inputs, AgentAnswers(n) PROVE AgentOK'
    BY <1>12, AnswersWrites, ConsultsIs
       DEF Replies, Consults, AgentOK
  <1>13. ASSUME UNCHANGED agent PROVE AgentOK'
    BY <1>13
       DEF Typed, WorldOK, AgentOK
  <1> QED
    BY <1>1, <1>2, <1>3, <1>4, <1>5, <1>6, <1>7, <1>8, <1>9, <1>10, <1>11, <1>12, <1>13
       DEF Next, User, Settling, Task, AgentNext, PromptUnsaved, Stop, Reopen, PromptResult,
           PromptResultLate, SteerAnswer, SteerAnswerLate, Peek, FallbackRefused, Closed,
           CloseFails, Receive, StopConnection, ConnectionLost, Goto, vars, taskVars,
           logVars

\* The wire keeps its type.
LEMMA WireStepTyped == Typed /\ [Next]_vars => WireOK'
  <1> SUFFICES ASSUME Typed, [Next]_vars PROVE WireOK'
    OBVIOUS
  <1>1. ASSUME Break PROVE WireOK'
    BY <1>1
       DEF Break, WireOK
  <1>2. ASSUME Receive PROVE WireOK'
    BY <1>2, ReceiveReads
       DEF ReadOne, WireOK
  <1>3. ASSUME AgentBegins PROVE WireOK'
    <2>1. wire' = wire \o Reports(agent, "active") /\ "active" \in Activities
      BY <1>3, BeginsWrites DEF Activities
    <2>2. QED
      BY <2>1, ReportWritten DEF Wrote, WireOK
  <1>4. ASSUME AgentEnds PROVE WireOK'
    <2>1. CASE \E how \in PromptEnds, s \in Seq(Messages) : EndsPrompt(agent.running, how, s)
      BY <2>1 DEF EndsPrompt, Wrote, WireOK
    <2>2. CASE \E how \in {"idle", "failed"} : EndsOwn(agent.running, how)
      <3>1. PICK how \in {"idle", "failed"} : wire' = wire \o Reports(agent, how)
        BY <2>2 DEF EndsOwn
      <3>2. how \in Activities
        BY DEF Activities
      <3>3. QED
        BY <3>1, <3>2, ReportWritten DEF Wrote, WireOK
    <2>3. QED
      BY <1>4, <2>1, <2>2, EndsWrites
  <1>5. ASSUME AgentAnnounces PROVE WireOK'
    <2>1. wire' = wire \o Reports(agent, "active") /\ "active" \in Activities
      BY <1>5, AnnouncesWrites DEF Activities
    <2>2. QED
      BY <2>1, ReportWritten DEF Wrote, WireOK
  <1>6. ASSUME NEW n \in Inputs, AgentConsumes(n) PROVE WireOK'
    BY <1>6, ConsumesWrites
       DEF Typed, WorldOK, WireOK
  <1>7. ASSUME NEW n \in Inputs, AgentAnswers(n) PROVE WireOK'
    <2>1. PICK how \in SteerEnds : wire' = wire \o <<Response(<<"steer", n>>, how)>>
      BY <1>7, AnswersWrites DEF Replies
    <2>2. Response(<<"steer", n>>, how) \in Messages
      BY ResponseType
    <2>3. <<Response(<<"steer", n>>, how)>> \in Seq(Messages)
      BY <2>2, OneMessage
    <2>4. QED
      BY <2>1, <2>3, AppendWrites DEF Wrote, WireOK
  <1>8. ASSUME UNCHANGED wire PROVE WireOK'
    BY <1>8
       DEF Typed, WorldOK, WireOK
  <1> QED
    BY <1>1, <1>2, <1>3, <1>4, <1>5, <1>6, <1>7, <1>8
       DEF Next, User, Settling, Task, AgentNext, Prompt, PromptUnsaved, Steer, Stop, Close,
           Reopen, PromptResult, PromptResultLate, SteerAnswer, SteerAnswerLate,
           CancelAgain, Peek, FallbackStart, FallbackRefused, StopSent, Closed, CloseFails,
           StopConnection, ConnectionLost, SendPrompt, Asked, SendCancel, Goto, vars,
           taskVars, logVars

\* The responses keep their types.
LEMMA AnswerStepTyped == Typed /\ TurnInv /\ [Next]_vars => AnswerOK'
  <1> SUFFICES ASSUME Typed, TurnInv, [Next]_vars PROVE AnswerOK'
    OBVIOUS
  <1>1. ASSUME Prompt PROVE AnswerOK'
    <2>1. answer' = [answer EXCEPT ![<<"prompt", inputs + 1>>] = IF link = "up" THEN "none" ELSE "lost"]
      BY <1>1, Zenon DEF Prompt, SendPrompt, Asked
    <2>2. QED
      BY <2>1, WorldSplit DEF AnswerOK, Typed
  <1>2. ASSUME Steer PROVE AnswerOK'
    <2>1. answer' = [answer EXCEPT ![<<"steer", inputs + 1>>] = IF link = "up" THEN "none" ELSE "lost"]
      BY <1>2, Zenon DEF Steer, Asked
    <2>2. QED
      BY <2>1, WorldSplit DEF AnswerOK, Typed
  <1>3. ASSUME Break PROVE AnswerOK'
    <2>1. answer' = [t \in Tasks |-> IF pc[t] = "waiting" /\ answer[t] = "none" THEN "lost" ELSE answer[t]]
      BY <1>3, Zenon DEF Break
    <2>2. QED
      BY <2>1, WorldSplit DEF AnswerOK, Typed
  <1>4. ASSUME NEW n \in Inputs, PromptResult(n) PROVE AnswerOK'
    <2>1. answer' = [answer EXCEPT ![<<"prompt", n>>] = "none"]
      BY <1>4, Zenon DEF PromptResult, Goto
    <2>2. QED
      BY <2>1, WorldSplit DEF AnswerOK, Typed
  <1>5. ASSUME NEW n \in Inputs, PromptResultLate(n) PROVE AnswerOK'
    <2>1. answer' = [answer EXCEPT ![<<"prompt", n>>] = "none"]
      BY <1>5, Zenon DEF PromptResultLate, Goto
    <2>2. QED
      BY <2>1, WorldSplit DEF AnswerOK, Typed
  <1>6. ASSUME NEW n \in Inputs, SteerAnswer(n) PROVE AnswerOK'
    <2>1. answer' = [answer EXCEPT ![<<"steer", n>>] = "none"]
      BY <1>6, Zenon DEF SteerAnswer, Goto
    <2>2. QED
      BY <2>1, WorldSplit DEF AnswerOK, Typed
  <1>7. ASSUME NEW n \in Inputs, SteerAnswerLate(n) PROVE AnswerOK'
    <2>1. answer' = [answer EXCEPT ![<<"steer", n>>] = "none"]
      BY <1>7, Zenon DEF SteerAnswerLate, Goto
    <2>2. QED
      BY <2>1, WorldSplit DEF AnswerOK, Typed
  <1>8. ASSUME NEW n \in Inputs, CancelAgain(n) PROVE AnswerOK'
    <2>1. answer' = [answer EXCEPT ![<<"steer", n>>] = "none"]
      BY <1>8, Zenon DEF CancelAgain, Goto
    <2>2. QED
      BY <2>1, WorldSplit DEF AnswerOK, Typed
  <1>9. ASSUME NEW t \in Tasks, Peek(t) PROVE AnswerOK'
    <2>1. answer' = answer
      BY <1>9, Zenon DEF Peek
    <2>2. QED
      BY <2>1, WorldSplit DEF AnswerOK, Typed
  <1>10. ASSUME NEW t \in Tasks, FallbackStart(t) PROVE AnswerOK'
    <2>1. answer' = [answer EXCEPT ![<<"prompt", captured[t]>>] = IF link = "up" THEN "none" ELSE "lost"]
      BY <1>10, Zenon DEF FallbackStart
    <2>2. QED
      BY <2>1, WorldSplit DEF AnswerOK, Typed
  <1>11. ASSUME NEW t \in Tasks, FallbackRefused(t) PROVE AnswerOK'
    <2>1. answer' = [answer EXCEPT ![t] = "none"]
      BY <1>11, Zenon DEF FallbackRefused, Goto
    <2>2. QED
      BY <2>1, WorldSplit DEF AnswerOK, Typed
  <1>12. ASSUME Receive PROVE AnswerOK'
    <2>1. AfterRead
      BY <1>12, ReadDoes
    <2>2. CASE answer' = answer
      BY <2>2, WorldSplit DEF AnswerOK, Typed
    <2>3. CASE /\ wire[1].to \in Tasks /\ wire[1].what \in Ends(wire[1].to)
               /\ answer' = [answer EXCEPT ![wire[1].to] = wire[1].what]
      <3>1. Ends(wire[1].to) \subseteq PromptEnds \cup SteerEnds
        BY DEF Ends
      <3>2. QED
        BY <2>3, <3>1, WorldSplit DEF AnswerOK, Typed
    <2>4. QED
      BY <2>1, <2>2, <2>3 DEF AfterRead
  <1>13. ASSUME UNCHANGED answer PROVE AnswerOK'
    BY <1>13
       DEF Typed, WorldOK, AnswerOK
  <1> QED
    BY <1>1, <1>2, <1>3, <1>4, <1>5, <1>6, <1>7, <1>8, <1>9, <1>10, <1>11, <1>12, <1>13
       DEF Next, User, Settling, Task, AgentNext, PromptUnsaved, Stop, Close, Reopen,
           StopSent, Closed, CloseFails, StopConnection, ConnectionLost, AgentBegins,
           AgentEnds, AgentAnnounces, AgentConsumes, AgentAnswers, SendCancel, AgentStep,
           AgentFrame, vars, taskVars, logVars

\* The logs keep their types.
LEMMA LogsStepTyped == Typed /\ TurnInv /\ StatusInv /\ LeavesInv /\ [Next]_vars => LogsOK'
  <1> SUFFICES ASSUME Typed, TurnInv, StatusInv, LeavesInv, [Next]_vars PROVE LogsOK'
    OBVIOUS
  <1>1. ASSUME Prompt PROVE LogsOK'
    <2>1. sent' = [sent EXCEPT ![inputs + 1] = @ + 1] /\ UNCHANGED <<stops, consumed, told,
                                                                     reported, stopped>>
      BY <1>1, Zenon DEF Prompt, SendPrompt
    <2>2. inputs + 1 \in Inputs
      BY <1>1, PromptDoes DEF AfterPrompt
    <2>3. QED
      BY <2>1, <2>2, WorldSplit DEF LogsOK, Typed
  <1>2. ASSUME Stop PROVE LogsOK'
    <2>1. /\ stops' = [made |-> stops.made + 1, unsent |-> stops.unsent + 1]
          /\ stopped' = stopped \cup ({thread.pending.id} \ {0})
          /\ UNCHANGED <<sent, consumed, told, reported>>
      BY <1>2, Zenon DEF Stop
    <2>2. {thread.pending.id} \ {0} \subseteq Inputs
      BY TypeSplit DEF ThreadOK, Snapshot, PendingSteer, Inputs
    <2>3. QED
      BY <2>1, <2>2, WorldSplit DEF LogsOK, Typed
  <1>3. ASSUME NEW n \in Inputs, PromptResult(n) PROVE LogsOK'
    <2>1. reported' = reported \/ reported' = [reported EXCEPT ![n] = @ + 1]
      BY <1>3, PromptResultDoes, Zenon DEF AfterResult
    <2>2. UNCHANGED <<stops, sent, consumed, told, stopped>>
      BY <1>3, Zenon DEF PromptResult
    <2>3. QED
      BY <2>1, <2>2, WorldSplit DEF LogsOK, Typed
  <1>4. ASSUME NEW n \in Inputs, SteerAnswer(n) PROVE LogsOK'
    <2>1. reported' = [m \in Inputs |-> IF m = thread.completion THEN reported[m] + 1 ELSE reported[m]]
      BY <1>4, SteerAnswerDoes, Zenon DEF AfterAnswer
    <2>2. UNCHANGED <<stops, sent, consumed, told, stopped>>
      BY <1>4, Zenon DEF SteerAnswer
    <2>3. QED
      BY <2>1, <2>2, WorldSplit DEF LogsOK, Typed
  <1>5. ASSUME NEW t \in Tasks, FallbackStart(t) PROVE LogsOK'
    <2>1. sent' = [sent EXCEPT ![captured[t]] = @ + 1] /\ UNCHANGED <<stops, consumed, told,
                                                                      reported, stopped>>
      BY <1>5, Zenon DEF FallbackStart
    <2>2. captured[t] \in Inputs
      BY <1>5, FallbackStartDoes DEF AfterFallback
    <2>3. QED
      BY <2>1, <2>2, WorldSplit DEF LogsOK, Typed
  <1>6. ASSUME StopSent PROVE LogsOK'
    <2>1. stops.unsent > 0 /\ stops' = [stops EXCEPT !.unsent = @ - 1] /\ UNCHANGED <<sent,
                                                                                      consumed,
                                                                                      told,
                                                                                      reported,
                                                                                      stopped>>
      BY <1>6, Zenon DEF StopSent, logVars
    <2>2. QED
      BY <2>1, WorldSplit DEF LogsOK, Typed
  <1>7. ASSUME AgentEnds PROVE LogsOK'
    <2>1. told' = told \/ \E how \in PromptEnds : told' = [told EXCEPT ![agent.running] = how]
      BY <1>7, EndsWrites, Zenon DEF EndsPrompt, EndsOwn
    <2>2. UNCHANGED <<stops, sent, consumed, reported, stopped>>
      BY <1>7, Zenon DEF AgentEnds, AgentFrame
    <2>3. QED
      BY <2>1, <2>2, WorldSplit DEF LogsOK, Typed
  <1>8. ASSUME NEW n \in Inputs, AgentConsumes(n) PROVE LogsOK'
    <2>1. consumed' = [consumed EXCEPT ![n] = @ + 1] /\ UNCHANGED <<stops, sent, told, reported,
                                                                    stopped>>
      BY <1>8, Zenon DEF AgentConsumes, AgentFrame
    <2>2. QED
      BY <2>1, WorldSplit DEF LogsOK, Typed
  <1>9. ASSUME UNCHANGED <<stops, sent, consumed, told, reported, stopped>> PROVE LogsOK'
    BY <1>9
       DEF Typed, WorldOK, LogsOK
  <1> QED
    BY <1>1, <1>2, <1>3, <1>4, <1>5, <1>6, <1>7, <1>8, <1>9
       DEF Next, User, Settling, Task, AgentNext, PromptUnsaved, Steer, Close, Reopen,
           Break, PromptResultLate, SteerAnswerLate, CancelAgain, Peek, FallbackRefused,
           Closed, CloseFails, Receive, StopConnection, ConnectionLost, AgentBegins,
           AgentAnnounces, AgentAnswers, Asked, SendCancel, Goto, AgentStep, AgentFrame,
           vars, taskVars, logVars

\* Every step keeps the types.
LEMMA TypedStep ==
  Typed /\ TurnInv /\ StatusInv /\ LeavesInv /\ [Next]_vars => Typed'
  <1> SUFFICES ASSUME Typed, TurnInv, StatusInv, LeavesInv, [Next]_vars PROVE Typed'
    OBVIOUS
  <1>1. ThreadOK' /\ PlacesOK'
    BY ThreadStep, PlacesStep
  <1>2. AgentOK' /\ WireOK' /\ AnswerOK' /\ LogsOK'
    BY AgentStepTyped, WireStepTyped, AnswerStepTyped, LogsStepTyped
  <1>3. TypeOK'
    BY <1>1 DEF TypeOK, ThreadOK, PlacesOK
  <1>4. WorldOK'
    BY <1>2 DEF WorldOK, AgentOK, WireOK, AnswerOK, LogsOK
  <1>5. QED
    BY <1>3, <1>4 DEF Typed

-----------------------------------------------------------------------------
(* The status, and the turns that are open *)

\* An agent stays the kind of agent it is.
LEMMA NatureFixed ==
  Typed /\ StatusInv /\ [Next]_vars
    => agent'.leaves = agent.leaves /\ agent'.reports = agent.reports
  <1> SUFFICES ASSUME Typed, StatusInv, [Next]_vars
               PROVE  agent'.leaves = agent.leaves /\ agent'.reports = agent.reports
    OBVIOUS
  <1>1. ASSUME Prompt PROVE agent'.leaves = agent.leaves /\ agent'.reports = agent.reports
    <2>1. Queued(inputs + 1)
      BY <1>1, PromptDoes, QueuedIs DEF AfterPrompt, Prompt, SendPrompt
    <2>2. QED
      BY <2>1 DEF Queued
  <1>2. ASSUME Steer PROVE agent'.leaves = agent.leaves /\ agent'.reports = agent.reports
    <2>1. inputs + 1 \in Inputs
      BY <1>2, SteerDoes DEF AfterSteer
    <2>2. agent' = agent \/ agent' = [agent EXCEPT !.asked[inputs + 1] = "new"]
      BY <1>2, Zenon DEF Steer
    <2>3. QED
      BY <2>1, <2>2, ConsultsIs DEF Consults
  <1>3. ASSUME Close PROVE agent'.leaves = agent.leaves /\ agent'.reports = agent.reports
    <2>1. SendCancel \/ UNCHANGED agent
      BY <1>3, Zenon DEF Close
    <2>2. QED
      BY <2>1, SendCancelDoes DEF AgentKeeps
  <1>4. ASSUME Break PROVE agent'.leaves = agent.leaves /\ agent'.reports = agent.reports
    BY <1>4, IdleAgent
       DEF Break
  <1>5. ASSUME NEW n \in Inputs, CancelAgain(n)
        PROVE  agent'.leaves = agent.leaves /\ agent'.reports = agent.reports
    <2>1. SendCancel \/ UNCHANGED agent
      BY <1>5, Zenon DEF CancelAgain
    <2>2. QED
      BY <2>1, SendCancelDoes DEF AgentKeeps
  <1>6. ASSUME NEW t \in Tasks, FallbackStart(t)
        PROVE  agent'.leaves = agent.leaves /\ agent'.reports = agent.reports
    <2>1. Queued(captured[t])
      BY <1>6, FallbackStartDoes, QueuedIs DEF AfterFallback, FallbackStart
    <2>2. QED
      BY <2>1 DEF Queued
  <1>7. ASSUME StopSent PROVE agent'.leaves = agent.leaves /\ agent'.reports = agent.reports
    <2>1. SendCancel \/ UNCHANGED agent
      BY <1>7, Zenon DEF StopSent
    <2>2. QED
      BY <2>1, SendCancelDoes DEF AgentKeeps
  <1>8. ASSUME AgentBegins PROVE agent'.leaves = agent.leaves /\ agent'.reports = agent.reports
    BY <1>8, BeginsDoes
       DEF AfterBegins
  <1>9. ASSUME AgentEnds PROVE agent'.leaves = agent.leaves /\ agent'.reports = agent.reports
    BY <1>9, EndsWrites, EndsDoes
       DEF AfterEnds
  <1>10. ASSUME AgentAnnounces PROVE agent'.leaves = agent.leaves /\ agent'.reports = agent.reports
    BY <1>10, AnnouncesDoes
       DEF AfterAnnounces
  <1>11. ASSUME NEW n \in Inputs, AgentConsumes(n)
         PROVE  agent'.leaves = agent.leaves /\ agent'.reports = agent.reports
    BY <1>11, ConsumesDoes
       DEF AfterConsumes, Consults
  <1>12. ASSUME NEW n \in Inputs, AgentAnswers(n)
         PROVE  agent'.leaves = agent.leaves /\ agent'.reports = agent.reports
    BY <1>12, AnswersWrites, ConsultsIs
       DEF Replies, Consults
  <1>13. ASSUME UNCHANGED agent PROVE agent'.leaves = agent.leaves /\ agent'.reports =
           agent.reports
    BY <1>13
  <1> QED
    BY <1>1, <1>2, <1>3, <1>4, <1>5, <1>6, <1>7, <1>8, <1>9, <1>10, <1>11, <1>12, <1>13
       DEF Next, User, Settling, Task, AgentNext, PromptUnsaved, Stop, Reopen, PromptResult,
           PromptResultLate, SteerAnswer, SteerAnswerLate, Peek, FallbackRefused, Closed,
           CloseFails, Receive, StopConnection, ConnectionLost, Goto, vars, taskVars,
           logVars

\* settle_status keeps the status true to what is under way.
LEMMA StatusStep == Typed /\ TurnInv /\ StatusInv /\ LeavesInv /\ [Next]_vars => StatusInv'
  <1> SUFFICES ASSUME Typed, TurnInv, StatusInv, LeavesInv, [Next]_vars PROVE StatusInv'
    OBVIOUS
  <1>1. ASSUME Prompt PROVE StatusInv'
    BY <1>1, PromptDoes, TypeSplit
       DEF AfterPrompt, Begins, Prompt, Admits, ThreadOK, Inputs, StatusInv, HasPending
  <1>2. ASSUME PromptUnsaved PROVE StatusInv'
    BY <1>2, PromptUnsavedDoes
       DEF Unmoved, Quiet, StatusInv, HasPending
  <1>3. ASSUME Steer PROVE StatusInv'
    <2>1. AfterSteer
      BY <1>3, SteerDoes
    <2>2. inputs + 1 # 0
      BY TypeSplit DEF PlacesOK
    <2>3. thread'.status = "working" /\ HasPending(thread)'
      BY <2>1, <2>2 DEF AfterSteer, HasPending
    <2>4. ~thread'.pending.required
      BY <2>1 DEF AfterSteer
    <2>5. QED
      BY <2>3, <2>4 DEF StatusInv
  <1>4. ASSUME Stop PROVE StatusInv'
    <2>1. AfterStop /\ thread.pending \in PendingSteer
      BY <1>4, StopDoes, TypeSplit DEF ThreadOK, Snapshot
    <2>2. CASE thread.pending.required
      BY <2>1, <2>2 DEF AfterStop, GivenUp, Quiet, NoPending, StatusInv, HasPending
    <2>3. CASE ~thread.pending.required
      BY <2>1, <2>3 DEF AfterStop, Quiet, StatusInv, HasPending, PendingSteer
    <2>4. QED
      BY <2>2, <2>3
  <1>5. ASSUME Reopen PROVE StatusInv'
    BY <1>5, ReopenDoes
       DEF Anew, NoPending, StatusInv, HasPending
  <1>6. ASSUME NEW n \in Inputs, PromptResult(n) PROVE StatusInv'
    BY <1>6, PromptResultDoes
       DEF AfterResult, Quiet, StatusInv, HasPending
  <1>7. ASSUME NEW n \in Inputs, SteerAnswer(n) PROVE StatusInv'
    <2>1. AfterAnswer(n) /\ thread.pending \in PendingSteer
      BY <1>7, SteerAnswerDoes, TypeSplit DEF ThreadOK, Snapshot
    <2> DEFINE p == thread.pending
               handedBack == answer[<<"steer", n>>] = "required" /\ ~p.cancelled
    <2>2. /\ handedBack => thread'.pending = [p EXCEPT !.required = TRUE]
          /\ ~handedBack => thread'.pending = NoPending
          /\ thread'.status = IF thread.status = "disconnected" THEN "disconnected"
                              ELSE IF thread.active # 0 \/ HasPending(thread)' \/ thread'.detached
                                   THEN "working" ELSE "idle"
          /\ thread'.active = thread.active /\ p.id = n /\ n # 0
      BY <2>1 DEF AfterAnswer, Inputs
    <2>3. CASE handedBack
      <3>1. HasPending(thread)' /\ ~thread'.pending.cancelled
        BY <2>1, <2>2, <2>3 DEF HasPending, PendingSteer
      <3>2. QED
        BY <2>2, <3>1 DEF StatusInv
    <2>4. CASE ~handedBack
      <3>1. /\ ~HasPending(thread)' /\ ~thread'.pending.required /\ ~thread'.pending.cancelled
            /\ ~thread'.pending.sawActive
        BY <2>2, <2>4 DEF HasPending, NoPending
      <3>2. QED
        BY <2>2, <3>1 DEF StatusInv
    <2>5. QED
      BY <2>3, <2>4
  <1>8. ASSUME NEW t \in Tasks, FallbackStart(t) PROVE StatusInv'
    BY <1>8, FallbackStartDoes
       DEF AfterFallback, NoPending, Inputs, StatusInv, HasPending
  <1>9. ASSUME NEW t \in Tasks, FallbackRefused(t) PROVE StatusInv'
    BY <1>9, FallbackRefusedDoes
       DEF AfterRefusal, GivenUp, Quiet, NoPending, StatusInv, HasPending
  <1>10. ASSUME Closed PROVE StatusInv'
    BY <1>10, ClosedDoes
       DEF AfterSilence, NoPending, StatusInv, HasPending
  <1>11. ASSUME Receive PROVE StatusInv'
    <2>1. AfterRead
      BY <1>11, ReadDoes
    <2>2. CASE thread' = thread
      BY <2>2 DEF StatusInv, HasPending
    <2>3. CASE wire[1].what \in Activities /\ AfterReport(wire[1].what)
      <3> DEFINE a == wire[1].what
      <3>1. AfterReport(a) /\ thread.pending \in PendingSteer
        BY <2>3, TypeSplit DEF ThreadOK, Snapshot
      <3>2. /\ thread'.pending.required = thread.pending.required
            /\ thread'.pending.cancelled = thread.pending.cancelled
            /\ HasPending(thread)' <=> HasPending(thread)
            /\ thread'.pending.sawActive => HasPending(thread)
        BY <2>3, <3>1, PendingSeesIs DEF AfterReport, HasPending, StatusInv
      <3>3. QED
        BY <3>1, <3>2 DEF AfterReport, StatusInv
    <2>4. QED
      BY <2>1, <2>2, <2>3 DEF AfterRead
  <1>12. ASSUME ConnectionLost PROVE StatusInv'
    BY <1>12, ConnectionLostDoes
       DEF AfterSilence, NoPending, StatusInv, HasPending
  <1>13. ASSUME UNCHANGED thread PROVE StatusInv'
    BY <1>13
       DEF StatusInv, HasPending
  <1> QED
    BY <1>1, <1>2, <1>3, <1>4, <1>5, <1>6, <1>7, <1>8, <1>9, <1>10, <1>11, <1>12, <1>13
       DEF Next, User, Settling, Task, AgentNext, Close, Break, PromptResultLate,
           SteerAnswerLate, CancelAgain, Peek, StopSent, CloseFails, StopConnection,
           AgentBegins, AgentEnds, AgentAnnounces, AgentConsumes, AgentAnswers, SendCancel,
           Goto, AgentStep, AgentFrame, vars, taskVars, logVars

\* The steps that end no turn but by closing the work.
LEMMA TurnKept ==
  ASSUME Typed, TurnInv, thread' \in Snapshot, NoneOpen, \A m \in Inputs : Evolves(m),
         thread'.active \in {0, thread.active}, thread'.last = thread.last,
         thread'.stopReason = thread.stopReason, thread'.detached => thread.detached,
         thread'.pending.id \in {0, thread.pending.id}, agent'.leaves = agent.leaves,
         agent.leaves => thread'.active = thread.active \/ thread'.status # "working"
  PROVE  TurnInv'
  <1>1. thread \in Snapshot
    BY DEF Typed, TypeOK
  <1>2. \A m \in Inputs : thread'.outcome[m] = "in_progress" => thread.outcome[m] = "in_progress" /\ thread'.status = "working"
    BY DEF Evolves, NoneOpen
  <1>3. \A m \in Inputs : /\ thread'.outcome[m] = "none" => thread.outcome[m] = "none"
                          /\ thread'.outcome[m] = "completed" => thread.outcome[m] = "completed"
                          /\ thread'.outcome[m] # "none" => thread.outcome[m] # "none"
    BY DEF Evolves
  <1>4. thread'.active # 0 => thread'.active = thread.active /\ thread.active \in Inputs
    BY <1>1 DEF Snapshot, Inputs
  <1>5. thread'.detached => thread.last \in Inputs /\ thread.last > thread'.active
    BY <1>1 DEF TurnInv, Snapshot, Inputs
  <1>6. \A n \in Inputs :
          /\ thread'.outcome[n] = "in_progress" => thread'.status = "working" /\ n >= thread'.active
          /\ thread'.outcome[n] = "in_progress" /\ agent'.leaves => n = thread'.active
          /\ thread'.outcome[n] # "none" => n <= thread'.last
          /\ thread'.pending.id = n => thread'.last < n
    BY <1>1, <1>2, <1>3 DEF TurnInv, Inputs, Snapshot
  <1>7. QED
    BY <1>2, <1>3, <1>4, <1>5, <1>6 DEF TurnInv

\* A turn that ends late closes nothing but itself.
LEMMA TurnStep == Typed /\ FreshInv /\ TurnInv /\ StatusInv /\ LeavesInv /\ [Next]_vars => TurnInv'
  <1> SUFFICES ASSUME Typed, FreshInv, TurnInv, StatusInv, LeavesInv, [Next]_vars PROVE TurnInv'
    OBVIOUS
  <1>1. ASSUME Prompt PROVE TurnInv'
    <2>1. AfterPrompt
      BY <1>1, PromptDoes
    <2>2. thread.status = "idle" /\ ~HasPending(thread) /\ ~thread.detached
      BY <1>1 DEF Prompt, Admits, Admissible
    <2>3. thread.last <= inputs /\ thread.last \in Nat /\ inputs \in Nat
      BY TypeSplit DEF FreshInv, ThreadOK, PlacesOK, Snapshot
    <2>4. \A m \in Inputs : thread.outcome[m] # "in_progress" /\ (thread.outcome[m] # "none" => m <= inputs + 1)
      BY <2>2, <2>3 DEF TurnInv, Inputs
    <2>5. QED
      BY <2>1, <2>2, <2>4, NatureFixed DEF AfterPrompt, Begins, TurnInv, Inputs, HasPending
  <1>2. ASSUME PromptUnsaved PROVE TurnInv'
    <2>1. Unmoved /\ agent' = agent
      BY <1>2, PromptUnsavedDoes DEF PromptUnsaved
    <2>2. NoneOpen /\ \A m \in Inputs : Evolves(m)
      BY <2>1 DEF Unmoved, Evolves, NoneOpen, TurnInv
    <2>3. QED
      BY <2>1, <2>2, TurnKept DEF Unmoved, Quiet
  <1>3. ASSUME Steer PROVE TurnInv'
    <2>1. AfterSteer /\ agent'.leaves = agent.leaves
      BY <1>3, SteerDoes, NatureFixed
    <2>2. thread.last <= inputs /\ thread.last \in Nat /\ inputs \in Nat
      BY TypeSplit DEF FreshInv, ThreadOK, PlacesOK, Snapshot
    <2>3. QED
      BY <2>1, <2>2 DEF AfterSteer, Quiet, TurnInv, Inputs
  <1>4. ASSUME Stop PROVE TurnInv'
    <2>1. AfterStop /\ agent' = agent
      BY <1>4, StopDoes DEF Stop
    <2>2. CASE GivenUp
      BY <2>1, <2>2, TurnKept DEF GivenUp, Quiet, NoPending
    <2>3. CASE ~thread.pending.required
      <3>1. thread'.pending.id = thread.pending.id
        BY <2>1, <2>3, TypeSplit DEF AfterStop, ThreadOK, Snapshot, PendingSteer
      <3>2. NoneOpen /\ \A m \in Inputs : Evolves(m)
        BY <2>1, <2>3 DEF AfterStop, Evolves, NoneOpen, TurnInv
      <3>3. QED
        BY <2>1, <2>3, <3>1, <3>2, TurnKept DEF AfterStop, Quiet
    <2>4. QED
      BY <2>1, <2>2, <2>3 DEF AfterStop
  <1>5. ASSUME Reopen PROVE TurnInv'
    <2>1. Anew(thread, thread') /\ agent' = agent /\ thread.status = "disconnected"
      BY <1>5, ReopenDoes DEF Reopen
    <2>2. QED
      BY <2>1 DEF Anew, NoPending, TurnInv, Inputs
  <1>6. ASSUME NEW n \in Inputs, PromptResult(n) PROVE TurnInv'
    <2>1. AfterResult(n) /\ agent' = agent /\ thread.active = n
      BY <1>6, PromptResultDoes DEF PromptResult
    <2>2. thread \in Snapshot
      BY TypeSplit DEF ThreadOK
    <2>3. thread.stopReason # "end_turn"
      BY <2>1 DEF TurnInv, Inputs
    <2>4. thread'.stopReason = "end_turn" => ~thread.detached /\ thread.last = n
      BY <2>1, <2>3 DEF AfterResult
    <2>5. \A m \in Inputs : thread'.outcome[m] = "in_progress"
            => m # n /\ thread.outcome[m] = "in_progress" /\ thread'.status = "working"
      BY <2>1 DEF AfterResult, Evolves, NoneOpen
    <2>6. \A m \in Inputs : /\ m # n /\ thread'.outcome[m] \in {"none", "completed"} => thread'.outcome[m] = thread.outcome[m]
                            /\ thread'.outcome[m] # "none" => thread.outcome[m] # "none"
      BY <2>1 DEF AfterResult, Evolves, TurnInv, Inputs
    <2>7. thread'.detached => thread.last > n /\ thread.last \in Inputs
      BY <2>1, <2>2 DEF AfterResult, Quiet, TurnInv, Snapshot, Inputs
    <2>8. \A m \in Inputs :
            /\ thread'.outcome[m] = "in_progress" => m > n /\ m <= thread.last /\ ~agent.leaves
            /\ thread'.outcome[m] # "none" => m <= thread.last
            /\ thread.pending.id = m => thread.last < m
      BY <2>1, <2>5, <2>6 DEF TurnInv, Inputs
    <2>9. thread'.stopReason = "end_turn" => \A m \in Inputs : thread'.outcome[m] # "in_progress"
      BY <2>4, <2>8 DEF Inputs
    <2>10. /\ thread'.active = 0 /\ thread'.last = thread.last /\ thread'.pending = thread.pending
           /\ thread'.detached <=> thread.detached
      BY <2>1 DEF AfterResult, Quiet
    <2>11. thread'.detached => thread'.outcome[thread.last] \notin {"none", "completed"}
      BY <2>1, <2>6, <2>7, <2>10 DEF TurnInv, Inputs
    <2>12. QED
      BY <2>1, <2>5, <2>7, <2>8, <2>9, <2>10, <2>11 DEF TurnInv, Inputs
  <1>7. ASSUME NEW n \in Inputs, SteerAnswer(n) PROVE TurnInv'
    <2>1. AfterAnswer(n) /\ agent' = agent
      BY <1>7, SteerAnswerDoes DEF SteerAnswer
    <2>2. thread \in Snapshot /\ thread.pending.id = n /\ thread.pending \in PendingSteer
      BY <2>1, TypeSplit DEF ThreadOK, Snapshot, AfterAnswer
    <2>3. thread'.pending.id \in {0, n}
      BY <2>1, <2>2 DEF AfterAnswer, NoPending, PendingSteer
    <2> DEFINE how == answer[<<"steer", n>>]
    <2>4. CASE how # "started"
      <3>1. \A m \in Inputs : Evolves(m)
        BY <2>1, <2>4 DEF AfterAnswer
      <3>2. QED
        BY <2>1, <2>2, <2>3, <2>4, <3>1, TurnKept DEF AfterAnswer, Quiet
    <2>5. CASE how = "started"
      <3>1. ~agent.leaves
        BY <2>5 DEF LeavesInv
      <3>2. thread'.pending.id = 0
        BY <2>1, <2>5 DEF AfterAnswer, NoPending
      <3>3. /\ thread'.last = n /\ thread'.stopReason # "end_turn" /\ thread'.active = thread.active
            /\ thread'.outcome[n] \in {"in_progress", "failed", "interrupted", "unknown"}
            /\ \A m \in Inputs \ {n} : Evolves(m)
            /\ NoneOpen
        BY <2>1, <2>5 DEF AfterAnswer
      <3>4. thread.last < n
        BY <2>2 DEF TurnInv
      <3>5. thread.active < n /\ (thread.active # 0 => thread.active \in Inputs)
        BY <2>2, <3>4 DEF TurnInv, Snapshot, Inputs
      <3>6. \A m \in Inputs \ {n} :
              /\ thread'.outcome[m] = "in_progress" => thread.outcome[m] = "in_progress"
              /\ thread'.outcome[m] \in {"none", "completed"} => thread'.outcome[m] = thread.outcome[m]
              /\ thread'.outcome[m] # "none" => thread.outcome[m] # "none"
        BY <3>3 DEF Evolves
      <3>7. \A m \in Inputs : thread'.outcome[m] # "none" => m <= n
        BY <2>2, <3>4, <3>6 DEF TurnInv, Snapshot, Inputs
      <3>8. \A m \in Inputs : thread'.outcome[m] = "in_progress" => thread'.status = "working" /\ m >= thread.active
        BY <2>2, <3>3, <3>5, <3>6 DEF TurnInv, NoneOpen, Snapshot, Inputs
      <3>9. thread.active # 0 => thread'.outcome[thread.active] \notin {"none", "completed"}
        BY <3>3, <3>5, <3>6 DEF TurnInv
      <3>10. QED
        BY <2>1, <3>1, <3>2, <3>3, <3>5, <3>7, <3>8, <3>9 DEF TurnInv, Inputs
    <2>6. QED
      BY <2>4, <2>5
  <1>8. ASSUME NEW t \in Tasks, FallbackStart(t) PROVE TurnInv'
    <2> DEFINE n == captured[t]
    <2>1. AfterFallback(n)
      BY <1>8, FallbackStartDoes
    <2>2. agent'.leaves = agent.leaves
      BY NatureFixed
    <2>3. agent.leaves /\ thread \in Snapshot
      BY <2>1, TypeSplit DEF AfterFallback, LeavesInv, ThreadOK
    <2>4. thread.last < n
      BY <2>1 DEF AfterFallback, TurnInv
    <2>5. \A m \in Inputs : thread.outcome[m] # "in_progress" /\ (thread.outcome[m] # "none" => m <= n)
      BY <2>1, <2>3, <2>4 DEF AfterFallback, TurnInv, Snapshot, Inputs
    <2> HIDE DEF n
    <2>6. QED
      BY <2>1, <2>2, <2>5 DEF AfterFallback, Quiet, NoPending, TurnInv, Inputs
  <1>9. ASSUME NEW t \in Tasks, FallbackRefused(t) PROVE TurnInv'
    <2>1. AfterRefusal(captured[t]) /\ agent' = agent
      BY <1>9, FallbackRefusedDoes DEF FallbackRefused
    <2>2. CASE GivenUp
      BY <2>1, <2>2, TurnKept DEF GivenUp, Quiet, NoPending
    <2>3. CASE thread' = thread
      BY <2>1, <2>3 DEF TurnInv
    <2>4. QED
      BY <2>1, <2>2, <2>3 DEF AfterRefusal
  <1>10. ASSUME Closed PROVE TurnInv'
    <2>1. AfterSilence /\ thread'.active = 0 /\ agent' = agent
      BY <1>10, ClosedDoes DEF Closed
    <2>2. QED
      BY <2>1, TurnKept DEF AfterSilence, NoPending
  <1>11. ASSUME Receive PROVE TurnInv'
    <2>1. AfterRead /\ agent' = agent
      BY <1>11, ReadDoes DEF Receive
    <2>2. CASE thread' = thread
      BY <2>1, <2>2 DEF TurnInv
    <2>3. ASSUME NEW a \in Activities, AfterReport(a) PROVE TurnInv'
      <3>1. CASE thread.detached /\ thread.detachedActive /\ a # "active"
        <4>1. /\ thread.last \in Inputs /\ thread.last > thread.active /\ thread \in Snapshot
          BY <3>1, TypeSplit DEF TurnInv, ThreadOK, Snapshot, Inputs
        <4>2. /\ thread'.active = thread.active /\ thread'.last = thread.last
              /\ thread'.stopReason # "end_turn" /\ thread'.pending.id = thread.pending.id
              /\ thread'.outcome[thread.last] \in {"failed", "interrupted", "unknown"}
              /\ \A m \in Inputs \ {thread.last} : Evolves(m)
              /\ NoneOpen /\ ~thread'.detached
          BY <2>3, <3>1 DEF AfterReport
        <4>3. \A m \in Inputs :
                /\ thread'.outcome[m] = "in_progress" => thread.outcome[m] = "in_progress" /\ thread'.status = "working"
                /\ thread'.outcome[m] \in {"none", "completed"} => thread'.outcome[m] = thread.outcome[m]
                /\ thread'.outcome[m] # "none" => thread.outcome[m] # "none"
          BY <3>1, <4>1, <4>2 DEF Evolves, NoneOpen, TurnInv
        <4>4. \A m \in Inputs :
                /\ thread'.outcome[m] = "in_progress" => thread'.status = "working" /\ m >= thread'.active
                /\ thread'.outcome[m] = "in_progress" /\ agent'.leaves => m = thread'.active
                /\ thread'.outcome[m] # "none" => m <= thread'.last
                /\ thread'.pending.id = m => thread'.last < m
          BY <2>1, <4>2, <4>3 DEF TurnInv
        <4>5. thread'.active # 0 => thread'.outcome[thread'.active] \notin {"none", "completed"}
          BY <4>1, <4>2, <4>3 DEF TurnInv, Snapshot, Inputs
        <4>6. QED
          BY <4>2, <4>4, <4>5 DEF TurnInv
      <3>2. CASE ~(thread.detached /\ thread.detachedActive /\ a # "active")
        <4>1. NoneOpen /\ \A m \in Inputs : Evolves(m)
          BY <2>3, <3>2 DEF AfterReport, Evolves
        <4>2. QED
          BY <2>1, <2>3, <3>2, <4>1, TurnKept DEF AfterReport
      <3>3. QED
        BY <3>1, <3>2
    <2>4. QED
      BY <2>1, <2>2, <2>3 DEF AfterRead
  <1>12. ASSUME ConnectionLost PROVE TurnInv'
    <2>1. agent' = agent /\ IF route THEN AfterSilence /\ thread'.active = thread.active ELSE thread' = thread
      BY <1>12, ConnectionLostDoes DEF ConnectionLost
    <2>2. CASE AfterSilence /\ thread'.active = thread.active
      BY <2>1, <2>2, TurnKept DEF AfterSilence, NoPending
    <2>3. CASE thread' = thread
      BY <2>1, <2>3 DEF TurnInv
    <2>4. QED
      BY <2>1, <2>2, <2>3
  <1>13. ASSUME UNCHANGED thread PROVE TurnInv'
    BY <1>13, NatureFixed
       DEF TurnInv
  <1> QED
    BY <1>1, <1>2, <1>3, <1>4, <1>5, <1>6, <1>7, <1>8, <1>9, <1>10, <1>11, <1>12, <1>13
       DEF Next, User, Settling, Task, AgentNext, Close, Break, PromptResultLate,
           SteerAnswerLate, CancelAgain, Peek, StopSent, CloseFails, StopConnection,
           AgentBegins, AgentEnds, AgentAnnounces, AgentConsumes, AgentAnswers, SendCancel,
           Goto, AgentStep, AgentFrame, vars, taskVars, logVars

-----------------------------------------------------------------------------
(* What the steps do to the tasks *)

\* One task goes on, and the response it had is taken.
Moved(t, step) ==
    \A u \in Tasks : /\ pc'[u] = IF u = t THEN step ELSE pc[u]
                     /\ answer'[u] = IF u = t THEN "none" ELSE answer[u]
                     /\ captured'[u] = IF u = t THEN 0 ELSE captured[u]

\* What a task that goes on does to the tasks.
LEMMA GotoDoes == ASSUME Typed, NEW t \in Tasks, NEW step, Goto(t, step) PROVE Moved(t, step)
  <1>1. pc \in [Tasks -> {"none", "waiting", "peek", "cancel", "start", "done"}]
        /\ captured \in [Tasks -> 0..MaxInputs]
    BY TypeSplit DEF PlacesOK
  <1>2. answer \in [Tasks -> PromptEnds \cup SteerEnds \cup {"none", "lost"}]
    BY DEF Typed, WorldOK
  <1>3. /\ pc' = [pc EXCEPT ![t] = step] /\ answer' = [answer EXCEPT ![t] = "none"]
        /\ captured' = [captured EXCEPT ![t] = 0]
    BY DEF Goto
  <1>4. QED
    BY <1>1, <1>2, <1>3, Zenon DEF Moved

\* A request is sent and its task waits.
Asks(t) ==
    \A u \in Tasks : /\ pc'[u] = IF u = t THEN "waiting" ELSE pc[u]
                     /\ answer'[u] = IF u = t THEN IF link = "up" THEN "none" ELSE "lost"
                                     ELSE answer[u]

\* What a request does to the tasks.
LEMMA AskedDoes ==
  ASSUME Typed, NEW t \in Tasks,
         pc' = [pc EXCEPT ![t] = "waiting"],
         answer' = [answer EXCEPT ![t] = IF link = "up" THEN "none" ELSE "lost"]
  PROVE  Asks(t)
  <1>1. pc \in [Tasks -> {"none", "waiting", "peek", "cancel", "start", "done"}]
    BY TypeSplit DEF PlacesOK
  <1>2. answer \in [Tasks -> PromptEnds \cup SteerEnds \cup {"none", "lost"}]
    BY DEF Typed, WorldOK
  <1>3. QED
    BY <1>1, <1>2, Zenon DEF Asks

\* A prompt is sent with input n.
SendsOnce(n) == \A m \in Inputs : sent'[m] = IF m = n THEN sent[m] + 1 ELSE sent[m]

\* What a prompt does to the number of prompts sent.
LEMMA SentIs ==
  ASSUME Typed, NEW n \in Inputs, sent' = [sent EXCEPT ![n] = @ + 1] PROVE SendsOnce(n)
  <1>1. sent \in [Inputs -> Nat]
    BY DEF Typed, WorldOK
  <1>2. QED
    BY <1>1 DEF SendsOnce

PromptWorld ==
    LET n == inputs + 1 IN
    /\ n \in Inputs /\ <<"prompt", n>> \in Tasks
    /\ inputs' = n /\ Asks(<<"prompt", n>>) /\ Queued(n) /\ SendsOnce(n) /\ Silences
    /\ UNCHANGED <<captured, first, stops, closing, route, link, wire, consumed, told, reported,
                   stopped>>

\* What a prompt does to all but the snapshot.
LEMMA PromptSends == ASSUME Typed, Prompt PROVE PromptWorld
  <1>1. inputs + 1 \in Inputs
    BY PromptDoes DEF AfterPrompt
  <1>2. <<"prompt", inputs + 1>> \in Tasks
    BY <1>1, TaskFacts
  <1>3. /\ inputs' = inputs + 1
        /\ Asked(inputs + 1, "prompt") /\ sent' = [sent EXCEPT ![inputs + 1] = @ + 1]
        /\ agent' = IF link = "up" THEN [agent EXCEPT !.queue = @ \cup {inputs + 1}] ELSE agent
        /\ UNCHANGED <<first, stops, closing, route, link, wire, consumed, told, reported, stopped>>
    BY Zenon DEF Prompt, SendPrompt
  <1>4. Asks(<<"prompt", inputs + 1>>) /\ captured' = captured
    BY <1>2, <1>3, AskedDoes DEF Asked
  <1>5. Queued(inputs + 1) /\ SendsOnce(inputs + 1) /\ Silences
    BY <1>1, <1>3, QueuedIs, SentIs, UnwrittenWire
  <1>6. QED
    BY <1>1, <1>2, <1>3, <1>4, <1>5, Zenon DEF PromptWorld

SteerWorld ==
    LET n == inputs + 1 IN
    /\ n \in Inputs /\ <<"steer", n>> \in Tasks
    /\ inputs' = n /\ Asks(<<"steer", n>>) /\ Silences
    /\ link = "up" => /\ Consults(n, "new")
                      /\ agent'.running = agent.running /\ agent'.announced = agent.announced
    /\ link # "up" => agent' = agent
    /\ UNCHANGED <<captured, first, stops, closing, route, link, wire, sent, consumed, told,
                   reported, stopped>>

\* What steering does to all but the snapshot.
LEMMA SteerSends == ASSUME Typed, Steer PROVE SteerWorld
  <1>1. inputs + 1 \in Inputs
    BY SteerDoes DEF AfterSteer
  <1>2. <<"steer", inputs + 1>> \in Tasks
    BY <1>1, TaskFacts
  <1>3. /\ inputs' = inputs + 1 /\ Asked(inputs + 1, "steer")
        /\ agent' = IF link = "up" THEN [agent EXCEPT !.asked[inputs + 1] = "new"] ELSE agent
        /\ UNCHANGED <<first, stops, closing, route, link, wire, sent, consumed, told, reported,
                       stopped>>
    BY Zenon DEF Steer, logVars
  <1>4. Asks(<<"steer", inputs + 1>>) /\ captured' = captured
    BY <1>2, <1>3, AskedDoes DEF Asked
  <1>5. link = "up" => /\ Consults(inputs + 1, "new")
                       /\ agent'.running = agent.running /\ agent'.announced = agent.announced
    BY <1>1, <1>3, ConsultsIs
  <1>6. Silences
    BY <1>3, UnwrittenWire
  <1>7. link # "up" => agent' = agent
    BY <1>3
  <1>8. QED
    BY <1>1, <1>2, <1>3, <1>4, <1>5, <1>6, <1>7, Zenon DEF SteerWorld

\* The tasks that end, or go on to the fallback.
TaskWorld(t, step) ==
    /\ Moved(t, step) /\ Silences
    /\ UNCHANGED <<inputs, first, stops, closing, route, link, wire, sent, consumed, told, stopped>>

ResultWorld(n) ==
    /\ <<"prompt", n>> \in Tasks /\ pc[<<"prompt", n>>] = "waiting"
    /\ answer[<<"prompt", n>>] # "none" /\ agent' = agent

\* What the result of a prompt does to all but the snapshot.
LEMMA ResultTakes ==
  ASSUME Typed, NEW n \in Inputs
  PROVE  /\ PromptResult(n) => /\ ResultWorld(n) /\ thread.active = n
                               /\ TaskWorld(<<"prompt", n>>, "peek")
         /\ PromptResultLate(n) => /\ ResultWorld(n) /\ TaskWorld(<<"prompt", n>>, "done")
                                   /\ UNCHANGED <<thread, reported>>
  <1>1. <<"prompt", n>> \in Tasks
    BY TaskFacts
  <1>2. ASSUME PromptResult(n)
        PROVE  ResultWorld(n) /\ thread.active = n /\ TaskWorld(<<"prompt", n>>, "peek")
    <2>1. /\ Answered(<<"prompt", n>>) /\ thread.active = n /\ Goto(<<"prompt", n>>, "peek")
          /\ UNCHANGED <<inputs, first, stops, closing, route, link, wire, sent, consumed, told,
                         stopped, agent>>
      BY <1>2, Zenon DEF PromptResult
    <2>2. QED
      BY <1>1, <2>1, GotoDoes, UnwrittenWire DEF TaskWorld, ResultWorld, Answered
  <1>3. ASSUME PromptResultLate(n)
        PROVE  ResultWorld(n) /\ TaskWorld(<<"prompt", n>>, "done") /\ UNCHANGED <<thread,
                                                                                   reported>>
    <2>1. /\ Answered(<<"prompt", n>>) /\ Goto(<<"prompt", n>>, "done")
          /\ UNCHANGED <<inputs, first, stops, closing, route, link, wire, sent, consumed, told,
                         stopped, agent, thread, reported>>
      BY <1>3, Zenon DEF PromptResultLate, logVars
    <2>2. QED
      BY <1>1, <2>1, GotoDoes, UnwrittenWire DEF TaskWorld, ResultWorld, Answered
  <1>4. QED
    BY <1>2, <1>3

AnswerWorld(n) ==
    /\ <<"steer", n>> \in Tasks /\ pc[<<"steer", n>>] = "waiting"
    /\ answer[<<"steer", n>>] # "none" /\ agent' = agent

\* What the answer to steering does to all but the snapshot.
LEMMA AnswerTakes ==
  ASSUME Typed, NEW n \in Inputs
  PROVE  /\ SteerAnswer(n) => /\ AnswerWorld(n) /\ thread.pending.id = n
                              /\ \E step \in {"cancel", "peek"} : TaskWorld(<<"steer", n>>, step)
         /\ SteerAnswerLate(n) => /\ AnswerWorld(n) /\ TaskWorld(<<"steer", n>>, "done")
                                  /\ UNCHANGED <<thread, reported>>
  <1>1. <<"steer", n>> \in Tasks
    BY TaskFacts
  <1>2. ASSUME SteerAnswer(n)
        PROVE  AnswerWorld(n) /\ thread.pending.id = n /\ \E step \in {"cancel", "peek"} : TaskWorld(<<"steer", n>>, step)
    <2>1. /\ Answered(<<"steer", n>>) /\ thread.pending.id = n
          /\ \E step \in {"cancel", "peek"} : Goto(<<"steer", n>>, step)
          /\ UNCHANGED <<inputs, first, stops, closing, route, link, wire, sent, consumed, told,
                         stopped, agent>>
      BY <1>2, Zenon DEF SteerAnswer
    <2>2. QED
      BY <1>1, <2>1, GotoDoes, UnwrittenWire DEF TaskWorld, AnswerWorld, Answered
  <1>3. ASSUME SteerAnswerLate(n)
        PROVE  AnswerWorld(n) /\ TaskWorld(<<"steer", n>>, "done") /\ UNCHANGED <<thread, reported>>
    <2>1. /\ Answered(<<"steer", n>>) /\ Goto(<<"steer", n>>, "done")
          /\ UNCHANGED <<inputs, first, stops, closing, route, link, wire, sent, consumed, told,
                         stopped, agent, thread, reported>>
      BY <1>3, Zenon DEF SteerAnswerLate, logVars
    <2>2. QED
      BY <1>1, <2>1, GotoDoes, UnwrittenWire DEF TaskWorld, AnswerWorld, Answered
  <1>4. QED
    BY <1>2, <1>3

\* What the second cancel does.
LEMMA CancelTakes ==
  ASSUME Typed, NEW n \in Inputs, CancelAgain(n)
  PROVE  /\ pc[<<"steer", n>>] = "cancel" /\ <<"steer", n>> \in Tasks /\ AgentKeeps
         /\ TaskWorld(<<"steer", n>>, "peek") /\ UNCHANGED <<thread, reported>>
  <1>1. <<"steer", n>> \in Tasks
    BY TaskFacts
  <1>2. /\ pc[<<"steer", n>>] = "cancel" /\ Goto(<<"steer", n>>, "peek") /\ SendCancel
        /\ UNCHANGED <<inputs, first, stops, closing, route, link, wire, sent, consumed, told,
                       stopped, thread, reported>>
    BY Zenon DEF CancelAgain, logVars
  <1>3. QED
    BY <1>1, <1>2, GotoDoes, SendCancelDoes, UnwrittenWire DEF TaskWorld

\* A task looks whether there is input to send.
PeekWorld(t) ==
    /\ pc[t] = "peek" /\ Silences
    /\ \A u \in Tasks \ {t} : pc'[u] = pc[u] /\ captured'[u] = captured[u]
    /\ IF FallbackDue(thread) THEN pc'[t] = "start" /\ captured'[t] = thread.pending.id
       ELSE pc'[t] = "done" /\ captured'[t] = 0
    /\ UNCHANGED <<answer, thread, inputs, first, stops, closing, route, link, agent, wire, sent,
                   consumed, told, reported, stopped>>

\* What the look at the snapshot before a fallback does.
LEMMA PeekLooks == ASSUME Typed, NEW t \in Tasks, Peek(t) PROVE PeekWorld(t)
  <1>1. pc \in [Tasks -> {"none", "waiting", "peek", "cancel", "start", "done"}]
        /\ captured \in [Tasks -> 0..MaxInputs]
    BY TypeSplit DEF PlacesOK
  <1>2. /\ pc[t] = "peek"
        /\ pc' = [pc EXCEPT ![t] = IF FallbackDue(thread) THEN "start" ELSE "done"]
        /\ captured' = [captured EXCEPT ![t] = IF FallbackDue(thread) THEN thread.pending.id ELSE 0]
        /\ UNCHANGED <<answer, thread, inputs, first, stops, closing, route, link, agent, wire,
                       sent,
                       consumed, told, reported, stopped>>
    BY Zenon DEF Peek, logVars
  <1>3. Silences
    BY <1>2, UnwrittenWire
  <1>4. QED
    BY <1>1, <1>2, <1>3 DEF PeekWorld

\* A fallback is sent as a prompt whose own task waits.
FallbackWorld(t, n) ==
    /\ pc[t] = "start" /\ captured[t] = n /\ route /\ link \in {"up", "broken"}
    /\ n \in Inputs /\ <<"prompt", n>> \in Tasks
    /\ \A u \in Tasks : /\ pc'[u] = IF u = <<"prompt", n>> THEN "waiting"
                                    ELSE IF u = t THEN "done" ELSE pc[u]
                        /\ answer'[u] = IF u = <<"prompt", n>>
                                        THEN IF link = "up" THEN "none" ELSE "lost" ELSE answer[u]
                        /\ captured'[u] = IF u = t THEN 0 ELSE captured[u]
    /\ Queued(n) /\ SendsOnce(n) /\ Silences
    /\ UNCHANGED <<inputs, first, stops, closing, route, link, wire, consumed, told, reported,
                   stopped>>

\* What a fallback that is admitted does to all but the snapshot.
LEMMA FallbackSends ==
  ASSUME Typed, StatusInv, NEW t \in Tasks, FallbackStart(t) PROVE FallbackWorld(t, captured[t])
  <1> DEFINE n == captured[t]
  <1>1. n \in Inputs
    BY FallbackStartDoes DEF AfterFallback
  <1>2. <<"prompt", n>> \in Tasks
    BY <1>1, TaskFacts
  <1>3. /\ pc[t] = "start" /\ Connected
        /\ pc' = [pc EXCEPT ![t] = "done", ![<<"prompt", n>>] = "waiting"]
        /\ answer' = [answer EXCEPT ![<<"prompt", n>>] = IF link = "up" THEN "none" ELSE "lost"]
        /\ captured' = [captured EXCEPT ![t] = 0]
        /\ sent' = [sent EXCEPT ![n] = @ + 1]
        /\ agent' = IF link = "up" THEN [agent EXCEPT !.queue = @ \cup {n}] ELSE agent
        /\ UNCHANGED <<inputs, first, stops, closing, route, link, wire, consumed, told, reported,
                       stopped>>
    BY Zenon DEF FallbackStart
  <1>4. pc \in [Tasks -> {"none", "waiting", "peek", "cancel", "start", "done"}]
        /\ captured \in [Tasks -> 0..MaxInputs]
    BY TypeSplit DEF PlacesOK
  <1>5. answer \in [Tasks -> PromptEnds \cup SteerEnds \cup {"none", "lost"}]
    BY DEF Typed, WorldOK
  <1>6. Queued(n) /\ SendsOnce(n) /\ Silences
    BY <1>1, <1>3, QueuedIs, SentIs, UnwrittenWire
  <1> HIDE DEF n
  <1>7. \A u \in Tasks : /\ pc'[u] = IF u = <<"prompt", n>> THEN "waiting"
                                     ELSE IF u = t THEN "done" ELSE pc[u]
                         /\ answer'[u] = IF u = <<"prompt", n>>
                                         THEN IF link = "up" THEN "none" ELSE "lost" ELSE answer[u]
                         /\ captured'[u] = IF u = t THEN 0 ELSE captured[u]
    BY <1>2, <1>3, <1>4, <1>5
  <1>8. QED
    BY <1>1, <1>2, <1>3, <1>6, <1>7 DEF FallbackWorld, Connected, n

RefusedWorld(t) ==
    /\ pc[t] = "start" /\ TaskWorld(t, "done") /\ UNCHANGED <<agent, reported>>

\* What a fallback that is refused does to all but the snapshot.
LEMMA RefusedTakes == ASSUME Typed, NEW t \in Tasks, FallbackRefused(t) PROVE RefusedWorld(t)
  <1>1. /\ pc[t] = "start" /\ Goto(t, "done")
        /\ UNCHANGED <<inputs, first, stops, closing, route, link, wire, sent, consumed, told,
                       stopped, agent, reported>>
    BY Zenon DEF FallbackRefused, logVars
  <1>2. QED
    BY <1>1, GotoDoes, UnwrittenWire DEF TaskWorld, RefusedWorld

\* The connection breaks: what waits is answered with an error.
BreakWorld ==
    /\ link = "up" /\ link' = "broken" /\ wire' = <<>> /\ Len(wire') = 0
    /\ agent' \in AgentState /\ agent'.reports = agent.reports /\ agent'.leaves = agent.leaves
    /\ agent'.running = 0 /\ agent'.announced = FALSE /\ agent'.queue = {}
    /\ \A n \in Inputs : agent'.asked[n] = "none"
    /\ \A u \in Tasks : answer'[u] = IF pc[u] = "waiting" /\ answer[u] = "none" THEN "lost"
                                     ELSE answer[u]
    /\ \A u \in Tasks : ~Wired(u)' /\ \A how : ~OnWire(u, how)'
    /\ UNCHANGED <<pc, captured, thread, inputs, first, stops, closing, route, sent, consumed,
                   told, reported, stopped>>

\* What the end of the adapter does.
LEMMA BreakDoes == ASSUME Typed, Break PROVE BreakWorld
  <1>1. /\ link = "up" /\ link' = "broken" /\ wire' = <<>>
        /\ agent' = Agent(agent.reports, agent.leaves)
        /\ answer' = [t \in Tasks |-> IF pc[t] = "waiting" /\ answer[t] = "none" THEN "lost"
                                      ELSE answer[t]]
        /\ UNCHANGED <<pc, captured, thread, inputs, first, stops, closing, route, sent, consumed,
                       told, reported, stopped>>
    BY Zenon DEF Break, logVars
  <1>2. /\ agent' \in AgentState /\ agent'.reports = agent.reports /\ agent'.leaves = agent.leaves
        /\ agent'.running = 0 /\ agent'.announced = FALSE /\ agent'.queue = {}
        /\ \A n \in Inputs : agent'.asked[n] = "none"
    BY <1>1, IdleAgent
  <1>3. Len(wire') = 0
    BY <1>1
  <1>4. \A u \in Tasks : ~Wired(u)' /\ \A how : ~OnWire(u, how)'
    BY <1>3 DEF Wired, OnWire
  <1>5. \A u \in Tasks : answer'[u] = IF pc[u] = "waiting" /\ answer[u] = "none" THEN "lost"
                                      ELSE answer[u]
    BY <1>1, Zenon
  <1>6. QED
    BY <1>1, <1>2, <1>3, <1>4, <1>5, Zenon DEF BreakWorld

\* A message has been read; a response reaches its task.
ReadWorld ==
    /\ ReadOne /\ ReadFor(wire[1].to)
    /\ \/ wire[1].kind = "activity" /\ wire[1].to \notin Tasks /\ answer' = answer
       \/ /\ wire[1].kind = "response" /\ wire[1].to \in Tasks /\ wire[1].what # "none"
          /\ wire[1].what # "lost" /\ wire[1].what \in AllEnds /\ wire[1].what \in Ends(wire[1].to)
          /\ OnWire(wire[1].to, wire[1].what) /\ Wired(wire[1].to) /\ thread' = thread
          /\ \A u \in Tasks : answer'[u] = IF u = wire[1].to THEN wire[1].what ELSE answer[u]
    /\ UNCHANGED <<pc, captured, inputs, first, stops, closing, route, link, agent, sent, consumed,
                   told, reported, stopped>>

\* What a message does to all but the snapshot that is read.
LEMMA ReadTakes == ASSUME Typed, TurnInv, Receive PROVE ReadWorld
  <1> DEFINE m == wire[1]
  <1>1. AfterRead
    BY ReadDoes
  <1>2. ReadOne /\ ReadFor(m.to)
    BY <1>1, ReadKeeps DEF AfterRead
  <1>3. UNCHANGED <<pc, captured, inputs, first, stops, closing, route, link, agent, sent, consumed,
                    told, reported, stopped>>
    BY Zenon DEF Receive, logVars
  <1>4. m \in Messages /\ 1 \in 1..Len(wire)
    BY <1>2 DEF ReadOne
  <1>5. CASE m.kind = "activity"
    <2>1. m.to \notin Tasks
      BY <1>4, <1>5, MessageFacts
    <2>2. answer' = answer
      BY <1>1, <1>5 DEF AfterRead
    <2>3. QED
      BY <1>2, <1>3, <1>5, <2>1, <2>2, Zenon DEF ReadWorld
  <1>6. CASE m.kind # "activity"
    <2>1. /\ m.kind = "response" /\ m.to \in Tasks /\ m.what \in Ends(m.to)
          /\ answer' = [answer EXCEPT ![m.to] = m.what] /\ thread' = thread
      BY <1>1, <1>6 DEF AfterRead
    <2>2. m.what # "none" /\ m.what # "lost"
      BY <1>4, <2>1, MessageFacts
    <2>3. m.what \in AllEnds
      BY <2>1 DEF Ends, AllEnds
    <2>4. answer \in [Tasks -> PromptEnds \cup SteerEnds \cup {"none", "lost"}]
      BY DEF Typed, WorldOK
    <2>5. \A u \in Tasks : answer'[u] = IF u = m.to THEN m.what ELSE answer[u]
      BY <2>1, <2>4, Zenon
    <2>6. OnWire(m.to, m.what) /\ Wired(m.to)
      BY <1>4 DEF OnWire, Wired
    <2>7. QED
      BY <1>2, <1>3, <2>1, <2>2, <2>3, <2>5, <2>6, Zenon DEF ReadWorld
  <1>7. QED
    BY <1>5, <1>6

\* The steps that leave requests, inputs and messages as they are.
OthersKeep ==
    /\ UNCHANGED <<pc, answer, captured, inputs, wire, sent, consumed, told, reported>>
    /\ AgentKeeps /\ Silences

\* What the other steps leave alone.
LEMMA BystandersKeep ==
  ASSUME Typed,
         \/ PromptUnsaved \/ Stop \/ StopSent \/ Close \/ Closed \/ CloseFails
         \/ Reopen \/ StopConnection \/ ConnectionLost
  PROVE  OthersKeep
  <1>1. /\ UNCHANGED <<pc, answer, captured, inputs, wire, sent, consumed, told, reported>>
        /\ SendCancel \/ UNCHANGED agent
    BY Zenon DEF PromptUnsaved, Stop, StopSent, Close, Closed, CloseFails, Reopen, StopConnection,
                 ConnectionLost, taskVars, logVars
  <1>2. QED
    BY <1>1, SendCancelDoes, UnwrittenWire DEF OthersKeep

\* The agent changes nothing but itself, what it writes and what it has said and taken.
AgentAlone ==
    UNCHANGED <<thread, inputs, first, pc, answer, captured, stops, closing, route, link, sent,
                reported, stopped>>

\* What the agent leaves alone.
LEMMA AgentsKeep ==
  ASSUME \/ AgentBegins \/ AgentEnds \/ AgentAnnounces
         \/ \E n \in Inputs : AgentConsumes(n) \/ AgentAnswers(n)
  PROVE  AgentAlone
  BY Zenon DEF AgentBegins, AgentEnds, AgentAnnounces, AgentConsumes, AgentAnswers, AgentFrame,
               AgentAlone, taskVars, logVars

BeginsWorld == AfterBegins /\ Silences /\ AgentAlone /\ UNCHANGED <<consumed, told>>

\* All that changes when the agent begins a prompt.
LEMMA BeginsMoves == ASSUME Typed, AgentBegins PROVE BeginsWorld
  <1>1. UNCHANGED <<consumed, told>>
    BY Zenon DEF AgentBegins, logVars
  <1>2. QED
    BY <1>1, BeginsDoes, BeginsWrites, AgentsKeep DEF BeginsWorld

AnnouncesWorld == AfterAnnounces /\ Silences /\ AgentAlone /\ UNCHANGED <<consumed, told>>

\* All that changes when the agent announces a turn.
LEMMA AnnouncesMoves == ASSUME Typed, AgentAnnounces PROVE AnnouncesWorld
  <1>1. UNCHANGED <<consumed, told>>
    BY Zenon DEF AgentAnnounces, logVars
  <1>2. QED
    BY <1>1, AnnouncesDoes, AnnouncesWrites, AgentsKeep DEF AnnouncesWorld

EndsWorld ==
    LET n == agent.running IN
    /\ n \in Inputs /\ agent.announced /\ link = "up" /\ AfterEnds /\ AgentAlone
    /\ UNCHANGED consumed
    /\ \/ \E how \in PromptEnds :
            /\ sent[n] > 0 /\ Tells(<<"prompt", n>>, how)
            /\ \A m \in Inputs : told'[m] = IF m = n THEN how ELSE told[m]
       \/ ~(sent[n] > 0) /\ Silences /\ told' = told

\* All that changes when the agent ends a turn.
LEMMA EndsMoves == ASSUME Typed, AgentEnds PROVE EndsWorld
  <1> DEFINE n == agent.running
  <1>1. UNCHANGED consumed
    BY Zenon DEF AgentEnds
  <1>2. told \in [Inputs -> PromptEnds \cup {"none"}]
    BY DEF Typed, WorldOK
  <1>3. n \in Inputs /\ agent.announced /\ link = "up" /\ AfterEnds /\ AgentAlone
    BY EndsWrites, EndsDoes, AgentsKeep
  <1>4. CASE \E how \in PromptEnds, s \in Seq(Messages) : EndsPrompt(n, how, s)
    <2>1. PICK how \in PromptEnds :
            /\ sent[n] > 0 /\ Tells(<<"prompt", n>>, how) /\ told' = [told EXCEPT ![n] = how]
      BY <1>4 DEF EndsPrompt
    <2>2. \A m \in Inputs : told'[m] = IF m = n THEN how ELSE told[m]
      BY <1>2, <2>1
    <2>3. QED
      BY <1>1, <1>3, <2>1, <2>2, Zenon DEF EndsWorld
  <1>5. CASE \E how \in {"idle", "failed"} : EndsOwn(n, how)
    BY <1>1, <1>3, <1>5, Zenon DEF EndsWorld, EndsOwn
  <1>6. QED
    BY <1>4, <1>5, EndsWrites

ConsumesWorld(n) ==
    /\ AfterConsumes(n) /\ Silences /\ AgentAlone /\ UNCHANGED told
    /\ \A m \in Inputs : consumed'[m] = IF m = n THEN consumed[m] + 1 ELSE consumed[m]

\* All that changes when the agent takes steering input.
LEMMA ConsumesMoves == ASSUME Typed, NEW n \in Inputs, AgentConsumes(n) PROVE ConsumesWorld(n)
  <1>1. consumed' = [consumed EXCEPT ![n] = @ + 1] /\ UNCHANGED told
    BY Zenon DEF AgentConsumes
  <1>2. consumed \in [Inputs -> Nat]
    BY DEF Typed, WorldOK
  <1>3. \A m \in Inputs : consumed'[m] = IF m = n THEN consumed[m] + 1 ELSE consumed[m]
    BY <1>1, <1>2
  <1>4. QED
    BY <1>1, <1>3, ConsumesDoes, ConsumesWrites, AgentsKeep DEF ConsumesWorld

AnswersWorld(n, how) ==
    /\ Replies(n, how) /\ AgentAlone /\ UNCHANGED <<consumed, told>>
    /\ Consults(n, "none") /\ agent'.running = agent.running /\ agent'.announced = agent.announced

\* All that changes when the agent answers steering.
LEMMA AnswersMoves ==
  ASSUME Typed, NEW n \in Inputs, AgentAnswers(n) PROVE \E how \in SteerEnds : AnswersWorld(n, how)
  <1>1. PICK how \in SteerEnds : Replies(n, how)
    BY AnswersWrites
  <1>2. UNCHANGED <<consumed, told>>
    BY Zenon DEF AgentAnswers, logVars
  <1>3. /\ Consults(n, "none") /\ agent'.running = agent.running /\ agent'.announced = agent.announced
    BY <1>1, ConsultsIs DEF Replies
  <1>4. AgentAlone
    BY AgentsKeep
  <1>5. QED
    BY <1>1, <1>2, <1>3, <1>4 DEF AnswersWorld

\* A task whose response is on the wire is answered there.
LEMMA OnWireWired == ASSUME NEW t, NEW how, OnWire(t, how) PROVE Wired(t)
  BY DEF OnWire, Wired
=============================================================================
