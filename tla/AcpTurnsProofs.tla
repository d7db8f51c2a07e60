--------------------------- MODULE AcpTurnsProofs ---------------------------
(* The other parts of the inductive invariant of AcpTurns, one section each, and *)
(* the theorems that follow from it.                                           *)
EXTENDS AcpTurnsSteps

-----------------------------------------------------------------------------
(* Requests and their answers *)

\* What is appended answers at most one task, that is not answered yet.
LEMMA AppendOnce ==
  ASSUME Typed, OneAnswer, NEW s, Wrote(s), NEW t,
         \A i \in 1..Len(s) : s[i].kind = "response" => s[i].to = t,
         \A i, j \in 1..Len(s) : s[i].kind = "response" /\ s[i].to = s[j].to => i = j,
         \A i \in 1..Len(s) : s[i].kind = "response" => ~Wired(t),
         \A i \in 1..Len(s) : s[i].kind # "response" => s[i].to \notin Tasks
  PROVE  OneAnswer'
  <1> SUFFICES ASSUME NEW i \in 1..Len(wire'), NEW j \in 1..Len(wire'),
                      wire'[i].kind = "response", wire'[i].to = wire'[j].to
               PROVE  i = j
    BY DEF OneAnswer
  <1>1. wire \in Seq(Messages)
    BY DEF Typed, WorldOK
  <1>2. \A k \in 1..Len(wire') : \/ k \in 1..Len(wire) /\ wire'[k] = wire[k]
                                 \/ k - Len(wire) \in 1..Len(s) /\ wire'[k] = s[k - Len(wire)]
    BY DEF Wrote
  <1>3. Len(wire) \in Nat
    BY <1>1
  <1>4. CASE i \in 1..Len(wire) /\ wire'[i] = wire[i]
    <2>1. wire[i] \in Messages
      BY <1>1, <1>4
    <2>2. wire[i].to \in Tasks
      BY <1>4, <2>1, MessageFacts
    <2>3. CASE j \in 1..Len(wire) /\ wire'[j] = wire[j]
      BY <1>4, <2>3 DEF OneAnswer
    <2>4. CASE j - Len(wire) \in 1..Len(s) /\ wire'[j] = s[j - Len(wire)]
      <3>1. s[j - Len(wire)].to = wire[i].to
        BY <1>4, <2>4
      <3>2. s[j - Len(wire)].kind = "response"
        BY <2>2, <2>4, <3>1
      <3>3. wire[i].to = t /\ ~Wired(t)
        BY <2>4, <3>1, <3>2
      <3>4. QED
        BY <1>4, <3>3 DEF Wired
    <2>5. QED
      BY <1>2, <2>3, <2>4
  <1>5. CASE i - Len(wire) \in 1..Len(s) /\ wire'[i] = s[i - Len(wire)]
    <2>1. s[i - Len(wire)].to = t /\ ~Wired(t) /\ s[i - Len(wire)].kind = "response"
      BY <1>5
    <2>2. CASE j \in 1..Len(wire) /\ wire'[j] = wire[j]
      BY <1>5, <2>1, <2>2 DEF Wired
    <2>3. CASE j - Len(wire) \in 1..Len(s) /\ wire'[j] = s[j - Len(wire)]
      <3>1. i - Len(wire) = j - Len(wire)
        BY <1>5, <2>1, <2>3
      <3>2. QED
        BY <1>3, <3>1
    <2>4. QED
      BY <1>2, <2>2, <2>3
  <1>6. QED
    BY <1>2, <1>4, <1>5

\* At most one response for a task is on the wire, whatever is reported besides.
LEMMA ReportOnce ==
  ASSUME Typed, OneAnswer, NEW what \in Activities, wire' = wire \o Reports(agent, what)
  PROVE  OneAnswer'
  <1> DEFINE s == Reports(agent, what)
  <1>1. Wrote(s) /\ \A i \in 1..Len(s) : s[i] = Activity(what)
    BY ReportWritten
  <1>2. Activity(what).kind # "response" /\ Activity(what).to \notin Tasks
    BY ReportType, TaskFacts
  <1> HIDE DEF s
  <1>3. \A i \in 1..Len(s) : s[i].kind # "response" /\ s[i].to \notin Tasks
    BY <1>1, <1>2
  <1>4. QED
    BY <1>1, <1>3, AppendOnce

\* No step puts a second response for a task on the wire.
LEMMA OneAnswerStep == Typed /\ TurnInv /\ MailInv /\ [Next]_vars => OneAnswer'
  <1> SUFFICES ASSUME Typed, TurnInv, MailInv, [Next]_vars PROVE OneAnswer'
    OBVIOUS
  <1> OneAnswer
    BY DEF MailInv
  <1>1. ASSUME Receive PROVE OneAnswer'
    <2>1. ReadOne
      BY <1>1, ReceiveReads
    <2>2. \A i \in 1..Len(wire') : i + 1 \in 1..Len(wire) /\ wire'[i] = wire[i + 1]
      BY <2>1 DEF ReadOne
    <2>3. ASSUME NEW i \in 1..Len(wire'), NEW j \in 1..Len(wire'),
                 wire'[i].kind = "response", wire'[i].to = wire'[j].to
          PROVE  i = j
      <3>1. i + 1 = j + 1
        BY <2>2, <2>3 DEF OneAnswer
      <3>2. QED
        BY <3>1
    <2>4. QED
      BY <2>3 DEF OneAnswer
  <1>2. ASSUME Break PROVE OneAnswer'
    <2>1. Len(wire') = 0
      BY <1>2, BreakDoes DEF BreakWorld
    <2>2. QED
      BY <2>1 DEF OneAnswer
  <1>3. ASSUME AgentBegins PROVE OneAnswer'
    <2>1. wire' = wire \o Reports(agent, "active") /\ "active" \in Activities
      BY <1>3, BeginsWrites DEF Activities
    <2>2. QED
      BY <2>1, ReportOnce
  <1>4. ASSUME AgentAnnounces PROVE OneAnswer'
    <2>1. wire' = wire \o Reports(agent, "active") /\ "active" \in Activities
      BY <1>4, AnnouncesWrites DEF Activities
    <2>2. QED
      BY <2>1, ReportOnce
  <1>5. ASSUME AgentEnds PROVE OneAnswer'
    <2> DEFINE n == agent.running
    <2>1. CASE \E how \in PromptEnds, s \in Seq(Messages) : EndsPrompt(n, how, s)
      <3>1. PICK how \in PromptEnds, s \in Seq(Messages) : EndsPrompt(n, how, s)
        BY <2>1
      <3> DEFINE r == Response(<<"prompt", n>>, how)
                 a == Activity("idle")
      <3>2. n \in Inputs
        BY <1>5, EndsWrites
      <3>3. r.kind = "response" /\ r.to = <<"prompt", n>> /\ <<"prompt", n>> \in Tasks
        <4>1. r.kind = "response" /\ r.to = <<"prompt", n>>
          BY <3>2, ResponseType
        <4>2. QED
          BY <3>2, <4>1, TaskFacts
      <3>4. a.kind # "response" /\ a.to \notin Tasks
        BY ReportType, TaskFacts DEF Activities
      <3>5. ~Wired(<<"prompt", n>>)
        BY <3>1, <3>2 DEF EndsPrompt, MailInv, Expects, AtAgent
      <3>6. /\ \A i \in 1..Len(s) : s[i] = r \/ s[i] = a
            /\ \A i, j \in 1..Len(s) : s[i] = r /\ s[j] = r => i = j
            /\ Wrote(s)
        BY <3>1 DEF EndsPrompt
      <3> HIDE DEF r, a, n
      <3>7. /\ \A i \in 1..Len(s) : s[i].kind = "response" => s[i].to = <<"prompt", n>>
            /\ \A i, j \in 1..Len(s) : s[i].kind = "response" /\ s[i].to = s[j].to => i = j
            /\ \A i \in 1..Len(s) : s[i].kind # "response" => s[i].to \notin Tasks
        BY <3>3, <3>4, <3>6
      <3>8. QED
        BY <3>5, <3>6, <3>7, AppendOnce
    <2>2. CASE \E how \in {"idle", "failed"} : EndsOwn(n, how)
      <3>1. PICK how \in {"idle", "failed"} : wire' = wire \o Reports(agent, how)
        BY <2>2 DEF EndsOwn
      <3>2. how \in Activities
        BY DEF Activities
      <3>3. QED
        BY <3>1, <3>2, ReportOnce
    <2>3. QED
      BY <1>5, <2>1, <2>2, EndsWrites
  <1>6. ASSUME NEW n \in Inputs, AgentConsumes(n) PROVE OneAnswer'
    <2>1. wire' = wire
      BY <1>6, ConsumesWrites
    <2>2. QED
      BY <2>1 DEF OneAnswer
  <1>7. ASSUME NEW n \in Inputs, AgentAnswers(n) PROVE OneAnswer'
    <2>1. PICK how \in SteerEnds : Replies(n, how)
      BY <1>7, AnswersWrites
    <2> DEFINE r == Response(<<"steer", n>>, how)
               s == <<r>>
    <2>2. r \in Messages /\ r.to = <<"steer", n>>
      BY ResponseType
    <2>3. s \in Seq(Messages) /\ Len(s) = 1 /\ s[1] = r /\ wire' = wire \o s
      BY <2>1, <2>2, OneMessage DEF Replies
    <2>4. Wrote(s)
      BY <2>3, AppendWrites
    <2>5. ~Wired(<<"steer", n>>)
      BY <2>1 DEF Replies, MailInv, Expects
    <2>6. r.kind = "response"
      BY <2>2, MessageFacts, TaskFacts
    <2> HIDE DEF r, s
    <2>7. /\ \A i \in 1..Len(s) : s[i].kind = "response" /\ s[i].to = <<"steer", n>>
          /\ \A i, j \in 1..Len(s) : i = j
      BY <2>2, <2>3, <2>6
    <2>8. QED
      BY <2>4, <2>5, <2>7, AppendOnce
  <1>8. ASSUME UNCHANGED wire PROVE OneAnswer'
    BY <1>8 DEF OneAnswer
  <1>9. QED
    BY <1>1, <1>2, <1>3, <1>4, <1>5, <1>6, <1>7, <1>8, Zenon
       DEF Next, User, Settling, Task, AgentNext, Prompt, PromptUnsaved, Steer, Stop, Close, Reopen,
           PromptResult, PromptResultLate, SteerAnswer, SteerAnswerLate, CancelAgain, Peek,
           FallbackStart, FallbackRefused, StopSent, Closed, CloseFails, StopConnection,
           ConnectionLost, SendPrompt, vars

\* A task that is neither fresh nor waiting.
Busy(step) == step \notin {"none", "waiting"}

MailOf(u) ==
    /\ answer[u] # "none" => pc[u] = "waiting"
    /\ Wired(u) => pc[u] = "waiting" /\ answer[u] = "none"
    /\ \A n \in Inputs : u = <<"steer", n>> /\ agent.asked[n] # "none" => Expects(u)
    /\ \A n \in Inputs : u = <<"prompt", n>> /\ AtAgent(n) => Expects(u)
    /\ \A n \in Inputs : u = <<"prompt", n>> /\ pc[u] # "none" => sent[n] > 0

\* It is enough to look at the one task whose request or response moves.
LEMMA MailAt ==
  ASSUME Typed, MailInv, OneAnswer', NEW u,
         \A t \in Tasks : t # u =>
           /\ pc'[t] = pc[t] \/ (Busy(pc[t]) /\ Busy(pc'[t]))
           /\ answer'[t] = answer[t] /\ (Wired(t)' <=> Wired(t)),
         \A n \in Inputs : <<"steer", n>> # u /\ agent'.asked[n] # "none" => agent.asked[n] # "none",
         \A n \in Inputs : <<"prompt", n>> # u => sent'[n] = sent[n] /\ (AtAgent(n)' => AtAgent(n)),
         u \in Tasks => MailOf(u)', agent'.running \notin agent'.queue
  PROVE  MailInv'
  <1>1. ASSUME NEW t \in Tasks, t # u PROVE Expects(t) => Expects(t)'
    BY <1>1 DEF Expects, Busy
  <1>2. \A n \in Inputs : agent'.asked[n] # "none" => Expects(<<"steer", n>>)'
    <2>1. ASSUME NEW n \in Inputs, agent'.asked[n] # "none" PROVE Expects(<<"steer", n>>)'
      <3>1. <<"steer", n>> \in Tasks
        BY TaskFacts
      <3>2. CASE u = <<"steer", n>>
        BY <2>1, <3>1, <3>2 DEF MailOf
      <3>3. CASE u # <<"steer", n>>
        BY <1>1, <2>1, <3>1, <3>3 DEF MailInv
      <3>4. QED
        BY <3>2, <3>3
    <2>2. QED
      BY <2>1
  <1>3. \A n \in Inputs : AtAgent(n)' => Expects(<<"prompt", n>>)'
    <2>1. ASSUME NEW n \in Inputs, AtAgent(n)' PROVE Expects(<<"prompt", n>>)'
      <3>1. <<"prompt", n>> \in Tasks
        BY TaskFacts
      <3>2. CASE u = <<"prompt", n>>
        BY <2>1, <3>1, <3>2 DEF MailOf
      <3>3. CASE u # <<"prompt", n>>
        BY <1>1, <2>1, <3>1, <3>3 DEF MailInv
      <3>4. QED
        BY <3>2, <3>3
    <2>2. QED
      BY <2>1
  <1>4. \A n \in Inputs : pc'[<<"prompt", n>>] # "none" => sent'[n] > 0
    <2>1. ASSUME NEW n \in Inputs, pc'[<<"prompt", n>>] # "none" PROVE sent'[n] > 0
      <3>1. <<"prompt", n>> \in Tasks
        BY TaskFacts
      <3>2. CASE u = <<"prompt", n>>
        BY <2>1, <3>1, <3>2 DEF MailOf
      <3>3. CASE u # <<"prompt", n>>
        BY <2>1, <3>1, <3>3 DEF MailInv, Busy
      <3>4. QED
        BY <3>2, <3>3
    <2>2. QED
      BY <2>1
  <1>5. \A t \in Tasks : answer'[t] # "none" => pc'[t] = "waiting"
    BY DEF MailInv, MailOf, Busy
  <1>6. \A t \in Tasks : Wired(t)' => pc'[t] = "waiting" /\ answer'[t] = "none"
    BY DEF MailInv, MailOf, Busy
  <1>7. QED
    BY <1>2, <1>3, <1>4, <1>5, <1>6 DEF MailInv

\* A turn of the agent's own took its input, and says so when it is asked.
LEMMA OwnTurn ==
  ASSUME LeavesInv, NEW n \in Inputs, agent.running = n, sent[n] = 0
  PROVE  /\ consumed[n] = 1 /\ agent.asked[n] \in {"none", "started"}
         /\ answer[<<"steer", n>>] \in {"none", "lost", "started"}
         /\ \A how \in SteerEnds \ {"started"} : ~OnWire(<<"steer", n>>, how)
  BY Zenon DEF LeavesInv

\* What is left alone stays as it was.
LEMMA MailKept ==
  ASSUME Typed, MailInv, OthersKeep, OneAnswer'
  PROVE  MailInv'
  <1>1. ASSUME NEW t \in Tasks PROVE Expects(t)' <=> Expects(t)
    BY DEF OthersKeep, Silences, Same, Expects
  <1>2. \A n \in Inputs : AtAgent(n)' <=> AtAgent(n)
    BY DEF OthersKeep, AgentKeeps, AtAgent
  <1>3. \A n \in Inputs : agent'.asked[n] # "none" => Expects(<<"steer", n>>)'
    BY <1>1, TaskFacts DEF OthersKeep, AgentKeeps, MailInv
  <1>4. \A n \in Inputs : AtAgent(n)' => Expects(<<"prompt", n>>)'
    BY <1>1, <1>2, TaskFacts DEF MailInv
  <1>5. /\ \A t \in Tasks : answer'[t] # "none" => pc'[t] = "waiting"
        /\ \A t \in Tasks : Wired(t)' => pc'[t] = "waiting" /\ answer'[t] = "none"
        /\ \A n \in Inputs : pc'[<<"prompt", n>>] # "none" => sent'[n] > 0
        /\ agent'.running \notin agent'.queue
    BY DEF OthersKeep, AgentKeeps, MailInv, Silences, Same
  <1>6. QED
    BY <1>3, <1>4, <1>5 DEF MailInv

\* A request has one answer, and the answer one reader.
LEMMA MailStep ==
  Typed /\ FreshInv /\ MailInv /\ OnceInv /\ LeavesInv /\ LinkInv /\ TurnInv /\ StatusInv
    /\ [Next]_vars
    => MailInv'
  <1> SUFFICES ASSUME Typed, FreshInv, MailInv, OnceInv, LeavesInv, LinkInv, TurnInv, StatusInv,
                      [Next]_vars
               PROVE  MailInv'
    OBVIOUS
  <1> OneAnswer'
    BY OneAnswerStep
  <1>1. ASSUME Prompt PROVE MailInv'
    <2>1. PromptWorld
      BY <1>1, PromptSends
    <2>0. PICK n \in Inputs : n = inputs + 1
      BY <2>1 DEF PromptWorld
    <2> DEFINE u == <<"prompt", n>>
    <2>2. n \in Inputs /\ u \in Tasks
      BY <2>0, TaskFacts
    <2>3. pc[u] = "none" /\ sent[n] = 0 /\ consumed[n] = 0
      <3>1. n > inputs
        BY <2>0, TypeSplit DEF PlacesOK
      <3>2. QED
        BY <2>2, <3>1 DEF FreshInv
    <2>4. ~Wired(u) /\ answer[u] = "none"
      BY <2>2, <2>3 DEF MailInv
    <2>5. agent.running # n
      <3>1. consumed[n] # 1
        BY <2>3
      <3>2. QED
        BY <2>2, <2>3, <3>1, OwnTurn
    <2>6. /\ link # "up" => agent'.queue = {}
          /\ agent'.running = agent.running /\ agent'.asked = agent.asked
          /\ agent'.queue \subseteq agent.queue \cup {n}
          /\ \A m \in Inputs : sent'[m] = IF m = n THEN 1 ELSE sent[m]
      <3>1. Queued(n) /\ SendsOnce(n)
        BY <2>0, <2>1 DEF PromptWorld
      <3>2. QED
        BY <2>2, <2>3, <3>1 DEF Queued, SendsOnce, LinkInv
    <2>7. \A t \in Tasks : /\ pc'[t] = IF t = u THEN "waiting" ELSE pc[t]
                           /\ answer'[t] = IF t = u THEN IF link = "up" THEN "none" ELSE "lost"
                                           ELSE answer[t]
                           /\ Wired(t)' <=> Wired(t)
      BY <2>0, <2>1 DEF PromptWorld, Asks, Silences, Same
    <2>8. \A m \in Inputs : <<"prompt", m>> # u => m # n
      OBVIOUS
    <2>9. \A m \in Inputs : <<"prompt", m>> # u => sent'[m] = sent[m] /\ (AtAgent(m)' => AtAgent(m))
      BY <2>6, <2>8 DEF AtAgent
    <2>10. \A m \in Inputs : /\ u # <<"steer", m>>
                             /\ u = <<"prompt", m>> => m = n
      BY <2>2, TaskFacts
    <2>11. AtAgent(n)' => link = "up"
      BY <2>5, <2>6 DEF AtAgent
    <2>12. MailOf(u)'
      <3>1. AtAgent(n)' => Expects(u)'
        BY <2>2, <2>4, <2>7, <2>11 DEF Expects
      <3>2. sent'[n] > 0
        BY <2>2, <2>6
      <3>3. QED
        BY <2>2, <2>4, <2>7, <2>10, <3>1, <3>2 DEF MailOf
    <2>13. agent'.running \notin agent'.queue
      BY <2>5, <2>6 DEF MailInv
    <2> HIDE DEF u
    <2>14. QED
      BY <2>6, <2>7, <2>9, <2>12, <2>13, MailAt
  <1>2. ASSUME PromptUnsaved PROVE MailInv'
    <2>1. OthersKeep
      BY <1>2, BystandersKeep
    <2>2. QED
      BY <2>1, MailKept
  <1>3. ASSUME Steer PROVE MailInv'
    <2>1. SteerWorld
      BY <1>3, SteerSends
    <2>0. PICK n \in Inputs : n = inputs + 1
      BY <2>1 DEF SteerWorld
    <2> DEFINE u == <<"steer", n>>
    <2>2. n \in Inputs /\ u \in Tasks
      BY <2>0, TaskFacts
    <2>3. pc[u] = "none"
      <3>1. n > inputs
        BY <2>0, TypeSplit DEF PlacesOK
      <3>2. QED
        BY <2>2, <3>1 DEF FreshInv
    <2>4. ~Wired(u) /\ answer[u] = "none" /\ agent.asked[n] = "none"
      BY <2>2, <2>3 DEF MailInv, Expects
    <2>5. /\ agent'.running = agent.running /\ agent'.queue = agent.queue /\ sent' = sent
          /\ \A m \in Inputs : m # n => agent'.asked[m] = agent.asked[m]
          /\ link # "up" => agent' = agent
      <3>1. agent.asked \in [Inputs -> {"none", "new", "injected", "started"}]
        BY DEF Typed, WorldOK, AgentState
      <3>2. QED
        BY <2>0, <2>1, <2>2, <3>1 DEF SteerWorld, Consults
    <2>6. \A t \in Tasks : /\ pc'[t] = IF t = u THEN "waiting" ELSE pc[t]
                           /\ answer'[t] = IF t = u THEN IF link = "up" THEN "none" ELSE "lost"
                                           ELSE answer[t]
                           /\ Wired(t)' <=> Wired(t)
      BY <2>0, <2>1 DEF SteerWorld, Asks, Silences, Same
    <2>7. \A m \in Inputs : /\ u # <<"prompt", m>>
                            /\ u = <<"steer", m>> => m = n
                            /\ u # <<"steer", m>> => m # n
      BY <2>2, TaskFacts
    <2>8. \A m \in Inputs : AtAgent(m)' => AtAgent(m)
      BY <2>5 DEF AtAgent
    <2>9. MailOf(u)'
      <3>1. agent'.asked[n] # "none" => Expects(u)'
        BY <2>2, <2>4, <2>5, <2>6 DEF Expects
      <3>2. QED
        BY <2>2, <2>4, <2>6, <2>7, <3>1 DEF MailOf
    <2>10. agent'.running \notin agent'.queue
      BY <2>5 DEF MailInv
    <2> HIDE DEF u
    <2>11. QED
      BY <2>5, <2>6, <2>7, <2>8, <2>9, <2>10, MailAt
  <1>4. ASSUME Stop PROVE MailInv'
    <2>1. OthersKeep
      BY <1>4, BystandersKeep
    <2>2. QED
      BY <2>1, MailKept
  <1>5. ASSUME Close PROVE MailInv'
    <2>1. OthersKeep
      BY <1>5, BystandersKeep
    <2>2. QED
      BY <2>1, MailKept
  <1>6. ASSUME Reopen PROVE MailInv'
    <2>1. OthersKeep
      BY <1>6, BystandersKeep
    <2>2. QED
      BY <2>1, MailKept
  <1>7. ASSUME Break PROVE MailInv'
    <2>1. BreakWorld
      BY <1>7, BreakDoes
    <2>2. \A n \in Inputs : agent'.asked[n] = "none" /\ ~AtAgent(n)'
      BY <2>1 DEF BreakWorld, AtAgent, Inputs
    <2>3. \A t \in Tasks : (answer'[t] # "none" => pc'[t] = "waiting") /\ ~Wired(t)'
      BY <2>1 DEF BreakWorld, MailInv
    <2>4. \A n \in Inputs : pc'[<<"prompt", n>>] # "none" => sent'[n] > 0
      BY <2>1 DEF BreakWorld, MailInv
    <2>5. agent'.running \notin agent'.queue
      BY <2>1 DEF BreakWorld
    <2>6. QED
      BY <2>2, <2>3, <2>4, <2>5 DEF MailInv
  <1>8. ASSUME NEW n \in Inputs, PromptResult(n) PROVE MailInv'
    <2> DEFINE u == <<"prompt", n>>
    <2>1. ResultWorld(n) /\ TaskWorld(u, "peek")
      BY <1>8, ResultTakes
    <2>2. /\ u \in Tasks /\ pc[u] = "waiting" /\ answer[u] # "none" /\ agent' = agent /\ sent' = sent
          /\ \A t \in Tasks : /\ Busy(pc'[u]) /\ (t # u => pc'[t] = pc[t])
                              /\ answer'[t] = IF t = u THEN "none" ELSE answer[t]
                              /\ Wired(t)' <=> Wired(t)
      BY <2>1 DEF ResultWorld, TaskWorld, Moved, Silences, Same, Busy
    <2>3. ~Wired(u) /\ ~Expects(u)
      BY <2>2 DEF MailInv, Expects
    <2>4. \A m \in Inputs : AtAgent(m)' <=> AtAgent(m)
      BY <2>2 DEF AtAgent
    <2>5. MailOf(u)'
      BY <2>2, <2>3, <2>4 DEF MailOf, MailInv, Busy
    <2>6. agent'.running \notin agent'.queue
      BY <2>2 DEF MailInv
    <2> HIDE DEF u
    <2>7. QED
      BY <2>2, <2>4, <2>5, <2>6, MailAt
  <1>9. ASSUME NEW n \in Inputs, PromptResultLate(n) PROVE MailInv'
    <2> DEFINE u == <<"prompt", n>>
    <2>1. ResultWorld(n) /\ TaskWorld(u, "done")
      BY <1>9, ResultTakes
    <2>2. /\ u \in Tasks /\ pc[u] = "waiting" /\ answer[u] # "none" /\ agent' = agent /\ sent' = sent
          /\ \A t \in Tasks : /\ Busy(pc'[u]) /\ (t # u => pc'[t] = pc[t])
                              /\ answer'[t] = IF t = u THEN "none" ELSE answer[t]
                              /\ Wired(t)' <=> Wired(t)
      BY <2>1 DEF ResultWorld, TaskWorld, Moved, Silences, Same, Busy
    <2>3. ~Wired(u) /\ ~Expects(u)
      BY <2>2 DEF MailInv, Expects
    <2>4. \A m \in Inputs : AtAgent(m)' <=> AtAgent(m)
      BY <2>2 DEF AtAgent
    <2>5. MailOf(u)'
      BY <2>2, <2>3, <2>4 DEF MailOf, MailInv, Busy
    <2>6. agent'.running \notin agent'.queue
      BY <2>2 DEF MailInv
    <2> HIDE DEF u
    <2>7. QED
      BY <2>2, <2>4, <2>5, <2>6, MailAt
  <1>10. ASSUME NEW n \in Inputs, SteerAnswer(n) PROVE MailInv'
    <2> DEFINE u == <<"steer", n>>
    <2>1. AnswerWorld(n) /\ \E step \in {"cancel", "peek"} : TaskWorld(u, step)
      BY <1>10, AnswerTakes
    <2>2. /\ u \in Tasks /\ pc[u] = "waiting" /\ answer[u] # "none" /\ agent' = agent /\ sent' = sent
          /\ \A t \in Tasks : /\ Busy(pc'[u]) /\ (t # u => pc'[t] = pc[t])
                              /\ answer'[t] = IF t = u THEN "none" ELSE answer[t]
                              /\ Wired(t)' <=> Wired(t)
      BY <2>1 DEF AnswerWorld, TaskWorld, Moved, Silences, Same, Busy
    <2>3. ~Wired(u) /\ ~Expects(u)
      BY <2>2 DEF MailInv, Expects
    <2>4. \A m \in Inputs : AtAgent(m)' <=> AtAgent(m)
      BY <2>2 DEF AtAgent
    <2>5. MailOf(u)'
      BY <2>2, <2>3, <2>4 DEF MailOf, MailInv, Busy
    <2>6. agent'.running \notin agent'.queue
      BY <2>2 DEF MailInv
    <2> HIDE DEF u
    <2>7. QED
      BY <2>2, <2>4, <2>5, <2>6, MailAt
  <1>11. ASSUME NEW n \in Inputs, SteerAnswerLate(n) PROVE MailInv'
    <2> DEFINE u == <<"steer", n>>
    <2>1. AnswerWorld(n) /\ TaskWorld(u, "done")
      BY <1>11, AnswerTakes
    <2>2. /\ u \in Tasks /\ pc[u] = "waiting" /\ answer[u] # "none" /\ agent' = agent /\ sent' = sent
          /\ \A t \in Tasks : /\ Busy(pc'[u]) /\ (t # u => pc'[t] = pc[t])
                              /\ answer'[t] = IF t = u THEN "none" ELSE answer[t]
                              /\ Wired(t)' <=> Wired(t)
      BY <2>1 DEF AnswerWorld, TaskWorld, Moved, Silences, Same, Busy
    <2>3. ~Wired(u) /\ ~Expects(u)
      BY <2>2 DEF MailInv, Expects
    <2>4. \A m \in Inputs : AtAgent(m)' <=> AtAgent(m)
      BY <2>2 DEF AtAgent
    <2>5. MailOf(u)'
      BY <2>2, <2>3, <2>4 DEF MailOf, MailInv, Busy
    <2>6. agent'.running \notin agent'.queue
      BY <2>2 DEF MailInv
    <2> HIDE DEF u
    <2>7. QED
      BY <2>2, <2>4, <2>5, <2>6, MailAt
  <1>12. ASSUME NEW n \in Inputs, CancelAgain(n) PROVE MailInv'
    <2>1. <<"steer", n>> \in Tasks /\ pc[<<"steer", n>>] = "cancel" /\ AgentKeeps
          /\ TaskWorld(<<"steer", n>>, "peek")
      BY <1>12, CancelTakes
    <2>2. /\ Busy(pc[<<"steer", n>>]) /\ Busy(pc'[<<"steer", n>>]) /\ sent' = sent
          /\ agent'.asked = agent.asked /\ agent'.queue = agent.queue /\ agent'.running = agent.running
          /\ \A u \in Tasks : /\ u # <<"steer", n>> => pc'[u] = pc[u]
                              /\ answer'[u] = answer[u] /\ (Wired(u)' <=> Wired(u))
      BY <2>1 DEF AgentKeeps, TaskWorld, Moved, Silences, Same, Busy, MailInv
    <2>3. \A m \in Inputs : AtAgent(m)' <=> AtAgent(m)
      BY <2>2 DEF AtAgent
    <2>4. agent'.running \notin agent'.queue
      BY <2>2 DEF MailInv
    <2>5. <<"none", 0>> \notin Tasks
      BY TaskFacts
    <2>6. QED
      BY <2>2, <2>3, <2>4, <2>5, MailAt
  <1>13. ASSUME NEW t \in Tasks, Peek(t) PROVE MailInv'
    <2>1. PeekWorld(t)
      BY <1>13, PeekLooks
    <2>2. /\ Busy(pc[t]) /\ Busy(pc'[t]) /\ sent' = sent
          /\ agent'.asked = agent.asked /\ agent'.queue = agent.queue /\ agent'.running = agent.running
          /\ \A u \in Tasks : /\ u # t => pc'[u] = pc[u]
                              /\ answer'[u] = answer[u] /\ (Wired(u)' <=> Wired(u))
      BY <2>1 DEF PeekWorld, Silences, Same, Busy, MailInv
    <2>3. \A m \in Inputs : AtAgent(m)' <=> AtAgent(m)
      BY <2>2 DEF AtAgent
    <2>4. agent'.running \notin agent'.queue
      BY <2>2 DEF MailInv
    <2>5. <<"none", 0>> \notin Tasks
      BY TaskFacts
    <2>6. QED
      BY <2>2, <2>3, <2>4, <2>5, MailAt
  <1>14. ASSUME NEW t \in Tasks, FallbackStart(t) PROVE MailInv'
    <2>0. PICK n : n = captured[t]
      OBVIOUS
    <2> DEFINE u == <<"prompt", n>>
    <2>1. FallbackWorld(t, n)
      BY <1>14, <2>0, FallbackSends
    <2>2. n \in Inputs /\ u \in Tasks /\ pc[t] = "start"
      BY <2>1 DEF FallbackWorld
    <2>3. thread.pending.id = n /\ thread.pending.required
      BY <1>14, <2>0, FallbackStartDoes DEF AfterFallback
    <2>4. pc[u] = "none" /\ sent[n] = 0 /\ t # u
      <3>1. sent[n] = 0
        BY <2>2, <2>3 DEF OnceInv
      <3>2. pc[u] = "none"
        BY <2>2, <3>1 DEF MailInv
      <3>3. QED
        BY <2>2, <3>1, <3>2
    <2>5. ~Wired(u) /\ answer[u] = "none"
      BY <2>2, <2>4 DEF MailInv
    <2>6. agent.running # n
      <3>1. consumed[n] = 0
        BY <2>2, <2>3, Zenon DEF OnceInv
      <3>2. consumed[n] # 1
        BY <3>1
      <3>3. n \in Inputs /\ sent[n] = 0
        BY <2>2, <2>4
      <3>4. QED
        BY <3>2, <3>3, OwnTurn, Zenon
    <2>7. /\ link # "up" => agent'.queue = {}
          /\ agent'.running = agent.running /\ agent'.asked = agent.asked
          /\ agent'.queue \subseteq agent.queue \cup {n}
          /\ \A m \in Inputs : sent'[m] = IF m = n THEN 1 ELSE sent[m]
      <3>1. Queued(n) /\ SendsOnce(n)
        BY <2>1 DEF FallbackWorld
      <3>2. QED
        BY <2>2, <2>4, <3>1 DEF Queued, SendsOnce, LinkInv
    <2>8. \A v \in Tasks : /\ pc'[v] = IF v = u THEN "waiting" ELSE IF v = t THEN "done" ELSE pc[v]
                           /\ answer'[v] = IF v = u THEN IF link = "up" THEN "none" ELSE "lost"
                                           ELSE answer[v]
                           /\ Wired(v)' <=> Wired(v)
      BY <2>1 DEF FallbackWorld, Silences, Same
    <2>9. \A m \in Inputs : <<"prompt", m>> # u => m # n
      OBVIOUS
    <2>10. \A m \in Inputs : <<"prompt", m>> # u => sent'[m] = sent[m] /\ (AtAgent(m)' => AtAgent(m))
      BY <2>7, <2>9 DEF AtAgent
    <2>11. \A m \in Inputs : /\ u # <<"steer", m>>
                             /\ u = <<"prompt", m>> => m = n
      BY <2>2, TaskFacts
    <2>12. AtAgent(n)' => link = "up"
      BY <2>6, <2>7 DEF AtAgent
    <2>13. MailOf(u)'
      <3>1. AtAgent(n)' => Expects(u)'
        BY <2>2, <2>5, <2>8, <2>12 DEF Expects
      <3>2. sent'[n] > 0
        BY <2>2, <2>7
      <3>3. QED
        BY <2>2, <2>5, <2>8, <2>11, <3>1, <3>2 DEF MailOf
    <2>14. agent'.running \notin agent'.queue
      BY <2>6, <2>7 DEF MailInv
    <2> HIDE DEF u
    <2>15. \A v \in Tasks : v # u =>
             /\ pc'[v] = pc[v] \/ (Busy(pc[v]) /\ Busy(pc'[v]))
             /\ answer'[v] = answer[v] /\ (Wired(v)' <=> Wired(v))
      BY <2>2, <2>4, <2>8 DEF Busy
    <2>16. QED
      BY <2>7, <2>10, <2>13, <2>14, <2>15, MailAt
  <1>15. ASSUME NEW t \in Tasks, FallbackRefused(t) PROVE MailInv'
    <2>1. RefusedWorld(t)
      BY <1>15, RefusedTakes
    <2>2. /\ Busy(pc[t]) /\ Busy(pc'[t]) /\ sent' = sent
          /\ agent'.asked = agent.asked /\ agent'.queue = agent.queue /\ agent'.running = agent.running
          /\ \A u \in Tasks : /\ u # t => pc'[u] = pc[u]
                              /\ answer'[u] = answer[u] /\ (Wired(u)' <=> Wired(u))
      BY <2>1 DEF RefusedWorld, TaskWorld, Moved, Silences, Same, Busy, MailInv
    <2>3. \A m \in Inputs : AtAgent(m)' <=> AtAgent(m)
      BY <2>2 DEF AtAgent
    <2>4. agent'.running \notin agent'.queue
      BY <2>2 DEF MailInv
    <2>5. <<"none", 0>> \notin Tasks
      BY TaskFacts
    <2>6. QED
      BY <2>2, <2>3, <2>4, <2>5, MailAt
  <1>16. ASSUME StopSent PROVE MailInv'
    <2>1. OthersKeep
      BY <1>16, BystandersKeep
    <2>2. QED
      BY <2>1, MailKept
  <1>17. ASSUME Closed PROVE MailInv'
    <2>1. OthersKeep
      BY <1>17, BystandersKeep
    <2>2. QED
      BY <2>1, MailKept
  <1>18. ASSUME CloseFails PROVE MailInv'
    <2>1. OthersKeep
      BY <1>18, BystandersKeep
    <2>2. QED
      BY <2>1, MailKept
  <1>19. ASSUME Receive PROVE MailInv'
    <2>0. PICK u : u = wire[1].to
      OBVIOUS
    <2>1. ReadWorld
      BY <1>19, ReadTakes
    <2>2. ReadOne /\ pc' = pc /\ agent' = agent /\ sent' = sent
      BY <2>1 DEF ReadWorld
    <2>3. \A m \in Inputs : AtAgent(m)' <=> AtAgent(m)
      BY <2>2 DEF AtAgent
    <2>4. agent'.running \notin agent'.queue
      BY <2>2 DEF MailInv
    <2>5. CASE u \notin Tasks /\ answer' = answer
      <3>1. \A t \in Tasks : Wired(t)' <=> Wired(t)
        BY <2>0, <2>1, <2>5 DEF ReadWorld, ReadFor, Same
      <3>2. QED
        BY <2>2, <2>3, <2>4, <2>5, <3>1, MailAt
    <2>6. CASE /\ wire[1].kind = "response" /\ u \in Tasks /\ wire[1].what # "none" /\ Wired(u)
               /\ \A t \in Tasks : answer'[t] = IF t = u THEN wire[1].what ELSE answer[t]
      <3>1. \A t \in Tasks : t # u => answer'[t] = answer[t] /\ (Wired(t)' <=> Wired(t))
        BY <2>0, <2>1, <2>6 DEF ReadWorld, ReadFor, Same
      <3>2. ~Wired(u)'
        <4>1. ASSUME NEW i \in 1..Len(wire'), wire'[i].to = u PROVE FALSE
          <5>1. 1 \in 1..Len(wire) /\ i + 1 \in 1..Len(wire) /\ wire[i + 1].to = u
            BY <2>2, <4>1 DEF ReadOne
          <5>2. 1 = i + 1
            BY <2>0, <2>6, <5>1 DEF MailInv, OneAnswer
          <5>3. QED
            BY <4>1, <5>2
        <4>2. QED
          BY <4>1 DEF Wired
      <3>3. pc[u] = "waiting" /\ ~Expects(u)
        BY <2>6 DEF MailInv, Expects
      <3>4. MailOf(u)'
        BY <2>2, <2>3, <2>6, <3>2, <3>3 DEF MailOf, MailInv
      <3>5. QED
        BY <2>2, <2>3, <2>4, <3>1, <3>4, MailAt
    <2>7. QED
      BY <2>0, <2>1, <2>5, <2>6 DEF ReadWorld
  <1>20. ASSUME StopConnection PROVE MailInv'
    <2>1. OthersKeep
      BY <1>20, BystandersKeep
    <2>2. QED
      BY <2>1, MailKept
  <1>21. ASSUME ConnectionLost PROVE MailInv'
    <2>1. OthersKeep
      BY <1>21, BystandersKeep
    <2>2. QED
      BY <2>1, MailKept
  <1>22. ASSUME AgentBegins PROVE MailInv'
    <2>1. BeginsWorld
      BY <1>22, BeginsMoves
    <2>2. PICK n \in Inputs :
            /\ agent.running = 0 /\ n \in agent.queue /\ agent'.asked = agent.asked
            /\ agent'.running = n /\ agent'.queue = agent.queue \ {n}
      BY <2>1 DEF BeginsWorld, AfterBegins
    <2>3. pc' = pc /\ answer' = answer /\ sent' = sent /\ \A t \in Tasks : Wired(t)' <=> Wired(t)
      BY <2>1 DEF BeginsWorld, AgentAlone, Silences, Same
    <2>4. \A m \in Inputs : AtAgent(m)' => AtAgent(m)
      BY <2>2, <2>3 DEF AtAgent
    <2>5. <<"none", 0>> \notin Tasks
      BY TaskFacts
    <2>6. QED
      BY <2>2, <2>3, <2>4, <2>5, MailAt
  <1>23. ASSUME AgentEnds PROVE MailInv'
    <2>1. EndsWorld
      BY <1>23, EndsMoves
    <2>0. PICK n \in Inputs : n = agent.running
      BY <2>1 DEF EndsWorld
    <2> DEFINE u == <<"prompt", n>>
    <2>2. /\ n \in Inputs /\ pc' = pc /\ answer' = answer /\ sent' = sent
          /\ agent'.asked = agent.asked /\ agent'.running = 0 /\ agent'.queue = agent.queue
      BY <2>0, <2>1 DEF EndsWorld, AfterEnds, AgentAlone
    <2>3. /\ agent'.running \notin agent'.queue
          /\ \A m \in Inputs : AtAgent(m)' => AtAgent(m)
          /\ ~AtAgent(n)'
      <3>1. agent.queue \in SUBSET Inputs
        BY DEF Typed, WorldOK, AgentState
      <3>2. QED
        BY <2>0, <2>2, <3>1 DEF AtAgent, MailInv, Inputs
    <2>4. CASE Silences
      <3>1. <<"none", 0>> \notin Tasks
        BY TaskFacts
      <3>2. \A t \in Tasks : Wired(t)' <=> Wired(t)
        BY <2>4 DEF Silences, Same
      <3>3. QED
        BY <2>2, <2>3, <3>1, <3>2, MailAt
    <2>5. CASE sent[n] > 0 /\ \E how \in PromptEnds : Tells(u, how)
      <3>1. u \in Tasks /\ \A m \in Inputs : u # <<"steer", m>> /\ (u = <<"prompt", m>> => m = n)
        BY <2>2, TaskFacts
      <3>2. \A t \in Tasks : t # u => (Wired(t)' <=> Wired(t))
        BY <2>5 DEF Tells, Same
      <3>3. Expects(u)
        BY <2>0, <2>2, <2>5 DEF MailInv, AtAgent
      <3>4. MailOf(u)'
        BY <2>2, <2>3, <2>5, <3>1, <3>3 DEF MailOf, Expects
      <3> HIDE DEF u
      <3>5. QED
        BY <2>2, <2>3, <3>2, <3>4, MailAt
    <2>6. QED
      BY <2>0, <2>1, <2>4, <2>5 DEF EndsWorld
  <1>24. ASSUME AgentAnnounces PROVE MailInv'
    <2>1. AnnouncesWorld
      BY <1>24, AnnouncesMoves
    <2>2. /\ agent'.asked = agent.asked /\ agent'.running = agent.running /\ agent'.queue = agent.queue
      BY <2>1 DEF AnnouncesWorld, AfterAnnounces
    <2>3. pc' = pc /\ answer' = answer /\ sent' = sent /\ \A t \in Tasks : Wired(t)' <=> Wired(t)
      BY <2>1 DEF AnnouncesWorld, AgentAlone, Silences, Same
    <2>4. /\ agent'.running \notin agent'.queue
          /\ \A m \in Inputs : AtAgent(m)' => AtAgent(m)
      BY <2>2, <2>3 DEF AtAgent, MailInv
    <2>5. <<"none", 0>> \notin Tasks
      BY TaskFacts
    <2>6. QED
      BY <2>2, <2>3, <2>4, <2>5, MailAt
  <1>25. ASSUME NEW n \in Inputs, AgentConsumes(n) PROVE MailInv'
    <2>1. ConsumesWorld(n)
      BY <1>25, ConsumesMoves
    <2>2. /\ agent.asked[n] = "new" /\ agent'.queue = {}
          /\ agent'.running \in {agent.running, n}
          /\ \A m \in Inputs : m # n => agent'.asked[m] = agent.asked[m]
      <3>1. agent.asked \in [Inputs -> {"none", "new", "injected", "started"}]
        BY DEF Typed, WorldOK, AgentState
      <3>2. QED
        BY <2>1, <3>1 DEF ConsumesWorld, AfterConsumes, Consults
    <2>3. pc' = pc /\ answer' = answer /\ sent' = sent /\ \A t \in Tasks : Wired(t)' <=> Wired(t)
      BY <2>1 DEF ConsumesWorld, AgentAlone, Silences, Same
    <2>4. sent[n] = 0
      BY <2>2 DEF OnceInv
    <2>5. /\ agent'.running \notin agent'.queue
          /\ \A m \in Inputs : AtAgent(m)' => AtAgent(m)
      BY <2>2, <2>3, <2>4 DEF AtAgent
    <2>6. \A m \in Inputs : agent'.asked[m] # "none" => agent.asked[m] # "none"
      BY <2>2
    <2>7. <<"none", 0>> \notin Tasks
      BY TaskFacts
    <2>8. QED
      BY <2>3, <2>5, <2>6, <2>7, MailAt
  <1>26. ASSUME NEW n \in Inputs, AgentAnswers(n) PROVE MailInv'
    <2> DEFINE u == <<"steer", n>>
    <2>1. PICK how \in SteerEnds : AnswersWorld(n, how)
      BY <1>26, AnswersMoves
    <2>2. /\ agent'.queue = agent.queue /\ agent'.running = agent.running
          /\ agent.asked[n] # "none" /\ agent'.asked[n] = "none"
          /\ \A m \in Inputs : m # n => agent'.asked[m] = agent.asked[m]
      <3>1. agent.asked \in [Inputs -> {"none", "new", "injected", "started"}]
        BY DEF Typed, WorldOK, AgentState
      <3>2. QED
        BY <2>1, <3>1 DEF AnswersWorld, Replies, Consults
    <2>3. /\ pc' = pc /\ answer' = answer /\ sent' = sent
          /\ \A t \in Tasks : t # u => (Wired(t)' <=> Wired(t))
      BY <2>1 DEF AnswersWorld, Replies, AgentAlone, Tells, Same
    <2>4. /\ agent'.running \notin agent'.queue
          /\ \A m \in Inputs : AtAgent(m)' => AtAgent(m)
      BY <2>2, <2>3 DEF AtAgent, MailInv
    <2>5. Expects(u)
      BY <2>2 DEF MailInv
    <2>6. u \in Tasks /\ \A m \in Inputs : u # <<"prompt", m>> /\ (u = <<"steer", m>> => m = n)
      BY TaskFacts
    <2>7. MailOf(u)'
      BY <2>2, <2>3, <2>5, <2>6 DEF MailOf, Expects
    <2>8. \A m \in Inputs : agent'.asked[m] # "none" => agent.asked[m] # "none"
      BY <2>2
    <2> HIDE DEF u
    <2>9. QED
      BY <2>3, <2>4, <2>7, <2>8, MailAt
  <1>27. ASSUME UNCHANGED <<pc, answer, agent, wire, sent>> PROVE MailInv'
    <2>1. <<"none", 0>> \notin Tasks
      BY TaskFacts
    <2>2. \A t \in Tasks : Wired(t)' <=> Wired(t)
      BY <1>27 DEF Wired
    <2>3. \A m \in Inputs : AtAgent(m)' <=> AtAgent(m)
      BY <1>27 DEF AtAgent
    <2>4. agent'.running \notin agent'.queue
      BY <1>27 DEF MailInv
    <2>5. QED
      BY <1>27, <2>1, <2>2, <2>3, <2>4, MailAt
  <1> QED
    BY <1>1, <1>2, <1>3, <1>4, <1>5, <1>6, <1>7, <1>8, <1>9, <1>10, <1>11, <1>12, <1>13,
       <1>14, <1>15, <1>16, <1>17, <1>18, <1>19, <1>20, <1>21, <1>22, <1>23, <1>24, <1>25,
       <1>26, <1>27
       DEF Next, User, Settling, Task, AgentNext, vars, taskVars, logVars

-----------------------------------------------------------------------------
(* Nothing is known of an input before it is given *)

FreshLogs ==
    \A n \in Inputs : n > inputs =>
      /\ sent[n] = 0 /\ consumed[n] = 0 /\ told[n] = "none" /\ reported[n] = 0
      /\ n \notin stopped

FreshTasks ==
    \A n \in Inputs : n > inputs =>
      pc[<<"prompt", n>>] = "none" /\ pc[<<"steer", n>>] = "none"

FreshThread ==
    /\ thread.last <= inputs /\ thread.active <= inputs /\ thread.pending.id \in {0, inputs}
    /\ first <= inputs + 1

\* The parts of FreshInv.
LEMMA FreshSplit == FreshInv <=> FreshLogs /\ FreshTasks /\ FreshThread
  BY DEF FreshInv, FreshLogs, FreshTasks, FreshThread

\* A task that has begun belongs to an input that was given.
LEMMA Given ==
  ASSUME Typed, FreshInv, NEW n \in Inputs
  PROVE  /\ pc[<<"prompt", n>>] # "none" => n <= inputs
         /\ pc[<<"steer", n>>] # "none" => n <= inputs
         /\ sent[n] # 0 => n <= inputs
         /\ thread.active = n => n <= inputs
         /\ thread.pending.id = n => n <= inputs
  <1>1. inputs \in Nat
    BY TypeSplit DEF PlacesOK
  <1>2. QED
    BY <1>1 DEF FreshInv, Inputs

\* Nothing is noted of an input that was not given.
LEMMA FreshLogsStep ==
  Typed /\ FreshInv /\ MailInv /\ OnceInv /\ LeavesInv /\ TurnInv /\ StatusInv /\ ReportInv
    /\ [Next]_vars
    => FreshLogs'
  <1> SUFFICES ASSUME Typed, FreshInv, MailInv, OnceInv, LeavesInv, TurnInv, StatusInv, ReportInv,
                      [Next]_vars
               PROVE  FreshLogs'
    OBVIOUS
  <1>1. ASSUME Prompt PROVE FreshLogs'
    <2>1. PICK n \in Inputs : n = inputs + 1 /\ inputs' = n /\ SendsOnce(n)
                 /\ UNCHANGED <<consumed, told, reported, stopped>>
      BY <1>1, PromptSends DEF PromptWorld
    <2>2. inputs \in Nat
      BY TypeSplit DEF PlacesOK
    <2>3. \A m \in Inputs : m > inputs' => m > inputs /\ m # n
      BY <2>1, <2>2 DEF Inputs
    <2>4. QED
      BY <2>1, <2>3, FreshSplit DEF FreshLogs, SendsOnce
  <1>2. ASSUME Steer PROVE FreshLogs'
    <2>1. inputs' = inputs + 1 /\ UNCHANGED <<sent, consumed, told, reported, stopped>>
      BY <1>2, SteerSends DEF SteerWorld
    <2>2. inputs \in Nat
      BY TypeSplit DEF PlacesOK
    <2>3. \A m \in Inputs : m > inputs' => m > inputs
      BY <2>1, <2>2 DEF Inputs
    <2>4. QED
      BY <2>1, <2>3, FreshSplit DEF FreshLogs
  <1>3. ASSUME Stop PROVE FreshLogs'
    <2>1. stopped' = stopped \cup ({thread.pending.id} \ {0})
          /\ UNCHANGED <<inputs, sent, consumed, told, reported>>
      BY <1>3, Zenon DEF Stop
    <2>2. inputs \in Nat /\ thread.pending.id \in {0, inputs}
      BY TypeSplit, FreshSplit DEF PlacesOK, FreshThread
    <2>3. \A m \in Inputs : m > inputs => m # thread.pending.id
      BY <2>2 DEF Inputs
    <2>4. QED
      BY <2>1, <2>3, FreshSplit DEF FreshLogs
  <1>4. ASSUME NEW n \in Inputs, PromptResult(n) PROVE FreshLogs'
    <2>1. /\ reported' = reported \/ reported' = [reported EXCEPT ![n] = @ + 1]
          /\ thread.active = n /\ UNCHANGED <<inputs, sent, consumed, told, stopped>>
      BY <1>4, PromptResultDoes, ResultTakes DEF AfterResult, TaskWorld
    <2>2. reported \in [Inputs -> Nat]
      BY DEF Typed, WorldOK
    <2>3. n <= inputs /\ inputs \in Nat
      <3>1. inputs \in Nat
        BY TypeSplit DEF PlacesOK
      <3>2. QED
        BY <2>1, <3>1, Given
    <2>4. \A m \in Inputs : m > inputs => m # n
      BY <2>3 DEF Inputs
    <2>5. \A m \in Inputs : m # n => reported'[m] = reported[m]
      BY <2>1, <2>2
    <2>6. QED
      BY <2>1, <2>4, <2>5, FreshSplit DEF FreshLogs
  <1>5. ASSUME NEW n \in Inputs, SteerAnswer(n) PROVE FreshLogs'
    <2>1. /\ reported' = [m \in Inputs |-> IF m = thread.completion THEN reported[m] + 1
                                            ELSE reported[m]]
          /\ UNCHANGED <<inputs, sent, consumed, told, stopped>>
      BY <1>5, SteerAnswerDoes, AnswerTakes DEF AfterAnswer, TaskWorld
    <2>2. inputs \in Nat /\ thread.last \in Nat
      BY TypeSplit DEF PlacesOK, ThreadOK, Snapshot
    <2>3. \A m \in Inputs : m = thread.completion => m <= thread.last
      BY DEF ReportInv, TurnInv, Inputs
    <2>4. thread.last <= inputs
      BY FreshSplit DEF FreshThread
    <2>5. \A m \in Inputs : m > inputs => m # thread.completion
      BY <2>2, <2>3, <2>4 DEF Inputs
    <2>6. QED
      BY <2>1, <2>5, FreshSplit DEF FreshLogs
  <1>6. ASSUME NEW t \in Tasks, FallbackStart(t) PROVE FreshLogs'
    <2>1. PICK n \in Inputs : thread.pending.id = n /\ SendsOnce(n)
                 /\ UNCHANGED <<inputs, consumed, told, reported, stopped>>
      BY <1>6, FallbackSends, FallbackStartDoes DEF FallbackWorld, AfterFallback
    <2>2. n <= inputs /\ inputs \in Nat
      <3>1. inputs \in Nat
        BY TypeSplit DEF PlacesOK
      <3>2. QED
        BY <2>1, <3>1, Given
    <2>3. \A m \in Inputs : m > inputs => m # n
      BY <2>2 DEF Inputs
    <2>4. QED
      BY <2>1, <2>3, FreshSplit DEF FreshLogs, SendsOnce
  <1>7. ASSUME AgentEnds PROVE FreshLogs'
    <2>1. PICK n \in Inputs : n = agent.running
      BY <1>7, EndsMoves DEF EndsWorld
    <2>2. /\ UNCHANGED <<inputs, sent, consumed, reported, stopped>>
          /\ \/ sent[n] > 0 /\ \A m \in Inputs : m # n => told'[m] = told[m]
             \/ told' = told
      BY <1>7, <2>1, EndsMoves DEF EndsWorld, AgentAlone
    <2>3. sent[n] > 0 => n <= inputs
      <3>1. sent[n] > 0 => sent[n] # 0
        BY DEF Typed, WorldOK
      <3>2. QED
        BY <3>1, Given
    <2>4. inputs \in Nat
      BY TypeSplit DEF PlacesOK
    <2>5. \A m \in Inputs : m > inputs => told'[m] = told[m]
      BY <2>2, <2>3, <2>4 DEF Inputs
    <2>6. QED
      BY <2>2, <2>5, FreshSplit DEF FreshLogs
  <1>8. ASSUME NEW n \in Inputs, AgentConsumes(n) PROVE FreshLogs'
    <2>1. /\ agent.asked[n] = "new" /\ UNCHANGED <<inputs, sent, told, reported, stopped>>
          /\ \A m \in Inputs : m # n => consumed'[m] = consumed[m]
      BY <1>8, ConsumesMoves DEF ConsumesWorld, AgentAlone, AfterConsumes
    <2>2. pc[<<"steer", n>>] # "none"
      BY <2>1 DEF MailInv, Expects
    <2>3. n <= inputs /\ inputs \in Nat
      <3>1. inputs \in Nat
        BY TypeSplit DEF PlacesOK
      <3>2. QED
        BY <2>2, <3>1, Given
    <2>4. \A m \in Inputs : m > inputs => m # n
      BY <2>3 DEF Inputs
    <2>5. QED
      BY <2>1, <2>4, FreshSplit DEF FreshLogs
  <1>9. ASSUME UNCHANGED <<inputs, sent, consumed, told, reported, stopped>> PROVE
           FreshLogs'
    BY <1>9, FreshSplit
       DEF FreshLogs
  <1> QED
    BY <1>1, <1>2, <1>3, <1>4, <1>5, <1>6, <1>7, <1>8, <1>9
       DEF Next, User, Settling, Task, AgentNext, PromptUnsaved, Close, Reopen, Break,
           PromptResultLate, SteerAnswerLate, CancelAgain, Peek, FallbackRefused, StopSent,
           Closed, CloseFails, Receive, StopConnection, ConnectionLost, AgentBegins,
           AgentAnnounces, AgentAnswers, SendCancel, Goto, AgentStep, AgentFrame, vars,
           taskVars, logVars

\* No task runs for an input that was not given.
LEMMA FreshTasksStep ==
  Typed /\ FreshInv /\ MailInv /\ OnceInv /\ LeavesInv /\ TurnInv /\ StatusInv /\ ReportInv
    /\ [Next]_vars
    => FreshTasks'
  <1> SUFFICES ASSUME Typed, FreshInv, MailInv, OnceInv, LeavesInv, TurnInv, StatusInv, ReportInv,
                      [Next]_vars
               PROVE  FreshTasks'
    OBVIOUS
  <1>1. ASSUME Prompt PROVE FreshTasks'
    <2>1. PICK n \in Inputs : n = inputs + 1 /\ inputs' = n
                 /\ \A u \in Tasks : u # <<"prompt", n>> => pc'[u] = pc[u]
      BY <1>1, PromptSends DEF PromptWorld, Asks
    <2>2. \A m \in Inputs : <<"prompt", m>> \in Tasks /\ <<"steer", m>> \in Tasks
      BY TaskFacts
    <2>3. \A m \in Inputs : <<"prompt", m>> = <<"prompt", n>> \/ <<"steer", m>> = <<"prompt", n>> => m = n
      OBVIOUS
    <2>4. inputs \in Nat
      BY TypeSplit DEF PlacesOK
    <2>5. \A m \in Inputs : m > inputs' => m > inputs /\ m # n
      BY <2>1, <2>4 DEF Inputs
    <2>6. \A m \in Inputs : m > inputs => /\ pc[<<"prompt", m>>] = "none"
                                          /\ pc[<<"steer", m>>] = "none"
      BY FreshSplit DEF FreshTasks
    <2>7. QED
      BY <2>1, <2>2, <2>3, <2>5, <2>6 DEF FreshTasks
  <1>2. ASSUME Steer PROVE FreshTasks'
    <2>1. PICK n \in Inputs : n = inputs + 1 /\ inputs' = n
                 /\ \A u \in Tasks : u # <<"steer", n>> => pc'[u] = pc[u]
      BY <1>2, SteerSends DEF SteerWorld, Asks
    <2>2. \A m \in Inputs : <<"prompt", m>> \in Tasks /\ <<"steer", m>> \in Tasks
      BY TaskFacts
    <2>3. \A m \in Inputs : <<"prompt", m>> = <<"steer", n>> \/ <<"steer", m>> = <<"steer", n>> => m = n
      OBVIOUS
    <2>4. inputs \in Nat
      BY TypeSplit DEF PlacesOK
    <2>5. \A m \in Inputs : m > inputs' => m > inputs /\ m # n
      BY <2>1, <2>4 DEF Inputs
    <2>6. \A m \in Inputs : m > inputs => /\ pc[<<"prompt", m>>] = "none"
                                          /\ pc[<<"steer", m>>] = "none"
      BY FreshSplit DEF FreshTasks
    <2>7. QED
      BY <2>1, <2>2, <2>3, <2>5, <2>6 DEF FreshTasks
  <1>3. ASSUME NEW n \in Inputs, PromptResult(n) PROVE FreshTasks'
    <2>1. inputs' = inputs /\ <<"prompt", n>> \in Tasks /\ pc[<<"prompt", n>>] # "none"
          /\ \A u \in Tasks : u # <<"prompt", n>> => pc'[u] = pc[u]
      BY <1>3, ResultTakes DEF ResultWorld, TaskWorld, Moved
    <2>2. \A m \in Inputs : <<"prompt", m>> \in Tasks /\ <<"steer", m>> \in Tasks
      BY TaskFacts
    <2>3. \A m \in Inputs : m > inputs => /\ pc[<<"prompt", m>>] = "none"
                                          /\ pc[<<"steer", m>>] = "none"
      BY FreshSplit DEF FreshTasks
    <2>4. \A u \in Tasks : pc[u] = "none" => pc'[u] = pc[u]
      BY <2>1
    <2>5. QED
      BY <2>1, <2>2, <2>3, <2>4 DEF FreshTasks
  <1>4. ASSUME NEW n \in Inputs, PromptResultLate(n) PROVE FreshTasks'
    <2>1. inputs' = inputs /\ <<"prompt", n>> \in Tasks /\ pc[<<"prompt", n>>] # "none"
          /\ \A u \in Tasks : u # <<"prompt", n>> => pc'[u] = pc[u]
      BY <1>4, ResultTakes DEF ResultWorld, TaskWorld, Moved
    <2>2. \A m \in Inputs : <<"prompt", m>> \in Tasks /\ <<"steer", m>> \in Tasks
      BY TaskFacts
    <2>3. \A m \in Inputs : m > inputs => /\ pc[<<"prompt", m>>] = "none"
                                          /\ pc[<<"steer", m>>] = "none"
      BY FreshSplit DEF FreshTasks
    <2>4. \A u \in Tasks : pc[u] = "none" => pc'[u] = pc[u]
      BY <2>1
    <2>5. QED
      BY <2>1, <2>2, <2>3, <2>4 DEF FreshTasks
  <1>5. ASSUME NEW n \in Inputs, SteerAnswer(n) PROVE FreshTasks'
    <2>1. inputs' = inputs /\ <<"steer", n>> \in Tasks /\ pc[<<"steer", n>>] # "none"
          /\ \A u \in Tasks : u # <<"steer", n>> => pc'[u] = pc[u]
      BY <1>5, AnswerTakes DEF AnswerWorld, TaskWorld, Moved
    <2>2. \A m \in Inputs : <<"prompt", m>> \in Tasks /\ <<"steer", m>> \in Tasks
      BY TaskFacts
    <2>3. \A m \in Inputs : m > inputs => /\ pc[<<"prompt", m>>] = "none"
                                          /\ pc[<<"steer", m>>] = "none"
      BY FreshSplit DEF FreshTasks
    <2>4. \A u \in Tasks : pc[u] = "none" => pc'[u] = pc[u]
      BY <2>1
    <2>5. QED
      BY <2>1, <2>2, <2>3, <2>4 DEF FreshTasks
  <1>6. ASSUME NEW n \in Inputs, SteerAnswerLate(n) PROVE FreshTasks'
    <2>1. inputs' = inputs /\ <<"steer", n>> \in Tasks /\ pc[<<"steer", n>>] # "none"
          /\ \A u \in Tasks : u # <<"steer", n>> => pc'[u] = pc[u]
      BY <1>6, AnswerTakes DEF AnswerWorld, TaskWorld, Moved
    <2>2. \A m \in Inputs : <<"prompt", m>> \in Tasks /\ <<"steer", m>> \in Tasks
      BY TaskFacts
    <2>3. \A m \in Inputs : m > inputs => /\ pc[<<"prompt", m>>] = "none"
                                          /\ pc[<<"steer", m>>] = "none"
      BY FreshSplit DEF FreshTasks
    <2>4. \A u \in Tasks : pc[u] = "none" => pc'[u] = pc[u]
      BY <2>1
    <2>5. QED
      BY <2>1, <2>2, <2>3, <2>4 DEF FreshTasks
  <1>7. ASSUME NEW n \in Inputs, CancelAgain(n) PROVE FreshTasks'
    <2>1. inputs' = inputs /\ <<"steer", n>> \in Tasks /\ pc[<<"steer", n>>] # "none"
          /\ \A u \in Tasks : u # <<"steer", n>> => pc'[u] = pc[u]
      BY <1>7, CancelTakes DEF TaskWorld, Moved
    <2>2. \A m \in Inputs : <<"prompt", m>> \in Tasks /\ <<"steer", m>> \in Tasks
      BY TaskFacts
    <2>3. \A m \in Inputs : m > inputs => /\ pc[<<"prompt", m>>] = "none"
                                          /\ pc[<<"steer", m>>] = "none"
      BY FreshSplit DEF FreshTasks
    <2>4. \A u \in Tasks : pc[u] = "none" => pc'[u] = pc[u]
      BY <2>1
    <2>5. QED
      BY <2>1, <2>2, <2>3, <2>4 DEF FreshTasks
  <1>8. ASSUME NEW t \in Tasks, Peek(t) PROVE FreshTasks'
    <2>1. inputs' = inputs /\ t \in Tasks /\ pc[t] # "none"
          /\ \A u \in Tasks : u # t => pc'[u] = pc[u]
      BY <1>8, PeekLooks DEF PeekWorld
    <2>2. \A m \in Inputs : <<"prompt", m>> \in Tasks /\ <<"steer", m>> \in Tasks
      BY TaskFacts
    <2>3. \A m \in Inputs : m > inputs => /\ pc[<<"prompt", m>>] = "none"
                                          /\ pc[<<"steer", m>>] = "none"
      BY FreshSplit DEF FreshTasks
    <2>4. \A u \in Tasks : pc[u] = "none" => pc'[u] = pc[u]
      BY <2>1
    <2>5. QED
      BY <2>1, <2>2, <2>3, <2>4 DEF FreshTasks
  <1>9. ASSUME NEW t \in Tasks, FallbackStart(t) PROVE FreshTasks'
    <2>1. PICK n \in Inputs : thread.pending.id = n /\ inputs' = inputs /\ pc[t] # "none"
                 /\ \A u \in Tasks : u # <<"prompt", n>> => u = t \/ pc'[u] = pc[u]
      <3>0. PICK n : n = captured[t]
        OBVIOUS
      <3>1. FallbackWorld(t, n) /\ AfterFallback(n)
        BY <1>9, <3>0, FallbackSends, FallbackStartDoes
      <3>2. n \in Inputs /\ thread.pending.id = n
        BY <3>1 DEF AfterFallback
      <3>3. /\ inputs' = inputs /\ pc[t] # "none"
            /\ \A u \in Tasks : u # <<"prompt", n>> => u = t \/ pc'[u] = pc[u]
        BY <3>1 DEF FallbackWorld
      <3>4. QED
        BY <3>2, <3>3
    <2>2. \A m \in Inputs : <<"prompt", m>> \in Tasks /\ <<"steer", m>> \in Tasks
      BY TaskFacts
    <2>3. \A m \in Inputs : <<"prompt", m>> = <<"prompt", n>> \/ <<"steer", m>> = <<"prompt", n>> => m = n
      OBVIOUS
    <2>4. n <= inputs /\ inputs \in Nat
      <3>1. inputs \in Nat
        BY TypeSplit DEF PlacesOK
      <3>2. QED
        BY <2>1, <3>1, Given
    <2>5. \A m \in Inputs : m > inputs => m # n
      BY <2>4 DEF Inputs
    <2>6. \A m \in Inputs : m > inputs => /\ pc[<<"prompt", m>>] = "none"
                                          /\ pc[<<"steer", m>>] = "none"
      BY FreshSplit DEF FreshTasks
    <2>7. \A u \in Tasks : u # <<"prompt", n>> /\ pc[u] = "none" => pc'[u] = pc[u]
      BY <2>1
    <2>8. QED
      BY <2>1, <2>2, <2>3, <2>5, <2>6, <2>7 DEF FreshTasks
  <1>10. ASSUME NEW t \in Tasks, FallbackRefused(t) PROVE FreshTasks'
    <2>1. inputs' = inputs /\ t \in Tasks /\ pc[t] # "none"
          /\ \A u \in Tasks : u # t => pc'[u] = pc[u]
      BY <1>10, RefusedTakes DEF RefusedWorld, TaskWorld, Moved
    <2>2. \A m \in Inputs : <<"prompt", m>> \in Tasks /\ <<"steer", m>> \in Tasks
      BY TaskFacts
    <2>3. \A m \in Inputs : m > inputs => /\ pc[<<"prompt", m>>] = "none"
                                          /\ pc[<<"steer", m>>] = "none"
      BY FreshSplit DEF FreshTasks
    <2>4. \A u \in Tasks : pc[u] = "none" => pc'[u] = pc[u]
      BY <2>1
    <2>5. QED
      BY <2>1, <2>2, <2>3, <2>4 DEF FreshTasks
  <1>11. ASSUME UNCHANGED <<inputs, pc>> PROVE FreshTasks'
    BY <1>11, FreshSplit
       DEF FreshTasks
  <1> QED
    BY <1>1, <1>2, <1>3, <1>4, <1>5, <1>6, <1>7, <1>8, <1>9, <1>10, <1>11
       DEF Next, User, Settling, Task, AgentNext, PromptUnsaved, Stop, Close, Reopen, Break,
           StopSent, Closed, CloseFails, Receive, StopConnection, ConnectionLost,
           AgentBegins, AgentEnds, AgentAnnounces, AgentConsumes, AgentAnswers, SendCancel,
           AgentStep, AgentFrame, vars, taskVars, logVars

\* The conversation knows no input that was not given.
LEMMA FreshThreadStep ==
  Typed /\ FreshInv /\ MailInv /\ OnceInv /\ LeavesInv /\ TurnInv /\ StatusInv /\ ReportInv
    /\ [Next]_vars
    => FreshThread'
  <1> SUFFICES ASSUME Typed, FreshInv, MailInv, OnceInv, LeavesInv, TurnInv, StatusInv, ReportInv,
                      [Next]_vars
               PROVE  FreshThread'
    OBVIOUS
  <1>1. ASSUME Prompt PROVE FreshThread'
    <2>1. inputs \in Nat /\ thread.last \in Nat /\ thread.active \in Nat /\ first \in Nat
      BY TypeSplit DEF PlacesOK, ThreadOK, Snapshot
    <2>2. /\ inputs' = inputs + 1 /\ first' = first /\ ~HasPending(thread)
          /\ thread'.last = inputs + 1 /\ thread'.active = inputs + 1
          /\ thread'.pending = thread.pending
      <3>1. ~HasPending(thread)
        BY <1>1, Zenon DEF Prompt, Admits
      <3>2. QED
        BY <1>1, <3>1, PromptDoes, PromptSends DEF PromptWorld, AfterPrompt, Begins
    <2>3. QED
      BY <2>1, <2>2, FreshSplit DEF FreshThread, HasPending
  <1>2. ASSUME PromptUnsaved PROVE FreshThread'
    <2>1. inputs \in Nat /\ thread.last \in Nat /\ thread.active \in Nat /\ first \in Nat
      BY TypeSplit DEF PlacesOK, ThreadOK, Snapshot
    <2>2. inputs' = inputs /\ first' = first /\ thread'.last = thread.last /\ thread'.active = thread.active /\ thread'.pending = thread.pending
      BY <1>2, PromptUnsavedDoes, Zenon DEF Unmoved, PromptUnsaved
    <2>3. QED
      BY <2>1, <2>2, FreshSplit DEF FreshThread, NoPending
  <1>3. ASSUME Steer PROVE FreshThread'
    <2>1. inputs \in Nat /\ thread.last \in Nat /\ thread.active \in Nat /\ first \in Nat
      BY TypeSplit DEF PlacesOK, ThreadOK, Snapshot
    <2>2. inputs' = inputs + 1 /\ first' = first /\ thread'.pending.id = inputs + 1
          /\ thread'.last = thread.last /\ thread'.active = thread.active
      BY <1>3, SteerDoes, SteerSends DEF SteerWorld, AfterSteer
    <2>3. QED
      BY <2>1, <2>2, FreshSplit DEF FreshThread, NoPending
  <1>4. ASSUME Stop PROVE FreshThread'
    <2>1. inputs \in Nat /\ thread.last \in Nat /\ thread.active \in Nat /\ first \in Nat
      BY TypeSplit DEF PlacesOK, ThreadOK, Snapshot
    <2>2. inputs' = inputs /\ first' = first
      BY <1>4, Zenon DEF Stop
    <2>3. /\ thread'.last = thread.last /\ thread'.active = thread.active
          /\ thread'.pending.id \in {0, thread.pending.id}
      BY <1>4, StopDoes, TypeSplit DEF AfterStop, GivenUp, NoPending, ThreadOK, Snapshot,
         PendingSteer
    <2>4. QED
      BY <2>1, <2>2, <2>3, FreshSplit DEF FreshThread
  <1>5. ASSUME Reopen PROVE FreshThread'
    <2>1. inputs \in Nat /\ thread.last \in Nat /\ thread.active \in Nat /\ first \in Nat
      BY TypeSplit DEF PlacesOK, ThreadOK, Snapshot
    <2>2. inputs' = inputs /\ first' = inputs + 1 /\ thread'.last = thread.last
          /\ thread'.active = 0 /\ thread'.pending = NoPending
      BY <1>5, ReopenDoes DEF Reopen, Anew
    <2>3. QED
      BY <2>1, <2>2, FreshSplit DEF FreshThread, NoPending
  <1>6. ASSUME NEW n \in Inputs, PromptResult(n) PROVE FreshThread'
    <2>1. inputs \in Nat /\ thread.last \in Nat /\ thread.active \in Nat /\ first \in Nat
      BY TypeSplit DEF PlacesOK, ThreadOK, Snapshot
    <2>2. inputs' = inputs /\ first' = first /\ thread'.last = thread.last /\ thread'.active = 0
          /\ thread'.pending = thread.pending
      BY <1>6, PromptResultDoes, ResultTakes DEF AfterResult, TaskWorld
    <2>3. QED
      BY <2>1, <2>2, FreshSplit DEF FreshThread, NoPending
  <1>7. ASSUME NEW n \in Inputs, SteerAnswer(n) PROVE FreshThread'
    <2>1. inputs \in Nat /\ thread.last \in Nat /\ thread.active \in Nat /\ first \in Nat
      BY TypeSplit DEF PlacesOK, ThreadOK, Snapshot
    <2>2. inputs' = inputs /\ first' = first /\ thread'.active = thread.active
      BY <1>7, SteerAnswerDoes, AnswerTakes DEF AfterAnswer, TaskWorld
    <2>3. thread'.pending.id \in {0, thread.pending.id}
      <3>1. \/ thread'.pending = [thread.pending EXCEPT !.required = TRUE]
            \/ thread'.pending = NoPending
        BY <1>7, SteerAnswerDoes, Zenon DEF AfterAnswer
      <3>2. thread.pending \in PendingSteer
        BY TypeSplit DEF ThreadOK, Snapshot
      <3>3. QED
        BY <3>1, <3>2 DEF NoPending, PendingSteer
    <2>4. thread'.last \in {thread.last, n} /\ thread.pending.id = n
      BY <1>7, SteerAnswerDoes DEF AfterAnswer
    <2>5. n <= inputs
      BY <2>4, Given
    <2>6. QED
      BY <2>1, <2>2, <2>3, <2>4, <2>5, FreshSplit DEF FreshThread
  <1>8. ASSUME NEW t \in Tasks, FallbackStart(t) PROVE FreshThread'
    <2>1. inputs \in Nat /\ thread.last \in Nat /\ thread.active \in Nat /\ first \in Nat
      BY TypeSplit DEF PlacesOK, ThreadOK, Snapshot
    <2>2. PICK n \in Inputs : /\ thread.pending.id = n /\ inputs' = inputs /\ first' = first
                              /\ thread'.last = n /\ thread'.active = n /\ thread'.pending = NoPending
      BY <1>8, FallbackSends, FallbackStartDoes DEF FallbackWorld, AfterFallback
    <2>3. n <= inputs
      BY <2>2, Given
    <2>4. QED
      BY <2>1, <2>2, <2>3, FreshSplit DEF FreshThread, NoPending
  <1>9. ASSUME NEW t \in Tasks, FallbackRefused(t) PROVE FreshThread'
    <2>1. inputs \in Nat /\ thread.last \in Nat /\ thread.active \in Nat /\ first \in Nat
      BY TypeSplit DEF PlacesOK, ThreadOK, Snapshot
    <2>2. inputs' = inputs /\ first' = first
          /\ thread'.last = thread.last /\ thread'.active = thread.active
          /\ thread'.pending.id \in {0, thread.pending.id}
      BY <1>9, FallbackRefusedDoes, RefusedTakes DEF RefusedWorld, TaskWorld, AfterRefusal,
         GivenUp, NoPending
    <2>3. QED
      BY <2>1, <2>2, FreshSplit DEF FreshThread, NoPending
  <1>10. ASSUME Closed PROVE FreshThread'
    <2>1. inputs \in Nat /\ thread.last \in Nat /\ thread.active \in Nat /\ first \in Nat
      BY TypeSplit DEF PlacesOK, ThreadOK, Snapshot
    <2>2. inputs' = inputs /\ first' = first /\ thread'.last = thread.last /\ thread'.active = 0
          /\ thread'.pending = NoPending
      BY <1>10, ClosedDoes, Zenon DEF Closed, AfterSilence
    <2>3. QED
      BY <2>1, <2>2, FreshSplit DEF FreshThread, NoPending
  <1>11. ASSUME Receive PROVE FreshThread'
    <2>1. inputs \in Nat /\ thread.last \in Nat /\ thread.active \in Nat /\ first \in Nat
      BY TypeSplit DEF PlacesOK, ThreadOK, Snapshot
    <2>2. inputs' = inputs /\ first' = first
      BY <1>11, ReadTakes DEF ReadWorld
    <2>3. /\ thread'.last = thread.last /\ thread'.active = thread.active
          /\ thread'.pending.id = thread.pending.id
      BY <1>11, ReadDoes DEF AfterRead, AfterReport
    <2>4. QED
      BY <2>1, <2>2, <2>3, FreshSplit DEF FreshThread
  <1>12. ASSUME ConnectionLost PROVE FreshThread'
    <2>1. inputs \in Nat /\ thread.last \in Nat /\ thread.active \in Nat /\ first \in Nat
      BY TypeSplit DEF PlacesOK, ThreadOK, Snapshot
    <2>2. inputs' = inputs /\ first' = first
          /\ thread'.last = thread.last /\ thread'.active = thread.active
          /\ thread'.pending.id \in {0, thread.pending.id}
      BY <1>12, ConnectionLostDoes DEF ConnectionLost, AfterSilence, NoPending
    <2>3. QED
      BY <2>1, <2>2, FreshSplit DEF FreshThread, NoPending
  <1>13. ASSUME UNCHANGED <<thread, inputs, first>> PROVE FreshThread'
    BY <1>13, FreshSplit
       DEF FreshThread
  <1> QED
    BY <1>1, <1>2, <1>3, <1>4, <1>5, <1>6, <1>7, <1>8, <1>9, <1>10, <1>11, <1>12, <1>13
       DEF Next, User, Settling, Task, AgentNext, Close, Break, PromptResultLate,
           SteerAnswerLate, CancelAgain, Peek, StopSent, CloseFails, StopConnection,
           AgentBegins, AgentEnds, AgentAnnounces, AgentConsumes, AgentAnswers, SendCancel,
           Goto, AgentStep, AgentFrame, vars, taskVars, logVars

\* Nothing is known yet of an input that was not given.
LEMMA FreshStep ==
  Typed /\ FreshInv /\ MailInv /\ OnceInv /\ LeavesInv /\ TurnInv /\ StatusInv /\ ReportInv /\ [Next]_vars
    => FreshInv'
  <1>1. FreshLogs' /\ FreshTasks' /\ FreshThread' => FreshInv'
    BY FreshSplit, PTL
  <1>2. QED
    BY <1>1, FreshLogsStep, FreshTasksStep, FreshThreadStep

-----------------------------------------------------------------------------
(* What happens to the pending input *)

\* It goes, or stays as it is; what it is marked with stays.
PendKeeps ==
    /\ thread'.pending.id \in {0, thread.pending.id}
    /\ thread'.pending.required => thread.pending.required
    /\ thread'.pending.id # 0 /\ thread.pending.cancelled => thread'.pending.cancelled

\* Pending input that is gone is in order.
LEMMA PendGone == ASSUME thread'.pending = NoPending PROVE PendKeeps
  BY DEF PendKeeps, NoPending

\* Pending input that stays is in order.
LEMMA PendSame == ASSUME thread'.pending = thread.pending PROVE PendKeeps
  BY DEF PendKeeps

\* It is new with a request, and may be handed back with the answer to it.
LEMMA PendingMoves ==
  Typed /\ TurnInv /\ StatusInv /\ LeavesInv /\ [Next]_vars
    => PendKeeps \/ Steer \/ \E k \in Inputs : SteerAnswer(k)
  <1> SUFFICES ASSUME Typed, TurnInv, StatusInv, LeavesInv, [Next]_vars
               PROVE  PendKeeps \/ Steer \/ \E k \in Inputs : SteerAnswer(k)
    OBVIOUS
  <1>1. ASSUME Prompt PROVE PendKeeps \/ Steer \/ \E k \in Inputs : SteerAnswer(k)
    <2>1. thread'.pending = thread.pending
      BY <1>1, PromptDoes DEF AfterPrompt, Begins
    <2>2. QED
      BY <2>1, PendSame
  <1>2. ASSUME PromptUnsaved PROVE PendKeeps \/ Steer \/ \E k \in Inputs : SteerAnswer(k)
    <2>1. thread'.pending = thread.pending
      BY <1>2, PromptUnsavedDoes DEF Unmoved, Quiet
    <2>2. QED
      BY <2>1, PendSame
  <1>3. ASSUME Steer PROVE PendKeeps \/ Steer \/ \E k \in Inputs : SteerAnswer(k)
    BY <1>3
  <1>4. ASSUME Stop PROVE PendKeeps \/ Steer \/ \E k \in Inputs : SteerAnswer(k)
    <2>1. \/ thread'.pending = [thread.pending EXCEPT !.cancelled = HasPending(thread)]
          \/ thread'.pending = NoPending
      BY <1>4, StopDoes DEF AfterStop, GivenUp
    <2>2. thread.pending \in PendingSteer
      BY TypeSplit DEF ThreadOK, Snapshot
    <2>3. QED
      BY <2>1, <2>2, PendGone DEF PendKeeps, PendingSteer, HasPending
  <1>5. ASSUME Reopen PROVE PendKeeps \/ Steer \/ \E k \in Inputs : SteerAnswer(k)
    <2>1. thread'.pending = NoPending
      BY <1>5, ReopenDoes DEF Anew
    <2>2. QED
      BY <2>1, PendGone
  <1>6. ASSUME NEW n \in Inputs, PromptResult(n)
        PROVE  PendKeeps \/ Steer \/ \E k \in Inputs : SteerAnswer(k)
    <2>1. thread'.pending = thread.pending
      BY <1>6, PromptResultDoes DEF AfterResult, Quiet
    <2>2. QED
      BY <2>1, PendSame
  <1>7. ASSUME NEW n \in Inputs, SteerAnswer(n)
        PROVE  PendKeeps \/ Steer \/ \E k \in Inputs : SteerAnswer(k)
    BY <1>7
  <1>8. ASSUME NEW t \in Tasks, FallbackStart(t)
        PROVE  PendKeeps \/ Steer \/ \E k \in Inputs : SteerAnswer(k)
    <2>1. thread'.pending = NoPending
      BY <1>8, FallbackStartDoes DEF AfterFallback, Quiet
    <2>2. QED
      BY <2>1, PendGone
  <1>9. ASSUME NEW t \in Tasks, FallbackRefused(t)
        PROVE  PendKeeps \/ Steer \/ \E k \in Inputs : SteerAnswer(k)
    <2>1. thread' = thread \/ thread'.pending = NoPending
      BY <1>9, FallbackRefusedDoes DEF AfterRefusal, GivenUp
    <2>2. QED
      BY <2>1, PendGone, PendSame
  <1>10. ASSUME Closed PROVE PendKeeps \/ Steer \/ \E k \in Inputs : SteerAnswer(k)
    <2>1. thread'.pending = NoPending
      BY <1>10, ClosedDoes DEF AfterSilence
    <2>2. QED
      BY <2>1, PendGone
  <1>11. ASSUME Receive PROVE PendKeeps \/ Steer \/ \E k \in Inputs : SteerAnswer(k)
    <2>1. \/ thread'.pending = thread.pending
          \/ \E a \in Activities : thread'.pending = PendingSees(thread.pending, a)
      BY <1>11, ReadDoes DEF AfterRead, AfterReport
    <2>2. thread.pending \in PendingSteer
      BY TypeSplit DEF ThreadOK, Snapshot
    <2>3. QED
      BY <2>1, <2>2, PendSame, PendingSeesIs DEF PendKeeps
  <1>12. ASSUME ConnectionLost PROVE PendKeeps \/ Steer \/ \E k \in Inputs : SteerAnswer(k)
    <2>1. thread' = thread \/ thread'.pending = NoPending
      BY <1>12, ConnectionLostDoes DEF AfterSilence
    <2>2. QED
      BY <2>1, PendGone, PendSame
  <1>13. ASSUME UNCHANGED thread PROVE PendKeeps \/ Steer \/ \E n \in Inputs :
           SteerAnswer(n)
    BY <1>13, PendSame
  <1> QED
    BY <1>1, <1>2, <1>3, <1>4, <1>5, <1>6, <1>7, <1>8, <1>9, <1>10, <1>11, <1>12, <1>13
       DEF Next, User, Settling, Task, AgentNext, Close, Break, PromptResultLate,
           SteerAnswerLate, CancelAgain, Peek, StopSent, CloseFails, StopConnection,
           AgentBegins, AgentEnds, AgentAnnounces, AgentConsumes, AgentAnswers, SendCancel,
           Goto, AgentStep, AgentFrame, vars, taskVars, logVars

\* The answer to pending input.
LEMMA PendAnswered ==
  ASSUME Typed, TurnInv, LeavesInv, NEW n \in Inputs, SteerAnswer(n)
  PROVE  /\ thread'.pending.id \in {0, n} /\ thread.pending.id = n
         /\ thread'.pending.id # 0 => answer[<<"steer", n>>] = "required"
         /\ thread'.pending.id # 0 /\ thread.pending.cancelled => thread'.pending.cancelled
  <1>1. \/ /\ thread'.pending = [thread.pending EXCEPT !.required = TRUE]
           /\ answer[<<"steer", n>>] = "required"
        \/ thread'.pending = NoPending
    BY SteerAnswerDoes, Zenon DEF AfterAnswer
  <1>2. thread.pending.id = n
    BY SteerAnswerDoes, Zenon DEF AfterAnswer
  <1>3. thread.pending \in PendingSteer
    BY TypeSplit DEF ThreadOK, Snapshot
  <1>4. QED
    BY <1>1, <1>2, <1>3 DEF NoPending, PendingSteer

-----------------------------------------------------------------------------
(* A stop holds *)

\* Input that a stop has marked stays marked while it is pending.
LEMMA StopKept ==
  ASSUME Typed, FreshInv, TurnInv, LeavesInv, StopInv, stopped' = stopped,
         PendKeeps \/ Steer \/ \E k \in Inputs : SteerAnswer(k)
  PROVE  StopInv'
  <1>1. CASE PendKeeps
    <2>1. \A n \in stopped : n # 0
      BY DEF Typed, WorldOK, Inputs
    <2>2. QED
      BY <1>1, <2>1 DEF StopInv, PendKeeps
  <1>2. CASE Steer
    <2>1. inputs + 1 \in Inputs /\ thread'.pending.id = inputs + 1 /\ inputs \in Nat
      BY <1>2, SteerDoes, TypeSplit DEF AfterSteer, PlacesOK
    <2>2. inputs + 1 > inputs
      BY <2>1
    <2>3. inputs + 1 \notin stopped
      BY <2>1, <2>2 DEF FreshInv
    <2>4. QED
      BY <2>1, <2>3 DEF StopInv
  <1>3. CASE \E n \in Inputs : SteerAnswer(n)
    <2>1. PICK n \in Inputs : SteerAnswer(n)
      BY <1>3
    <2>2. /\ thread'.pending.id \in {0, n} /\ thread.pending.id = n
          /\ thread'.pending.id # 0 /\ thread.pending.cancelled => thread'.pending.cancelled
      BY <2>1, PendAnswered
    <2>3. \A m \in stopped : m # 0
      BY DEF Typed, WorldOK, Inputs
    <2>4. QED
      BY <2>2, <2>3 DEF StopInv
  <1>4. QED
    BY <1>1, <1>2, <1>3

\* Only Stop adds to what was stopped.
LEMMA StopsOnly == ASSUME [Next]_vars PROVE Stop \/ stopped' = stopped
  BY Zenon DEF Next, User, Settling, Task, AgentNext, Prompt, PromptUnsaved, Steer, Close, Reopen,
               Break, PromptResult, PromptResultLate, SteerAnswer, SteerAnswerLate, CancelAgain,
               Peek, FallbackStart, FallbackRefused, StopSent, Closed, CloseFails, Receive,
               StopConnection, ConnectionLost, AgentBegins, AgentEnds, AgentAnnounces,
               AgentConsumes, AgentAnswers, logVars, vars

\* What was pending at a stop is marked as stopped for as long as it is pending.
LEMMA StopStep ==
  Typed /\ FreshInv /\ TurnInv /\ StatusInv /\ LeavesInv /\ StopInv /\ [Next]_vars => StopInv'
  <1> SUFFICES ASSUME Typed, FreshInv, TurnInv, StatusInv, LeavesInv, StopInv, [Next]_vars
               PROVE  StopInv'
    OBVIOUS
  <1>1. CASE Stop
    <2>1. stopped' = stopped \cup ({thread.pending.id} \ {0})
      BY <1>1, Zenon DEF Stop
    <2>2. \/ thread'.pending = [thread.pending EXCEPT !.cancelled = HasPending(thread)]
          \/ thread'.pending = NoPending
      BY <1>1, StopDoes DEF AfterStop, GivenUp
    <2>3. thread.pending \in PendingSteer /\ 0 \notin stopped
      BY TypeSplit DEF ThreadOK, Snapshot, Typed, WorldOK, Inputs
    <2>4. CASE thread'.pending = NoPending
      <3>1. 0 \notin stopped'
        BY <2>1, <2>3
      <3>2. QED
        BY <2>4, <3>1 DEF StopInv, NoPending
    <2>5. CASE thread'.pending = [thread.pending EXCEPT !.cancelled = HasPending(thread)]
      <3>1. thread'.pending.id = thread.pending.id
            /\ thread'.pending.cancelled = HasPending(thread)
        BY <2>3, <2>5 DEF PendingSteer
      <3>2. 0 \notin stopped'
        BY <2>1, <2>3
      <3>3. QED
        BY <3>1, <3>2 DEF StopInv, HasPending
    <2>6. QED
      BY <2>2, <2>4, <2>5
  <1>2. CASE stopped' = stopped
    BY <1>2, PendingMoves, StopKept
  <1>3. QED
    BY <1>1, <1>2, StopsOnly

\* A prompt is sent where it is admitted: fresh input, or a fallback.
LEMMA SendsOnly ==
  ASSUME [Next]_vars PROVE Prompt \/ (\E t \in Tasks : FallbackStart(t)) \/ sent' = sent
  BY Zenon DEF Next, User, Settling, Task, AgentNext, PromptUnsaved, Steer, Stop, Close, Reopen,
               Break, PromptResult, PromptResultLate, SteerAnswer, SteerAnswerLate, CancelAgain,
               Peek, FallbackRefused, StopSent, Closed, CloseFails, Receive,
               StopConnection, ConnectionLost, AgentBegins, AgentEnds, AgentAnnounces,
               AgentConsumes, AgentAnswers, logVars, vars

\* No input that was stopped while it was pending is sent.
LEMMA StopHoldsStep ==
  Typed /\ FreshInv /\ StatusInv /\ StopInv /\ [Next]_vars
    => \A n \in stopped : sent'[n] = sent[n]
  <1> SUFFICES ASSUME Typed, FreshInv, StatusInv, StopInv, [Next]_vars, NEW n \in stopped
               PROVE  sent'[n] = sent[n]
    OBVIOUS
  <1>0. n \in Inputs
    BY DEF Typed, WorldOK
  <1>1. CASE Prompt
    <2>1. PICK k \in Inputs : k = inputs + 1 /\ SendsOnce(k)
      BY <1>1, PromptSends DEF PromptWorld
    <2>2. inputs \in Nat
      BY TypeSplit DEF PlacesOK
    <2>3. k > inputs
      BY <2>1, <2>2
    <2>4. k \notin stopped
      BY <2>3 DEF FreshInv
    <2>5. QED
      BY <1>0, <2>1, <2>4 DEF SendsOnce
  <1>2. CASE \E t \in Tasks : FallbackStart(t)
    <2>1. PICK t \in Tasks : FallbackStart(t)
      BY <1>2
    <2>2. PICK k : k = captured[t]
      OBVIOUS
    <2>3. SendsOnce(k) /\ thread.pending.id = k /\ ~thread.pending.cancelled
      BY <2>1, <2>2, FallbackSends, FallbackStartDoes DEF FallbackWorld, AfterFallback
    <2>4. k \notin stopped
      BY <2>3 DEF StopInv
    <2>5. QED
      BY <1>0, <2>3, <2>4 DEF SendsOnce
  <1>3. CASE sent' = sent
    BY <1>3
  <1>4. QED
    BY <1>1, <1>2, <1>3, SendsOnly

-----------------------------------------------------------------------------
(* An input goes to the agent once *)

Settles(step) == step \notin {"none", "waiting"}
Unconsumed(n) == answer[<<"steer", n>>] = "required" \/ OnWire(<<"steer", n>>, "required")

OnceOf(n) ==
    /\ sent[n] + consumed[n] <= 1
    /\ agent.asked[n] = "new" => consumed[n] = 0 /\ sent[n] = 0
    /\ agent.asked[n] \in {"injected", "started"} => consumed[n] = 1
    /\ Unconsumed(n) => consumed[n] = 0 /\ sent[n] = 0
    /\ thread.pending.id = n => sent[n] = 0
    /\ thread.pending.id = n /\ thread.pending.required
         => consumed[n] = 0 /\ Settles(pc[<<"steer", n>>])

Captures == \A t \in Tasks : pc[t] = "start" <=> captured[t] # 0

\* The parts of OnceInv.
LEMMA OnceSplit == OnceInv <=> (\A n \in Inputs : OnceOf(n)) /\ Captures
  BY DEF OnceInv, NeverResent, OnceOf, Captures, Unconsumed, Settles

\* What a step that does not concern input n leaves of it.
Steady(n) ==
    /\ sent'[n] = sent[n] /\ consumed'[n] = consumed[n]
    /\ agent'.asked[n] \in {agent.asked[n], "none"}
    /\ Unconsumed(n)' => Unconsumed(n)
    /\ thread'.pending.id = n => thread.pending.id = n
    /\ thread'.pending.id = n /\ thread'.pending.required => thread.pending.required
    /\ Settles(pc[<<"steer", n>>]) => Settles(pc'[<<"steer", n>>])

\* An input keeps its promise if nothing about it changes.
LEMMA OnceKept == ASSUME NEW n \in Inputs, OnceOf(n), Steady(n) PROVE OnceOf(n)'
  BY DEF OnceOf, Steady

\* The same with what Same says of the wire.
LEMMA SteadyIs ==
  ASSUME NEW n \in Inputs, PendKeeps, sent'[n] = sent[n], consumed'[n] = consumed[n],
         agent'.asked[n] \in {agent.asked[n], "none"},
         answer'[<<"steer", n>>] = "required" => Unconsumed(n),
         OnWire(<<"steer", n>>, "required")' => Unconsumed(n),
         Settles(pc[<<"steer", n>>]) => Settles(pc'[<<"steer", n>>])
  PROVE  Steady(n)
  <1>1. n # 0
    BY DEF Inputs
  <1>2. QED
    BY <1>1, Zenon DEF Steady, PendKeeps, Unconsumed

\* Whether an input was handed back is told by its response.
LEMMA SameRequired ==
  ASSUME NEW n \in Inputs, Same(<<"steer", n>>)
  PROVE  OnWire(<<"steer", n>>, "required")' => OnWire(<<"steer", n>>, "required")
  <1>1. "required" \in AllEnds
    BY DEF AllEnds, SteerEnds
  <1>2. QED
    BY <1>1 DEF Same

\* A step that touches no input touches none of the promises.
LEMMA AllSteady ==
  ASSUME \A n \in Inputs : OnceOf(n), PendKeeps,
         sent' = sent, consumed' = consumed, agent'.asked = agent.asked,
         \A u \in Tasks : /\ Same(u) /\ (Settles(pc[u]) => Settles(pc'[u]))
                          /\ answer'[u] = "required" => answer[u] = "required"
  PROVE  \A k \in Inputs : OnceOf(k)'
  <1> SUFFICES ASSUME NEW n \in Inputs PROVE OnceOf(n)'
    OBVIOUS
  <1>1. <<"steer", n>> \in Tasks
    BY TaskFacts
  <1>2. OnWire(<<"steer", n>>, "required")' => Unconsumed(n)
    BY <1>1, SameRequired DEF Unconsumed
  <1>3. answer'[<<"steer", n>>] = "required" => Unconsumed(n)
    BY <1>1 DEF Unconsumed
  <1>4. Settles(pc[<<"steer", n>>]) => Settles(pc'[<<"steer", n>>])
    BY <1>1
  <1>5. QED
    BY <1>2, <1>3, <1>4, SteadyIs, OnceKept

\* Most steps leave the pending input or drop it.
LEMMA PendOf ==
  ASSUME Typed, TurnInv, StatusInv, LeavesInv,
         \/ Prompt \/ PromptUnsaved \/ Stop \/ Close \/ Reopen \/ Break \/ StopSent \/ Closed
         \/ CloseFails \/ Receive \/ StopConnection \/ ConnectionLost
         \/ \E n \in Inputs : PromptResult(n)
         \/ \E t \in Tasks : FallbackStart(t) \/ FallbackRefused(t)
         \/ thread' = thread
  PROVE  PendKeeps
  <1>1. ASSUME Prompt PROVE PendKeeps
    <2>1. thread'.pending = thread.pending
      BY <1>1, PromptDoes DEF AfterPrompt, Begins
    <2>2. QED
      BY <2>1, PendSame
  <1>2. ASSUME PromptUnsaved PROVE PendKeeps
    <2>1. thread'.pending = thread.pending
      BY <1>2, PromptUnsavedDoes DEF Unmoved, Quiet
    <2>2. QED
      BY <2>1, PendSame
  <1>3. ASSUME Stop PROVE PendKeeps
    <2>1. \/ thread'.pending = [thread.pending EXCEPT !.cancelled = HasPending(thread)]
          \/ thread'.pending = NoPending
      BY <1>3, StopDoes DEF AfterStop, GivenUp
    <2>2. thread.pending \in PendingSteer
      BY TypeSplit DEF ThreadOK, Snapshot
    <2>3. QED
      BY <2>1, <2>2, PendGone DEF PendKeeps, PendingSteer, HasPending
  <1>4. ASSUME Reopen PROVE PendKeeps
    <2>1. thread'.pending = NoPending
      BY <1>4, ReopenDoes DEF Anew
    <2>2. QED
      BY <2>1, PendGone
  <1>5. ASSUME NEW n \in Inputs, PromptResult(n) PROVE PendKeeps
    <2>1. thread'.pending = thread.pending
      BY <1>5, PromptResultDoes DEF AfterResult, Quiet
    <2>2. QED
      BY <2>1, PendSame
  <1>6. ASSUME NEW t \in Tasks, FallbackStart(t) PROVE PendKeeps
    <2>1. thread'.pending = NoPending
      BY <1>6, FallbackStartDoes DEF AfterFallback, Quiet
    <2>2. QED
      BY <2>1, PendGone
  <1>7. ASSUME NEW t \in Tasks, FallbackRefused(t) PROVE PendKeeps
    <2>1. thread' = thread \/ thread'.pending = NoPending
      BY <1>7, FallbackRefusedDoes DEF AfterRefusal, GivenUp
    <2>2. QED
      BY <2>1, PendGone, PendSame
  <1>8. ASSUME Closed PROVE PendKeeps
    <2>1. thread'.pending = NoPending
      BY <1>8, ClosedDoes DEF AfterSilence
    <2>2. QED
      BY <2>1, PendGone
  <1>9. ASSUME Receive PROVE PendKeeps
    <2>1. \/ thread'.pending = thread.pending
          \/ \E a \in Activities : thread'.pending = PendingSees(thread.pending, a)
      BY <1>9, ReadDoes DEF AfterRead, AfterReport
    <2>2. thread.pending \in PendingSteer
      BY TypeSplit DEF ThreadOK, Snapshot
    <2>3. QED
      BY <2>1, <2>2, PendSame, PendingSeesIs DEF PendKeeps
  <1>10. ASSUME ConnectionLost PROVE PendKeeps
    <2>1. thread' = thread \/ thread'.pending = NoPending
      BY <1>10, ConnectionLostDoes DEF AfterSilence
    <2>2. QED
      BY <2>1, PendGone, PendSame
  <1>11. ASSUME thread' = thread PROVE PendKeeps
    BY <1>11, PendSame
  <1>12. QED
    BY <1>1, <1>2, <1>3, <1>4, <1>5, <1>6, <1>7, <1>8, <1>9, <1>10, <1>11, Zenon
       DEF Close, Break, StopSent, CloseFails, StopConnection

\* No input goes to the agent a second time.
LEMMA OnceOfStep ==
  Typed /\ FreshInv /\ MailInv /\ OnceInv /\ LeavesInv /\ TurnInv /\ StatusInv
    /\ [Next]_vars
    => \A k \in Inputs : OnceOf(k)'
  <1> SUFFICES ASSUME Typed, FreshInv, MailInv, OnceInv, LeavesInv, TurnInv, StatusInv,
                      [Next]_vars
               PROVE  \A k \in Inputs : OnceOf(k)'
    OBVIOUS
  <1> \A n \in Inputs : OnceOf(n)
    BY OnceSplit
  <1>1. ASSUME Prompt PROVE \A k \in Inputs : OnceOf(k)'
    <2>1. PICK n \in Inputs : n = inputs + 1 /\ PromptWorld
      BY <1>1, PromptSends DEF PromptWorld
    <2>0. PendKeeps
      BY <1>1, PendOf
    <2>2. inputs \in Nat /\ n > inputs
      <3>1. inputs \in Nat
        BY TypeSplit DEF PlacesOK
      <3>2. QED
        BY <2>1, <3>1
    <2>3. /\ sent[n] = 0 /\ consumed[n] = 0 /\ pc[<<"steer", n>>] = "none" /\ n # thread.pending.id
          /\ <<"steer", n>> \in Tasks
      <3>1. sent[n] = 0 /\ consumed[n] = 0 /\ pc[<<"steer", n>>] = "none"
        BY <2>2 DEF FreshInv
      <3>2. thread.pending.id \in {0, inputs} /\ n # 0
        BY DEF FreshInv, Inputs
      <3>3. n # thread.pending.id
        BY <2>2, <3>2
      <3>4. <<"steer", n>> \in Tasks
        BY TaskFacts
      <3>5. QED
        BY <3>1, <3>3, <3>4
    <2>4. /\ answer[<<"steer", n>>] = "none" /\ ~Wired(<<"steer", n>>) /\ agent.asked[n] = "none"
      BY <2>3 DEF MailInv, Expects
    <2>5. ~OnWire(<<"steer", n>>, "required")'
      <3>1. ~OnWire(<<"steer", n>>, "required")
        BY <2>4, OnWireWired
      <3>2. Same(<<"steer", n>>)
        BY <2>1, <2>3 DEF PromptWorld, Silences
      <3>3. QED
        BY <3>1, <3>2, SameRequired
    <2>6. /\ agent'.asked = agent.asked /\ consumed' = consumed
          /\ \A m \in Inputs : sent'[m] = IF m = n THEN sent[m] + 1 ELSE sent[m]
      BY <2>1 DEF PromptWorld, Queued, SendsOnce
    <2>7. \A m \in Inputs : answer'[<<"steer", m>>] = answer[<<"steer", m>>]
                           /\ pc'[<<"steer", m>>] = pc[<<"steer", m>>] /\ Same(<<"steer", m>>)
      <3>1. \A m \in Inputs : <<"steer", m>> \in Tasks /\ <<"steer", m>> # <<"prompt", n>>
        BY TaskFacts
      <3>2. QED
        BY <2>1, <3>1 DEF PromptWorld, Asks, Silences
    <2>8. OnceOf(n)'
      <3>1. sent'[n] = 1 /\ consumed'[n] = 0 /\ agent'.asked[n] = "none"
        BY <2>3, <2>4, <2>6
      <3>2. ~Unconsumed(n)'
        BY <2>4, <2>5, <2>7 DEF Unconsumed
      <3>3. thread'.pending.id # n
        BY <2>0, <2>3 DEF PendKeeps, Inputs
      <3>4. QED
        BY <3>1, <3>2, <3>3 DEF OnceOf
    <2>9. ASSUME NEW m \in Inputs, m # n PROVE OnceOf(m)'
      <3>1. Steady(m)
        BY <2>0, <2>6, <2>7, <2>9, SteadyIs, SameRequired DEF Unconsumed
      <3>2. QED
        BY <3>1, OnceKept
    <2>10. QED
      BY <2>8, <2>9
  <1>2. ASSUME PromptUnsaved PROVE \A k \in Inputs : OnceOf(k)'
    <2>1. PendKeeps
      BY <1>2, PendOf
    <2>2. /\ sent' = sent /\ consumed' = consumed /\ agent'.asked = agent.asked
          /\ \A u \in Tasks : /\ Same(u) /\ (Settles(pc[u]) => Settles(pc'[u]))
                              /\ answer'[u] = "required" => answer[u] = "required"
      BY <1>2, BystandersKeep DEF OthersKeep, AgentKeeps, Silences
    <2>3. QED
      BY <2>1, <2>2, AllSteady
  <1>3. ASSUME Steer PROVE \A k \in Inputs : OnceOf(k)'
    <2>1. PICK n \in Inputs : n = inputs + 1 /\ SteerWorld /\ AfterSteer
      BY <1>3, SteerSends, SteerDoes DEF SteerWorld
    <2>2. inputs \in Nat /\ n > inputs
      <3>1. inputs \in Nat
        BY TypeSplit DEF PlacesOK
      <3>2. QED
        BY <2>1, <3>1
    <2>3. /\ sent[n] = 0 /\ consumed[n] = 0 /\ pc[<<"steer", n>>] = "none" /\ n # thread.pending.id
          /\ <<"steer", n>> \in Tasks
      <3>1. sent[n] = 0 /\ consumed[n] = 0 /\ pc[<<"steer", n>>] = "none"
        BY <2>2 DEF FreshInv
      <3>2. thread.pending.id \in {0, inputs} /\ n # 0
        BY DEF FreshInv, Inputs
      <3>3. n # thread.pending.id
        BY <2>2, <3>2
      <3>4. <<"steer", n>> \in Tasks
        BY TaskFacts
      <3>5. QED
        BY <3>1, <3>3, <3>4
    <2>4. /\ answer[<<"steer", n>>] = "none" /\ ~Wired(<<"steer", n>>) /\ agent.asked[n] = "none"
      BY <2>3 DEF MailInv, Expects
    <2>5. ~OnWire(<<"steer", n>>, "required")'
      <3>1. ~OnWire(<<"steer", n>>, "required")
        BY <2>4, OnWireWired
      <3>2. Same(<<"steer", n>>)
        BY <2>1, <2>3 DEF SteerWorld, Silences
      <3>3. QED
        BY <3>1, <3>2, SameRequired
    <2>6. /\ sent' = sent /\ consumed' = consumed
          /\ agent'.asked[n] \in {"none", "new"}
          /\ \A m \in Inputs : m # n => agent'.asked[m] = agent.asked[m]
      <3>1. agent.asked \in [Inputs -> {"none", "new", "injected", "started"}]
        BY DEF Typed, WorldOK, AgentState
      <3>2. QED
        BY <2>1, <2>4, <3>1 DEF SteerWorld, Consults
    <2>7. \A m \in Inputs : m # n => answer'[<<"steer", m>>] = answer[<<"steer", m>>]
                           /\ pc'[<<"steer", m>>] = pc[<<"steer", m>>] /\ Same(<<"steer", m>>)
      <3>1. \A m \in Inputs : <<"steer", m>> \in Tasks /\ (m # n => <<"steer", m>> # <<"steer", n>>)
        BY TaskFacts
      <3>2. QED
        BY <2>1, <3>1 DEF SteerWorld, Asks, Silences
    <2>8. answer'[<<"steer", n>>] \in {"none", "lost"}
      BY <2>1, <2>3 DEF SteerWorld, Asks
    <2>9. thread'.pending.id = n /\ ~thread'.pending.required
      BY <2>1 DEF AfterSteer
    <2>10. OnceOf(n)'
      <3>1. ~Unconsumed(n)'
        BY <2>5, <2>8 DEF Unconsumed
      <3>2. sent'[n] = 0 /\ consumed'[n] = 0
        BY <2>3, <2>6
      <3>3. QED
        BY <2>6, <2>9, <3>1, <3>2 DEF OnceOf
    <2>11. ASSUME NEW m \in Inputs, m # n PROVE OnceOf(m)'
      <3>1. OnWire(<<"steer", m>>, "required")' => OnWire(<<"steer", m>>, "required")
        BY <2>7, <2>11, SameRequired
      <3>2. Steady(m)
        BY <2>6, <2>7, <2>9, <2>11, <3>1, Zenon DEF Steady, Unconsumed
      <3>3. QED
        BY <3>2, OnceKept
    <2>12. QED
      BY <2>10, <2>11
  <1>4. ASSUME Stop PROVE \A k \in Inputs : OnceOf(k)'
    <2>1. PendKeeps
      BY <1>4, PendOf
    <2>2. /\ sent' = sent /\ consumed' = consumed /\ agent'.asked = agent.asked
          /\ \A u \in Tasks : /\ Same(u) /\ (Settles(pc[u]) => Settles(pc'[u]))
                              /\ answer'[u] = "required" => answer[u] = "required"
      BY <1>4, BystandersKeep DEF OthersKeep, AgentKeeps, Silences
    <2>3. QED
      BY <2>1, <2>2, AllSteady
  <1>5. ASSUME Close PROVE \A k \in Inputs : OnceOf(k)'
    <2>1. PendKeeps
      BY <1>5, PendOf
    <2>2. /\ sent' = sent /\ consumed' = consumed /\ agent'.asked = agent.asked
          /\ \A u \in Tasks : /\ Same(u) /\ (Settles(pc[u]) => Settles(pc'[u]))
                              /\ answer'[u] = "required" => answer[u] = "required"
      BY <1>5, BystandersKeep DEF OthersKeep, AgentKeeps, Silences
    <2>3. QED
      BY <2>1, <2>2, AllSteady
  <1>6. ASSUME Reopen PROVE \A k \in Inputs : OnceOf(k)'
    <2>1. PendKeeps
      BY <1>6, PendOf
    <2>2. /\ sent' = sent /\ consumed' = consumed /\ agent'.asked = agent.asked
          /\ \A u \in Tasks : /\ Same(u) /\ (Settles(pc[u]) => Settles(pc'[u]))
                              /\ answer'[u] = "required" => answer[u] = "required"
      BY <1>6, BystandersKeep DEF OthersKeep, AgentKeeps, Silences
    <2>3. QED
      BY <2>1, <2>2, AllSteady
  <1>7. ASSUME Break PROVE \A k \in Inputs : OnceOf(k)'
    <2>1. BreakWorld /\ PendKeeps
      BY <1>7, BreakDoes, PendOf
    <2>2. /\ sent' = sent /\ consumed' = consumed /\ pc' = pc
          /\ \A n \in Inputs : agent'.asked[n] = "none"
      BY <2>1 DEF BreakWorld
    <2>3. \A n \in Inputs : /\ ~OnWire(<<"steer", n>>, "required")'
                            /\ answer'[<<"steer", n>>] = "required" => Unconsumed(n)
      <3>1. \A n \in Inputs : <<"steer", n>> \in Tasks
        BY TaskFacts
      <3>2. QED
        BY <2>1, <3>1 DEF BreakWorld, Unconsumed
    <2>4. ASSUME NEW n \in Inputs PROVE Steady(n)
      <3>1. /\ sent'[n] = sent[n] /\ consumed'[n] = consumed[n] /\ agent'.asked[n] = "none"
            /\ pc'[<<"steer", n>>] = pc[<<"steer", n>>]
        BY <2>2
      <3>2. /\ answer'[<<"steer", n>>] = "required" => Unconsumed(n)
            /\ ~OnWire(<<"steer", n>>, "required")'
        BY <2>3
      <3>3. QED
        BY <2>1, <3>1, <3>2, SteadyIs
    <2>5. QED
      BY <2>4, OnceKept
  <1>8. ASSUME NEW n \in Inputs, PromptResult(n) PROVE \A k \in Inputs : OnceOf(k)'
    <2>1. PendKeeps
      BY <1>8, PendOf
    <2>2. /\ sent' = sent /\ consumed' = consumed /\ agent'.asked = agent.asked
          /\ \A u \in Tasks : /\ Same(u) /\ (Settles(pc[u]) => Settles(pc'[u]))
                              /\ answer'[u] = "required" => answer[u] = "required"
      BY <1>8, ResultTakes DEF TaskWorld, Moved, ResultWorld, Settles, Silences
    <2>3. QED
      BY <2>1, <2>2, AllSteady
  <1>9. ASSUME NEW n \in Inputs, PromptResultLate(n) PROVE \A k \in Inputs : OnceOf(k)'
    <2>1. PendKeeps
      <3>1. thread' = thread
        BY <1>9, ResultTakes
      <3>2. QED
        BY <3>1, PendSame
    <2>2. /\ sent' = sent /\ consumed' = consumed /\ agent'.asked = agent.asked
          /\ \A u \in Tasks : /\ Same(u) /\ (Settles(pc[u]) => Settles(pc'[u]))
                              /\ answer'[u] = "required" => answer[u] = "required"
      BY <1>9, ResultTakes DEF TaskWorld, Moved, ResultWorld, Settles, Silences
    <2>3. QED
      BY <2>1, <2>2, AllSteady
  <1>10. ASSUME NEW n \in Inputs, SteerAnswer(n) PROVE \A k \in Inputs : OnceOf(k)'
    <2>1. /\ AnswerWorld(n) /\ thread.pending.id = n /\ sent' = sent /\ consumed' = consumed
          /\ \A u \in Tasks : /\ u # <<"steer", n>> => pc'[u] = pc[u] /\ answer'[u] = answer[u]
                              /\ Same(u)
          /\ Settles(pc'[<<"steer", n>>]) /\ answer'[<<"steer", n>>] = "none"
      BY <1>10, AnswerTakes DEF AnswerWorld, TaskWorld, Moved, Silences, Settles
    <2>2. /\ thread'.pending.id \in {0, n}
          /\ thread'.pending.id # 0 => answer[<<"steer", n>>] = "required"
      BY <1>10, PendAnswered
    <2>3. agent'.asked = agent.asked /\ n # 0
      BY <2>1 DEF AnswerWorld, Inputs
    <2>4. ~Wired(<<"steer", n>>) /\ <<"steer", n>> \in Tasks
      BY <2>1 DEF AnswerWorld, MailInv
    <2>5. OnceOf(n)'
      <3>1. ~OnWire(<<"steer", n>>, "required")'
        BY <2>1, <2>4, OnWireWired, SameRequired
      <3>2. ~Unconsumed(n)'
        BY <2>1, <3>1 DEF Unconsumed
      <3>3. answer[<<"steer", n>>] = "required" => sent[n] = 0 /\ consumed[n] = 0
        BY DEF OnceOf, Unconsumed
      <3>4. QED
        BY <2>1, <2>2, <2>3, <3>2, <3>3 DEF OnceOf
    <2>6. ASSUME NEW m \in Inputs, m # n PROVE OnceOf(m)'
      <3>0. m # 0
        BY DEF Inputs
      <3>1. <<"steer", m>> \in Tasks /\ <<"steer", m>> # <<"steer", n>> /\ m # 0
        BY <2>6, <3>0, TaskFacts
      <3>2. OnWire(<<"steer", m>>, "required")' => OnWire(<<"steer", m>>, "required")
        BY <2>1, <3>1, SameRequired
      <3>3. Steady(m)
        BY <2>1, <2>2, <2>3, <2>6, <3>1, <3>2, Zenon DEF Steady, Unconsumed
      <3>4. QED
        BY <3>3, OnceKept
    <2>7. QED
      BY <2>5, <2>6
  <1>11. ASSUME NEW n \in Inputs, SteerAnswerLate(n) PROVE \A k \in Inputs : OnceOf(k)'
    <2>1. PendKeeps
      <3>1. thread' = thread
        BY <1>11, AnswerTakes
      <3>2. QED
        BY <3>1, PendSame
    <2>2. /\ sent' = sent /\ consumed' = consumed /\ agent'.asked = agent.asked
          /\ \A u \in Tasks : /\ Same(u) /\ (Settles(pc[u]) => Settles(pc'[u]))
                              /\ answer'[u] = "required" => answer[u] = "required"
      BY <1>11, AnswerTakes DEF TaskWorld, Moved, AnswerWorld, Settles, Silences
    <2>3. QED
      BY <2>1, <2>2, AllSteady
  <1>12. ASSUME NEW n \in Inputs, CancelAgain(n) PROVE \A k \in Inputs : OnceOf(k)'
    <2>1. PendKeeps
      <3>1. thread' = thread
        BY <1>12, CancelTakes
      <3>2. QED
        BY <3>1, PendSame
    <2>2. /\ sent' = sent /\ consumed' = consumed /\ agent'.asked = agent.asked
          /\ \A u \in Tasks : /\ Same(u) /\ (Settles(pc[u]) => Settles(pc'[u]))
                              /\ answer'[u] = "required" => answer[u] = "required"
      BY <1>12, CancelTakes DEF TaskWorld, Moved, AgentKeeps, Settles, Silences
    <2>3. QED
      BY <2>1, <2>2, AllSteady
  <1>13. ASSUME NEW t \in Tasks, Peek(t) PROVE \A k \in Inputs : OnceOf(k)'
    <2>1. PendKeeps
      <3>1. thread' = thread
        BY <1>13, PeekLooks DEF PeekWorld
      <3>2. QED
        BY <3>1, PendSame
    <2>2. /\ sent' = sent /\ consumed' = consumed /\ agent'.asked = agent.asked
          /\ \A u \in Tasks : /\ Same(u) /\ (Settles(pc[u]) => Settles(pc'[u]))
                              /\ answer'[u] = "required" => answer[u] = "required"
      BY <1>13, PeekLooks DEF PeekWorld, Settles, Silences
    <2>3. QED
      BY <2>1, <2>2, AllSteady
  <1>14. ASSUME NEW t \in Tasks, FallbackStart(t) PROVE \A k \in Inputs : OnceOf(k)'
    <2>0. PICK n : n = captured[t]
      OBVIOUS
    <2>10. PendKeeps
      BY <1>14, PendOf
    <2>1. FallbackWorld(t, n) /\ AfterFallback(n)
      BY <1>14, <2>0, FallbackSends, FallbackStartDoes
    <2>2. n \in Inputs /\ thread.pending.id = n /\ thread.pending.required /\ thread'.pending.id = 0
      BY <2>1 DEF AfterFallback, NoPending
    <2>3. consumed[n] = 0 /\ sent[n] = 0 /\ Settles(pc[<<"steer", n>>])
      BY <2>2, Zenon DEF OnceOf
    <2>4. \A m \in Inputs : <<"steer", m>> \in Tasks /\ <<"steer", m>> # <<"prompt", n>>
      BY <2>2, TaskFacts
    <2>5. /\ agent'.asked = agent.asked /\ consumed' = consumed
          /\ \A m \in Inputs : sent'[m] = IF m = n THEN sent[m] + 1 ELSE sent[m]
      BY <2>1 DEF FallbackWorld, Queued, SendsOnce
    <2>6. \A m \in Inputs : /\ answer'[<<"steer", m>>] = answer[<<"steer", m>>] /\ Same(<<"steer", m>>)
                            /\ Settles(pc[<<"steer", m>>]) => Settles(pc'[<<"steer", m>>])
      BY <2>1, <2>4 DEF FallbackWorld, Silences, Settles
    <2>7. OnceOf(n)'
      <3>1. answer[<<"steer", n>>] = "none" /\ ~Wired(<<"steer", n>>) /\ agent.asked[n] = "none"
        BY <2>2, <2>3, <2>4 DEF MailInv, Expects, Settles
      <3>6. Same(<<"steer", n>>) /\ answer'[<<"steer", n>>] = "none"
        BY <2>2, <2>6, <3>1, Zenon
      <3>2. ~OnWire(<<"steer", n>>, "required")'
        BY <2>2, <3>1, <3>6, OnWireWired, SameRequired
      <3>3. ~Unconsumed(n)'
        BY <3>2, <3>6 DEF Unconsumed
      <3>4. sent'[n] = 1 /\ consumed'[n] = 0 /\ agent'.asked[n] = "none" /\ thread'.pending.id # n
        BY <2>2, <2>3, <2>5, <3>1 DEF Inputs
      <3>5. QED
        BY <3>3, <3>4 DEF OnceOf
    <2>8. ASSUME NEW m \in Inputs, m # n PROVE OnceOf(m)'
      <3>3. /\ answer'[<<"steer", m>>] = answer[<<"steer", m>>] /\ Same(<<"steer", m>>)
            /\ Settles(pc[<<"steer", m>>]) => Settles(pc'[<<"steer", m>>])
        BY <2>6, Zenon
      <3>4. /\ answer'[<<"steer", m>>] = "required" => Unconsumed(m)
            /\ OnWire(<<"steer", m>>, "required")' => Unconsumed(m)
        BY <3>3, SameRequired DEF Unconsumed
      <3>5. sent'[m] = sent[m] /\ consumed'[m] = consumed[m] /\ agent'.asked[m] = agent.asked[m]
        BY <2>5, <2>8
      <3>1. Steady(m)
        BY <2>10, <3>3, <3>4, <3>5, SteadyIs
      <3>2. QED
        BY <3>1, OnceKept
    <2>9. QED
      BY <2>2, <2>7, <2>8
  <1>15. ASSUME NEW t \in Tasks, FallbackRefused(t) PROVE \A k \in Inputs : OnceOf(k)'
    <2>1. PendKeeps
      BY <1>15, PendOf
    <2>2. /\ sent' = sent /\ consumed' = consumed /\ agent'.asked = agent.asked
          /\ \A u \in Tasks : /\ Same(u) /\ (Settles(pc[u]) => Settles(pc'[u]))
                              /\ answer'[u] = "required" => answer[u] = "required"
      BY <1>15, RefusedTakes DEF RefusedWorld, TaskWorld, Moved, Settles, Silences
    <2>3. QED
      BY <2>1, <2>2, AllSteady
  <1>16. ASSUME StopSent PROVE \A k \in Inputs : OnceOf(k)'
    <2>1. PendKeeps
      BY <1>16, PendOf
    <2>2. /\ sent' = sent /\ consumed' = consumed /\ agent'.asked = agent.asked
          /\ \A u \in Tasks : /\ Same(u) /\ (Settles(pc[u]) => Settles(pc'[u]))
                              /\ answer'[u] = "required" => answer[u] = "required"
      BY <1>16, BystandersKeep DEF OthersKeep, AgentKeeps, Silences
    <2>3. QED
      BY <2>1, <2>2, AllSteady
  <1>17. ASSUME Closed PROVE \A k \in Inputs : OnceOf(k)'
    <2>1. PendKeeps
      BY <1>17, PendOf
    <2>2. /\ sent' = sent /\ consumed' = consumed /\ agent'.asked = agent.asked
          /\ \A u \in Tasks : /\ Same(u) /\ (Settles(pc[u]) => Settles(pc'[u]))
                              /\ answer'[u] = "required" => answer[u] = "required"
      BY <1>17, BystandersKeep DEF OthersKeep, AgentKeeps, Silences
    <2>3. QED
      BY <2>1, <2>2, AllSteady
  <1>18. ASSUME CloseFails PROVE \A k \in Inputs : OnceOf(k)'
    <2>1. PendKeeps
      BY <1>18, PendOf
    <2>2. /\ sent' = sent /\ consumed' = consumed /\ agent'.asked = agent.asked
          /\ \A u \in Tasks : /\ Same(u) /\ (Settles(pc[u]) => Settles(pc'[u]))
                              /\ answer'[u] = "required" => answer[u] = "required"
      BY <1>18, BystandersKeep DEF OthersKeep, AgentKeeps, Silences
    <2>3. QED
      BY <2>1, <2>2, AllSteady
  <1>19. ASSUME Receive PROVE \A k \in Inputs : OnceOf(k)'
    <2>1. ReadWorld /\ PendKeeps
      BY <1>19, ReadTakes, PendOf
    <2>2. sent' = sent /\ consumed' = consumed /\ pc' = pc /\ agent' = agent
      BY <2>1 DEF ReadWorld
    <2>3. "required" \in AllEnds
      BY DEF AllEnds, SteerEnds
    <2>4. \A u \in Tasks : /\ OnWire(u, "required")' => OnWire(u, "required")
                           /\ \/ answer'[u] = answer[u]
                              \/ OnWire(u, answer'[u])
      BY <2>1, <2>3 DEF ReadWorld, ReadFor
    <2>5. ASSUME NEW n \in Inputs PROVE Steady(n)
      <3>1. <<"steer", n>> \in Tasks
        BY TaskFacts
      <3>2. /\ answer'[<<"steer", n>>] = "required" => Unconsumed(n)
            /\ OnWire(<<"steer", n>>, "required")' => Unconsumed(n)
        BY <2>4, <3>1, Zenon DEF Unconsumed
      <3>3. QED
        BY <2>1, <2>2, <3>2, SteadyIs
    <2>6. QED
      BY <2>5, OnceKept
  <1>20. ASSUME StopConnection PROVE \A k \in Inputs : OnceOf(k)'
    <2>1. PendKeeps
      BY <1>20, PendOf
    <2>2. /\ sent' = sent /\ consumed' = consumed /\ agent'.asked = agent.asked
          /\ \A u \in Tasks : /\ Same(u) /\ (Settles(pc[u]) => Settles(pc'[u]))
                              /\ answer'[u] = "required" => answer[u] = "required"
      BY <1>20, BystandersKeep DEF OthersKeep, AgentKeeps, Silences
    <2>3. QED
      BY <2>1, <2>2, AllSteady
  <1>21. ASSUME ConnectionLost PROVE \A k \in Inputs : OnceOf(k)'
    <2>1. PendKeeps
      BY <1>21, PendOf
    <2>2. /\ sent' = sent /\ consumed' = consumed /\ agent'.asked = agent.asked
          /\ \A u \in Tasks : /\ Same(u) /\ (Settles(pc[u]) => Settles(pc'[u]))
                              /\ answer'[u] = "required" => answer[u] = "required"
      BY <1>21, BystandersKeep DEF OthersKeep, AgentKeeps, Silences
    <2>3. QED
      BY <2>1, <2>2, AllSteady
  <1>22. ASSUME AgentBegins PROVE \A k \in Inputs : OnceOf(k)'
    <2>1. PendKeeps
      <3>1. thread' = thread
        BY <1>22, BeginsMoves DEF BeginsWorld, AgentAlone
      <3>2. QED
        BY <3>1, PendSame
    <2>2. /\ sent' = sent /\ consumed' = consumed /\ agent'.asked = agent.asked
          /\ \A u \in Tasks : /\ Same(u) /\ (Settles(pc[u]) => Settles(pc'[u]))
                              /\ answer'[u] = "required" => answer[u] = "required"
      BY <1>22, BeginsMoves DEF BeginsWorld, AfterBegins, AgentAlone, Silences
    <2>3. QED
      BY <2>1, <2>2, AllSteady
  <1>23. ASSUME AgentEnds PROVE \A k \in Inputs : OnceOf(k)'
    <2>1. EndsWorld
      BY <1>23, EndsMoves
    <2>2. /\ sent' = sent /\ consumed' = consumed /\ pc' = pc /\ agent'.asked = agent.asked
          /\ thread' = thread /\ answer' = answer
      BY <2>1 DEF EndsWorld, AgentAlone, AfterEnds
    <2>3. \A m \in Inputs : Same(<<"steer", m>>)
      <3>1. PICK n \in Inputs : n = agent.running
        BY <2>1 DEF EndsWorld
      <3>2. \A m \in Inputs : <<"steer", m>> \in Tasks /\ <<"steer", m>> # <<"prompt", n>>
        BY TaskFacts
      <3>3. QED
        BY <2>1, <3>1, <3>2 DEF EndsWorld, Tells, Silences
    <2>4. PendKeeps
      BY <2>2, PendSame
    <2>5. \A m \in Inputs : Steady(m)
      BY <2>2, <2>3, <2>4, SteadyIs, SameRequired DEF Unconsumed
    <2>6. QED
      BY <2>5, OnceKept
  <1>24. ASSUME AgentAnnounces PROVE \A k \in Inputs : OnceOf(k)'
    <2>1. PendKeeps
      <3>1. thread' = thread
        BY <1>24, AnnouncesMoves DEF AnnouncesWorld, AgentAlone
      <3>2. QED
        BY <3>1, PendSame
    <2>2. /\ sent' = sent /\ consumed' = consumed /\ agent'.asked = agent.asked
          /\ \A u \in Tasks : /\ Same(u) /\ (Settles(pc[u]) => Settles(pc'[u]))
                              /\ answer'[u] = "required" => answer[u] = "required"
      BY <1>24, AnnouncesMoves DEF AnnouncesWorld, AfterAnnounces, AgentAlone, Silences
    <2>3. QED
      BY <2>1, <2>2, AllSteady
  <1>25. ASSUME NEW n \in Inputs, AgentConsumes(n) PROVE \A k \in Inputs : OnceOf(k)'
    <2>1. ConsumesWorld(n)
      BY <1>25, ConsumesMoves
    <2>2. /\ sent' = sent /\ pc' = pc /\ thread' = thread /\ answer' = answer
          /\ \A u \in Tasks : Same(u)
      BY <2>1 DEF ConsumesWorld, AgentAlone, Silences
    <2>3. \A m \in Inputs : consumed'[m] = IF m = n THEN consumed[m] + 1 ELSE consumed[m]
      BY <2>1 DEF ConsumesWorld
    <2>4. /\ agent.asked[n] = "new" /\ agent'.asked[n] \in {"injected", "started"}
          /\ \A m \in Inputs : m # n => agent'.asked[m] = agent.asked[m]
      <3>1. agent.asked \in [Inputs -> {"none", "new", "injected", "started"}]
        BY DEF Typed, WorldOK, AgentState
      <3>2. QED
        BY <2>1, <3>1 DEF ConsumesWorld, AfterConsumes, Consults
    <2>5. PendKeeps
      BY <2>2, PendSame
    <2>6. ASSUME NEW m \in Inputs, m # n PROVE OnceOf(m)'
      <3>1. <<"steer", m>> \in Tasks
        BY TaskFacts
      <3>2. Steady(m)
        BY <2>2, <2>3, <2>4, <2>5, <2>6, <3>1, SteadyIs, SameRequired DEF Unconsumed
      <3>3. QED
        BY <3>2, OnceKept
    <2>7. OnceOf(n)'
      <3>1. <<"steer", n>> \in Tasks
        BY TaskFacts
      <3>2. Expects(<<"steer", n>>)
        BY <2>4 DEF MailInv
      <3>3. consumed[n] = 0 /\ sent[n] = 0
        BY <2>4 DEF OnceOf
      <3>4. ~Unconsumed(n)'
        BY <2>2, <3>1, <3>2, OnWireWired, SameRequired DEF Unconsumed, Expects
      <3>5. ~(thread.pending.id = n /\ thread.pending.required)
        BY <3>2 DEF OnceOf, Expects, Settles
      <3>6. consumed'[n] = 1 /\ sent'[n] = 0
        BY <2>2, <2>3, <3>3
      <3>7. QED
        BY <2>2, <2>4, <3>4, <3>5, <3>6 DEF OnceOf
    <2>8. QED
      BY <2>6, <2>7
  <1>26. ASSUME NEW n \in Inputs, AgentAnswers(n) PROVE \A k \in Inputs : OnceOf(k)'
    <2>1. PICK how \in SteerEnds : AnswersWorld(n, how)
      BY <1>26, AnswersMoves
    <2>2. /\ sent' = sent /\ pc' = pc /\ thread' = thread /\ answer' = answer
          /\ consumed' = consumed
      BY <2>1 DEF AnswersWorld, AgentAlone
    <2>3. /\ agent'.asked[n] = "none"
          /\ \A m \in Inputs : m # n => agent'.asked[m] = agent.asked[m]
      <3>1. agent.asked \in [Inputs -> {"none", "new", "injected", "started"}]
        BY DEF Typed, WorldOK, AgentState
      <3>2. QED
        BY <2>1, <3>1 DEF AnswersWorld, Consults
    <2>4. Tells(<<"steer", n>>, how) /\ (how = "required" => agent.asked[n] = "new")
      BY <2>1 DEF AnswersWorld, Replies
    <2>5. PendKeeps
      BY <2>2, PendSame
    <2>6. ASSUME NEW m \in Inputs, m # n PROVE OnceOf(m)'
      <3>1. <<"steer", m>> \in Tasks /\ <<"steer", m>> # <<"steer", n>>
        BY <2>6, TaskFacts
      <3>2. Same(<<"steer", m>>)
        BY <2>4, <3>1 DEF Tells
      <3>3. Steady(m)
        BY <2>2, <2>3, <2>5, <2>6, <3>2, SteadyIs, SameRequired DEF Unconsumed
      <3>4. QED
        BY <3>3, OnceKept
    <2>7. OnceOf(n)'
      <3>1. "required" \in AllEnds
        BY DEF AllEnds, SteerEnds
      <3>2. OnWire(<<"steer", n>>, "required")' => Unconsumed(n) \/ agent.asked[n] = "new"
        BY <2>4, <3>1 DEF Tells, Unconsumed
      <3>3. Unconsumed(n)' => Unconsumed(n) \/ agent.asked[n] = "new"
        BY <2>2, <3>2 DEF Unconsumed
      <3>4. QED
        BY <2>2, <2>3, <3>3 DEF OnceOf
    <2>8. QED
      BY <2>6, <2>7
  <1>27. ASSUME UNCHANGED <<thread, pc, answer, agent, wire, sent, consumed>> PROVE \A n
           \in Inputs : OnceOf(n)'
    <2>1. \A u \in Tasks : Same(u)
      BY <1>27, UnwrittenWire DEF Silences
    <2>2. PendKeeps
      BY <1>27, PendSame
    <2>3. QED
      BY <1>27, <2>1, <2>2, AllSteady
  <1> QED
    BY <1>1, <1>2, <1>3, <1>4, <1>5, <1>6, <1>7, <1>8, <1>9, <1>10, <1>11, <1>12, <1>13,
       <1>14, <1>15, <1>16, <1>17, <1>18, <1>19, <1>20, <1>21, <1>22, <1>23, <1>24, <1>25,
       <1>26, <1>27
       DEF Next, User, Settling, Task, AgentNext, vars, taskVars, logVars

\* A task has an input in hand exactly while it is about to send it.
LEMMA CapturesStep ==
  Typed /\ FreshInv /\ MailInv /\ OnceInv /\ LeavesInv /\ TurnInv /\ StatusInv
    /\ [Next]_vars
    => Captures'
  <1> SUFFICES ASSUME Typed, FreshInv, MailInv, OnceInv, LeavesInv, TurnInv, StatusInv,
                      [Next]_vars
               PROVE  Captures'
    OBVIOUS
  <1> Captures
    BY OnceSplit
  <1>1. ASSUME Prompt PROVE Captures'
    <2>1. PICK n \in Inputs : n = inputs + 1 /\ PromptWorld
      BY <1>1, PromptSends DEF PromptWorld
    <2>2. n > inputs /\ <<"prompt", n>> \in Tasks
      <3>1. inputs \in Nat
        BY TypeSplit DEF PlacesOK
      <3>2. n > inputs
        BY <2>1, <3>1
      <3>3. QED
        BY <3>2, TaskFacts
    <2>3. pc[<<"prompt", n>>] = "none"
      BY <2>2 DEF FreshInv
    <2>4. /\ captured' = captured /\ pc'[<<"prompt", n>>] = "waiting"
          /\ \A u \in Tasks : u # <<"prompt", n>> => pc'[u] = pc[u]
      BY <2>1, <2>2 DEF PromptWorld, Asks
    <2>5. QED
      BY <2>2, <2>3, <2>4 DEF Captures
  <1>2. ASSUME Steer PROVE Captures'
    <2>1. PICK n \in Inputs : n = inputs + 1 /\ SteerWorld
      BY <1>2, SteerSends DEF SteerWorld
    <2>2. n > inputs /\ <<"steer", n>> \in Tasks
      <3>1. inputs \in Nat
        BY TypeSplit DEF PlacesOK
      <3>2. n > inputs
        BY <2>1, <3>1
      <3>3. QED
        BY <3>2, TaskFacts
    <2>3. pc[<<"steer", n>>] = "none"
      BY <2>2 DEF FreshInv
    <2>4. /\ captured' = captured /\ pc'[<<"steer", n>>] = "waiting"
          /\ \A u \in Tasks : u # <<"steer", n>> => pc'[u] = pc[u]
      BY <2>1, <2>2 DEF SteerWorld, Asks
    <2>5. QED
      BY <2>2, <2>3, <2>4 DEF Captures
  <1>3. ASSUME NEW n \in Inputs, PromptResult(n) PROVE Captures'
    <2>1. /\ <<"prompt", n>> \in Tasks /\ pc'[<<"prompt", n>>] # "start" /\ captured'[<<"prompt", n>>] = 0
          /\ \A u \in Tasks : u # <<"prompt", n>> => pc'[u] = pc[u] /\ captured'[u] = captured[u]
      BY <1>3, ResultTakes DEF ResultWorld, TaskWorld, Moved
    <2>2. QED
      BY <2>1 DEF Captures
  <1>4. ASSUME NEW n \in Inputs, PromptResultLate(n) PROVE Captures'
    <2>1. /\ <<"prompt", n>> \in Tasks /\ pc'[<<"prompt", n>>] # "start" /\ captured'[<<"prompt", n>>] = 0
          /\ \A u \in Tasks : u # <<"prompt", n>> => pc'[u] = pc[u] /\ captured'[u] = captured[u]
      BY <1>4, ResultTakes DEF ResultWorld, TaskWorld, Moved
    <2>2. QED
      BY <2>1 DEF Captures
  <1>5. ASSUME NEW n \in Inputs, SteerAnswer(n) PROVE Captures'
    <2>1. /\ <<"steer", n>> \in Tasks /\ pc'[<<"steer", n>>] # "start" /\ captured'[<<"steer", n>>] = 0
          /\ \A u \in Tasks : u # <<"steer", n>> => pc'[u] = pc[u] /\ captured'[u] = captured[u]
      BY <1>5, AnswerTakes DEF AnswerWorld, TaskWorld, Moved
    <2>2. QED
      BY <2>1 DEF Captures
  <1>6. ASSUME NEW n \in Inputs, SteerAnswerLate(n) PROVE Captures'
    <2>1. /\ <<"steer", n>> \in Tasks /\ pc'[<<"steer", n>>] # "start" /\ captured'[<<"steer", n>>] = 0
          /\ \A u \in Tasks : u # <<"steer", n>> => pc'[u] = pc[u] /\ captured'[u] = captured[u]
      BY <1>6, AnswerTakes DEF AnswerWorld, TaskWorld, Moved
    <2>2. QED
      BY <2>1 DEF Captures
  <1>7. ASSUME NEW n \in Inputs, CancelAgain(n) PROVE Captures'
    <2>1. /\ <<"steer", n>> \in Tasks /\ pc'[<<"steer", n>>] # "start" /\ captured'[<<"steer", n>>] = 0
          /\ \A u \in Tasks : u # <<"steer", n>> => pc'[u] = pc[u] /\ captured'[u] = captured[u]
      BY <1>7, CancelTakes DEF TaskWorld, Moved
    <2>2. QED
      BY <2>1 DEF Captures
  <1>8. ASSUME NEW t \in Tasks, Peek(t) PROVE Captures'
    <2>1. /\ \A u \in Tasks : u # t => pc'[u] = pc[u] /\ captured'[u] = captured[u]
          /\ pc'[t] = "start" <=> captured'[t] # 0
      BY <1>8, PeekLooks DEF PeekWorld, FallbackDue, HasPending
    <2>2. QED
      BY <2>1 DEF Captures
  <1>9. ASSUME NEW t \in Tasks, FallbackStart(t) PROVE Captures'
    <2>0. PICK n : n = captured[t]
      OBVIOUS
    <2>1. FallbackWorld(t, n) /\ AfterFallback(n)
      BY <1>9, <2>0, FallbackSends, FallbackStartDoes
    <2>2. n \in Inputs /\ thread.pending.id = n /\ <<"prompt", n>> \in Tasks
      BY <2>1 DEF AfterFallback, FallbackWorld
    <2>3. sent[n] = 0
      BY <2>2, OnceSplit, Zenon DEF OnceOf
    <2>4. pc[<<"prompt", n>>] = "none"
      BY <2>2, <2>3 DEF MailInv
    <2>5. /\ captured'[t] = 0 /\ pc[t] = "start" /\ pc'[<<"prompt", n>>] = "waiting" /\ pc'[t] # "start"
          /\ \A u \in Tasks : u # <<"prompt", n>> /\ u # t => pc'[u] = pc[u]
          /\ \A u \in Tasks : u # t => captured'[u] = captured[u]
      BY <2>1, <2>2 DEF FallbackWorld
    <2>6. QED
      BY <2>2, <2>4, <2>5 DEF Captures
  <1>10. ASSUME NEW t \in Tasks, FallbackRefused(t) PROVE Captures'
    <2>1. /\ t \in Tasks /\ pc'[t] # "start" /\ captured'[t] = 0
          /\ \A u \in Tasks : u # t => pc'[u] = pc[u] /\ captured'[u] = captured[u]
      BY <1>10, RefusedTakes DEF RefusedWorld, TaskWorld, Moved
    <2>2. QED
      BY <2>1 DEF Captures
  <1>11. ASSUME UNCHANGED <<pc, captured>> PROVE Captures'
    BY <1>11 DEF Captures
  <1> QED
    BY <1>1, <1>2, <1>3, <1>4, <1>5, <1>6, <1>7, <1>8, <1>9, <1>10, <1>11
       DEF Next, User, Settling, Task, AgentNext, PromptUnsaved, Stop, Close, Reopen, Break,
           StopSent, Closed, CloseFails, Receive, StopConnection, ConnectionLost,
           AgentBegins, AgentEnds, AgentAnnounces, AgentConsumes, AgentAnswers, SendCancel,
           AgentStep, AgentFrame, vars, taskVars, logVars

\* No step sends an input a second time.
LEMMA OnceStep ==
  Typed /\ FreshInv /\ MailInv /\ OnceInv /\ LeavesInv /\ TurnInv /\ StatusInv /\ [Next]_vars => OnceInv'
  <1>1. (\A k \in Inputs : OnceOf(k)') /\ Captures' => OnceInv'
    BY DEF OnceInv, NeverResent, OnceOf, Captures, Unconsumed, Settles
  <1>2. QED
    BY <1>1, OnceOfStep, CapturesStep

-----------------------------------------------------------------------------
(* The two kinds of agents *)

\* How the request of steering input n is answered, on the wire or at its task.
Says(n, how) == answer[<<"steer", n>>] = how \/ OnWire(<<"steer", n>>, how)

LeavesOwn == agent.leaves => ~thread.detached
LeavesBack == ~agent.leaves => ~thread.pending.required
LeavesStart == ~agent.leaves => \A t \in Tasks : pc[t] # "start"
LeavesSaid ==
    /\ agent.leaves => \A n \in Inputs : agent.asked[n] # "started" /\ ~Says(n, "started")
    /\ ~agent.leaves => \A n \in Inputs : ~Says(n, "required")
LeavesRuns ==
    /\ agent.leaves => (agent.running # 0 => sent[agent.running] > 0)
    /\ \A n \in Inputs : agent.running = n /\ sent[n] = 0 =>
         /\ agent.asked[n] \in {"none", "started"} /\ consumed[n] = 1
         /\ \A how \in SteerEnds \ {"started"} : ~Says(n, how)

\* The parts of LeavesInv.
LEMMA LeavesSplit ==
  ASSUME Typed
  PROVE  LeavesInv <=> LeavesOwn /\ LeavesBack /\ LeavesStart /\ LeavesSaid /\ LeavesRuns
  <1>1. \A n \in Inputs : answer[<<"steer", n>>] \in SteerEnds \cup {"none", "lost"}
    <2>1. \A n \in Inputs : <<"steer", n>> \in Tasks /\ Ends(<<"steer", n>>) = SteerEnds
      BY TaskFacts DEF Ends
    <2>2. QED
      BY <2>1 DEF Typed, WorldOK
  <1>2. \A n \in Inputs : answer[<<"steer", n>>] \in {"none", "lost", "started"}
          <=> \A how \in SteerEnds \ {"started"} : answer[<<"steer", n>>] # how
    BY <1>1 DEF SteerEnds
  <1>3. LeavesRuns <=>
          /\ agent.leaves => (agent.running # 0 => sent[agent.running] > 0)
          /\ \A n \in Inputs : agent.running = n /\ sent[n] = 0 =>
               /\ agent.asked[n] \in {"none", "started"} /\ consumed[n] = 1
               /\ answer[<<"steer", n>>] \in {"none", "lost", "started"}
               /\ \A how \in SteerEnds \ {"started"} : ~OnWire(<<"steer", n>>, how)
    BY <1>2, Zenon DEF LeavesRuns, Says
  <1>4. QED
    BY <1>3, Zenon DEF LeavesInv, LeavesOwn, LeavesBack, LeavesStart, LeavesSaid, Says

\* The request of n gets no answer it has not, and the agent takes no input.
Quiets(n) ==
    /\ agent'.asked[n] \in {agent.asked[n], "none", "new"}
    /\ \A how \in SteerEnds : Says(n, how)' => Says(n, how)

\* An input whose task, answer and wire stay says nothing new.
LEMMA QuietsIs ==
  ASSUME NEW n \in Inputs, agent'.asked[n] \in {agent.asked[n], "none", "new"},
         answer'[<<"steer", n>>] \in {answer[<<"steer", n>>], "none", "lost"}
           \/ OnWire(<<"steer", n>>, answer'[<<"steer", n>>]),
         \A how \in SteerEnds : OnWire(<<"steer", n>>, how)' => OnWire(<<"steer", n>>, how)
  PROVE  Quiets(n)
  <1>1. "none" \notin SteerEnds /\ "lost" \notin SteerEnds
    BY DEF SteerEnds
  <1>2. QED
    BY <1>1 DEF Quiets, Says

\* What the wire says of a task stays.
LEMMA SameEnds ==
  ASSUME NEW t \in Tasks, Same(t)
  PROVE  \A how \in SteerEnds : OnWire(t, how)' => OnWire(t, how)
  BY DEF Same, AllEnds

\* Only the agent takes steering input and answers its request.
LEMMA QuietsStep ==
  Typed /\ TurnInv /\ StatusInv /\ LeavesInv /\ [Next]_vars
    => \A k \in Inputs : Quiets(k) \/ AgentConsumes(k) \/ AgentAnswers(k)
  <1> SUFFICES ASSUME Typed, TurnInv, StatusInv, LeavesInv, [Next]_vars
               PROVE  \A k \in Inputs : Quiets(k) \/ AgentConsumes(k) \/ AgentAnswers(k)
    OBVIOUS
  <1>1. ASSUME Prompt PROVE \A k \in Inputs : Quiets(k) \/ AgentConsumes(k) \/ AgentAnswers(k)
    <2>1. /\ agent'.asked = agent.asked
          /\ \A u \in Tasks : Same(u) /\ answer'[u] \in {answer[u], "none", "lost"}
      BY <1>1, PromptSends DEF PromptWorld, Asks, Queued, Silences
    <2>2. \A k \in Inputs : <<"steer", k>> \in Tasks
      BY TaskFacts
    <2>3. QED
      BY <2>1, <2>2, QuietsIs, SameEnds
  <1>2. ASSUME PromptUnsaved
        PROVE  \A k \in Inputs : Quiets(k) \/ AgentConsumes(k) \/ AgentAnswers(k)
    <2>1. /\ agent'.asked = agent.asked
          /\ \A u \in Tasks : Same(u) /\ answer'[u] \in {answer[u], "none", "lost"}
      BY <1>2, BystandersKeep DEF OthersKeep, AgentKeeps, Silences
    <2>2. \A k \in Inputs : <<"steer", k>> \in Tasks
      BY TaskFacts
    <2>3. QED
      BY <2>1, <2>2, QuietsIs, SameEnds
  <1>3. ASSUME Steer PROVE \A k \in Inputs : Quiets(k) \/ AgentConsumes(k) \/ AgentAnswers(k)
    <2>1. SteerWorld
      BY <1>3, SteerSends
    <2>2. /\ \A n \in Inputs : agent'.asked[n] \in {agent.asked[n], "new"}
          /\ \A u \in Tasks : Same(u) /\ answer'[u] \in {answer[u], "none", "lost"}
      <3>1. agent.asked \in [Inputs -> {"none", "new", "injected", "started"}]
        BY DEF Typed, WorldOK, AgentState
      <3>2. QED
        BY <2>1, <3>1 DEF SteerWorld, Consults, Asks, Silences
    <2>3. \A n \in Inputs : <<"steer", n>> \in Tasks
      BY TaskFacts
    <2>4. QED
      BY <2>2, <2>3, QuietsIs, SameEnds
  <1>4. ASSUME Stop PROVE \A k \in Inputs : Quiets(k) \/ AgentConsumes(k) \/ AgentAnswers(k)
    <2>1. /\ agent'.asked = agent.asked
          /\ \A u \in Tasks : Same(u) /\ answer'[u] \in {answer[u], "none", "lost"}
      BY <1>4, BystandersKeep DEF OthersKeep, AgentKeeps, Silences
    <2>2. \A k \in Inputs : <<"steer", k>> \in Tasks
      BY TaskFacts
    <2>3. QED
      BY <2>1, <2>2, QuietsIs, SameEnds
  <1>5. ASSUME Close PROVE \A k \in Inputs : Quiets(k) \/ AgentConsumes(k) \/ AgentAnswers(k)
    <2>1. /\ agent'.asked = agent.asked
          /\ \A u \in Tasks : Same(u) /\ answer'[u] \in {answer[u], "none", "lost"}
      BY <1>5, BystandersKeep DEF OthersKeep, AgentKeeps, Silences
    <2>2. \A k \in Inputs : <<"steer", k>> \in Tasks
      BY TaskFacts
    <2>3. QED
      BY <2>1, <2>2, QuietsIs, SameEnds
  <1>6. ASSUME Reopen PROVE \A k \in Inputs : Quiets(k) \/ AgentConsumes(k) \/ AgentAnswers(k)
    <2>1. /\ agent'.asked = agent.asked
          /\ \A u \in Tasks : Same(u) /\ answer'[u] \in {answer[u], "none", "lost"}
      BY <1>6, BystandersKeep DEF OthersKeep, AgentKeeps, Silences
    <2>2. \A k \in Inputs : <<"steer", k>> \in Tasks
      BY TaskFacts
    <2>3. QED
      BY <2>1, <2>2, QuietsIs, SameEnds
  <1>7. ASSUME Break PROVE \A k \in Inputs : Quiets(k) \/ AgentConsumes(k) \/ AgentAnswers(k)
    <2>1. /\ \A n \in Inputs : agent'.asked[n] = "none"
          /\ \A u \in Tasks : answer'[u] \in {answer[u], "none", "lost"}
          /\ \A u \in Tasks : \A how : ~OnWire(u, how)'
      BY <1>7, BreakDoes DEF BreakWorld
    <2>2. \A k \in Inputs : <<"steer", k>> \in Tasks
      BY TaskFacts
    <2>3. QED
      BY <2>1, <2>2, QuietsIs
  <1>8. ASSUME NEW n \in Inputs, PromptResult(n)
        PROVE  \A k \in Inputs : Quiets(k) \/ AgentConsumes(k) \/ AgentAnswers(k)
    <2>1. /\ agent'.asked = agent.asked
          /\ \A u \in Tasks : Same(u) /\ answer'[u] \in {answer[u], "none", "lost"}
      BY <1>8, ResultTakes DEF ResultWorld, TaskWorld, Moved, Silences
    <2>2. \A k \in Inputs : <<"steer", k>> \in Tasks
      BY TaskFacts
    <2>3. QED
      BY <2>1, <2>2, QuietsIs, SameEnds
  <1>9. ASSUME NEW n \in Inputs, PromptResultLate(n)
        PROVE  \A k \in Inputs : Quiets(k) \/ AgentConsumes(k) \/ AgentAnswers(k)
    <2>1. /\ agent'.asked = agent.asked
          /\ \A u \in Tasks : Same(u) /\ answer'[u] \in {answer[u], "none", "lost"}
      BY <1>9, ResultTakes DEF ResultWorld, TaskWorld, Moved, Silences
    <2>2. \A k \in Inputs : <<"steer", k>> \in Tasks
      BY TaskFacts
    <2>3. QED
      BY <2>1, <2>2, QuietsIs, SameEnds
  <1>10. ASSUME NEW n \in Inputs, SteerAnswer(n)
         PROVE  \A k \in Inputs : Quiets(k) \/ AgentConsumes(k) \/ AgentAnswers(k)
    <2>1. /\ agent'.asked = agent.asked
          /\ \A u \in Tasks : Same(u) /\ answer'[u] \in {answer[u], "none", "lost"}
      BY <1>10, AnswerTakes DEF AnswerWorld, TaskWorld, Moved, Silences
    <2>2. \A k \in Inputs : <<"steer", k>> \in Tasks
      BY TaskFacts
    <2>3. QED
      BY <2>1, <2>2, QuietsIs, SameEnds
  <1>11. ASSUME NEW n \in Inputs, SteerAnswerLate(n)
         PROVE  \A k \in Inputs : Quiets(k) \/ AgentConsumes(k) \/ AgentAnswers(k)
    <2>1. /\ agent'.asked = agent.asked
          /\ \A u \in Tasks : Same(u) /\ answer'[u] \in {answer[u], "none", "lost"}
      BY <1>11, AnswerTakes DEF AnswerWorld, TaskWorld, Moved, Silences
    <2>2. \A k \in Inputs : <<"steer", k>> \in Tasks
      BY TaskFacts
    <2>3. QED
      BY <2>1, <2>2, QuietsIs, SameEnds
  <1>12. ASSUME NEW n \in Inputs, CancelAgain(n)
         PROVE  \A k \in Inputs : Quiets(k) \/ AgentConsumes(k) \/ AgentAnswers(k)
    <2>1. /\ agent'.asked = agent.asked
          /\ \A u \in Tasks : Same(u) /\ answer'[u] \in {answer[u], "none", "lost"}
      BY <1>12, CancelTakes DEF AgentKeeps, TaskWorld, Moved, Silences
    <2>2. \A k \in Inputs : <<"steer", k>> \in Tasks
      BY TaskFacts
    <2>3. QED
      BY <2>1, <2>2, QuietsIs, SameEnds
  <1>13. ASSUME NEW t \in Tasks, FallbackStart(t)
         PROVE  \A k \in Inputs : Quiets(k) \/ AgentConsumes(k) \/ AgentAnswers(k)
    <2>1. /\ agent'.asked = agent.asked
          /\ \A u \in Tasks : Same(u) /\ answer'[u] \in {answer[u], "none", "lost"}
      BY <1>13, FallbackSends DEF FallbackWorld, Queued, Silences
    <2>2. \A k \in Inputs : <<"steer", k>> \in Tasks
      BY TaskFacts
    <2>3. QED
      BY <2>1, <2>2, QuietsIs, SameEnds
  <1>14. ASSUME NEW t \in Tasks, FallbackRefused(t)
         PROVE  \A k \in Inputs : Quiets(k) \/ AgentConsumes(k) \/ AgentAnswers(k)
    <2>1. /\ agent'.asked = agent.asked
          /\ \A u \in Tasks : Same(u) /\ answer'[u] \in {answer[u], "none", "lost"}
      BY <1>14, RefusedTakes DEF RefusedWorld, TaskWorld, Moved, Silences
    <2>2. \A k \in Inputs : <<"steer", k>> \in Tasks
      BY TaskFacts
    <2>3. QED
      BY <2>1, <2>2, QuietsIs, SameEnds
  <1>15. ASSUME StopSent PROVE \A k \in Inputs : Quiets(k) \/ AgentConsumes(k) \/ AgentAnswers(k)
    <2>1. /\ agent'.asked = agent.asked
          /\ \A u \in Tasks : Same(u) /\ answer'[u] \in {answer[u], "none", "lost"}
      BY <1>15, BystandersKeep DEF OthersKeep, AgentKeeps, Silences
    <2>2. \A k \in Inputs : <<"steer", k>> \in Tasks
      BY TaskFacts
    <2>3. QED
      BY <2>1, <2>2, QuietsIs, SameEnds
  <1>16. ASSUME Closed PROVE \A k \in Inputs : Quiets(k) \/ AgentConsumes(k) \/ AgentAnswers(k)
    <2>1. /\ agent'.asked = agent.asked
          /\ \A u \in Tasks : Same(u) /\ answer'[u] \in {answer[u], "none", "lost"}
      BY <1>16, BystandersKeep DEF OthersKeep, AgentKeeps, Silences
    <2>2. \A k \in Inputs : <<"steer", k>> \in Tasks
      BY TaskFacts
    <2>3. QED
      BY <2>1, <2>2, QuietsIs, SameEnds
  <1>17. ASSUME CloseFails PROVE \A k \in Inputs : Quiets(k) \/ AgentConsumes(k) \/ AgentAnswers(k)
    <2>1. /\ agent'.asked = agent.asked
          /\ \A u \in Tasks : Same(u) /\ answer'[u] \in {answer[u], "none", "lost"}
      BY <1>17, BystandersKeep DEF OthersKeep, AgentKeeps, Silences
    <2>2. \A k \in Inputs : <<"steer", k>> \in Tasks
      BY TaskFacts
    <2>3. QED
      BY <2>1, <2>2, QuietsIs, SameEnds
  <1>18. ASSUME Receive PROVE \A k \in Inputs : Quiets(k) \/ AgentConsumes(k) \/ AgentAnswers(k)
    <2>1. ReadWorld
      BY <1>18, ReadTakes
    <2>2. /\ agent' = agent
          /\ \A u \in Tasks : answer'[u] = answer[u] \/ OnWire(u, answer'[u])
      BY <2>1 DEF ReadWorld
    <2>3. \A u \in Tasks : \A how \in SteerEnds : OnWire(u, how)' => OnWire(u, how)
      BY <2>1 DEF ReadWorld, ReadFor, AllEnds
    <2>4. \A n \in Inputs : <<"steer", n>> \in Tasks
      BY TaskFacts
    <2>5. QED
      BY <2>2, <2>3, <2>4, QuietsIs
  <1>19. ASSUME StopConnection
         PROVE  \A k \in Inputs : Quiets(k) \/ AgentConsumes(k) \/ AgentAnswers(k)
    <2>1. /\ agent'.asked = agent.asked
          /\ \A u \in Tasks : Same(u) /\ answer'[u] \in {answer[u], "none", "lost"}
      BY <1>19, BystandersKeep DEF OthersKeep, AgentKeeps, Silences
    <2>2. \A k \in Inputs : <<"steer", k>> \in Tasks
      BY TaskFacts
    <2>3. QED
      BY <2>1, <2>2, QuietsIs, SameEnds
  <1>20. ASSUME ConnectionLost
         PROVE  \A k \in Inputs : Quiets(k) \/ AgentConsumes(k) \/ AgentAnswers(k)
    <2>1. /\ agent'.asked = agent.asked
          /\ \A u \in Tasks : Same(u) /\ answer'[u] \in {answer[u], "none", "lost"}
      BY <1>20, BystandersKeep DEF OthersKeep, AgentKeeps, Silences
    <2>2. \A k \in Inputs : <<"steer", k>> \in Tasks
      BY TaskFacts
    <2>3. QED
      BY <2>1, <2>2, QuietsIs, SameEnds
  <1>21. ASSUME AgentBegins PROVE \A k \in Inputs : Quiets(k) \/ AgentConsumes(k) \/ AgentAnswers(k)
    <2>1. /\ agent'.asked = agent.asked
          /\ \A u \in Tasks : Same(u) /\ answer'[u] \in {answer[u], "none", "lost"}
      BY <1>21, BeginsMoves DEF BeginsWorld, AfterBegins, AgentAlone, Silences
    <2>2. \A k \in Inputs : <<"steer", k>> \in Tasks
      BY TaskFacts
    <2>3. QED
      BY <2>1, <2>2, QuietsIs, SameEnds
  <1>22. ASSUME AgentEnds PROVE \A k \in Inputs : Quiets(k) \/ AgentConsumes(k) \/ AgentAnswers(k)
    <2>1. EndsWorld
      BY <1>22, EndsMoves
    <2>2. agent'.asked = agent.asked /\ answer' = answer
      BY <2>1 DEF EndsWorld, AgentAlone, AfterEnds
    <2>3. \A m \in Inputs : <<"steer", m>> \in Tasks /\ Same(<<"steer", m>>)
      <3>1. PICK n \in Inputs : n = agent.running
        BY <2>1 DEF EndsWorld
      <3>2. \A m \in Inputs : <<"steer", m>> \in Tasks /\ <<"steer", m>> # <<"prompt", n>>
        BY TaskFacts
      <3>3. QED
        BY <2>1, <3>1, <3>2 DEF EndsWorld, Tells, Silences
    <2>4. QED
      BY <2>2, <2>3, QuietsIs, SameEnds
  <1>23. ASSUME AgentAnnounces
         PROVE  \A k \in Inputs : Quiets(k) \/ AgentConsumes(k) \/ AgentAnswers(k)
    <2>1. /\ agent'.asked = agent.asked
          /\ \A u \in Tasks : Same(u) /\ answer'[u] \in {answer[u], "none", "lost"}
      BY <1>23, AnnouncesMoves DEF AnnouncesWorld, AfterAnnounces, AgentAlone, Silences
    <2>2. \A k \in Inputs : <<"steer", k>> \in Tasks
      BY TaskFacts
    <2>3. QED
      BY <2>1, <2>2, QuietsIs, SameEnds
  <1>24. ASSUME NEW n \in Inputs, AgentConsumes(n)
         PROVE  \A k \in Inputs : Quiets(k) \/ AgentConsumes(k) \/ AgentAnswers(k)
    <2>1. /\ \A m \in Inputs : m # n => agent'.asked[m] = agent.asked[m]
          /\ answer' = answer
          /\ \A u \in Tasks : u # <<"steer", n>> => Same(u)
      <3>1. agent.asked \in [Inputs -> {"none", "new", "injected", "started"}]
        BY DEF Typed, WorldOK, AgentState
      <3>2. \E kind : agent'.asked = [agent.asked EXCEPT ![n] = kind]
        BY <1>24, ConsumesMoves, Zenon DEF ConsumesWorld, AfterConsumes, Consults, AgentAlone,
           Silences
      <3>3. answer' = answer /\ \A u \in Tasks : u # <<"steer", n>> => Same(u)
        BY <1>24, ConsumesMoves DEF ConsumesWorld, AfterConsumes, Consults, AgentAlone, Silences
      <3>4. QED
        BY <3>1, <3>2, <3>3
    <2>2. \A m \in Inputs : <<"steer", m>> \in Tasks /\ (m # n => <<"steer", m>> # <<"steer", n>>)
      BY TaskFacts
    <2>3. \A m \in Inputs : m # n => Quiets(m)
      BY <2>1, <2>2, QuietsIs, SameEnds
    <2>4. QED
      BY <1>24, <2>3
  <1>25. ASSUME NEW n \in Inputs, AgentAnswers(n)
         PROVE  \A k \in Inputs : Quiets(k) \/ AgentConsumes(k) \/ AgentAnswers(k)
    <2>1. /\ \A m \in Inputs : m # n => agent'.asked[m] = agent.asked[m]
          /\ answer' = answer
          /\ \A u \in Tasks : u # <<"steer", n>> => Same(u)
      <3>1. agent.asked \in [Inputs -> {"none", "new", "injected", "started"}]
        BY DEF Typed, WorldOK, AgentState
      <3>2. \E kind : agent'.asked = [agent.asked EXCEPT ![n] = kind]
        BY <1>25, AnswersMoves, Zenon DEF AnswersWorld, Replies, Consults, AgentAlone, Tells
      <3>3. answer' = answer /\ \A u \in Tasks : u # <<"steer", n>> => Same(u)
        BY <1>25, AnswersMoves DEF AnswersWorld, Replies, Consults, AgentAlone, Tells
      <3>4. QED
        BY <3>1, <3>2, <3>3
    <2>2. \A m \in Inputs : <<"steer", m>> \in Tasks /\ (m # n => <<"steer", m>> # <<"steer", n>>)
      BY TaskFacts
    <2>3. \A m \in Inputs : m # n => Quiets(m)
      BY <2>1, <2>2, QuietsIs, SameEnds
    <2>4. QED
      BY <1>25, <2>3
  <1>26. ASSUME UNCHANGED <<answer, agent, wire>> PROVE \A n \in Inputs : Quiets(n) \/
           AgentConsumes(n) \/ AgentAnswers(n)
    <2>1. \A u \in Tasks : Same(u)
      BY <1>26, UnwrittenWire DEF Silences
    <2>2. \A k \in Inputs : <<"steer", k>> \in Tasks
      BY TaskFacts
    <2>3. QED
      BY <1>26, <2>1, <2>2, QuietsIs, SameEnds
  <1> QED
    BY <1>1, <1>2, <1>3, <1>4, <1>5, <1>6, <1>7, <1>8, <1>9, <1>10, <1>11, <1>12, <1>13,
       <1>14, <1>15, <1>16, <1>17, <1>18, <1>19, <1>20, <1>21, <1>22, <1>23, <1>24, <1>25,
       <1>26
       DEF Next, User, Settling, Task, AgentNext, Peek, vars, taskVars, logVars

\* An agent that leaves input alone has no turns of its own.
LEMMA LeavesOwnStep ==
  Typed /\ FreshInv /\ MailInv /\ OnceInv /\ LeavesInv /\ TurnInv /\ StatusInv
    /\ [Next]_vars
    => LeavesOwn'
  <1> SUFFICES ASSUME Typed, FreshInv, MailInv, OnceInv, LeavesInv, TurnInv, StatusInv,
                      [Next]_vars
               PROVE  LeavesOwn'
    OBVIOUS
  <1> agent'.leaves = agent.leaves
    BY NatureFixed
  <1> LeavesOwn /\ LeavesBack /\ LeavesStart /\ LeavesSaid /\ LeavesRuns
    BY LeavesSplit
  <1>1. ASSUME Prompt PROVE LeavesOwn'
    BY <1>1, PromptDoes
       DEF AfterPrompt, Begins, LeavesOwn
  <1>2. ASSUME PromptUnsaved PROVE LeavesOwn'
    BY <1>2, PromptUnsavedDoes
       DEF Unmoved, Quiet, LeavesOwn
  <1>3. ASSUME Steer PROVE LeavesOwn'
    BY <1>3, SteerDoes
       DEF AfterSteer, Quiet, LeavesOwn
  <1>4. ASSUME Stop PROVE LeavesOwn'
    BY <1>4, StopDoes
       DEF AfterStop, GivenUp, NoPending, Quiet, LeavesOwn
  <1>5. ASSUME Reopen PROVE LeavesOwn'
    BY <1>5, ReopenDoes
       DEF Anew, NoPending, LeavesOwn
  <1>6. ASSUME NEW n \in Inputs, PromptResult(n) PROVE LeavesOwn'
    BY <1>6, PromptResultDoes
       DEF AfterResult, Quiet, LeavesOwn
  <1>7. ASSUME NEW n \in Inputs, SteerAnswer(n) PROVE LeavesOwn'
    <2>1. ASSUME agent.leaves PROVE thread'.detached = thread.detached
      <3>1. answer[<<"steer", n>>] # "started"
        BY <2>1 DEF LeavesSaid, Says
      <3>2. QED
        BY <1>7, <3>1, SteerAnswerDoes DEF AfterAnswer, Quiet
    <2>2. QED
      BY <2>1 DEF LeavesOwn
  <1>8. ASSUME NEW t \in Tasks, FallbackStart(t) PROVE LeavesOwn'
    BY <1>8, FallbackStartDoes
       DEF AfterFallback, NoPending, Quiet, LeavesOwn
  <1>9. ASSUME NEW t \in Tasks, FallbackRefused(t) PROVE LeavesOwn'
    BY <1>9, FallbackRefusedDoes
       DEF AfterRefusal, GivenUp, NoPending, Quiet, LeavesOwn
  <1>10. ASSUME Closed PROVE LeavesOwn'
    BY <1>10, ClosedDoes
       DEF AfterSilence, NoPending, LeavesOwn
  <1>11. ASSUME Receive PROVE LeavesOwn'
    <2>1. thread'.detached => thread.detached
      BY <1>11, ReadDoes DEF AfterRead, AfterReport
    <2>2. QED
      BY <2>1 DEF LeavesOwn
  <1>12. ASSUME ConnectionLost PROVE LeavesOwn'
    BY <1>12, ConnectionLostDoes
       DEF AfterSilence, NoPending, LeavesOwn
  <1>13. ASSUME UNCHANGED thread PROVE LeavesOwn'
    BY <1>13
       DEF LeavesOwn
  <1> QED
    BY <1>1, <1>2, <1>3, <1>4, <1>5, <1>6, <1>7, <1>8, <1>9, <1>10, <1>11, <1>12, <1>13
       DEF Next, User, Settling, Task, AgentNext, Close, Break, PromptResultLate,
           SteerAnswerLate, CancelAgain, Peek, StopSent, CloseFails, StopConnection,
           AgentBegins, AgentEnds, AgentAnnounces, AgentConsumes, AgentAnswers, SendCancel,
           Goto, AgentStep, AgentFrame, vars, taskVars, logVars

\* Only such an agent hands input back.
LEMMA LeavesBackStep ==
  Typed /\ LeavesInv /\ TurnInv /\ StatusInv /\ [Next]_vars => LeavesBack'
  <1> SUFFICES ASSUME Typed, LeavesInv, TurnInv, StatusInv, [Next]_vars PROVE LeavesBack'
    OBVIOUS
  <1>0. agent'.leaves = agent.leaves
    BY NatureFixed
  <1>1. LeavesBack /\ LeavesSaid
    BY LeavesSplit
  <1>2. CASE PendKeeps
    BY <1>0, <1>1, <1>2 DEF PendKeeps, LeavesBack
  <1>3. CASE Steer
    BY <1>3, SteerDoes DEF AfterSteer, LeavesBack
  <1>4. CASE \E n \in Inputs : SteerAnswer(n)
    <2>1. PICK n \in Inputs : SteerAnswer(n)
      BY <1>4
    <2>2. ~agent.leaves => answer[<<"steer", n>>] # "required"
      BY <1>1 DEF LeavesSaid, Says
    <2>3. ~agent.leaves => thread'.pending.id = 0
      BY <2>1, <2>2, PendAnswered
    <2>4. thread'.pending.required => thread'.pending.id # 0
      BY StatusStep DEF StatusInv, HasPending
    <2>5. QED
      BY <1>0, <2>3, <2>4 DEF LeavesBack
  <1>5. QED
    BY <1>2, <1>3, <1>4, PendingMoves

\* So that a fallback is about input of such an agent.
LEMMA LeavesStartStep ==
  Typed /\ FreshInv /\ MailInv /\ OnceInv /\ LeavesInv /\ TurnInv /\ StatusInv
    /\ [Next]_vars
    => LeavesStart'
  <1> SUFFICES ASSUME Typed, FreshInv, MailInv, OnceInv, LeavesInv, TurnInv, StatusInv,
                      [Next]_vars
               PROVE  LeavesStart'
    OBVIOUS
  <1> agent'.leaves = agent.leaves
    BY NatureFixed
  <1> LeavesOwn /\ LeavesBack /\ LeavesStart /\ LeavesSaid /\ LeavesRuns
    BY LeavesSplit
  <1>1. ASSUME Prompt PROVE LeavesStart'
    <2>1. \A u \in Tasks : pc'[u] = "start" => pc[u] = "start"
      BY <1>1, PromptSends DEF PromptWorld, Asks
    <2>2. QED
      BY <2>1 DEF LeavesStart
  <1>2. ASSUME Steer PROVE LeavesStart'
    <2>1. \A u \in Tasks : pc'[u] = "start" => pc[u] = "start"
      BY <1>2, SteerSends DEF SteerWorld, Asks
    <2>2. QED
      BY <2>1 DEF LeavesStart
  <1>3. ASSUME NEW n \in Inputs, PromptResult(n) PROVE LeavesStart'
    <2>1. \A u \in Tasks : pc'[u] = "start" => pc[u] = "start"
      BY <1>3, ResultTakes DEF TaskWorld, Moved
    <2>2. QED
      BY <2>1 DEF LeavesStart
  <1>4. ASSUME NEW n \in Inputs, PromptResultLate(n) PROVE LeavesStart'
    <2>1. \A u \in Tasks : pc'[u] = "start" => pc[u] = "start"
      BY <1>4, ResultTakes DEF TaskWorld, Moved
    <2>2. QED
      BY <2>1 DEF LeavesStart
  <1>5. ASSUME NEW n \in Inputs, SteerAnswer(n) PROVE LeavesStart'
    <2>1. \A u \in Tasks : pc'[u] = "start" => pc[u] = "start"
      BY <1>5, AnswerTakes DEF TaskWorld, Moved
    <2>2. QED
      BY <2>1 DEF LeavesStart
  <1>6. ASSUME NEW n \in Inputs, SteerAnswerLate(n) PROVE LeavesStart'
    <2>1. \A u \in Tasks : pc'[u] = "start" => pc[u] = "start"
      BY <1>6, AnswerTakes DEF TaskWorld, Moved
    <2>2. QED
      BY <2>1 DEF LeavesStart
  <1>7. ASSUME NEW n \in Inputs, CancelAgain(n) PROVE LeavesStart'
    <2>1. \A u \in Tasks : pc'[u] = "start" => pc[u] = "start"
      BY <1>7, CancelTakes DEF TaskWorld, Moved
    <2>2. QED
      BY <2>1 DEF LeavesStart
  <1>8. ASSUME NEW t \in Tasks, Peek(t) PROVE LeavesStart'
    <2>1. \A u \in Tasks : pc'[u] = "start" => pc[u] = "start" \/ thread.pending.required
      BY <1>8, PeekLooks DEF PeekWorld, FallbackDue
    <2>2. QED
      BY <2>1 DEF LeavesStart, LeavesBack
  <1>9. ASSUME NEW t \in Tasks, FallbackStart(t) PROVE LeavesStart'
    <2>1. \A u \in Tasks : pc'[u] = "start" => pc[u] = "start"
      BY <1>9, FallbackSends DEF FallbackWorld
    <2>2. QED
      BY <2>1 DEF LeavesStart
  <1>10. ASSUME NEW t \in Tasks, FallbackRefused(t) PROVE LeavesStart'
    <2>1. \A u \in Tasks : pc'[u] = "start" => pc[u] = "start"
      BY <1>10, RefusedTakes DEF RefusedWorld, TaskWorld, Moved
    <2>2. QED
      BY <2>1 DEF LeavesStart
  <1>11. ASSUME UNCHANGED pc PROVE LeavesStart'
    BY <1>11
       DEF LeavesStart
  <1> QED
    BY <1>1, <1>2, <1>3, <1>4, <1>5, <1>6, <1>7, <1>8, <1>9, <1>10, <1>11
       DEF Next, User, Settling, Task, AgentNext, PromptUnsaved, Stop, Close, Reopen, Break,
           StopSent, Closed, CloseFails, Receive, StopConnection, ConnectionLost,
           AgentBegins, AgentEnds, AgentAnnounces, AgentConsumes, AgentAnswers, SendCancel,
           AgentStep, AgentFrame, vars, taskVars, logVars

\* What the agent says goes with its nature.
LEMMA LeavesSaidStep ==
  Typed /\ MailInv /\ LeavesInv /\ TurnInv /\ StatusInv /\ [Next]_vars => LeavesSaid'
  <1> SUFFICES ASSUME Typed, MailInv, LeavesInv, TurnInv, StatusInv, [Next]_vars
               PROVE  LeavesSaid'
    OBVIOUS
  <1>1. agent'.leaves = agent.leaves
    BY NatureFixed
  <1>2. LeavesSaid
    BY LeavesSplit
  <1>0. "started" \in SteerEnds /\ "required" \in SteerEnds
    BY DEF SteerEnds
  <1>3. ASSUME NEW n \in Inputs
        PROVE  /\ agent.leaves => agent'.asked[n] # "started" /\ ~Says(n, "started")'
               /\ ~agent.leaves => ~Says(n, "required")'
    <2>1. CASE Quiets(n)
      BY <1>0, <1>2, <2>1 DEF Quiets, LeavesSaid
    <2>2. CASE AgentConsumes(n)
      <3>1. ConsumesWorld(n)
        BY <2>2, ConsumesMoves
      <3>2. agent.leaves => agent'.asked[n] # "started"
        <4>1. agent.asked \in [Inputs -> {"none", "new", "injected", "started"}]
          BY DEF Typed, WorldOK, AgentState
        <4>2. /\ agent.leaves => agent'.asked = [agent.asked EXCEPT ![n] = "injected"]
          BY <3>1, Zenon DEF ConsumesWorld, AfterConsumes, Consults
        <4>3. QED
          BY <4>1, <4>2
      <3>3. <<"steer", n>> \in Tasks
        BY TaskFacts
      <3>4. \A how \in SteerEnds : OnWire(<<"steer", n>>, how)' => OnWire(<<"steer", n>>, how)
        BY <3>1, <3>3, SameEnds DEF ConsumesWorld, Silences
      <3>5. answer' = answer
        BY <3>1 DEF ConsumesWorld, AgentAlone
      <3>6. QED
        BY <1>0, <1>2, <3>2, <3>4, <3>5 DEF LeavesSaid, Says
    <2>3. CASE AgentAnswers(n)
      <3>1. PICK how \in SteerEnds : AnswersWorld(n, how)
        BY <2>3, AnswersMoves
      <3>2. agent'.asked[n] = "none"
        <4>1. agent.asked \in [Inputs -> {"none", "new", "injected", "started"}]
          BY DEF Typed, WorldOK, AgentState
        <4>2. QED
          BY <3>1, <4>1 DEF AnswersWorld, Consults
      <3>3. /\ answer' = answer
            /\ how = "started" => agent.asked[n] = "started"
            /\ how = "required" => agent.leaves
        BY <3>1 DEF AnswersWorld, Replies, AgentAlone
      <3>4. \A h \in SteerEnds : OnWire(<<"steer", n>>, h)' => OnWire(<<"steer", n>>, h) \/ h = how
        BY <3>1 DEF AnswersWorld, Replies, Tells, AllEnds
      <3>5. QED
        BY <1>0, <1>2, <3>2, <3>3, <3>4 DEF LeavesSaid, Says
    <2>4. QED
      BY <2>1, <2>2, <2>3, QuietsStep
  <1>4. QED
    BY <1>1, <1>3 DEF LeavesSaid

\* Nothing changes for the turn that runs.
LEMMA RunsKept ==
  ASSUME Typed, LeavesRuns, agent'.leaves = agent.leaves, agent'.running = agent.running,
         \A n \in Inputs : sent'[n] \in Nat /\ sent'[n] >= sent[n] /\ consumed'[n] = consumed[n],
         \A n \in Inputs : agent'.asked[n] \in {agent.asked[n], "none"},
         \A n \in Inputs : Quiets(n)
  PROVE  LeavesRuns'
  <1>1. sent \in [Inputs -> Nat] /\ agent.running \in 0..MaxInputs
    BY DEF Typed, WorldOK, AgentState
  <1>2. agent.running # 0 => agent.running \in Inputs
    BY <1>1 DEF Inputs
  <1>3. \A n \in Inputs : sent'[n] = 0 => sent[n] = 0
    BY <1>1
  <1>4. agent.leaves => (agent.running # 0 => sent'[agent.running] > 0)
    <2>1. ASSUME agent.leaves, agent.running # 0 PROVE sent'[agent.running] > 0
      <3>1. PICK r \in Inputs : r = agent.running
        BY <1>2, <2>1
      <3>2. sent[r] > 0
        BY <2>1, <3>1 DEF LeavesRuns
      <3>3. sent'[r] >= sent[r] /\ sent[r] \in Nat
        BY <1>1, <3>1
      <3>4. sent'[r] > 0
        BY <3>2, <3>3
      <3>5. QED
        BY <3>1, <3>4
    <2>2. QED
      BY <2>1
  <1>5. ASSUME NEW n \in Inputs, agent.running = n, sent'[n] = 0
        PROVE  /\ agent'.asked[n] \in {"none", "started"} /\ consumed'[n] = 1
               /\ \A how \in SteerEnds \ {"started"} : ~Says(n, how)'
    BY <1>3, <1>5 DEF LeavesRuns, Quiets
  <1>6. QED
    BY <1>4, <1>5 DEF LeavesRuns

\* A turn that no prompt began is that of the input the agent took for it.
LEMMA LeavesRunsStep ==
  Typed /\ FreshInv /\ MailInv /\ OnceInv /\ LeavesInv /\ TurnInv /\ StatusInv
    /\ [Next]_vars
    => LeavesRuns'
  <1> SUFFICES ASSUME Typed, FreshInv, MailInv, OnceInv, LeavesInv, TurnInv, StatusInv,
                      [Next]_vars
               PROVE  LeavesRuns'
    OBVIOUS
  <1> LeavesRuns
    BY LeavesSplit
  <1>98. agent'.leaves = agent.leaves
    BY NatureFixed
  <1>99. \A k \in Inputs : Quiets(k) \/ AgentConsumes(k) \/ AgentAnswers(k)
    BY QuietsStep
  <1>1. ASSUME Prompt PROVE LeavesRuns'
    <2>1. /\ agent'.running = agent.running /\ agent'.asked = agent.asked /\ consumed' = consumed
          /\ SendsOnce(inputs + 1) /\ \A u \in Tasks : Same(u) /\ answer'[u] \in {answer[u], "none", "lost"}
      BY <1>1, PromptSends DEF PromptWorld, Asks, Queued, Silences
    <2>2. \A k \in Inputs : <<"steer", k>> \in Tasks
      BY TaskFacts
    <2>3. \A k \in Inputs : Quiets(k)
      BY <2>1, <2>2, QuietsIs, SameEnds
    <2>4. \A k \in Inputs : sent'[k] \in Nat /\ sent'[k] >= sent[k]
      <3>1. sent \in [Inputs -> Nat]
        BY DEF Typed, WorldOK
      <3>2. QED
        BY <2>1, <3>1 DEF SendsOnce
    <2>5. QED
      BY <1>98, <2>1, <2>3, <2>4, RunsKept
  <1>2. ASSUME PromptUnsaved PROVE LeavesRuns'
    <2>1. /\ agent'.running = agent.running /\ agent'.asked = agent.asked /\ consumed' = consumed
          /\ sent' = sent /\ \A u \in Tasks : Same(u) /\ answer'[u] \in {answer[u], "none", "lost"}
      BY <1>2, BystandersKeep DEF OthersKeep, AgentKeeps, Silences
    <2>2. \A k \in Inputs : <<"steer", k>> \in Tasks
      BY TaskFacts
    <2>3. \A k \in Inputs : Quiets(k)
      BY <2>1, <2>2, QuietsIs, SameEnds
    <2>4. \A k \in Inputs : sent'[k] \in Nat /\ sent'[k] >= sent[k]
      <3>1. sent \in [Inputs -> Nat]
        BY DEF Typed, WorldOK
      <3>2. QED
        BY <2>1, <3>1 DEF SendsOnce
    <2>5. QED
      BY <1>98, <2>1, <2>3, <2>4, RunsKept
  <1>3. ASSUME Steer PROVE LeavesRuns'
    <2>1. PICK n \in Inputs : n = inputs + 1 /\ SteerWorld
      BY <1>3, SteerSends DEF SteerWorld
    <2>2. n > inputs
      <3>1. inputs \in Nat
        BY TypeSplit DEF PlacesOK
      <3>2. QED
        BY <2>1, <3>1
    <2>31. sent[n] = 0 /\ consumed[n] = 0
      BY <2>2 DEF FreshInv
    <2>3. sent[n] = 0 /\ consumed[n] # 1
      BY <2>31
    <2>4. /\ agent'.running = agent.running /\ sent' = sent /\ consumed' = consumed
          /\ \A m \in Inputs : m # n => agent'.asked[m] = agent.asked[m]
      <3>1. agent.asked \in [Inputs -> {"none", "new", "injected", "started"}]
        BY DEF Typed, WorldOK, AgentState
      <3>2. QED
        BY <2>1, <3>1 DEF SteerWorld, Consults
    <2>5. agent.running # n
      BY <2>3 DEF LeavesRuns
    <2>6. \A m \in Inputs : Quiets(m)
      <3>1. \A m \in Inputs : agent'.asked[m] \in {agent.asked[m], "new"}
        <4>1. agent.asked \in [Inputs -> {"none", "new", "injected", "started"}]
          BY DEF Typed, WorldOK, AgentState
        <4>2. QED
          BY <2>1, <4>1 DEF SteerWorld, Consults
      <3>2. \A u \in Tasks : Same(u) /\ answer'[u] \in {answer[u], "none", "lost"}
        BY <2>1 DEF SteerWorld, Asks, Silences
      <3>3. \A m \in Inputs : <<"steer", m>> \in Tasks
        BY TaskFacts
      <3>4. QED
        BY <3>1, <3>2, <3>3, QuietsIs, SameEnds
    <2>7. ASSUME NEW m \in Inputs, agent.running = m, sent'[m] = 0
          PROVE  /\ agent'.asked[m] \in {"none", "started"} /\ consumed'[m] = 1
                 /\ \A how \in SteerEnds \ {"started"} : ~Says(m, how)'
      <3>1. m # n /\ sent[m] = 0 /\ agent'.asked[m] = agent.asked[m] /\ consumed'[m] = consumed[m]
        BY <2>4, <2>5, <2>7
      <3>2. /\ agent.asked[m] \in {"none", "started"} /\ consumed[m] = 1
            /\ \A how \in SteerEnds \ {"started"} : ~Says(m, how)
        BY <2>7, <3>1, Zenon DEF LeavesRuns
      <3>3. QED
        BY <2>6, <3>1, <3>2 DEF Quiets
    <2>8. QED
      BY <1>98, <2>4, <2>7 DEF LeavesRuns
  <1>4. ASSUME Stop PROVE LeavesRuns'
    <2>1. /\ agent'.running = agent.running /\ agent'.asked = agent.asked /\ consumed' = consumed
          /\ sent' = sent /\ \A u \in Tasks : Same(u) /\ answer'[u] \in {answer[u], "none", "lost"}
      BY <1>4, BystandersKeep DEF OthersKeep, AgentKeeps, Silences
    <2>2. \A k \in Inputs : <<"steer", k>> \in Tasks
      BY TaskFacts
    <2>3. \A k \in Inputs : Quiets(k)
      BY <2>1, <2>2, QuietsIs, SameEnds
    <2>4. \A k \in Inputs : sent'[k] \in Nat /\ sent'[k] >= sent[k]
      <3>1. sent \in [Inputs -> Nat]
        BY DEF Typed, WorldOK
      <3>2. QED
        BY <2>1, <3>1 DEF SendsOnce
    <2>5. QED
      BY <1>98, <2>1, <2>3, <2>4, RunsKept
  <1>5. ASSUME Close PROVE LeavesRuns'
    <2>1. /\ agent'.running = agent.running /\ agent'.asked = agent.asked /\ consumed' = consumed
          /\ sent' = sent /\ \A u \in Tasks : Same(u) /\ answer'[u] \in {answer[u], "none", "lost"}
      BY <1>5, BystandersKeep DEF OthersKeep, AgentKeeps, Silences
    <2>2. \A k \in Inputs : <<"steer", k>> \in Tasks
      BY TaskFacts
    <2>3. \A k \in Inputs : Quiets(k)
      BY <2>1, <2>2, QuietsIs, SameEnds
    <2>4. \A k \in Inputs : sent'[k] \in Nat /\ sent'[k] >= sent[k]
      <3>1. sent \in [Inputs -> Nat]
        BY DEF Typed, WorldOK
      <3>2. QED
        BY <2>1, <3>1 DEF SendsOnce
    <2>5. QED
      BY <1>98, <2>1, <2>3, <2>4, RunsKept
  <1>6. ASSUME Reopen PROVE LeavesRuns'
    <2>1. /\ agent'.running = agent.running /\ agent'.asked = agent.asked /\ consumed' = consumed
          /\ sent' = sent /\ \A u \in Tasks : Same(u) /\ answer'[u] \in {answer[u], "none", "lost"}
      BY <1>6, BystandersKeep DEF OthersKeep, AgentKeeps, Silences
    <2>2. \A k \in Inputs : <<"steer", k>> \in Tasks
      BY TaskFacts
    <2>3. \A k \in Inputs : Quiets(k)
      BY <2>1, <2>2, QuietsIs, SameEnds
    <2>4. \A k \in Inputs : sent'[k] \in Nat /\ sent'[k] >= sent[k]
      <3>1. sent \in [Inputs -> Nat]
        BY DEF Typed, WorldOK
      <3>2. QED
        BY <2>1, <3>1 DEF SendsOnce
    <2>5. QED
      BY <1>98, <2>1, <2>3, <2>4, RunsKept
  <1>7. ASSUME Break PROVE LeavesRuns'
    <2>1. agent'.running = 0
      BY <1>7, BreakDoes DEF BreakWorld
    <2>2. QED
      BY <2>1 DEF LeavesRuns, Inputs
  <1>8. ASSUME NEW n \in Inputs, PromptResult(n) PROVE LeavesRuns'
    <2>1. /\ agent'.running = agent.running /\ agent'.asked = agent.asked /\ consumed' = consumed
          /\ sent' = sent /\ \A u \in Tasks : Same(u) /\ answer'[u] \in {answer[u], "none", "lost"}
      BY <1>8, ResultTakes DEF ResultWorld, TaskWorld, Moved, Silences
    <2>2. \A k \in Inputs : <<"steer", k>> \in Tasks
      BY TaskFacts
    <2>3. \A k \in Inputs : Quiets(k)
      BY <2>1, <2>2, QuietsIs, SameEnds
    <2>4. \A k \in Inputs : sent'[k] \in Nat /\ sent'[k] >= sent[k]
      <3>1. sent \in [Inputs -> Nat]
        BY DEF Typed, WorldOK
      <3>2. QED
        BY <2>1, <3>1 DEF SendsOnce
    <2>5. QED
      BY <1>98, <2>1, <2>3, <2>4, RunsKept
  <1>9. ASSUME NEW n \in Inputs, PromptResultLate(n) PROVE LeavesRuns'
    <2>1. /\ agent'.running = agent.running /\ agent'.asked = agent.asked /\ consumed' = consumed
          /\ sent' = sent /\ \A u \in Tasks : Same(u) /\ answer'[u] \in {answer[u], "none", "lost"}
      BY <1>9, ResultTakes DEF ResultWorld, TaskWorld, Moved, Silences
    <2>2. \A k \in Inputs : <<"steer", k>> \in Tasks
      BY TaskFacts
    <2>3. \A k \in Inputs : Quiets(k)
      BY <2>1, <2>2, QuietsIs, SameEnds
    <2>4. \A k \in Inputs : sent'[k] \in Nat /\ sent'[k] >= sent[k]
      <3>1. sent \in [Inputs -> Nat]
        BY DEF Typed, WorldOK
      <3>2. QED
        BY <2>1, <3>1 DEF SendsOnce
    <2>5. QED
      BY <1>98, <2>1, <2>3, <2>4, RunsKept
  <1>10. ASSUME NEW n \in Inputs, SteerAnswer(n) PROVE LeavesRuns'
    <2>1. /\ agent'.running = agent.running /\ agent'.asked = agent.asked /\ consumed' = consumed
          /\ sent' = sent /\ \A u \in Tasks : Same(u) /\ answer'[u] \in {answer[u], "none", "lost"}
      BY <1>10, AnswerTakes DEF AnswerWorld, TaskWorld, Moved, Silences
    <2>2. \A k \in Inputs : <<"steer", k>> \in Tasks
      BY TaskFacts
    <2>3. \A k \in Inputs : Quiets(k)
      BY <2>1, <2>2, QuietsIs, SameEnds
    <2>4. \A k \in Inputs : sent'[k] \in Nat /\ sent'[k] >= sent[k]
      <3>1. sent \in [Inputs -> Nat]
        BY DEF Typed, WorldOK
      <3>2. QED
        BY <2>1, <3>1 DEF SendsOnce
    <2>5. QED
      BY <1>98, <2>1, <2>3, <2>4, RunsKept
  <1>11. ASSUME NEW n \in Inputs, SteerAnswerLate(n) PROVE LeavesRuns'
    <2>1. /\ agent'.running = agent.running /\ agent'.asked = agent.asked /\ consumed' = consumed
          /\ sent' = sent /\ \A u \in Tasks : Same(u) /\ answer'[u] \in {answer[u], "none", "lost"}
      BY <1>11, AnswerTakes DEF AnswerWorld, TaskWorld, Moved, Silences
    <2>2. \A k \in Inputs : <<"steer", k>> \in Tasks
      BY TaskFacts
    <2>3. \A k \in Inputs : Quiets(k)
      BY <2>1, <2>2, QuietsIs, SameEnds
    <2>4. \A k \in Inputs : sent'[k] \in Nat /\ sent'[k] >= sent[k]
      <3>1. sent \in [Inputs -> Nat]
        BY DEF Typed, WorldOK
      <3>2. QED
        BY <2>1, <3>1 DEF SendsOnce
    <2>5. QED
      BY <1>98, <2>1, <2>3, <2>4, RunsKept
  <1>12. ASSUME NEW n \in Inputs, CancelAgain(n) PROVE LeavesRuns'
    <2>1. /\ agent'.running = agent.running /\ agent'.asked = agent.asked /\ consumed' = consumed
          /\ sent' = sent /\ \A u \in Tasks : Same(u) /\ answer'[u] \in {answer[u], "none", "lost"}
      BY <1>12, CancelTakes DEF AgentKeeps, TaskWorld, Moved, Silences
    <2>2. \A k \in Inputs : <<"steer", k>> \in Tasks
      BY TaskFacts
    <2>3. \A k \in Inputs : Quiets(k)
      BY <2>1, <2>2, QuietsIs, SameEnds
    <2>4. \A k \in Inputs : sent'[k] \in Nat /\ sent'[k] >= sent[k]
      <3>1. sent \in [Inputs -> Nat]
        BY DEF Typed, WorldOK
      <3>2. QED
        BY <2>1, <3>1 DEF SendsOnce
    <2>5. QED
      BY <1>98, <2>1, <2>3, <2>4, RunsKept
  <1>13. ASSUME NEW t \in Tasks, FallbackStart(t) PROVE LeavesRuns'
    <2>1. /\ agent'.running = agent.running /\ agent'.asked = agent.asked /\ consumed' = consumed
          /\ SendsOnce(captured[t]) /\ \A u \in Tasks : Same(u) /\ answer'[u] \in {answer[u], "none", "lost"}
      BY <1>13, FallbackSends DEF FallbackWorld, Queued, Silences
    <2>2. \A k \in Inputs : <<"steer", k>> \in Tasks
      BY TaskFacts
    <2>3. \A k \in Inputs : Quiets(k)
      BY <2>1, <2>2, QuietsIs, SameEnds
    <2>4. \A k \in Inputs : sent'[k] \in Nat /\ sent'[k] >= sent[k]
      <3>1. sent \in [Inputs -> Nat]
        BY DEF Typed, WorldOK
      <3>2. QED
        BY <2>1, <3>1 DEF SendsOnce
    <2>5. QED
      BY <1>98, <2>1, <2>3, <2>4, RunsKept
  <1>14. ASSUME NEW t \in Tasks, FallbackRefused(t) PROVE LeavesRuns'
    <2>1. /\ agent'.running = agent.running /\ agent'.asked = agent.asked /\ consumed' = consumed
          /\ sent' = sent /\ \A u \in Tasks : Same(u) /\ answer'[u] \in {answer[u], "none", "lost"}
      BY <1>14, RefusedTakes DEF RefusedWorld, TaskWorld, Moved, Silences
    <2>2. \A k \in Inputs : <<"steer", k>> \in Tasks
      BY TaskFacts
    <2>3. \A k \in Inputs : Quiets(k)
      BY <2>1, <2>2, QuietsIs, SameEnds
    <2>4. \A k \in Inputs : sent'[k] \in Nat /\ sent'[k] >= sent[k]
      <3>1. sent \in [Inputs -> Nat]
        BY DEF Typed, WorldOK
      <3>2. QED
        BY <2>1, <3>1 DEF SendsOnce
    <2>5. QED
      BY <1>98, <2>1, <2>3, <2>4, RunsKept
  <1>15. ASSUME StopSent PROVE LeavesRuns'
    <2>1. /\ agent'.running = agent.running /\ agent'.asked = agent.asked /\ consumed' = consumed
          /\ sent' = sent /\ \A u \in Tasks : Same(u) /\ answer'[u] \in {answer[u], "none", "lost"}
      BY <1>15, BystandersKeep DEF OthersKeep, AgentKeeps, Silences
    <2>2. \A k \in Inputs : <<"steer", k>> \in Tasks
      BY TaskFacts
    <2>3. \A k \in Inputs : Quiets(k)
      BY <2>1, <2>2, QuietsIs, SameEnds
    <2>4. \A k \in Inputs : sent'[k] \in Nat /\ sent'[k] >= sent[k]
      <3>1. sent \in [Inputs -> Nat]
        BY DEF Typed, WorldOK
      <3>2. QED
        BY <2>1, <3>1 DEF SendsOnce
    <2>5. QED
      BY <1>98, <2>1, <2>3, <2>4, RunsKept
  <1>16. ASSUME Closed PROVE LeavesRuns'
    <2>1. /\ agent'.running = agent.running /\ agent'.asked = agent.asked /\ consumed' = consumed
          /\ sent' = sent /\ \A u \in Tasks : Same(u) /\ answer'[u] \in {answer[u], "none", "lost"}
      BY <1>16, BystandersKeep DEF OthersKeep, AgentKeeps, Silences
    <2>2. \A k \in Inputs : <<"steer", k>> \in Tasks
      BY TaskFacts
    <2>3. \A k \in Inputs : Quiets(k)
      BY <2>1, <2>2, QuietsIs, SameEnds
    <2>4. \A k \in Inputs : sent'[k] \in Nat /\ sent'[k] >= sent[k]
      <3>1. sent \in [Inputs -> Nat]
        BY DEF Typed, WorldOK
      <3>2. QED
        BY <2>1, <3>1 DEF SendsOnce
    <2>5. QED
      BY <1>98, <2>1, <2>3, <2>4, RunsKept
  <1>17. ASSUME CloseFails PROVE LeavesRuns'
    <2>1. /\ agent'.running = agent.running /\ agent'.asked = agent.asked /\ consumed' = consumed
          /\ sent' = sent /\ \A u \in Tasks : Same(u) /\ answer'[u] \in {answer[u], "none", "lost"}
      BY <1>17, BystandersKeep DEF OthersKeep, AgentKeeps, Silences
    <2>2. \A k \in Inputs : <<"steer", k>> \in Tasks
      BY TaskFacts
    <2>3. \A k \in Inputs : Quiets(k)
      BY <2>1, <2>2, QuietsIs, SameEnds
    <2>4. \A k \in Inputs : sent'[k] \in Nat /\ sent'[k] >= sent[k]
      <3>1. sent \in [Inputs -> Nat]
        BY DEF Typed, WorldOK
      <3>2. QED
        BY <2>1, <3>1 DEF SendsOnce
    <2>5. QED
      BY <1>98, <2>1, <2>3, <2>4, RunsKept
  <1>18. ASSUME Receive PROVE LeavesRuns'
    <2>1. agent' = agent /\ sent' = sent /\ consumed' = consumed
      BY <1>18, ReadTakes DEF ReadWorld
    <2>2. \A n \in Inputs : agent.asked[n] = agent'.asked[n] /\ sent'[n] \in Nat /\ sent'[n] >= sent[n]
      <3>1. sent \in [Inputs -> Nat]
        BY DEF Typed, WorldOK
      <3>2. QED
        BY <2>1, <3>1
    <2>3. \A k \in Inputs : Quiets(k)
      <3>1. ReadWorld
        BY <1>18, ReadTakes
      <3>2. \A u \in Tasks : answer'[u] = answer[u] \/ OnWire(u, answer'[u])
        BY <3>1 DEF ReadWorld
      <3>3. \A u \in Tasks : \A how \in SteerEnds : OnWire(u, how)' => OnWire(u, how)
        BY <3>1 DEF ReadWorld, ReadFor, AllEnds
      <3>4. \A n \in Inputs : <<"steer", n>> \in Tasks
        BY TaskFacts
      <3>5. QED
        BY <2>1, <3>2, <3>3, <3>4, QuietsIs
    <2>4. QED
      BY <1>98, <2>1, <2>2, <2>3, RunsKept
  <1>19. ASSUME StopConnection PROVE LeavesRuns'
    <2>1. /\ agent'.running = agent.running /\ agent'.asked = agent.asked /\ consumed' = consumed
          /\ sent' = sent /\ \A u \in Tasks : Same(u) /\ answer'[u] \in {answer[u], "none", "lost"}
      BY <1>19, BystandersKeep DEF OthersKeep, AgentKeeps, Silences
    <2>2. \A k \in Inputs : <<"steer", k>> \in Tasks
      BY TaskFacts
    <2>3. \A k \in Inputs : Quiets(k)
      BY <2>1, <2>2, QuietsIs, SameEnds
    <2>4. \A k \in Inputs : sent'[k] \in Nat /\ sent'[k] >= sent[k]
      <3>1. sent \in [Inputs -> Nat]
        BY DEF Typed, WorldOK
      <3>2. QED
        BY <2>1, <3>1 DEF SendsOnce
    <2>5. QED
      BY <1>98, <2>1, <2>3, <2>4, RunsKept
  <1>20. ASSUME ConnectionLost PROVE LeavesRuns'
    <2>1. /\ agent'.running = agent.running /\ agent'.asked = agent.asked /\ consumed' = consumed
          /\ sent' = sent /\ \A u \in Tasks : Same(u) /\ answer'[u] \in {answer[u], "none", "lost"}
      BY <1>20, BystandersKeep DEF OthersKeep, AgentKeeps, Silences
    <2>2. \A k \in Inputs : <<"steer", k>> \in Tasks
      BY TaskFacts
    <2>3. \A k \in Inputs : Quiets(k)
      BY <2>1, <2>2, QuietsIs, SameEnds
    <2>4. \A k \in Inputs : sent'[k] \in Nat /\ sent'[k] >= sent[k]
      <3>1. sent \in [Inputs -> Nat]
        BY DEF Typed, WorldOK
      <3>2. QED
        BY <2>1, <3>1 DEF SendsOnce
    <2>5. QED
      BY <1>98, <2>1, <2>3, <2>4, RunsKept
  <1>21. ASSUME AgentBegins PROVE LeavesRuns'
    <2>1. PICK n \in Inputs : n \in agent.queue /\ agent'.running = n /\ sent' = sent
      BY <1>21, BeginsMoves DEF BeginsWorld, AfterBegins, AgentAlone
    <2>2. sent[n] > 0
      <3>1. pc[<<"prompt", n>>] # "none"
        BY <2>1 DEF MailInv, AtAgent, Expects
      <3>2. QED
        BY <3>1 DEF MailInv
    <2>3. sent'[n] > 0 /\ sent'[n] # 0
      <3>1. sent[n] \in Nat
        BY DEF Typed, WorldOK
      <3>2. QED
        BY <2>1, <2>2, <3>1
    <2>4. QED
      BY <2>1, <2>3 DEF LeavesRuns
  <1>22. ASSUME AgentEnds PROVE LeavesRuns'
    <2>1. agent'.running = 0
      BY <1>22, EndsMoves DEF EndsWorld, AfterEnds
    <2>2. QED
      BY <2>1 DEF LeavesRuns, Inputs
  <1>23. ASSUME AgentAnnounces PROVE LeavesRuns'
    <2>1. /\ agent'.running = agent.running /\ agent'.asked = agent.asked /\ consumed' = consumed
          /\ sent' = sent /\ \A u \in Tasks : Same(u) /\ answer'[u] \in {answer[u], "none", "lost"}
      BY <1>23, AnnouncesMoves DEF AnnouncesWorld, AfterAnnounces, AgentAlone, Silences
    <2>2. \A k \in Inputs : <<"steer", k>> \in Tasks
      BY TaskFacts
    <2>3. \A k \in Inputs : Quiets(k)
      BY <2>1, <2>2, QuietsIs, SameEnds
    <2>4. \A k \in Inputs : sent'[k] \in Nat /\ sent'[k] >= sent[k]
      <3>1. sent \in [Inputs -> Nat]
        BY DEF Typed, WorldOK
      <3>2. QED
        BY <2>1, <3>1 DEF SendsOnce
    <2>5. QED
      BY <1>98, <2>1, <2>3, <2>4, RunsKept
  <1>24. ASSUME NEW n \in Inputs, AgentConsumes(n) PROVE LeavesRuns'
    <2>1. ConsumesWorld(n)
      BY <1>24, ConsumesMoves
    <2>2. /\ sent' = sent /\ answer' = answer /\ \A u \in Tasks : Same(u)
          /\ \A m \in Inputs : consumed'[m] = IF m = n THEN consumed[m] + 1 ELSE consumed[m]
          /\ agent.asked[n] = "new"
      BY <2>1 DEF ConsumesWorld, AgentAlone, Silences, AfterConsumes
    <2>3. /\ consumed[n] = 0 /\ sent[n] = 0
      BY <2>2, OnceSplit DEF OnceOf
    <2>4. \A m \in Inputs : \A how \in SteerEnds : Says(m, how)' => Says(m, how)
      <3>1. \A m \in Inputs : <<"steer", m>> \in Tasks
        BY TaskFacts
      <3>2. QED
        BY <2>2, <3>1, SameEnds DEF Says
    <2>5. CASE /\ agent.running # 0 /\ agent'.running = agent.running /\ Consults(n, "injected")
      <3>1. agent.running # n
        BY <2>2, <2>3 DEF LeavesRuns
      <3>2. \A m \in Inputs : m # n => agent'.asked[m] = agent.asked[m] /\ consumed'[m] = consumed[m]
        <4>1. agent.asked \in [Inputs -> {"none", "new", "injected", "started"}]
          BY DEF Typed, WorldOK, AgentState
        <4>2. QED
          BY <2>2, <2>5, <4>1 DEF Consults
      <3>3. ASSUME NEW m \in Inputs, agent.running = m, sent'[m] = 0
            PROVE  /\ agent'.asked[m] \in {"none", "started"} /\ consumed'[m] = 1
                   /\ \A how \in SteerEnds \ {"started"} : ~Says(m, how)'
        <4>1. m # n /\ sent[m] = 0 /\ agent'.asked[m] = agent.asked[m] /\ consumed'[m] = consumed[m]
          BY <2>2, <3>1, <3>2, <3>3
        <4>2. /\ agent.asked[m] \in {"none", "started"} /\ consumed[m] = 1
              /\ \A how \in SteerEnds \ {"started"} : ~Says(m, how)
          BY <3>3, <4>1, Zenon DEF LeavesRuns
        <4>3. QED
          BY <2>4, <4>1, <4>2
      <3>4. QED
        BY <1>98, <2>2, <2>5, <3>3 DEF LeavesRuns
    <2>6. CASE agent.running = 0 /\ ~agent.leaves /\ Consults(n, "started") /\ agent'.running = n
      <3>1. agent'.asked[n] = "started"
        <4>1. agent.asked \in [Inputs -> {"none", "new", "injected", "started"}]
          BY DEF Typed, WorldOK, AgentState
        <4>2. QED
          BY <2>6, <4>1 DEF Consults
      <3>2. \A how \in SteerEnds : ~Says(n, how)
        <4>1. Expects(<<"steer", n>>)
          BY <2>2 DEF MailInv
        <4>2. QED
          BY <4>1, OnWireWired DEF Expects, Says, SteerEnds
      <3>3. consumed'[n] = 1
        BY <2>2, <2>3
      <3>4. QED
        BY <1>98, <2>4, <2>6, <3>1, <3>2, <3>3 DEF LeavesRuns
    <2>7. QED
      BY <2>1, <2>5, <2>6 DEF ConsumesWorld, AfterConsumes
  <1>25. ASSUME NEW n \in Inputs, AgentAnswers(n) PROVE LeavesRuns'
    <2>1. PICK how \in SteerEnds : AnswersWorld(n, how)
      BY <1>25, AnswersMoves
    <2>2. /\ sent' = sent /\ consumed' = consumed /\ agent'.running = agent.running /\ answer' = answer
      BY <2>1 DEF AnswersWorld, AgentAlone
    <2>3. /\ agent'.asked[n] = "none"
          /\ \A m \in Inputs : m # n => agent'.asked[m] = agent.asked[m]
      <3>1. agent.asked \in [Inputs -> {"none", "new", "injected", "started"}]
        BY DEF Typed, WorldOK, AgentState
      <3>2. QED
        BY <2>1, <3>1 DEF AnswersWorld, Consults
    <2>4. agent.asked[n] = "new" \/ how = agent.asked[n]
      BY <2>1, Zenon DEF AnswersWorld, Replies
    <2>5. \A m \in Inputs : \A h \in SteerEnds : Says(m, h)' => Says(m, h) \/ (m = n /\ h = how)
      <3>1. \A m \in Inputs : <<"steer", m>> \in Tasks /\ (m # n => <<"steer", m>> # <<"steer", n>>)
        BY TaskFacts
      <3>2. ASSUME NEW m \in Inputs, m # n PROVE \A h \in SteerEnds : Says(m, h)' => Says(m, h)
        <4>1. Same(<<"steer", m>>)
          BY <2>1, <3>1, <3>2 DEF AnswersWorld, Replies, Tells
        <4>2. QED
          BY <2>2, <3>1, <4>1, SameEnds DEF Says
      <3>3. \A h \in SteerEnds : Says(n, h)' => Says(n, h) \/ h = how
        <4>1. \A h \in SteerEnds : OnWire(<<"steer", n>>, h)' => OnWire(<<"steer", n>>, h) \/ h = how
          BY <2>1 DEF AnswersWorld, Replies, Tells, AllEnds
        <4>2. QED
          BY <2>2, <4>1 DEF Says
      <3>4. QED
        BY <3>2, <3>3
    <2>6. ASSUME NEW m \in Inputs, agent.running = m, sent[m] = 0
          PROVE  /\ agent'.asked[m] \in {"none", "started"} /\ consumed[m] = 1
                 /\ \A h \in SteerEnds \ {"started"} : ~Says(m, h)'
      <3>1. /\ agent.asked[m] \in {"none", "started"} /\ consumed[m] = 1
            /\ \A h \in SteerEnds \ {"started"} : ~Says(m, h)
        BY <2>6, Zenon DEF LeavesRuns
      <3>2. m = n => how = "started"
        BY <2>1, <2>4, <3>1 DEF SteerEnds
      <3>3. QED
        BY <2>3, <2>5, <3>1, <3>2
    <2>7. QED
      BY <1>98, <2>2, <2>6 DEF LeavesRuns
  <1>26. ASSUME UNCHANGED <<answer, agent, wire, sent, consumed>> PROVE LeavesRuns'
    <2>1. \A u \in Tasks : Same(u)
      BY <1>26, UnwrittenWire DEF Silences
    <2>2. \A k \in Inputs : <<"steer", k>> \in Tasks
      BY TaskFacts
    <2>3. \A k \in Inputs : Quiets(k)
      BY <1>26, <2>1, <2>2, QuietsIs, SameEnds
    <2>4. \A k \in Inputs : sent'[k] \in Nat /\ sent'[k] >= sent[k]
      <3>1. sent \in [Inputs -> Nat]
        BY DEF Typed, WorldOK
      <3>2. QED
        BY <1>26, <3>1
    <2>5. QED
      BY <1>26, <2>3, <2>4, RunsKept
  <1> QED
    BY <1>1, <1>2, <1>3, <1>4, <1>5, <1>6, <1>7, <1>8, <1>9, <1>10, <1>11, <1>12, <1>13,
       <1>14, <1>15, <1>16, <1>17, <1>18, <1>19, <1>20, <1>21, <1>22, <1>23, <1>24, <1>25,
       <1>26
       DEF Next, User, Settling, Task, AgentNext, Peek, vars, taskVars, logVars

\* An agent keeps to its kind.
LEMMA LeavesStep ==
  Typed /\ FreshInv /\ MailInv /\ OnceInv /\ LeavesInv /\ TurnInv /\ StatusInv /\ [Next]_vars => LeavesInv'
  <1> SUFFICES ASSUME Typed, FreshInv, MailInv, OnceInv, LeavesInv, TurnInv, StatusInv, [Next]_vars
               PROVE  LeavesInv'
    OBVIOUS
  <1>1. Typed'
    BY TypedStep
  <1>2. Typed' => (LeavesInv' <=> LeavesOwn' /\ LeavesBack' /\ LeavesStart' /\ LeavesSaid'
                                  /\ LeavesRuns')
    BY LeavesSplit, PTL
  <1>3. QED
    BY <1>1, <1>2, LeavesOwnStep, LeavesBackStep, LeavesStartStep, LeavesSaidStep, LeavesRunsStep

-----------------------------------------------------------------------------
(* The connection *)

LinkThread ==
    /\ thread.status = "disconnected" => ~route \/ link \in {"stopped", "handled"}
    /\ ~route \/ link = "handled" =>
         thread.status = "disconnected" /\ ~HasPending(thread) /\ ~thread.detached
    /\ ~route => thread.active = 0

LinkMail ==
    link # "up" =>
      /\ wire = <<>> /\ agent.queue = {} /\ agent.running = 0
      /\ \A n \in Inputs : agent.asked[n] = "none"
      /\ \A t \in Tasks : pc[t] = "waiting" => answer[t] # "none"

\* The parts of LinkInv.
LEMMA LinkSplit == LinkInv <=> LinkThread /\ LinkMail
  BY DEF LinkInv, LinkThread, LinkMail

\* A conversation that is out of reach has nothing pending.
LEMMA LinkThreadStep ==
  Typed /\ FreshInv /\ MailInv /\ OnceInv /\ LeavesInv /\ LinkInv /\ TurnInv /\ StatusInv
    /\ [Next]_vars
    => LinkThread'
  <1> SUFFICES ASSUME Typed, FreshInv, MailInv, OnceInv, LeavesInv, LinkInv, TurnInv, StatusInv,
                      [Next]_vars
               PROVE  LinkThread'
    OBVIOUS
  <1> LinkThread /\ LinkMail
    BY LinkSplit
  <1>1. ASSUME Prompt PROVE LinkThread'
    <2>1. route /\ link \in {"up", "broken"} /\ UNCHANGED <<route, link>>
      BY <1>1, Zenon DEF Prompt, Connected
    <2>2. thread'.status = "working"
      BY <1>1, PromptDoes DEF AfterPrompt, Begins
    <2>3. QED
      BY <2>1, <2>2 DEF LinkThread
  <1>2. ASSUME PromptUnsaved PROVE LinkThread'
    <2>1. UNCHANGED <<route, link>>
      BY <1>2, Zenon DEF PromptUnsaved
    <2>2. /\ thread'.status = thread.status /\ thread'.active = thread.active
          /\ thread'.pending = thread.pending /\ thread'.detached = thread.detached
      BY <1>2, PromptUnsavedDoes DEF Unmoved, Quiet
    <2>3. QED
      BY <2>1, <2>2 DEF LinkThread, HasPending
  <1>3. ASSUME Steer PROVE LinkThread'
    <2>1. route /\ link \in {"up", "broken"} /\ UNCHANGED <<route, link>>
      BY <1>3, Zenon DEF Steer, Connected
    <2>2. thread'.status = "working"
      BY <1>3, SteerDoes DEF AfterSteer
    <2>3. QED
      BY <2>1, <2>2 DEF LinkThread
  <1>4. ASSUME Stop PROVE LinkThread'
    <2>1. UNCHANGED <<route, link>>
      BY <1>4, Zenon DEF Stop
    <2>2. /\ thread'.active = thread.active /\ thread'.detached = thread.detached
          /\ thread'.pending.id \in {0, thread.pending.id}
          /\ thread'.status = "disconnected" <=> thread.status = "disconnected"
      <3>1. thread'.pending.id \in {0, thread.pending.id}
        BY <1>4, PendOf DEF PendKeeps
      <3>2. QED
        BY <1>4, <3>1, StopDoes DEF AfterStop, GivenUp, Quiet
    <2>3. QED
      BY <2>1, <2>2 DEF LinkThread, HasPending
  <1>5. ASSUME Reopen PROVE LinkThread'
    <2>1. route' = TRUE /\ link' = "up"
      BY <1>5 DEF Reopen
    <2>2. thread'.status = "idle"
      BY <1>5, ReopenDoes DEF Anew
    <2>3. QED
      BY <2>1, <2>2 DEF LinkThread
  <1>6. ASSUME Break PROVE LinkThread'
    <2>1. link = "up" /\ link' = "broken" /\ UNCHANGED <<route, thread>>
      BY <1>6, BreakDoes DEF BreakWorld
    <2>2. QED
      BY <2>1 DEF LinkThread
  <1>7. ASSUME NEW n \in Inputs, PromptResult(n) PROVE LinkThread'
    <2>1. UNCHANGED <<route, link>>
      BY <1>7, ResultTakes DEF TaskWorld
    <2>2. /\ thread'.active = 0 /\ thread'.pending = thread.pending /\ thread'.detached = thread.detached
          /\ thread'.status = IF link \in {"up", "broken"} /\ thread.status # "disconnected"
                              THEN IF HasPending(thread) \/ thread.detached THEN "working" ELSE "idle"
                              ELSE "disconnected"
      BY <1>7, PromptResultDoes DEF AfterResult, Quiet
    <2>3. link \in {"up", "broken", "stopped", "handled"}
      BY TypeSplit DEF PlacesOK
    <2>4. QED
      BY <2>1, <2>2, <2>3 DEF LinkThread, HasPending
  <1>8. ASSUME NEW n \in Inputs, SteerAnswer(n) PROVE LinkThread'
    <2>1. UNCHANGED <<route, link>>
      BY <1>8, AnswerTakes DEF TaskWorld
    <2>2. /\ thread.pending.id = n
          /\ thread'.status = "disconnected" <=> thread.status = "disconnected"
      BY <1>8, SteerAnswerDoes DEF AfterAnswer
    <2>3. HasPending(thread)
      BY <2>2 DEF HasPending, Inputs
    <2>4. route /\ link # "handled"
      BY <2>3 DEF LinkThread
    <2>5. QED
      BY <2>1, <2>2, <2>4 DEF LinkThread
  <1>9. ASSUME NEW t \in Tasks, FallbackStart(t) PROVE LinkThread'
    <2>1. route /\ link \in {"up", "broken"} /\ UNCHANGED <<route, link>>
      BY <1>9, FallbackSends DEF FallbackWorld
    <2>2. thread'.status = "working"
      BY <1>9, FallbackStartDoes DEF AfterFallback
    <2>3. QED
      BY <2>1, <2>2 DEF LinkThread
  <1>10. ASSUME NEW t \in Tasks, FallbackRefused(t) PROVE LinkThread'
    <2>1. UNCHANGED <<route, link>>
      BY <1>10, RefusedTakes DEF RefusedWorld, TaskWorld
    <2>2. /\ thread'.active = thread.active /\ thread'.detached = thread.detached
          /\ thread'.pending.id \in {0, thread.pending.id}
          /\ thread'.status = "disconnected" <=> thread.status = "disconnected"
      BY <1>10, FallbackRefusedDoes DEF AfterRefusal, GivenUp, Quiet, NoPending
    <2>3. QED
      BY <2>1, <2>2 DEF LinkThread, HasPending
  <1>11. ASSUME Closed PROVE LinkThread'
    <2>1. route' = FALSE /\ link' = link
      BY <1>11, Zenon DEF Closed
    <2>2. /\ thread'.status = "disconnected" /\ thread'.active = 0 /\ ~thread'.detached
          /\ thread'.pending.id = 0
      BY <1>11, ClosedDoes DEF AfterSilence, NoPending
    <2>3. QED
      BY <2>1, <2>2 DEF LinkThread, HasPending
  <1>12. ASSUME Receive PROVE LinkThread'
    <2>1. UNCHANGED <<route, link>>
      BY <1>12, ReadTakes DEF ReadWorld
    <2>2. link = "up"
      BY <1>12, Zenon DEF Receive, LinkMail
    <2>3. route => /\ thread'.active = thread.active
                   /\ thread'.status = "disconnected" <=> thread.status = "disconnected"
      BY <1>12, ReadDoes DEF AfterRead, AfterReport
    <2>4. ~route => thread' = thread
      BY <1>12, ReadDoes DEF AfterRead
    <2>5. QED
      BY <2>1, <2>2, <2>3, <2>4 DEF LinkThread
  <1>13. ASSUME StopConnection PROVE LinkThread'
    <2>1. link = "broken" /\ link' = "stopped" /\ UNCHANGED <<route, thread>>
      BY <1>13, Zenon DEF StopConnection
    <2>2. QED
      BY <2>1 DEF LinkThread
  <1>14. ASSUME ConnectionLost PROVE LinkThread'
    <2>1. route' = route /\ link' = "handled"
      BY <1>14, Zenon DEF ConnectionLost
    <2>2. route => /\ thread'.status = "disconnected" /\ ~thread'.detached /\ thread'.pending.id = 0
      BY <1>14, ConnectionLostDoes DEF AfterSilence, NoPending
    <2>3. ~route => thread' = thread
      BY <1>14, ConnectionLostDoes
    <2>4. QED
      BY <2>1, <2>2, <2>3 DEF LinkThread, HasPending
  <1>15. ASSUME UNCHANGED <<thread, route, link>> PROVE LinkThread'
    BY <1>15
       DEF LinkThread
  <1> QED
    BY <1>1, <1>2, <1>3, <1>4, <1>5, <1>6, <1>7, <1>8, <1>9, <1>10, <1>11, <1>12, <1>13,
       <1>14, <1>15
       DEF Next, User, Settling, Task, AgentNext, Close, PromptResultLate, SteerAnswerLate,
           CancelAgain, Peek, StopSent, CloseFails, AgentBegins, AgentEnds, AgentAnnounces,
           AgentConsumes, AgentAnswers, SendCancel, Goto, AgentStep, AgentFrame, vars,
           taskVars, logVars

\* Nothing is under way on a connection that is broken.
LEMMA LinkMailStep ==
  Typed /\ FreshInv /\ MailInv /\ OnceInv /\ LeavesInv /\ LinkInv /\ TurnInv /\ StatusInv
    /\ [Next]_vars
    => LinkMail'
  <1> SUFFICES ASSUME Typed, FreshInv, MailInv, OnceInv, LeavesInv, LinkInv, TurnInv, StatusInv,
                      [Next]_vars
               PROVE  LinkMail'
    OBVIOUS
  <1> LinkThread /\ LinkMail
    BY LinkSplit
  <1>1. ASSUME Prompt PROVE LinkMail'
    <2>1. /\ wire' = wire /\ (link # "up" => agent'.queue = agent.queue) /\ agent'.running = agent.running
          /\ agent'.asked = agent.asked /\ link' = link
          /\ link # "up" => \A u \in Tasks : pc'[u] = "waiting" =>
               (pc[u] = "waiting" /\ answer'[u] = answer[u]) \/ answer'[u] = "lost"
      BY <1>1, PromptSends DEF PromptWorld, Asks, Queued
    <2>2. QED
      BY <2>1 DEF LinkMail
  <1>2. ASSUME PromptUnsaved PROVE LinkMail'
    <2>1. /\ wire' = wire /\ agent'.queue = agent.queue /\ agent'.running = agent.running
          /\ agent'.asked = agent.asked /\ pc' = pc /\ answer' = answer
          /\ link' # "up" => link # "up"
      <3>1. link' # "up" => link # "up"
        BY <1>2 DEF PromptUnsaved
      <3>2. QED
        BY <1>2, <3>1, BystandersKeep DEF OthersKeep, AgentKeeps
    <2>2. QED
      BY <2>1 DEF LinkMail
  <1>3. ASSUME Steer PROVE LinkMail'
    <2>1. /\ wire' = wire /\ (link # "up" => agent' = agent) /\ link' = link
          /\ link # "up" => \A u \in Tasks : pc'[u] = "waiting" =>
               (pc[u] = "waiting" /\ answer'[u] = answer[u]) \/ answer'[u] = "lost"
      BY <1>3, SteerSends DEF SteerWorld, Asks
    <2>2. QED
      BY <2>1 DEF LinkMail
  <1>4. ASSUME Stop PROVE LinkMail'
    <2>1. /\ wire' = wire /\ agent'.queue = agent.queue /\ agent'.running = agent.running
          /\ agent'.asked = agent.asked /\ pc' = pc /\ answer' = answer
          /\ link' # "up" => link # "up"
      <3>1. link' # "up" => link # "up"
        BY <1>4 DEF Stop
      <3>2. QED
        BY <1>4, <3>1, BystandersKeep DEF OthersKeep, AgentKeeps
    <2>2. QED
      BY <2>1 DEF LinkMail
  <1>5. ASSUME Close PROVE LinkMail'
    <2>1. /\ wire' = wire /\ agent'.queue = agent.queue /\ agent'.running = agent.running
          /\ agent'.asked = agent.asked /\ pc' = pc /\ answer' = answer
          /\ link' # "up" => link # "up"
      <3>1. link' # "up" => link # "up"
        BY <1>5 DEF Close
      <3>2. QED
        BY <1>5, <3>1, BystandersKeep DEF OthersKeep, AgentKeeps
    <2>2. QED
      BY <2>1 DEF LinkMail
  <1>6. ASSUME Reopen PROVE LinkMail'
    <2>1. /\ wire' = wire /\ agent'.queue = agent.queue /\ agent'.running = agent.running
          /\ agent'.asked = agent.asked /\ pc' = pc /\ answer' = answer
          /\ link' # "up" => link # "up"
      <3>1. link' # "up" => link # "up"
        BY <1>6 DEF Reopen
      <3>2. QED
        BY <1>6, <3>1, BystandersKeep DEF OthersKeep, AgentKeeps
    <2>2. QED
      BY <2>1 DEF LinkMail
  <1>7. ASSUME Break PROVE LinkMail'
    <2>1. /\ wire' = <<>> /\ agent'.queue = {} /\ agent'.running = 0 /\ pc' = pc
          /\ \A n \in Inputs : agent'.asked[n] = "none"
          /\ \A u \in Tasks : pc[u] = "waiting" => answer'[u] # "none"
      BY <1>7, BreakDoes DEF BreakWorld
    <2>2. QED
      BY <2>1 DEF LinkMail
  <1>8. ASSUME NEW n \in Inputs, PromptResult(n) PROVE LinkMail'
    <2>1. /\ wire' = wire /\ agent'.queue = agent.queue /\ agent'.running = agent.running
          /\ agent'.asked = agent.asked /\ link' = link
          /\ \A u \in Tasks : pc'[u] = "waiting" => pc[u] = "waiting" /\ answer'[u] = answer[u]
      BY <1>8, ResultTakes DEF ResultWorld, TaskWorld, Moved
    <2>2. QED
      BY <2>1 DEF LinkMail
  <1>9. ASSUME NEW n \in Inputs, PromptResultLate(n) PROVE LinkMail'
    <2>1. /\ wire' = wire /\ agent'.queue = agent.queue /\ agent'.running = agent.running
          /\ agent'.asked = agent.asked /\ link' = link
          /\ \A u \in Tasks : pc'[u] = "waiting" => pc[u] = "waiting" /\ answer'[u] = answer[u]
      BY <1>9, ResultTakes DEF ResultWorld, TaskWorld, Moved
    <2>2. QED
      BY <2>1 DEF LinkMail
  <1>10. ASSUME NEW n \in Inputs, SteerAnswer(n) PROVE LinkMail'
    <2>1. /\ wire' = wire /\ agent'.queue = agent.queue /\ agent'.running = agent.running
          /\ agent'.asked = agent.asked /\ link' = link
          /\ \A u \in Tasks : pc'[u] = "waiting" => pc[u] = "waiting" /\ answer'[u] = answer[u]
      BY <1>10, AnswerTakes DEF AnswerWorld, TaskWorld, Moved
    <2>2. QED
      BY <2>1 DEF LinkMail
  <1>11. ASSUME NEW n \in Inputs, SteerAnswerLate(n) PROVE LinkMail'
    <2>1. /\ wire' = wire /\ agent'.queue = agent.queue /\ agent'.running = agent.running
          /\ agent'.asked = agent.asked /\ link' = link
          /\ \A u \in Tasks : pc'[u] = "waiting" => pc[u] = "waiting" /\ answer'[u] = answer[u]
      BY <1>11, AnswerTakes DEF AnswerWorld, TaskWorld, Moved
    <2>2. QED
      BY <2>1 DEF LinkMail
  <1>12. ASSUME NEW n \in Inputs, CancelAgain(n) PROVE LinkMail'
    <2>1. /\ wire' = wire /\ agent'.queue = agent.queue /\ agent'.running = agent.running
          /\ agent'.asked = agent.asked /\ link' = link
          /\ \A u \in Tasks : pc'[u] = "waiting" => pc[u] = "waiting" /\ answer'[u] = answer[u]
      BY <1>12, CancelTakes DEF AgentKeeps, TaskWorld, Moved
    <2>2. QED
      BY <2>1 DEF LinkMail
  <1>13. ASSUME NEW t \in Tasks, Peek(t) PROVE LinkMail'
    <2>1. /\ wire' = wire /\ agent'.queue = agent.queue /\ agent'.running = agent.running
          /\ agent'.asked = agent.asked /\ link' = link
          /\ \A u \in Tasks : pc'[u] = "waiting" => pc[u] = "waiting" /\ answer'[u] = answer[u]
      BY <1>13, PeekLooks DEF PeekWorld
    <2>2. QED
      BY <2>1 DEF LinkMail
  <1>14. ASSUME NEW t \in Tasks, FallbackStart(t) PROVE LinkMail'
    <2>1. /\ wire' = wire /\ (link # "up" => agent'.queue = agent.queue) /\ agent'.running = agent.running
          /\ agent'.asked = agent.asked /\ link' = link
          /\ link # "up" => \A u \in Tasks : pc'[u] = "waiting" =>
               (pc[u] = "waiting" /\ answer'[u] = answer[u]) \/ answer'[u] = "lost"
      BY <1>14, FallbackSends DEF FallbackWorld, Queued
    <2>2. QED
      BY <2>1 DEF LinkMail
  <1>15. ASSUME NEW t \in Tasks, FallbackRefused(t) PROVE LinkMail'
    <2>1. /\ wire' = wire /\ agent'.queue = agent.queue /\ agent'.running = agent.running
          /\ agent'.asked = agent.asked /\ link' = link
          /\ \A u \in Tasks : pc'[u] = "waiting" => pc[u] = "waiting" /\ answer'[u] = answer[u]
      BY <1>15, RefusedTakes DEF RefusedWorld, TaskWorld, Moved
    <2>2. QED
      BY <2>1 DEF LinkMail
  <1>16. ASSUME StopSent PROVE LinkMail'
    <2>1. /\ wire' = wire /\ agent'.queue = agent.queue /\ agent'.running = agent.running
          /\ agent'.asked = agent.asked /\ pc' = pc /\ answer' = answer
          /\ link' # "up" => link # "up"
      <3>1. link' # "up" => link # "up"
        BY <1>16 DEF StopSent
      <3>2. QED
        BY <1>16, <3>1, BystandersKeep DEF OthersKeep, AgentKeeps
    <2>2. QED
      BY <2>1 DEF LinkMail
  <1>17. ASSUME Closed PROVE LinkMail'
    <2>1. /\ wire' = wire /\ agent'.queue = agent.queue /\ agent'.running = agent.running
          /\ agent'.asked = agent.asked /\ pc' = pc /\ answer' = answer
          /\ link' # "up" => link # "up"
      <3>1. link' # "up" => link # "up"
        BY <1>17 DEF Closed
      <3>2. QED
        BY <1>17, <3>1, BystandersKeep DEF OthersKeep, AgentKeeps
    <2>2. QED
      BY <2>1 DEF LinkMail
  <1>18. ASSUME CloseFails PROVE LinkMail'
    <2>1. /\ wire' = wire /\ agent'.queue = agent.queue /\ agent'.running = agent.running
          /\ agent'.asked = agent.asked /\ pc' = pc /\ answer' = answer
          /\ link' # "up" => link # "up"
      <3>1. link' # "up" => link # "up"
        BY <1>18 DEF CloseFails
      <3>2. QED
        BY <1>18, <3>1, BystandersKeep DEF OthersKeep, AgentKeeps
    <2>2. QED
      BY <2>1 DEF LinkMail
  <1>19. ASSUME Receive PROVE LinkMail'
    <2>1. link' = link
      BY <1>19, ReadTakes DEF ReadWorld
    <2>2. link = "up"
      BY <1>19, Zenon DEF Receive, LinkMail
    <2>3. QED
      BY <2>1, <2>2 DEF LinkMail
  <1>20. ASSUME StopConnection PROVE LinkMail'
    <2>1. /\ wire' = wire /\ agent'.queue = agent.queue /\ agent'.running = agent.running
          /\ agent'.asked = agent.asked /\ pc' = pc /\ answer' = answer
          /\ link' # "up" => link # "up"
      <3>1. link' # "up" => link # "up"
        BY <1>20 DEF StopConnection
      <3>2. QED
        BY <1>20, <3>1, BystandersKeep DEF OthersKeep, AgentKeeps
    <2>2. QED
      BY <2>1 DEF LinkMail
  <1>21. ASSUME ConnectionLost PROVE LinkMail'
    <2>1. /\ wire' = wire /\ agent'.queue = agent.queue /\ agent'.running = agent.running
          /\ agent'.asked = agent.asked /\ pc' = pc /\ answer' = answer
          /\ link' # "up" => link # "up"
      <3>1. link' # "up" => link # "up"
        BY <1>21 DEF ConnectionLost
      <3>2. QED
        BY <1>21, <3>1, BystandersKeep DEF OthersKeep, AgentKeeps
    <2>2. QED
      BY <2>1 DEF LinkMail
  <1>22. ASSUME AgentBegins PROVE LinkMail'
    <2>1. link = "up" /\ link' = link
      BY <1>22, BeginsMoves DEF BeginsWorld, AfterBegins, AgentAlone
    <2>2. QED
      BY <2>1 DEF LinkMail
  <1>23. ASSUME AgentEnds PROVE LinkMail'
    <2>1. link = "up" /\ link' = link
      BY <1>23, EndsMoves DEF EndsWorld, AgentAlone
    <2>2. QED
      BY <2>1 DEF LinkMail
  <1>24. ASSUME AgentAnnounces PROVE LinkMail'
    <2>1. link = "up" /\ link' = link
      BY <1>24, AnnouncesMoves DEF AnnouncesWorld, AfterAnnounces, AgentAlone
    <2>2. QED
      BY <2>1 DEF LinkMail
  <1>25. ASSUME NEW n \in Inputs, AgentConsumes(n) PROVE LinkMail'
    <2>1. link = "up" /\ link' = link
      BY <1>25, ConsumesMoves DEF ConsumesWorld, AfterConsumes, AgentAlone
    <2>2. QED
      BY <2>1 DEF LinkMail
  <1>26. ASSUME NEW n \in Inputs, AgentAnswers(n) PROVE LinkMail'
    <2>1. link = "up" /\ link' = link
      BY <1>26, AnswersMoves DEF AnswersWorld, Replies, AgentAlone
    <2>2. QED
      BY <2>1 DEF LinkMail
  <1>27. ASSUME UNCHANGED <<pc, answer, link, agent, wire>> PROVE LinkMail'
    BY <1>27
       DEF LinkMail
  <1> QED
    BY <1>1, <1>2, <1>3, <1>4, <1>5, <1>6, <1>7, <1>8, <1>9, <1>10, <1>11, <1>12, <1>13,
       <1>14, <1>15, <1>16, <1>17, <1>18, <1>19, <1>20, <1>21, <1>22, <1>23, <1>24, <1>25,
       <1>26, <1>27
       DEF Next, User, Settling, Task, AgentNext, vars, taskVars, logVars

\* Every step keeps what holds of the connection.
LEMMA LinkStep ==
  Typed /\ FreshInv /\ MailInv /\ OnceInv /\ LeavesInv /\ LinkInv /\ TurnInv /\ StatusInv /\ [Next]_vars
    => LinkInv'
  <1>1. LinkThread' /\ LinkMail' => LinkInv'
    BY LinkSplit, PTL
  <1>2. QED
    BY <1>1, LinkThreadStep, LinkMailStep

-----------------------------------------------------------------------------
(* What the agent says of a prompt *)

\* How prompt n is answered, on the wire or at its task.
Heard(n, how) == answer[<<"prompt", n>>] = how \/ OnWire(<<"prompt", n>>, how)

ToldOf(n) ==
    /\ \A how \in PromptEnds : Heard(n, how) => told[n] = how
    /\ AtAgent(n) => told[n] = "none"
    /\ told[n] # "none" => sent[n] > 0

\* The two readings of a response that has come are the same.
LEMMA ToldSplit == ToldInv <=> CompletedByItsOwn /\ \A n \in Inputs : ToldOf(n)
  BY Zenon DEF ToldInv, ToldOf, Heard

\* Prompt n gets no answer it has not, and only an input that was never sent comes to the
\* agent.
Calm(n) ==
    /\ told'[n] = told[n] /\ (sent[n] > 0 => sent'[n] > 0)
    /\ \A how \in PromptEnds : Heard(n, how)' => Heard(n, how)
    /\ AtAgent(n)' => AtAgent(n) \/ ~(sent[n] > 0)

\* It is enough to know which answers may newly reach the task.
LEMMA CalmIs ==
  ASSUME NEW n \in Inputs, told'[n] = told[n], sent[n] > 0 => sent'[n] > 0,
         answer'[<<"prompt", n>>] \in {answer[<<"prompt", n>>], "none", "lost"}
           \/ OnWire(<<"prompt", n>>, answer'[<<"prompt", n>>]),
         \A how \in PromptEnds : OnWire(<<"prompt", n>>, how)' => OnWire(<<"prompt", n>>, how),
         AtAgent(n)' => AtAgent(n) \/ ~(sent[n] > 0)
  PROVE  Calm(n)
  <1>1. "none" \notin PromptEnds /\ "lost" \notin PromptEnds
    BY DEF PromptEnds
  <1>2. QED
    BY <1>1 DEF Calm, Heard

\* The wire says of a prompt what it said.
LEMMA SamePromptEnds ==
  ASSUME NEW t \in Tasks, Same(t)
  PROVE  \A how \in PromptEnds : OnWire(t, how)' => OnWire(t, how)
  BY DEF Same, AllEnds

\* An input that is not at the agent does not come there by itself.
LEMMA StaysAway ==
  ASSUME NEW n \in Inputs, n \in agent'.queue => n \in agent.queue,
         agent'.running = n => agent.running = n \/ n \in agent.queue \/ ~(sent[n] > 0),
         sent'[n] = sent[n]
  PROVE  AtAgent(n)' => AtAgent(n) \/ ~(sent[n] > 0)
  BY DEF AtAgent

\* Only the end of its own turn answers a prompt.
LEMMA CalmStep ==
  Typed /\ FreshInv /\ MailInv /\ OnceInv /\ LeavesInv /\ TurnInv /\ StatusInv
    /\ [Next]_vars
    => \A k \in Inputs : Calm(k) \/ (AgentEnds /\ agent.running = k)
  <1> SUFFICES ASSUME Typed, FreshInv, MailInv, OnceInv, LeavesInv, TurnInv, StatusInv,
                      [Next]_vars
               PROVE  \A k \in Inputs : Calm(k) \/ (AgentEnds /\ agent.running = k)
    OBVIOUS
  <1>1. ASSUME Prompt PROVE \A k \in Inputs : Calm(k) \/ (AgentEnds /\ agent.running = k)
    <2>1. PICK n \in Inputs : n = inputs + 1 /\ PromptWorld
      BY <1>1, PromptSends DEF PromptWorld
    <2>2. sent[n] = 0
      <3>1. inputs \in Nat
        BY TypeSplit DEF PlacesOK
      <3>2. n > inputs
        BY <2>1, <3>1
      <3>3. QED
        BY <3>2 DEF FreshInv
    <2>3. /\ told' = told /\ agent'.running = agent.running
          /\ \A m \in Inputs : m \in agent'.queue => m \in agent.queue \/ m = n
          /\ \A m \in Inputs : sent'[m] = IF m = n THEN sent[m] + 1 ELSE sent[m]
          /\ \A u \in Tasks : Same(u) /\ answer'[u] \in {answer[u], "none", "lost"}
      BY <2>1 DEF PromptWorld, Asks, Queued, SendsOnce, Silences
    <2>4. \A m \in Inputs : <<"prompt", m>> \in Tasks
      BY TaskFacts
    <2>5. \A m \in Inputs : AtAgent(m)' => AtAgent(m) \/ ~(sent[m] > 0)
      <3>1. ASSUME NEW m \in Inputs, m # n PROVE AtAgent(m)' => AtAgent(m) \/ ~(sent[m] > 0)
        BY <2>3, <3>1, StaysAway
      <3>2. QED
        BY <2>2, <3>1
    <2>6. \A m \in Inputs : sent[m] > 0 => sent'[m] > 0
      BY <2>2, <2>3
    <2>7. QED
      BY <2>3, <2>4, <2>5, <2>6, CalmIs, SamePromptEnds
  <1>2. ASSUME PromptUnsaved PROVE \A k \in Inputs : Calm(k) \/ (AgentEnds /\ agent.running = k)
    <2>1. /\ agent'.queue = agent.queue /\ agent'.running = agent.running
          /\ told' = told /\ sent' = sent
          /\ \A u \in Tasks : Same(u) /\ answer'[u] \in {answer[u], "none", "lost"}
      BY <1>2, BystandersKeep DEF OthersKeep, AgentKeeps, Silences
    <2>2. \A k \in Inputs : <<"prompt", k>> \in Tasks
      BY TaskFacts
    <2>3. \A k \in Inputs : AtAgent(k)' => AtAgent(k) \/ ~(sent[k] > 0)
      BY <2>1, StaysAway
    <2>4. QED
      BY <2>1, <2>2, <2>3, CalmIs, SamePromptEnds
  <1>3. ASSUME Steer PROVE \A k \in Inputs : Calm(k) \/ (AgentEnds /\ agent.running = k)
    <2>1. SteerWorld
      BY <1>3, SteerSends
    <2>2. /\ told' = told /\ sent' = sent /\ agent'.queue = agent.queue /\ agent'.running = agent.running
          /\ \A u \in Tasks : Same(u) /\ answer'[u] \in {answer[u], "none", "lost"}
      BY <2>1 DEF SteerWorld, Consults, Asks, Silences
    <2>3. \A n \in Inputs : <<"prompt", n>> \in Tasks
      BY TaskFacts
    <2>4. \A n \in Inputs : AtAgent(n)' => AtAgent(n) \/ ~(sent[n] > 0)
      BY <2>2, StaysAway
    <2>5. QED
      BY <2>2, <2>3, <2>4, CalmIs, SamePromptEnds
  <1>4. ASSUME Stop PROVE \A k \in Inputs : Calm(k) \/ (AgentEnds /\ agent.running = k)
    <2>1. /\ agent'.queue = agent.queue /\ agent'.running = agent.running
          /\ told' = told /\ sent' = sent
          /\ \A u \in Tasks : Same(u) /\ answer'[u] \in {answer[u], "none", "lost"}
      BY <1>4, BystandersKeep DEF OthersKeep, AgentKeeps, Silences
    <2>2. \A k \in Inputs : <<"prompt", k>> \in Tasks
      BY TaskFacts
    <2>3. \A k \in Inputs : AtAgent(k)' => AtAgent(k) \/ ~(sent[k] > 0)
      BY <2>1, StaysAway
    <2>4. QED
      BY <2>1, <2>2, <2>3, CalmIs, SamePromptEnds
  <1>5. ASSUME Close PROVE \A k \in Inputs : Calm(k) \/ (AgentEnds /\ agent.running = k)
    <2>1. /\ agent'.queue = agent.queue /\ agent'.running = agent.running
          /\ told' = told /\ sent' = sent
          /\ \A u \in Tasks : Same(u) /\ answer'[u] \in {answer[u], "none", "lost"}
      BY <1>5, BystandersKeep DEF OthersKeep, AgentKeeps, Silences
    <2>2. \A k \in Inputs : <<"prompt", k>> \in Tasks
      BY TaskFacts
    <2>3. \A k \in Inputs : AtAgent(k)' => AtAgent(k) \/ ~(sent[k] > 0)
      BY <2>1, StaysAway
    <2>4. QED
      BY <2>1, <2>2, <2>3, CalmIs, SamePromptEnds
  <1>6. ASSUME Reopen PROVE \A k \in Inputs : Calm(k) \/ (AgentEnds /\ agent.running = k)
    <2>1. /\ agent'.queue = agent.queue /\ agent'.running = agent.running
          /\ told' = told /\ sent' = sent
          /\ \A u \in Tasks : Same(u) /\ answer'[u] \in {answer[u], "none", "lost"}
      BY <1>6, BystandersKeep DEF OthersKeep, AgentKeeps, Silences
    <2>2. \A k \in Inputs : <<"prompt", k>> \in Tasks
      BY TaskFacts
    <2>3. \A k \in Inputs : AtAgent(k)' => AtAgent(k) \/ ~(sent[k] > 0)
      BY <2>1, StaysAway
    <2>4. QED
      BY <2>1, <2>2, <2>3, CalmIs, SamePromptEnds
  <1>7. ASSUME Break PROVE \A k \in Inputs : Calm(k) \/ (AgentEnds /\ agent.running = k)
    <2>1. /\ told' = told /\ sent' = sent /\ agent'.queue = {} /\ agent'.running = 0
          /\ \A u \in Tasks : answer'[u] \in {answer[u], "none", "lost"}
          /\ \A u \in Tasks : \A how : ~OnWire(u, how)'
      BY <1>7, BreakDoes DEF BreakWorld
    <2>2. \A k \in Inputs : <<"prompt", k>> \in Tasks
      BY TaskFacts
    <2>3. \A n \in Inputs : ~AtAgent(n)'
      <3>1. \A n \in Inputs : n # 0
        BY DEF Inputs
      <3>2. QED
        BY <2>1, <3>1 DEF AtAgent
    <2>4. QED
      BY <2>1, <2>2, <2>3, CalmIs
  <1>8. ASSUME NEW n \in Inputs, PromptResult(n)
        PROVE  \A k \in Inputs : Calm(k) \/ (AgentEnds /\ agent.running = k)
    <2>1. /\ agent'.queue = agent.queue /\ agent'.running = agent.running
          /\ told' = told /\ sent' = sent
          /\ \A u \in Tasks : Same(u) /\ answer'[u] \in {answer[u], "none", "lost"}
      BY <1>8, ResultTakes DEF ResultWorld, TaskWorld, Moved, Silences
    <2>2. \A k \in Inputs : <<"prompt", k>> \in Tasks
      BY TaskFacts
    <2>3. \A k \in Inputs : AtAgent(k)' => AtAgent(k) \/ ~(sent[k] > 0)
      BY <2>1, StaysAway
    <2>4. QED
      BY <2>1, <2>2, <2>3, CalmIs, SamePromptEnds
  <1>9. ASSUME NEW n \in Inputs, PromptResultLate(n)
        PROVE  \A k \in Inputs : Calm(k) \/ (AgentEnds /\ agent.running = k)
    <2>1. /\ agent'.queue = agent.queue /\ agent'.running = agent.running
          /\ told' = told /\ sent' = sent
          /\ \A u \in Tasks : Same(u) /\ answer'[u] \in {answer[u], "none", "lost"}
      BY <1>9, ResultTakes DEF ResultWorld, TaskWorld, Moved, Silences
    <2>2. \A k \in Inputs : <<"prompt", k>> \in Tasks
      BY TaskFacts
    <2>3. \A k \in Inputs : AtAgent(k)' => AtAgent(k) \/ ~(sent[k] > 0)
      BY <2>1, StaysAway
    <2>4. QED
      BY <2>1, <2>2, <2>3, CalmIs, SamePromptEnds
  <1>10. ASSUME NEW n \in Inputs, SteerAnswer(n)
         PROVE  \A k \in Inputs : Calm(k) \/ (AgentEnds /\ agent.running = k)
    <2>1. /\ agent'.queue = agent.queue /\ agent'.running = agent.running
          /\ told' = told /\ sent' = sent
          /\ \A u \in Tasks : Same(u) /\ answer'[u] \in {answer[u], "none", "lost"}
      BY <1>10, AnswerTakes DEF AnswerWorld, TaskWorld, Moved, Silences
    <2>2. \A k \in Inputs : <<"prompt", k>> \in Tasks
      BY TaskFacts
    <2>3. \A k \in Inputs : AtAgent(k)' => AtAgent(k) \/ ~(sent[k] > 0)
      BY <2>1, StaysAway
    <2>4. QED
      BY <2>1, <2>2, <2>3, CalmIs, SamePromptEnds
  <1>11. ASSUME NEW n \in Inputs, SteerAnswerLate(n)
         PROVE  \A k \in Inputs : Calm(k) \/ (AgentEnds /\ agent.running = k)
    <2>1. /\ agent'.queue = agent.queue /\ agent'.running = agent.running
          /\ told' = told /\ sent' = sent
          /\ \A u \in Tasks : Same(u) /\ answer'[u] \in {answer[u], "none", "lost"}
      BY <1>11, AnswerTakes DEF AnswerWorld, TaskWorld, Moved, Silences
    <2>2. \A k \in Inputs : <<"prompt", k>> \in Tasks
      BY TaskFacts
    <2>3. \A k \in Inputs : AtAgent(k)' => AtAgent(k) \/ ~(sent[k] > 0)
      BY <2>1, StaysAway
    <2>4. QED
      BY <2>1, <2>2, <2>3, CalmIs, SamePromptEnds
  <1>12. ASSUME NEW n \in Inputs, CancelAgain(n)
         PROVE  \A k \in Inputs : Calm(k) \/ (AgentEnds /\ agent.running = k)
    <2>1. /\ agent'.queue = agent.queue /\ agent'.running = agent.running
          /\ told' = told /\ sent' = sent
          /\ \A u \in Tasks : Same(u) /\ answer'[u] \in {answer[u], "none", "lost"}
      BY <1>12, CancelTakes DEF AgentKeeps, TaskWorld, Moved, Silences
    <2>2. \A k \in Inputs : <<"prompt", k>> \in Tasks
      BY TaskFacts
    <2>3. \A k \in Inputs : AtAgent(k)' => AtAgent(k) \/ ~(sent[k] > 0)
      BY <2>1, StaysAway
    <2>4. QED
      BY <2>1, <2>2, <2>3, CalmIs, SamePromptEnds
  <1>13. ASSUME NEW t \in Tasks, Peek(t)
         PROVE  \A k \in Inputs : Calm(k) \/ (AgentEnds /\ agent.running = k)
    <2>1. /\ agent'.queue = agent.queue /\ agent'.running = agent.running
          /\ told' = told /\ sent' = sent
          /\ \A u \in Tasks : Same(u) /\ answer'[u] \in {answer[u], "none", "lost"}
      BY <1>13, PeekLooks DEF PeekWorld, Silences
    <2>2. \A k \in Inputs : <<"prompt", k>> \in Tasks
      BY TaskFacts
    <2>3. \A k \in Inputs : AtAgent(k)' => AtAgent(k) \/ ~(sent[k] > 0)
      BY <2>1, StaysAway
    <2>4. QED
      BY <2>1, <2>2, <2>3, CalmIs, SamePromptEnds
  <1>14. ASSUME NEW t \in Tasks, FallbackStart(t)
         PROVE  \A k \in Inputs : Calm(k) \/ (AgentEnds /\ agent.running = k)
    <2>1. PICK n \in Inputs : n = captured[t] /\ FallbackWorld(t, n) /\ thread.pending.id = n
      BY <1>14, FallbackSends, FallbackStartDoes DEF FallbackWorld, AfterFallback
    <2>2. sent[n] = 0
      BY <2>1 DEF OnceInv
    <2>3. /\ told' = told /\ agent'.running = agent.running
          /\ \A m \in Inputs : m \in agent'.queue => m \in agent.queue \/ m = n
          /\ \A m \in Inputs : sent'[m] = IF m = n THEN sent[m] + 1 ELSE sent[m]
          /\ \A u \in Tasks : Same(u) /\ answer'[u] \in {answer[u], "none", "lost"}
      BY <2>1 DEF FallbackWorld, Queued, SendsOnce, Silences
    <2>4. \A m \in Inputs : <<"prompt", m>> \in Tasks
      BY TaskFacts
    <2>5. \A m \in Inputs : AtAgent(m)' => AtAgent(m) \/ ~(sent[m] > 0)
      <3>1. ASSUME NEW m \in Inputs, m # n PROVE AtAgent(m)' => AtAgent(m) \/ ~(sent[m] > 0)
        BY <2>3, <3>1, StaysAway
      <3>2. QED
        BY <2>2, <3>1
    <2>6. \A m \in Inputs : sent[m] > 0 => sent'[m] > 0
      BY <2>2, <2>3
    <2>7. QED
      BY <2>3, <2>4, <2>5, <2>6, CalmIs, SamePromptEnds
  <1>15. ASSUME NEW t \in Tasks, FallbackRefused(t)
         PROVE  \A k \in Inputs : Calm(k) \/ (AgentEnds /\ agent.running = k)
    <2>1. /\ agent'.queue = agent.queue /\ agent'.running = agent.running
          /\ told' = told /\ sent' = sent
          /\ \A u \in Tasks : Same(u) /\ answer'[u] \in {answer[u], "none", "lost"}
      BY <1>15, RefusedTakes DEF RefusedWorld, TaskWorld, Moved, Silences
    <2>2. \A k \in Inputs : <<"prompt", k>> \in Tasks
      BY TaskFacts
    <2>3. \A k \in Inputs : AtAgent(k)' => AtAgent(k) \/ ~(sent[k] > 0)
      BY <2>1, StaysAway
    <2>4. QED
      BY <2>1, <2>2, <2>3, CalmIs, SamePromptEnds
  <1>16. ASSUME StopSent PROVE \A k \in Inputs : Calm(k) \/ (AgentEnds /\ agent.running = k)
    <2>1. /\ agent'.queue = agent.queue /\ agent'.running = agent.running
          /\ told' = told /\ sent' = sent
          /\ \A u \in Tasks : Same(u) /\ answer'[u] \in {answer[u], "none", "lost"}
      BY <1>16, BystandersKeep DEF OthersKeep, AgentKeeps, Silences
    <2>2. \A k \in Inputs : <<"prompt", k>> \in Tasks
      BY TaskFacts
    <2>3. \A k \in Inputs : AtAgent(k)' => AtAgent(k) \/ ~(sent[k] > 0)
      BY <2>1, StaysAway
    <2>4. QED
      BY <2>1, <2>2, <2>3, CalmIs, SamePromptEnds
  <1>17. ASSUME Closed PROVE \A k \in Inputs : Calm(k) \/ (AgentEnds /\ agent.running = k)
    <2>1. /\ agent'.queue = agent.queue /\ agent'.running = agent.running
          /\ told' = told /\ sent' = sent
          /\ \A u \in Tasks : Same(u) /\ answer'[u] \in {answer[u], "none", "lost"}
      BY <1>17, BystandersKeep DEF OthersKeep, AgentKeeps, Silences
    <2>2. \A k \in Inputs : <<"prompt", k>> \in Tasks
      BY TaskFacts
    <2>3. \A k \in Inputs : AtAgent(k)' => AtAgent(k) \/ ~(sent[k] > 0)
      BY <2>1, StaysAway
    <2>4. QED
      BY <2>1, <2>2, <2>3, CalmIs, SamePromptEnds
  <1>18. ASSUME CloseFails PROVE \A k \in Inputs : Calm(k) \/ (AgentEnds /\ agent.running = k)
    <2>1. /\ agent'.queue = agent.queue /\ agent'.running = agent.running
          /\ told' = told /\ sent' = sent
          /\ \A u \in Tasks : Same(u) /\ answer'[u] \in {answer[u], "none", "lost"}
      BY <1>18, BystandersKeep DEF OthersKeep, AgentKeeps, Silences
    <2>2. \A k \in Inputs : <<"prompt", k>> \in Tasks
      BY TaskFacts
    <2>3. \A k \in Inputs : AtAgent(k)' => AtAgent(k) \/ ~(sent[k] > 0)
      BY <2>1, StaysAway
    <2>4. QED
      BY <2>1, <2>2, <2>3, CalmIs, SamePromptEnds
  <1>19. ASSUME Receive PROVE \A k \in Inputs : Calm(k) \/ (AgentEnds /\ agent.running = k)
    <2>1. ReadWorld
      BY <1>19, ReadTakes
    <2>2. /\ told' = told /\ sent' = sent /\ agent' = agent
          /\ \A u \in Tasks : answer'[u] = answer[u] \/ OnWire(u, answer'[u])
      BY <2>1 DEF ReadWorld
    <2>3. \A u \in Tasks : \A how \in PromptEnds : OnWire(u, how)' => OnWire(u, how)
      BY <2>1 DEF ReadWorld, ReadFor, AllEnds
    <2>4. \A n \in Inputs : <<"prompt", n>> \in Tasks
      BY TaskFacts
    <2>5. \A n \in Inputs : AtAgent(n)' => AtAgent(n) \/ ~(sent[n] > 0)
      BY <2>2, StaysAway
    <2>6. QED
      BY <2>2, <2>3, <2>4, <2>5, CalmIs
  <1>20. ASSUME StopConnection PROVE \A k \in Inputs : Calm(k) \/ (AgentEnds /\ agent.running = k)
    <2>1. /\ agent'.queue = agent.queue /\ agent'.running = agent.running
          /\ told' = told /\ sent' = sent
          /\ \A u \in Tasks : Same(u) /\ answer'[u] \in {answer[u], "none", "lost"}
      BY <1>20, BystandersKeep DEF OthersKeep, AgentKeeps, Silences
    <2>2. \A k \in Inputs : <<"prompt", k>> \in Tasks
      BY TaskFacts
    <2>3. \A k \in Inputs : AtAgent(k)' => AtAgent(k) \/ ~(sent[k] > 0)
      BY <2>1, StaysAway
    <2>4. QED
      BY <2>1, <2>2, <2>3, CalmIs, SamePromptEnds
  <1>21. ASSUME ConnectionLost PROVE \A k \in Inputs : Calm(k) \/ (AgentEnds /\ agent.running = k)
    <2>1. /\ agent'.queue = agent.queue /\ agent'.running = agent.running
          /\ told' = told /\ sent' = sent
          /\ \A u \in Tasks : Same(u) /\ answer'[u] \in {answer[u], "none", "lost"}
      BY <1>21, BystandersKeep DEF OthersKeep, AgentKeeps, Silences
    <2>2. \A k \in Inputs : <<"prompt", k>> \in Tasks
      BY TaskFacts
    <2>3. \A k \in Inputs : AtAgent(k)' => AtAgent(k) \/ ~(sent[k] > 0)
      BY <2>1, StaysAway
    <2>4. QED
      BY <2>1, <2>2, <2>3, CalmIs, SamePromptEnds
  <1>22. ASSUME AgentBegins PROVE \A k \in Inputs : Calm(k) \/ (AgentEnds /\ agent.running = k)
    <2>1. BeginsWorld
      BY <1>22, BeginsMoves
    <2>2. PICK n \in Inputs : n \in agent.queue /\ agent'.running = n /\ agent'.queue = agent.queue \ {n}
      BY <2>1 DEF BeginsWorld, AfterBegins
    <2>3. /\ told' = told /\ sent' = sent /\ answer' = answer /\ \A u \in Tasks : Same(u)
      BY <2>1 DEF BeginsWorld, AgentAlone, Silences
    <2>4. \A m \in Inputs : <<"prompt", m>> \in Tasks
      BY TaskFacts
    <2>5. \A m \in Inputs : AtAgent(m)' => AtAgent(m) \/ ~(sent[m] > 0)
      BY <2>2, <2>3, StaysAway
    <2>6. QED
      BY <2>3, <2>4, <2>5, CalmIs, SamePromptEnds
  <1>23. ASSUME AgentEnds PROVE \A k \in Inputs : Calm(k) \/ (AgentEnds /\ agent.running = k)
    <2>1. PICK n \in Inputs : n = agent.running /\ EndsWorld
      BY <1>23, EndsMoves DEF EndsWorld
    <2>2. /\ sent' = sent /\ answer' = answer /\ agent'.running = 0 /\ agent'.queue = agent.queue
      BY <2>1 DEF EndsWorld, AgentAlone, AfterEnds
    <2>3. \A m \in Inputs : m # n => told'[m] = told[m]
      BY <2>1 DEF EndsWorld
    <2>4. \A m \in Inputs : <<"prompt", m>> \in Tasks /\ (m # n => <<"prompt", m>> # <<"prompt", n>>)
      BY TaskFacts
    <2>5. \A m \in Inputs : m # n => Same(<<"prompt", m>>)
      BY <2>1, <2>4 DEF EndsWorld, Tells, Silences
    <2>6. \A m \in Inputs : AtAgent(m)' => AtAgent(m) \/ ~(sent[m] > 0)
      <3>1. \A m \in Inputs : m # 0
        BY DEF Inputs
      <3>2. QED
        BY <2>2, <3>1, StaysAway
    <2>7. \A m \in Inputs : m # n => Calm(m)
      BY <2>2, <2>3, <2>4, <2>5, <2>6, CalmIs, SamePromptEnds
    <2>8. QED
      BY <1>23, <2>1, <2>7
  <1>24. ASSUME AgentAnnounces PROVE \A k \in Inputs : Calm(k) \/ (AgentEnds /\ agent.running = k)
    <2>1. /\ agent'.queue = agent.queue /\ agent'.running = agent.running
          /\ told' = told /\ sent' = sent
          /\ \A u \in Tasks : Same(u) /\ answer'[u] \in {answer[u], "none", "lost"}
      BY <1>24, AnnouncesMoves DEF AnnouncesWorld, AfterAnnounces, AgentAlone, Silences
    <2>2. \A k \in Inputs : <<"prompt", k>> \in Tasks
      BY TaskFacts
    <2>3. \A k \in Inputs : AtAgent(k)' => AtAgent(k) \/ ~(sent[k] > 0)
      BY <2>1, StaysAway
    <2>4. QED
      BY <2>1, <2>2, <2>3, CalmIs, SamePromptEnds
  <1>25. ASSUME NEW n \in Inputs, AgentConsumes(n)
         PROVE  \A k \in Inputs : Calm(k) \/ (AgentEnds /\ agent.running = k)
    <2>1. ConsumesWorld(n)
      BY <1>25, ConsumesMoves
    <2>2. sent[n] = 0
      BY <2>1 DEF ConsumesWorld, AfterConsumes, OnceInv
    <2>3. /\ told' = told /\ sent' = sent /\ answer' = answer /\ \A u \in Tasks : Same(u)
          /\ agent'.queue = agent.queue /\ agent'.running \in {n, agent.running}
      BY <2>1 DEF ConsumesWorld, AgentAlone, Silences, AfterConsumes, Consults
    <2>4. \A m \in Inputs : <<"prompt", m>> \in Tasks
      BY TaskFacts
    <2>5. \A m \in Inputs : AtAgent(m)' => AtAgent(m) \/ ~(sent[m] > 0)
      BY <2>2, <2>3, StaysAway
    <2>6. QED
      BY <2>3, <2>4, <2>5, CalmIs, SamePromptEnds
  <1>26. ASSUME NEW n \in Inputs, AgentAnswers(n)
         PROVE  \A k \in Inputs : Calm(k) \/ (AgentEnds /\ agent.running = k)
    <2>1. PICK how \in SteerEnds : AnswersWorld(n, how)
      BY <1>26, AnswersMoves
    <2>2. /\ told' = told /\ sent' = sent /\ answer' = answer
          /\ agent'.queue = agent.queue /\ agent'.running = agent.running
      BY <2>1 DEF AnswersWorld, AgentAlone, Consults
    <2>3. \A m \in Inputs : <<"prompt", m>> \in Tasks /\ <<"prompt", m>> # <<"steer", n>>
      BY TaskFacts
    <2>4. \A m \in Inputs : Same(<<"prompt", m>>)
      BY <2>1, <2>3 DEF AnswersWorld, Replies, Tells
    <2>5. \A m \in Inputs : AtAgent(m)' => AtAgent(m) \/ ~(sent[m] > 0)
      BY <2>2, StaysAway
    <2>6. QED
      BY <2>2, <2>3, <2>4, <2>5, CalmIs, SamePromptEnds
  <1>27. ASSUME UNCHANGED <<answer, agent, wire, sent, told>> PROVE \A n \in Inputs :
           Calm(n) \/ (AgentEnds /\ agent.running = n)
    <2>1. \A u \in Tasks : Same(u)
      BY <1>27, UnwrittenWire DEF Silences
    <2>2. \A k \in Inputs : <<"prompt", k>> \in Tasks
      BY TaskFacts
    <2>3. \A k \in Inputs : AtAgent(k)' => AtAgent(k) \/ ~(sent[k] > 0)
      BY <1>27, StaysAway
    <2>4. QED
      BY <1>27, <2>1, <2>2, <2>3, CalmIs, SamePromptEnds
  <1> QED
    BY <1>1, <1>2, <1>3, <1>4, <1>5, <1>6, <1>7, <1>8, <1>9, <1>10, <1>11, <1>12, <1>13,
       <1>14, <1>15, <1>16, <1>17, <1>18, <1>19, <1>20, <1>21, <1>22, <1>23, <1>24, <1>25,
       <1>26, <1>27
       DEF Next, User, Settling, Task, AgentNext, vars, taskVars, logVars

\* A turn that has completed stays so.
KeepsCompleted == \A m \in Inputs : thread.outcome[m] = "completed" => thread'.outcome[m] = "completed"
\* A turn completes with the answer end_turn to its prompt.
CompletesBy(n) == thread.outcome[n] = "completed" \/ answer[<<"prompt", n>>] = "end_turn"
Completes == \A m \in Inputs : thread'.outcome[m] = "completed" => CompletesBy(m)

\* The tail of an update completes nothing.
LEMMA EvolvesCompletes ==
  ASSUME NEW m \in Inputs, Evolves(m)
  PROVE  thread.outcome[m] = "completed" <=> thread'.outcome[m] = "completed"
  BY DEF Evolves

\* No step but the result of its prompt completes a turn.
LEMMA CompletesStep ==
  Typed /\ FreshInv /\ LeavesInv /\ TurnInv /\ StatusInv /\ [Next]_vars
    => KeepsCompleted /\ Completes
  <1> SUFFICES ASSUME Typed, FreshInv, LeavesInv, TurnInv, StatusInv, [Next]_vars
               PROVE  KeepsCompleted /\ Completes
    OBVIOUS
  <1>1. ASSUME Prompt PROVE KeepsCompleted /\ Completes
    <2>1. PICK n \in Inputs : n = inputs + 1 /\ thread'.outcome[n] = "in_progress"
                 /\ \A m \in Inputs \ {n} : thread'.outcome[m] = thread.outcome[m]
      BY <1>1, PromptDoes DEF AfterPrompt, Begins
    <2>2. inputs \in Nat /\ thread.last <= inputs /\ thread.last \in Nat
      <3>1. inputs \in Nat
        BY TypeSplit DEF PlacesOK
      <3>2. thread.last \in Nat
        BY DEF Typed, TypeOK, Snapshot
      <3>3. QED
        BY <3>1, <3>2 DEF FreshInv
    <2>3. thread.outcome[n] = "none"
      <3>1. ~(n <= thread.last)
        BY <2>1, <2>2
      <3>2. QED
        BY <3>1 DEF TurnInv
    <2>4. QED
      BY <2>1, <2>3 DEF KeepsCompleted, Completes, CompletesBy
  <1>2. ASSUME PromptUnsaved PROVE KeepsCompleted /\ Completes
    <2>1. \A m \in Inputs : Evolves(m)
      BY <1>2, PromptUnsavedDoes DEF Unmoved, Evolves
    <2>2. QED
      BY <2>1, EvolvesCompletes DEF KeepsCompleted, Completes, CompletesBy
  <1>3. ASSUME Steer PROVE KeepsCompleted /\ Completes
    <2>1. \A m \in Inputs : Evolves(m)
      BY <1>3, SteerDoes DEF AfterSteer, Evolves
    <2>2. QED
      BY <2>1, EvolvesCompletes DEF KeepsCompleted, Completes, CompletesBy
  <1>4. ASSUME Stop PROVE KeepsCompleted /\ Completes
    <2>1. \A m \in Inputs : Evolves(m)
      BY <1>4, StopDoes DEF AfterStop, GivenUp, Evolves
    <2>2. QED
      BY <2>1, EvolvesCompletes DEF KeepsCompleted, Completes, CompletesBy
  <1>5. ASSUME Reopen PROVE KeepsCompleted /\ Completes
    <2>1. \A m \in Inputs : Evolves(m)
      BY <1>5, ReopenDoes DEF Anew, Evolves
    <2>2. QED
      BY <2>1, EvolvesCompletes DEF KeepsCompleted, Completes, CompletesBy
  <1>6. ASSUME NEW n \in Inputs, PromptResult(n) PROVE KeepsCompleted /\ Completes
    <2>1. /\ thread.active = n /\ \A m \in Inputs \ {n} : Evolves(m)
          /\ thread'.outcome[n] = "completed" => answer[<<"prompt", n>>] = "end_turn"
      BY <1>6, PromptResultDoes, ResultTakes DEF AfterResult
    <2>2. thread.outcome[n] # "completed"
      <3>1. n # 0
        BY DEF Inputs
      <3>2. QED
        BY <2>1, <3>1 DEF TurnInv
    <2>3. QED
      BY <2>1, <2>2, EvolvesCompletes DEF KeepsCompleted, Completes, CompletesBy
  <1>7. ASSUME NEW n \in Inputs, SteerAnswer(n) PROVE KeepsCompleted /\ Completes
    <2>1. /\ thread.pending.id = n /\ \A m \in Inputs \ {n} : Evolves(m)
          /\ Evolves(n) \/ thread'.outcome[n] # "completed"
      BY <1>7, SteerAnswerDoes DEF AfterAnswer
    <2>2. thread.outcome[n] = "none"
      <3>1. thread.last < n /\ thread.last \in Nat /\ n \in Nat
        BY <2>1 DEF TurnInv, Typed, TypeOK, Snapshot, Inputs
      <3>2. ~(n <= thread.last)
        BY <3>1
      <3>3. QED
        BY <3>2 DEF TurnInv
    <2>3. QED
      BY <2>1, <2>2, EvolvesCompletes DEF KeepsCompleted, Completes, CompletesBy
  <1>8. ASSUME NEW t \in Tasks, FallbackStart(t) PROVE KeepsCompleted /\ Completes
    <2>1. PICK n \in Inputs : thread.pending.id = n /\ thread'.outcome[n] = "in_progress"
                 /\ \A m \in Inputs \ {n} : thread'.outcome[m] = thread.outcome[m]
      BY <1>8, FallbackStartDoes DEF AfterFallback
    <2>2. thread.outcome[n] = "none"
      <3>1. thread.last < n /\ thread.last \in Nat /\ n \in Nat
        BY <2>1 DEF TurnInv, Typed, TypeOK, Snapshot, Inputs
      <3>2. ~(n <= thread.last)
        BY <3>1
      <3>3. QED
        BY <3>2 DEF TurnInv
    <2>3. QED
      BY <2>1, <2>2 DEF KeepsCompleted, Completes, CompletesBy
  <1>9. ASSUME NEW t \in Tasks, FallbackRefused(t) PROVE KeepsCompleted /\ Completes
    <2>1. \A m \in Inputs : Evolves(m)
      BY <1>9, FallbackRefusedDoes DEF AfterRefusal, GivenUp, Evolves
    <2>2. QED
      BY <2>1, EvolvesCompletes DEF KeepsCompleted, Completes, CompletesBy
  <1>10. ASSUME Closed PROVE KeepsCompleted /\ Completes
    <2>1. \A m \in Inputs : Evolves(m)
      BY <1>10, ClosedDoes DEF AfterSilence, Evolves
    <2>2. QED
      BY <2>1, EvolvesCompletes DEF KeepsCompleted, Completes, CompletesBy
  <1>11. ASSUME Receive PROVE KeepsCompleted /\ Completes
    <2>1. CASE thread' = thread
      BY <2>1 DEF KeepsCompleted, Completes, CompletesBy
    <2>2. CASE \E a \in Activities : AfterReport(a)
      <3>1. PICK a \in Activities : AfterReport(a)
        BY <2>2
      <3>2. CASE thread.detached /\ thread.detachedActive /\ a # "active"
        <4>1. /\ thread'.outcome[thread.last] # "completed"
              /\ \A m \in Inputs \ {thread.last} : Evolves(m)
          BY <3>1, <3>2 DEF AfterReport
        <4>2. thread.outcome[thread.last] # "completed"
          BY <3>2 DEF TurnInv
        <4>3. QED
          BY <4>1, <4>2, EvolvesCompletes DEF KeepsCompleted, Completes, CompletesBy
      <3>3. CASE ~(thread.detached /\ thread.detachedActive /\ a # "active")
        BY <3>1, <3>3 DEF AfterReport, KeepsCompleted, Completes, CompletesBy
      <3>4. QED
        BY <3>2, <3>3
    <2>3. QED
      BY <1>11, <2>1, <2>2, ReadDoes DEF AfterRead
  <1>12. ASSUME ConnectionLost PROVE KeepsCompleted /\ Completes
    <2>1. \A m \in Inputs : Evolves(m)
      <3>1. CASE route
        BY <1>12, <3>1, ConnectionLostDoes DEF AfterSilence
      <3>2. CASE ~route
        BY <1>12, <3>2, ConnectionLostDoes DEF Evolves
      <3>3. QED
        BY <3>1, <3>2
    <2>2. QED
      BY <2>1, EvolvesCompletes DEF KeepsCompleted, Completes, CompletesBy
  <1>13. ASSUME UNCHANGED thread PROVE KeepsCompleted /\ Completes
    BY <1>13
       DEF KeepsCompleted, Completes, CompletesBy
  <1> QED
    BY <1>1, <1>2, <1>3, <1>4, <1>5, <1>6, <1>7, <1>8, <1>9, <1>10, <1>11, <1>12, <1>13
       DEF Next, User, Settling, Task, AgentNext, Close, Break, PromptResultLate,
           SteerAnswerLate, CancelAgain, Peek, StopSent, CloseFails, StopConnection,
           AgentBegins, AgentEnds, AgentAnnounces, AgentConsumes, AgentAnswers, SendCancel,
           Goto, AgentStep, AgentFrame, vars, taskVars, logVars

\* A completed turn is what its prompt was answered.
LEMMA ToldStep ==
  Typed /\ FreshInv /\ MailInv /\ OnceInv /\ LeavesInv /\ TurnInv /\ StatusInv /\ ToldInv /\ [Next]_vars
    => ToldInv'
  <1> SUFFICES ASSUME Typed, FreshInv, MailInv, OnceInv, LeavesInv, TurnInv, StatusInv, ToldInv,
                      [Next]_vars
               PROVE  ToldInv'
    OBVIOUS
  <1> CompletedByItsOwn /\ \A n \in Inputs : ToldOf(n)
    BY ToldSplit
  <1>1. \A k \in Inputs : Calm(k) \/ (AgentEnds /\ agent.running = k)
    BY CalmStep
  <1>2. \A m \in Inputs : thread'.outcome[m] = "completed" => told[m] = "end_turn"
    <2>1. KeepsCompleted /\ Completes
      BY CompletesStep
    <2>2. "end_turn" \in PromptEnds
      BY DEF PromptEnds
    <2>3. QED
      BY <2>1, <2>2 DEF Completes, CompletesBy, CompletedByItsOwn, ToldOf, Heard
  <1>3. ASSUME NEW n \in Inputs, Calm(n)
        PROVE  ToldOf(n)' /\ (thread'.outcome[n] = "completed" => told'[n] = "end_turn")
    <2>1. sent[n] > 0 \/ told[n] = "none"
      BY DEF ToldOf
    <2>2. QED
      BY <1>2, <1>3, <2>1 DEF Calm, ToldOf
  <1>4. ASSUME NEW n \in Inputs, AgentEnds, agent.running = n
        PROVE  ToldOf(n)' /\ (thread'.outcome[n] = "completed" => told'[n] = "end_turn")
    <2>1. EndsWorld
      BY <1>4, EndsMoves
    <2>2. /\ sent' = sent /\ answer' = answer /\ thread' = thread /\ agent'.running = 0
          /\ agent'.queue = agent.queue /\ agent.running \notin agent.queue
      BY <2>1 DEF EndsWorld, AgentAlone, AfterEnds, MailInv
    <2>3. <<"prompt", n>> \in Tasks
      BY TaskFacts
    <2>4. ~AtAgent(n)'
      <3>1. n # 0
        BY DEF Inputs
      <3>2. QED
        BY <1>4, <2>2, <3>1 DEF AtAgent
    <2>5. CASE sent[n] > 0
      <3>1. PICK how \in PromptEnds : Tells(<<"prompt", n>>, how) /\ told'[n] = how
        BY <1>4, <2>1, <2>5 DEF EndsWorld
      <3>2. AtAgent(n)
        BY <1>4, <2>5 DEF AtAgent
      <3>3. answer[<<"prompt", n>>] = "none" /\ ~Wired(<<"prompt", n>>) /\ told[n] = "none"
        BY <3>2 DEF MailInv, Expects, ToldOf
      <3>4. "none" \notin PromptEnds
        BY DEF PromptEnds
      <3>5. \A h \in PromptEnds : Heard(n, h)' => h = how
        <4>1. \A h \in AllEnds : OnWire(<<"prompt", n>>, h)' => OnWire(<<"prompt", n>>, h) \/ h = how
          BY <3>1, <2>3 DEF Tells
        <4>2. QED
          BY <2>2, <3>3, <3>4, <4>1, OnWireWired DEF Heard, AllEnds
      <3>6. ToldOf(n)'
        BY <2>2, <2>4, <2>5, <3>1, <3>5 DEF ToldOf
      <3>7. thread.outcome[n] # "completed"
        BY <3>3 DEF CompletedByItsOwn
      <3>8. QED
        BY <2>2, <3>6, <3>7
    <2>6. CASE ~(sent[n] > 0)
      <3>1. Same(<<"prompt", n>>) /\ told' = told
        BY <1>4, <2>1, <2>3, <2>6 DEF EndsWorld, Silences
      <3>2. \A h \in PromptEnds : Heard(n, h)' => Heard(n, h)
        BY <2>2, <2>3, <3>1, SamePromptEnds DEF Heard
      <3>3. QED
        BY <1>2, <2>2, <2>4, <3>1, <3>2 DEF ToldOf
    <2>7. QED
      BY <2>5, <2>6
  <1>5. \A n \in Inputs : ToldOf(n)' /\ (thread'.outcome[n] = "completed" => told'[n] = "end_turn")
    BY <1>1, <1>3, <1>4
  <1>6. CompletedByItsOwn'
    BY <1>5 DEF CompletedByItsOwn
  <1>7. CompletedByItsOwn' /\ (\A n \in Inputs : ToldOf(n))' => ToldInv'
    BY ToldSplit, PTL
  <1>8. (\A n \in Inputs : ToldOf(n))'
    BY <1>5
  <1>9. QED
    BY <1>6, <1>7, <1>8

-----------------------------------------------------------------------------
(* What the host hears *)

\* Nothing is reported, and what is left to report stays or goes.
LEMMA ReportKept ==
  ASSUME ReportInv, KeepsCompleted, reported' = reported,
         thread'.completion \in {0, thread.completion},
         thread.completion \in 0..MaxInputs
  PROVE  ReportInv'
  <1>1. thread.completion # 0 => thread.completion \in Inputs
    BY DEF Inputs
  <1>2. ReportedOnce'
    BY DEF ReportInv, ReportedOnce, KeepsCompleted
  <1>3. thread'.completion # 0 =>
          thread'.outcome[thread'.completion] = "completed" /\ reported'[thread'.completion] = 0
    BY <1>1 DEF ReportInv, KeepsCompleted
  <1>4. QED
    BY <1>2, <1>3 DEF ReportInv

\* One turn is reported that was not.
LEMMA ReportOf ==
  ASSUME ReportInv, KeepsCompleted, NEW n \in Inputs, reported \in [Inputs -> Nat],
         reported[n] = 0, thread'.outcome[n] = "completed",
         \A m \in Inputs : reported'[m] = IF m = n THEN reported[m] + 1 ELSE reported[m]
  PROVE  ReportedOnce'
  <1>1. ASSUME NEW m \in Inputs
        PROVE  reported'[m] <= 1 /\ (reported'[m] = 1 => thread'.outcome[m] = "completed")
    BY <1>1 DEF ReportInv, ReportedOnce, KeepsCompleted
  <1>2. QED
    BY <1>1 DEF ReportedOnce

\* A turn is reported when it has completed, and once.
LEMMA ReportStep ==
  Typed /\ FreshInv /\ LeavesInv /\ TurnInv /\ StatusInv /\ ReportInv /\ [Next]_vars
    => ReportInv'
  <1> SUFFICES ASSUME Typed, FreshInv, LeavesInv, TurnInv, StatusInv, ReportInv, [Next]_vars
               PROVE  ReportInv'
    OBVIOUS
  <1>99. KeepsCompleted /\ Completes
    BY CompletesStep
  <1>98. thread.completion \in 0..MaxInputs
    BY DEF Typed, TypeOK, Snapshot
  <1>97. reported \in [Inputs -> Nat]
    BY DEF Typed, WorldOK
  <1>1. ASSUME Prompt PROVE ReportInv'
    <2>1. reported' = reported /\ thread'.completion \in {0, thread.completion}
      BY <1>1, PromptSends, PromptDoes DEF PromptWorld, AfterPrompt, Begins
    <2>2. QED
      BY <1>98, <1>99, <2>1, ReportKept
  <1>2. ASSUME PromptUnsaved PROVE ReportInv'
    <2>1. reported' = reported /\ thread'.completion \in {0, thread.completion}
      BY <1>2, BystandersKeep, PromptUnsavedDoes DEF OthersKeep, Unmoved
    <2>2. QED
      BY <1>98, <1>99, <2>1, ReportKept
  <1>3. ASSUME Steer PROVE ReportInv'
    <2>1. reported' = reported /\ thread'.completion \in {0, thread.completion}
      BY <1>3, SteerSends, SteerDoes DEF SteerWorld, AfterSteer
    <2>2. QED
      BY <1>98, <1>99, <2>1, ReportKept
  <1>4. ASSUME Stop PROVE ReportInv'
    <2>1. reported' = reported /\ thread'.completion \in {0, thread.completion}
      BY <1>4, BystandersKeep, StopDoes DEF OthersKeep, AfterStop, GivenUp
    <2>2. QED
      BY <1>98, <1>99, <2>1, ReportKept
  <1>5. ASSUME Reopen PROVE ReportInv'
    <2>1. reported' = reported /\ thread'.completion \in {0, thread.completion}
      BY <1>5, BystandersKeep, ReopenDoes DEF OthersKeep, Anew
    <2>2. QED
      BY <1>98, <1>99, <2>1, ReportKept
  <1>6. ASSUME NEW n \in Inputs, PromptResult(n) PROVE ReportInv'
    <2>1. AfterResult(n) /\ thread.active = n
      BY <1>6, PromptResultDoes, ResultTakes
    <2>2. thread.outcome[n] # "completed"
      <3>1. n # 0
        BY DEF Inputs
      <3>2. QED
        BY <2>1, <3>1 DEF TurnInv
    <2>3. reported[n] = 0 /\ thread.completion # n
      <3>1. reported[n] \in Nat /\ reported[n] <= 1 /\ reported[n] # 1
        BY <1>97, <2>2 DEF ReportInv, ReportedOnce
      <3>2. thread.completion # n
        <4>1. n # 0
          BY DEF Inputs
        <4>2. QED
          BY <2>2, <4>1 DEF ReportInv
      <3>3. QED
        BY <3>1, <3>2
    <2>4. CASE reported' = reported
      <3>1. ReportedOnce'
        BY <1>99, <2>4 DEF ReportInv, ReportedOnce, KeepsCompleted
      <3>2. \/ thread'.completion \in {0, thread.completion}
            \/ thread'.completion = n /\ thread'.outcome[n] = "completed"
        BY <2>1 DEF AfterResult
      <3>3. CASE thread'.completion \in {0, thread.completion}
        BY <1>98, <1>99, <2>4, <3>3, ReportKept
      <3>4. CASE thread'.completion = n /\ thread'.outcome[n] = "completed"
        BY <2>3, <2>4, <3>1, <3>4 DEF ReportInv
      <3>5. QED
        BY <3>2, <3>3, <3>4
    <2>5. CASE reported' # reported
      <3>1. /\ answer[<<"prompt", n>>] = "end_turn" /\ ~HasPending(thread)
            /\ reported' = [reported EXCEPT ![n] = @ + 1]
        BY <2>1, <2>5 DEF AfterResult
      <3>2. thread'.completion = thread.completion /\ thread'.outcome[n] = "completed"
        BY <2>1, <3>1 DEF AfterResult
      <3>3. \A m \in Inputs : reported'[m] = IF m = n THEN reported[m] + 1 ELSE reported[m]
        BY <1>97, <3>1
      <3>4. ReportedOnce'
        BY <1>97, <1>99, <2>3, <3>2, <3>3, ReportOf
      <3>5. thread.completion # 0 =>
              /\ thread'.outcome[thread.completion] = "completed" /\ reported'[thread.completion] = 0
        <4>1. thread.completion # 0 => thread.completion \in Inputs
          BY <1>98 DEF Inputs
        <4>2. QED
          BY <1>99, <2>3, <3>3, <4>1 DEF ReportInv, KeepsCompleted
      <3>6. QED
        BY <3>2, <3>4, <3>5 DEF ReportInv
    <2>6. QED
      BY <2>4, <2>5
  <1>7. ASSUME NEW n \in Inputs, SteerAnswer(n) PROVE ReportInv'
    <2>1. /\ thread'.completion = 0
          /\ reported' = [m \in Inputs |-> IF m = thread.completion THEN reported[m] + 1 ELSE reported[m]]
      BY <1>7, SteerAnswerDoes DEF AfterAnswer
    <2>2. CASE thread.completion = 0
      <3>1. \A m \in Inputs : reported'[m] = reported[m]
        <4>1. \A m \in Inputs : m # thread.completion
          BY <2>2 DEF Inputs
        <4>2. QED
          BY <2>1, <4>1
      <3>2. ReportedOnce'
        BY <1>99, <3>1 DEF ReportInv, ReportedOnce, KeepsCompleted
      <3>3. QED
        BY <2>1, <3>2 DEF ReportInv
    <2>3. CASE thread.completion # 0
      <3>1. PICK c \in Inputs : c = thread.completion
        BY <1>98, <2>3 DEF Inputs
      <3>2. reported[c] = 0 /\ thread'.outcome[c] = "completed"
        BY <1>99, <2>3, <3>1 DEF ReportInv, KeepsCompleted
      <3>3. \A m \in Inputs : reported'[m] = IF m = c THEN reported[m] + 1 ELSE reported[m]
        BY <2>1, <3>1
      <3>4. ReportedOnce'
        BY <1>97, <1>99, <3>2, <3>3, ReportOf
      <3>5. QED
        BY <2>1, <3>4 DEF ReportInv
    <2>4. QED
      BY <2>2, <2>3
  <1>8. ASSUME NEW t \in Tasks, FallbackStart(t) PROVE ReportInv'
    <2>1. reported' = reported /\ thread'.completion \in {0, thread.completion}
      BY <1>8, FallbackSends, FallbackStartDoes DEF FallbackWorld, AfterFallback
    <2>2. QED
      BY <1>98, <1>99, <2>1, ReportKept
  <1>9. ASSUME NEW t \in Tasks, FallbackRefused(t) PROVE ReportInv'
    <2>1. reported' = reported /\ thread'.completion \in {0, thread.completion}
      BY <1>9, RefusedTakes, FallbackRefusedDoes DEF RefusedWorld, AfterRefusal, GivenUp
    <2>2. QED
      BY <1>98, <1>99, <2>1, ReportKept
  <1>10. ASSUME Closed PROVE ReportInv'
    <2>1. reported' = reported /\ thread'.completion \in {0, thread.completion}
      BY <1>10, BystandersKeep, ClosedDoes DEF OthersKeep, AfterSilence
    <2>2. QED
      BY <1>98, <1>99, <2>1, ReportKept
  <1>11. ASSUME Receive PROVE ReportInv'
    <2>1. reported' = reported
      BY <1>11, ReadTakes DEF ReadWorld
    <2>2. thread'.completion \in {0, thread.completion}
      <3>1. thread' = thread \/ \E a \in Activities : AfterReport(a)
        BY <1>11, ReadDoes DEF AfterRead
      <3>2. QED
        BY <3>1 DEF AfterReport
    <2>3. QED
      BY <1>98, <1>99, <2>1, <2>2, ReportKept
  <1>12. ASSUME ConnectionLost PROVE ReportInv'
    <2>1. reported' = reported
      BY <1>12, BystandersKeep DEF OthersKeep
    <2>2. thread'.completion \in {0, thread.completion}
      <3>1. CASE route
        BY <1>12, <3>1, ConnectionLostDoes DEF AfterSilence
      <3>2. CASE ~route
        BY <1>12, <3>2, ConnectionLostDoes
      <3>3. QED
        BY <3>1, <3>2
    <2>3. QED
      BY <1>98, <1>99, <2>1, <2>2, ReportKept
  <1>13. ASSUME UNCHANGED <<thread, reported>> PROVE ReportInv'
    <2>1. reported' = reported /\ thread'.completion \in {0, thread.completion}
      BY <1>13
    <2>2. QED
      BY <1>98, <1>99, <2>1, ReportKept
  <1> QED
    BY <1>1, <1>2, <1>3, <1>4, <1>5, <1>6, <1>7, <1>8, <1>9, <1>10, <1>11, <1>12, <1>13
       DEF Next, User, Settling, Task, AgentNext, Close, Break, PromptResultLate,
           SteerAnswerLate, CancelAgain, Peek, StopSent, CloseFails, StopConnection,
           AgentBegins, AgentEnds, AgentAnnounces, AgentConsumes, AgentAnswers, SendCancel,
           Goto, AgentStep, AgentFrame, vars, taskVars, logVars

-----------------------------------------------------------------------------
(* What the agent reports *)

\* What the agent writes in one step: an agent that reports announces a turn and its end.
Writes(s) ==
    /\ agent.reports = "never" => \A i \in 1..Len(s) : s[i].kind # "activity"
    /\ (\E i \in 1..Len(s) : s[i].what = "active") => Announced'
    /\ Announced => \/ Announced' \/ agent.reports = "never"
                    \/ \E i \in 1..Len(s) : s[i].kind = "activity" /\ s[i].what # "active"

WireKeeps == wire' = wire /\ (Announced => Announced')
WireReads == Receive /\ ReadOne /\ agent' = agent
WireBreaks == Len(wire') = 0 /\ link' # "up"
WireGrows == \E s : Wrote(s) /\ Writes(s)

\* A report of activity in what is written.
LEMMA ReportWrites ==
  ASSUME Typed, NEW what \in Activities, wire' = wire \o Reports(agent, what),
         IF what = "active" THEN Announced' ELSE TRUE
  PROVE  WireGrows
  <1> DEFINE s == Reports(agent, what)
  <1>1. Wrote(s) /\ \A i \in 1..Len(s) : s[i] = Activity(what)
    BY ReportWritten
  <1>2. /\ Activity(what).kind = "activity" /\ Activity(what).what = what
        /\ agent.reports = "never" => Len(s) = 0
        /\ agent.reports # "never" => Len(s) = 1
    BY ReportType
  <1> HIDE DEF s
  <1>3. agent.reports = "never" => \A i \in 1..Len(s) : s[i].kind # "activity"
    BY <1>2
  <1>4. (\E i \in 1..Len(s) : s[i].what = "active") => Announced'
    BY <1>1, <1>2
  <1>5. \/ Announced' \/ agent.reports = "never"
        \/ \E i \in 1..Len(s) : s[i].kind = "activity" /\ s[i].what # "active"
    <2>1. CASE what = "active"
      BY <2>1
    <2>2. CASE what # "active" /\ agent.reports # "never"
      <3>1. Len(s) = 1 /\ 1 \in 1..1
        BY <1>2, <2>2
      <3>2. QED
        BY <1>1, <1>2, <2>2, <3>1
    <2>3. QED
      BY <2>1, <2>2
  <1>6. Writes(s)
    BY <1>3, <1>4, <1>5 DEF Writes
  <1>7. QED
    BY <1>1, <1>6 DEF WireGrows

\* The agent has a turn that it has announced, or not, as before.
LEMMA AnnouncedKept ==
  ASSUME agent'.running = agent.running, agent'.announced = agent.announced
  PROVE  Announced' <=> Announced
  BY DEF Announced

\* The wire stays, loses its head, breaks, or grows by what the agent reports.
LEMMA WireStep ==
  Typed /\ TurnInv /\ StatusInv /\ [Next]_vars
    => WireKeeps \/ WireReads \/ WireBreaks \/ WireGrows
  <1> SUFFICES ASSUME Typed, TurnInv, StatusInv, [Next]_vars
               PROVE  WireKeeps \/ WireReads \/ WireBreaks \/ WireGrows
    OBVIOUS
  <1>1. ASSUME Prompt PROVE WireKeeps \/ WireReads \/ WireBreaks \/ WireGrows
    <2>1. /\ wire' = wire /\ agent'.running = agent.running
          /\ agent'.announced = agent.announced
      BY <1>1, PromptSends DEF PromptWorld, Queued
    <2>2. QED
      BY <2>1, AnnouncedKept DEF WireKeeps
  <1>2. ASSUME PromptUnsaved PROVE WireKeeps \/ WireReads \/ WireBreaks \/ WireGrows
    <2>1. /\ wire' = wire /\ agent'.running = agent.running
          /\ agent'.announced = agent.announced
      BY <1>2, BystandersKeep DEF OthersKeep, AgentKeeps
    <2>2. QED
      BY <2>1, AnnouncedKept DEF WireKeeps
  <1>3. ASSUME Steer PROVE WireKeeps \/ WireReads \/ WireBreaks \/ WireGrows
    <2>1. /\ wire' = wire /\ agent'.running = agent.running
          /\ agent'.announced = agent.announced
      BY <1>3, SteerSends DEF SteerWorld
    <2>2. QED
      BY <2>1, AnnouncedKept DEF WireKeeps
  <1>4. ASSUME Stop PROVE WireKeeps \/ WireReads \/ WireBreaks \/ WireGrows
    <2>1. /\ wire' = wire /\ agent'.running = agent.running
          /\ agent'.announced = agent.announced
      BY <1>4, BystandersKeep DEF OthersKeep, AgentKeeps
    <2>2. QED
      BY <2>1, AnnouncedKept DEF WireKeeps
  <1>5. ASSUME Close PROVE WireKeeps \/ WireReads \/ WireBreaks \/ WireGrows
    <2>1. /\ wire' = wire /\ agent'.running = agent.running
          /\ agent'.announced = agent.announced
      BY <1>5, BystandersKeep DEF OthersKeep, AgentKeeps
    <2>2. QED
      BY <2>1, AnnouncedKept DEF WireKeeps
  <1>6. ASSUME Reopen PROVE WireKeeps \/ WireReads \/ WireBreaks \/ WireGrows
    <2>1. /\ wire' = wire /\ agent'.running = agent.running
          /\ agent'.announced = agent.announced
      BY <1>6, BystandersKeep DEF OthersKeep, AgentKeeps
    <2>2. QED
      BY <2>1, AnnouncedKept DEF WireKeeps
  <1>7. ASSUME Break PROVE WireKeeps \/ WireReads \/ WireBreaks \/ WireGrows
    <2>1. Len(wire') = 0 /\ link' = "broken"
      BY <1>7, BreakDoes DEF BreakWorld
    <2>2. QED
      BY <2>1 DEF WireBreaks
  <1>8. ASSUME NEW n \in Inputs, PromptResult(n)
        PROVE  WireKeeps \/ WireReads \/ WireBreaks \/ WireGrows
    <2>1. /\ wire' = wire /\ agent'.running = agent.running
          /\ agent'.announced = agent.announced
      BY <1>8, ResultTakes DEF ResultWorld, TaskWorld
    <2>2. QED
      BY <2>1, AnnouncedKept DEF WireKeeps
  <1>9. ASSUME NEW n \in Inputs, PromptResultLate(n)
        PROVE  WireKeeps \/ WireReads \/ WireBreaks \/ WireGrows
    <2>1. /\ wire' = wire /\ agent'.running = agent.running
          /\ agent'.announced = agent.announced
      BY <1>9, ResultTakes DEF ResultWorld, TaskWorld
    <2>2. QED
      BY <2>1, AnnouncedKept DEF WireKeeps
  <1>10. ASSUME NEW n \in Inputs, SteerAnswer(n)
         PROVE  WireKeeps \/ WireReads \/ WireBreaks \/ WireGrows
    <2>1. /\ wire' = wire /\ agent'.running = agent.running
          /\ agent'.announced = agent.announced
      BY <1>10, AnswerTakes DEF AnswerWorld, TaskWorld
    <2>2. QED
      BY <2>1, AnnouncedKept DEF WireKeeps
  <1>11. ASSUME NEW n \in Inputs, SteerAnswerLate(n)
         PROVE  WireKeeps \/ WireReads \/ WireBreaks \/ WireGrows
    <2>1. /\ wire' = wire /\ agent'.running = agent.running
          /\ agent'.announced = agent.announced
      BY <1>11, AnswerTakes DEF AnswerWorld, TaskWorld
    <2>2. QED
      BY <2>1, AnnouncedKept DEF WireKeeps
  <1>12. ASSUME NEW n \in Inputs, CancelAgain(n)
         PROVE  WireKeeps \/ WireReads \/ WireBreaks \/ WireGrows
    <2>1. /\ wire' = wire /\ agent'.running = agent.running
          /\ agent'.announced = agent.announced
      BY <1>12, CancelTakes DEF AgentKeeps, TaskWorld
    <2>2. QED
      BY <2>1, AnnouncedKept DEF WireKeeps
  <1>13. ASSUME NEW t \in Tasks, Peek(t) PROVE WireKeeps \/ WireReads \/ WireBreaks \/ WireGrows
    <2>1. /\ wire' = wire /\ agent'.running = agent.running
          /\ agent'.announced = agent.announced
      BY <1>13, PeekLooks DEF PeekWorld
    <2>2. QED
      BY <2>1, AnnouncedKept DEF WireKeeps
  <1>14. ASSUME NEW t \in Tasks, FallbackStart(t)
         PROVE  WireKeeps \/ WireReads \/ WireBreaks \/ WireGrows
    <2>1. /\ wire' = wire /\ agent'.running = agent.running
          /\ agent'.announced = agent.announced
      BY <1>14, FallbackSends DEF FallbackWorld, Queued
    <2>2. QED
      BY <2>1, AnnouncedKept DEF WireKeeps
  <1>15. ASSUME NEW t \in Tasks, FallbackRefused(t)
         PROVE  WireKeeps \/ WireReads \/ WireBreaks \/ WireGrows
    <2>1. /\ wire' = wire /\ agent'.running = agent.running
          /\ agent'.announced = agent.announced
      BY <1>15, RefusedTakes DEF RefusedWorld, TaskWorld
    <2>2. QED
      BY <2>1, AnnouncedKept DEF WireKeeps
  <1>16. ASSUME StopSent PROVE WireKeeps \/ WireReads \/ WireBreaks \/ WireGrows
    <2>1. /\ wire' = wire /\ agent'.running = agent.running
          /\ agent'.announced = agent.announced
      BY <1>16, BystandersKeep DEF OthersKeep, AgentKeeps
    <2>2. QED
      BY <2>1, AnnouncedKept DEF WireKeeps
  <1>17. ASSUME Closed PROVE WireKeeps \/ WireReads \/ WireBreaks \/ WireGrows
    <2>1. /\ wire' = wire /\ agent'.running = agent.running
          /\ agent'.announced = agent.announced
      BY <1>17, BystandersKeep DEF OthersKeep, AgentKeeps
    <2>2. QED
      BY <2>1, AnnouncedKept DEF WireKeeps
  <1>18. ASSUME CloseFails PROVE WireKeeps \/ WireReads \/ WireBreaks \/ WireGrows
    <2>1. /\ wire' = wire /\ agent'.running = agent.running
          /\ agent'.announced = agent.announced
      BY <1>18, BystandersKeep DEF OthersKeep, AgentKeeps
    <2>2. QED
      BY <2>1, AnnouncedKept DEF WireKeeps
  <1>19. ASSUME Receive PROVE WireKeeps \/ WireReads \/ WireBreaks \/ WireGrows
    BY <1>19, ReadTakes DEF ReadWorld, WireReads
  <1>20. ASSUME StopConnection PROVE WireKeeps \/ WireReads \/ WireBreaks \/ WireGrows
    <2>1. /\ wire' = wire /\ agent'.running = agent.running
          /\ agent'.announced = agent.announced
      BY <1>20, BystandersKeep DEF OthersKeep, AgentKeeps
    <2>2. QED
      BY <2>1, AnnouncedKept DEF WireKeeps
  <1>21. ASSUME ConnectionLost PROVE WireKeeps \/ WireReads \/ WireBreaks \/ WireGrows
    <2>1. /\ wire' = wire /\ agent'.running = agent.running
          /\ agent'.announced = agent.announced
      BY <1>21, BystandersKeep DEF OthersKeep, AgentKeeps
    <2>2. QED
      BY <2>1, AnnouncedKept DEF WireKeeps
  <1>22. ASSUME AgentBegins PROVE WireKeeps \/ WireReads \/ WireBreaks \/ WireGrows
    <2>1. wire' = wire \o Reports(agent, "active") /\ BeginsWorld
      BY <1>22, BeginsWrites, BeginsMoves
    <2>2. Announced'
      <3>1. PICK n \in Inputs : agent'.running = n /\ agent'.announced
        BY <2>1 DEF BeginsWorld, AfterBegins
      <3>2. n # 0
        BY DEF Inputs
      <3>3. QED
        BY <3>1, <3>2 DEF Announced
    <2>3. "active" \in Activities
      BY DEF Activities
    <2>4. QED
      BY <2>1, <2>2, <2>3, ReportWrites
  <1>23. ASSUME AgentEnds PROVE WireKeeps \/ WireReads \/ WireBreaks \/ WireGrows
    <2>1. PICK n \in Inputs : n = agent.running
      BY <1>23, EndsWrites
    <2>2. CASE \E how \in PromptEnds, s \in Seq(Messages) : EndsPrompt(n, how, s)
      <3>1. PICK how \in PromptEnds, s \in Seq(Messages) : EndsPrompt(n, how, s)
        BY <2>2
      <3>2. Response(<<"prompt", n>>, how).kind = "response" /\ Response(<<"prompt", n>>, how).what = how
        BY ResponseType
      <3>3. Activity("idle").kind = "activity" /\ Activity("idle").what = "idle"
        BY ReportType DEF Activities
      <3>4. how # "active"
        BY DEF PromptEnds
      <3>5. Writes(s)
        BY <3>1, <3>2, <3>3, <3>4 DEF EndsPrompt, Writes
      <3>6. QED
        BY <3>1, <3>5 DEF EndsPrompt, WireGrows
    <2>3. CASE \E how \in {"idle", "failed"} : EndsOwn(n, how)
      <3>1. PICK how \in {"idle", "failed"} : wire' = wire \o Reports(agent, how)
        BY <2>3 DEF EndsOwn
      <3>2. how \in Activities /\ how # "active"
        BY DEF Activities
      <3>3. QED
        BY <3>1, <3>2, ReportWrites
    <2>4. QED
      BY <1>23, <2>1, <2>2, <2>3, EndsWrites
  <1>24. ASSUME AgentAnnounces PROVE WireKeeps \/ WireReads \/ WireBreaks \/ WireGrows
    <2>1. wire' = wire \o Reports(agent, "active") /\ AnnouncesWorld
      BY <1>24, AnnouncesWrites, AnnouncesMoves
    <2>2. Announced'
      BY <2>1 DEF AnnouncesWorld, AfterAnnounces, Announced
    <2>3. "active" \in Activities
      BY DEF Activities
    <2>4. QED
      BY <2>1, <2>2, <2>3, ReportWrites
  <1>25. ASSUME NEW n \in Inputs, AgentConsumes(n)
         PROVE  WireKeeps \/ WireReads \/ WireBreaks \/ WireGrows
    <2>1. wire' = wire /\ AfterConsumes(n)
      BY <1>25, ConsumesWrites, ConsumesDoes
    <2>2. Announced => Announced'
      BY <2>1 DEF AfterConsumes, Announced
    <2>3. QED
      BY <2>1, <2>2 DEF WireKeeps
  <1>26. ASSUME NEW n \in Inputs, AgentAnswers(n)
         PROVE  WireKeeps \/ WireReads \/ WireBreaks \/ WireGrows
    <2>1. PICK how \in SteerEnds : AnswersWorld(n, how)
      BY <1>26, AnswersMoves
    <2>2. PICK r \in Messages : r.kind = "response" /\ r.what = how /\ wire' = wire \o <<r>>
      BY <2>1, ResponseType DEF AnswersWorld, Replies
    <2>3. <<r>> \in Seq(Messages) /\ Len(<<r>>) = 1 /\ <<r>>[1] = r
      BY OneMessage
    <2>4. PICK s \in Seq(Messages) : Len(s) = 1 /\ s[1] = r /\ wire' = wire \o s
      BY <2>2, <2>3
    <2>5. Wrote(s)
      BY <2>4, AppendWrites
    <2>6. how # "active"
      BY DEF SteerEnds
    <2>7. Announced' <=> Announced
      BY <2>1, AnnouncedKept DEF AnswersWorld
    <2>8. Writes(s)
      BY <2>2, <2>4, <2>6, <2>7 DEF Writes
    <2>9. QED
      BY <2>5, <2>8 DEF WireGrows
  <1>27. ASSUME UNCHANGED <<agent, wire>> PROVE WireKeeps \/ WireReads \/ WireBreaks \/
           WireGrows
    <2>1. WireKeeps
      BY <1>27 DEF WireKeeps, Announced
    <2>2. QED
      BY <2>1
  <1> QED
    BY <1>1, <1>2, <1>3, <1>4, <1>5, <1>6, <1>7, <1>8, <1>9, <1>10, <1>11, <1>12, <1>13,
       <1>14, <1>15, <1>16, <1>17, <1>18, <1>19, <1>20, <1>21, <1>22, <1>23, <1>24, <1>25,
       <1>26, <1>27
       DEF Next, User, Settling, Task, AgentNext, vars, taskVars, logVars

\* An agent that reports nothing is heard of through its responses alone.
MuteWire == agent.reports = "never" => \A i \in 1..Len(wire) : wire[i].kind # "activity"
MuteThread ==
    agent.reports = "never" => ~thread.pending.sawActive /\ ~thread.detachedActive

\* No activity gets on the wire of a mute agent.
LEMMA MuteWireStep ==
  Typed /\ TurnInv /\ StatusInv /\ MuteWire /\ [Next]_vars => MuteWire'
  <1> SUFFICES ASSUME Typed, TurnInv, StatusInv, MuteWire, [Next]_vars,
                      agent'.reports = "never", NEW i \in 1..Len(wire')
               PROVE  wire'[i].kind # "activity"
    BY DEF MuteWire
  <1>1. agent.reports = "never"
    BY NatureFixed
  <1>2. CASE WireKeeps
    BY <1>1, <1>2 DEF WireKeeps, MuteWire
  <1>3. CASE WireReads
    BY <1>1, <1>3 DEF WireReads, ReadOne, MuteWire
  <1>4. CASE WireBreaks
    BY <1>4 DEF WireBreaks
  <1>5. CASE WireGrows
    BY <1>1, <1>5 DEF WireGrows, Wrote, Writes, MuteWire
  <1>6. QED
    BY <1>2, <1>3, <1>4, <1>5, WireStep

\* Nothing is seen of what is not reported.
LEMMA MuteThreadStep ==
  Typed /\ FreshInv /\ LeavesInv /\ TurnInv /\ StatusInv /\ MuteWire /\ MuteThread
    /\ [Next]_vars
    => MuteThread'
  <1> SUFFICES ASSUME Typed, FreshInv, LeavesInv, TurnInv, StatusInv, MuteWire, MuteThread,
                      [Next]_vars
               PROVE  MuteThread'
    OBVIOUS
  <1>99. agent'.reports = agent.reports
    BY NatureFixed
  <1>1. ASSUME Prompt PROVE MuteThread'
    <2>1. /\ thread'.pending.sawActive => thread.pending.sawActive
          /\ thread'.detachedActive => thread.detachedActive
      BY <1>1, PromptDoes DEF AfterPrompt, Begins
    <2>2. QED
      BY <1>99, <2>1 DEF MuteThread
  <1>2. ASSUME PromptUnsaved PROVE MuteThread'
    <2>1. /\ thread'.pending.sawActive => thread.pending.sawActive
          /\ thread'.detachedActive => thread.detachedActive
      BY <1>2, PromptUnsavedDoes DEF Unmoved, Quiet
    <2>2. QED
      BY <1>99, <2>1 DEF MuteThread
  <1>3. ASSUME Steer PROVE MuteThread'
    <2>1. /\ thread'.pending.sawActive => thread.pending.sawActive
          /\ thread'.detachedActive => thread.detachedActive
      BY <1>3, SteerDoes DEF AfterSteer, Quiet
    <2>2. QED
      BY <1>99, <2>1 DEF MuteThread
  <1>4. ASSUME Stop PROVE MuteThread'
    <2>1. /\ thread'.pending.sawActive => thread.pending.sawActive
          /\ thread'.detachedActive => thread.detachedActive
      <3>1. thread.pending \in PendingSteer
        BY TypeSplit DEF ThreadOK, Snapshot
      <3>2. QED
        BY <1>4, <3>1, StopDoes DEF AfterStop, GivenUp, Quiet, NoPending, PendingSteer
    <2>2. QED
      BY <1>99, <2>1 DEF MuteThread
  <1>5. ASSUME Reopen PROVE MuteThread'
    <2>1. /\ thread'.pending.sawActive => thread.pending.sawActive
          /\ thread'.detachedActive => thread.detachedActive
      BY <1>5, ReopenDoes DEF Anew, NoPending
    <2>2. QED
      BY <1>99, <2>1 DEF MuteThread
  <1>6. ASSUME NEW n \in Inputs, PromptResult(n) PROVE MuteThread'
    <2>1. /\ thread'.pending.sawActive => thread.pending.sawActive
          /\ thread'.detachedActive => thread.detachedActive
      BY <1>6, PromptResultDoes DEF AfterResult, Quiet
    <2>2. QED
      BY <1>99, <2>1 DEF MuteThread
  <1>7. ASSUME NEW n \in Inputs, SteerAnswer(n) PROVE MuteThread'
    <2>1. /\ thread'.pending.sawActive => thread.pending.sawActive
          /\ thread'.detachedActive => thread.detachedActive \/ thread.pending.sawActive
      <3>1. thread.pending \in PendingSteer
        BY TypeSplit DEF ThreadOK, Snapshot
      <3>2. thread'.pending = NoPending \/ thread'.pending = [thread.pending EXCEPT !.required = TRUE]
        BY <1>7, SteerAnswerDoes DEF AfterAnswer
      <3>3. thread'.pending.sawActive => thread.pending.sawActive
        BY <3>1, <3>2 DEF NoPending, PendingSteer
      <3>4. thread'.detachedActive => thread.detachedActive \/ thread.pending.sawActive
        BY <1>7, SteerAnswerDoes DEF AfterAnswer, Quiet
      <3>5. QED
        BY <3>3, <3>4
    <2>2. QED
      BY <1>99, <2>1 DEF MuteThread
  <1>8. ASSUME NEW t \in Tasks, FallbackStart(t) PROVE MuteThread'
    <2>1. /\ thread'.pending.sawActive => thread.pending.sawActive
          /\ thread'.detachedActive => thread.detachedActive
      BY <1>8, FallbackStartDoes DEF AfterFallback, NoPending, Quiet
    <2>2. QED
      BY <1>99, <2>1 DEF MuteThread
  <1>9. ASSUME NEW t \in Tasks, FallbackRefused(t) PROVE MuteThread'
    <2>1. /\ thread'.pending.sawActive => thread.pending.sawActive
          /\ thread'.detachedActive => thread.detachedActive
      BY <1>9, FallbackRefusedDoes DEF AfterRefusal, GivenUp, NoPending, Quiet
    <2>2. QED
      BY <1>99, <2>1 DEF MuteThread
  <1>10. ASSUME Closed PROVE MuteThread'
    <2>1. /\ thread'.pending.sawActive => thread.pending.sawActive
          /\ thread'.detachedActive => thread.detachedActive
      BY <1>10, ClosedDoes DEF AfterSilence, NoPending
    <2>2. QED
      BY <1>99, <2>1 DEF MuteThread
  <1>11. ASSUME Receive PROVE MuteThread'
    <2>1. ReadWorld
      BY <1>11, ReadTakes
    <2>2. agent.reports = "never" => thread' = thread
      BY <2>1 DEF ReadWorld, ReadOne, MuteWire
    <2>3. QED
      BY <1>99, <2>2 DEF MuteThread
  <1>12. ASSUME ConnectionLost PROVE MuteThread'
    <2>1. /\ thread'.pending.sawActive => thread.pending.sawActive
          /\ thread'.detachedActive => thread.detachedActive
      <3>1. CASE route
        BY <1>12, <3>1, ConnectionLostDoes DEF AfterSilence, NoPending
      <3>2. CASE ~route
        BY <1>12, <3>2, ConnectionLostDoes
      <3>3. QED
        BY <3>1, <3>2
    <2>2. QED
      BY <1>99, <2>1 DEF MuteThread
  <1>13. ASSUME UNCHANGED thread PROVE MuteThread'
    BY <1>99, <1>13 DEF MuteThread
  <1> QED
    BY <1>1, <1>2, <1>3, <1>4, <1>5, <1>6, <1>7, <1>8, <1>9, <1>10, <1>11, <1>12, <1>13
       DEF Next, User, Settling, Task, AgentNext, Close, Break, PromptResultLate,
           SteerAnswerLate, CancelAgain, Peek, StopSent, CloseFails, StopConnection,
           AgentBegins, AgentEnds, AgentAnnounces, AgentConsumes, AgentAnswers, SendCancel,
           Goto, AgentStep, AgentFrame, vars, taskVars, logVars

-----------------------------------------------------------------------------
(* What the agent works at is what the conversation works at *)

\* Once the connection is up again, what was lost is of an earlier life.
LostOld == \A n \in Inputs : answer[<<"steer", n>>] = "lost" => link # "up" \/ n < first

\* A fallback has read an input whose steering request has been answered.
ReadsAnswered ==
    \A t \in Tasks : \A n \in Inputs :
      captured[t] = n => pc[<<"steer", n>>] \notin {"none", "waiting"}

QuietAt(n) ==
    link = "up" /\ n >= first =>
      /\ AtAgent(n) => thread.active = n \/ thread.status = "disconnected"
      /\ pc[<<"steer", n>>] = "waiting"
           => thread.pending.id = n \/ thread.status = "disconnected"
      /\ agent.running = n /\ sent[n] = 0 /\ agent.reports = "never" =>
           thread.pending.id = n \/ thread.detached \/ thread.status = "disconnected"

\* The parts of QuietInv.
LEMMA QuietSplit ==
  QuietInv <=> LostOld /\ ReadsAnswered /\ MuteWire /\ MuteThread /\ \A n \in Inputs : QuietAt(n)
  BY Zenon DEF QuietInv, LostOld, ReadsAnswered, QuietAt, MuteWire, MuteThread

\* An answer is lost where the connection is gone.
LEMMA LostOldStep ==
  Typed /\ FreshInv /\ MailInv /\ TurnInv /\ StatusInv /\ LostOld /\ [Next]_vars
    => LostOld'
  <1> SUFFICES ASSUME Typed, FreshInv, MailInv, TurnInv, StatusInv, LostOld, [Next]_vars
               PROVE  LostOld'
    OBVIOUS
  <1>99. \A n \in Inputs : <<"steer", n>> \in Tasks
    BY TaskFacts
  <1>1. ASSUME Prompt PROVE LostOld'
    <2>1. /\ \A u \in Tasks : answer'[u] = "lost" => answer[u] = "lost" \/ link' # "up"
          /\ first' = first /\ link' = link
      BY <1>1, PromptSends DEF PromptWorld, Asks
    <2>2. QED
      BY <1>99, <2>1 DEF LostOld
  <1>2. ASSUME Steer PROVE LostOld'
    <2>1. /\ \A u \in Tasks : answer'[u] = "lost" => answer[u] = "lost" \/ link' # "up"
          /\ first' = first /\ link' = link
      BY <1>2, SteerSends DEF SteerWorld, Asks
    <2>2. QED
      BY <1>99, <2>1 DEF LostOld
  <1>3. ASSUME Reopen PROVE LostOld'
    <2>1. first' = inputs + 1 /\ inputs \in Nat
      <3>1. inputs \in Nat
        BY TypeSplit DEF PlacesOK
      <3>2. QED
        BY <1>3, <3>1 DEF Reopen
    <2>2. answer' = answer
      BY <1>3, BystandersKeep DEF OthersKeep
    <2>3. \A n \in Inputs : answer[<<"steer", n>>] = "lost" => n <= inputs
      <3>1. \A n \in Inputs : answer[<<"steer", n>>] = "lost" => pc[<<"steer", n>>] # "none"
        BY <1>99 DEF MailInv
      <3>2. QED
        BY <3>1, Given
    <2>4. \A n \in Inputs : n <= inputs => n < first'
      BY <2>1 DEF Inputs
    <2>5. QED
      BY <2>2, <2>3, <2>4 DEF LostOld
  <1>4. ASSUME Break PROVE LostOld'
    <2>1. link' = "broken"
      BY <1>4, BreakDoes DEF BreakWorld
    <2>2. QED
      BY <2>1 DEF LostOld
  <1>5. ASSUME NEW n \in Inputs, PromptResult(n) PROVE LostOld'
    <2>1. /\ \A u \in Tasks : answer'[u] = "lost" => answer[u] = "lost" \/ link' # "up"
          /\ first' = first /\ link' = link
      BY <1>5, ResultTakes DEF TaskWorld, Moved
    <2>2. QED
      BY <1>99, <2>1 DEF LostOld
  <1>6. ASSUME NEW n \in Inputs, PromptResultLate(n) PROVE LostOld'
    <2>1. /\ \A u \in Tasks : answer'[u] = "lost" => answer[u] = "lost" \/ link' # "up"
          /\ first' = first /\ link' = link
      BY <1>6, ResultTakes DEF TaskWorld, Moved
    <2>2. QED
      BY <1>99, <2>1 DEF LostOld
  <1>7. ASSUME NEW n \in Inputs, SteerAnswer(n) PROVE LostOld'
    <2>1. /\ \A u \in Tasks : answer'[u] = "lost" => answer[u] = "lost" \/ link' # "up"
          /\ first' = first /\ link' = link
      BY <1>7, AnswerTakes DEF TaskWorld, Moved
    <2>2. QED
      BY <1>99, <2>1 DEF LostOld
  <1>8. ASSUME NEW n \in Inputs, SteerAnswerLate(n) PROVE LostOld'
    <2>1. /\ \A u \in Tasks : answer'[u] = "lost" => answer[u] = "lost" \/ link' # "up"
          /\ first' = first /\ link' = link
      BY <1>8, AnswerTakes DEF TaskWorld, Moved
    <2>2. QED
      BY <1>99, <2>1 DEF LostOld
  <1>9. ASSUME NEW n \in Inputs, CancelAgain(n) PROVE LostOld'
    <2>1. /\ \A u \in Tasks : answer'[u] = "lost" => answer[u] = "lost" \/ link' # "up"
          /\ first' = first /\ link' = link
      BY <1>9, CancelTakes DEF TaskWorld, Moved
    <2>2. QED
      BY <1>99, <2>1 DEF LostOld
  <1>10. ASSUME NEW t \in Tasks, FallbackStart(t) PROVE LostOld'
    <2>1. /\ \A u \in Tasks : answer'[u] = "lost" => answer[u] = "lost" \/ link' # "up"
          /\ first' = first /\ link' = link
      BY <1>10, FallbackSends DEF FallbackWorld
    <2>2. QED
      BY <1>99, <2>1 DEF LostOld
  <1>11. ASSUME NEW t \in Tasks, FallbackRefused(t) PROVE LostOld'
    <2>1. /\ \A u \in Tasks : answer'[u] = "lost" => answer[u] = "lost" \/ link' # "up"
          /\ first' = first /\ link' = link
      BY <1>11, RefusedTakes DEF RefusedWorld, TaskWorld, Moved
    <2>2. QED
      BY <1>99, <2>1 DEF LostOld
  <1>12. ASSUME Receive PROVE LostOld'
    <2>1. ReadWorld
      BY <1>12, ReadTakes
    <2>2. \A u \in Tasks : answer'[u] = "lost" => answer[u] = "lost"
      BY <2>1 DEF ReadWorld
    <2>3. QED
      BY <1>99, <2>1, <2>2 DEF ReadWorld, LostOld
  <1>13. ASSUME StopConnection PROVE LostOld'
    <2>1. link' = "stopped"
      BY <1>13 DEF StopConnection
    <2>2. QED
      BY <2>1 DEF LostOld
  <1>14. ASSUME ConnectionLost PROVE LostOld'
    <2>1. link' = "handled"
      BY <1>14 DEF ConnectionLost
    <2>2. QED
      BY <2>1 DEF LostOld
  <1>15. ASSUME UNCHANGED <<first, answer, link>> PROVE LostOld'
    BY <1>99, <1>15 DEF LostOld
  <1> QED
    BY <1>1, <1>2, <1>3, <1>4, <1>5, <1>6, <1>7, <1>8, <1>9, <1>10, <1>11, <1>12, <1>13,
       <1>14, <1>15
       DEF Next, User, Settling, Task, AgentNext, PromptUnsaved, Stop, Close, Peek,
           StopSent, Closed, CloseFails, AgentBegins, AgentEnds, AgentAnnounces,
           AgentConsumes, AgentAnswers, SendCancel, AgentStep, AgentFrame, vars, taskVars,
           logVars

\* A steering request that has been answered is not asked again.
LEMMA ReadsAnsweredStep ==
  Typed /\ FreshInv /\ OnceInv /\ TurnInv /\ StatusInv /\ LeavesInv /\ ReadsAnswered
    /\ [Next]_vars
    => ReadsAnswered'
  <1> SUFFICES ASSUME Typed, FreshInv, OnceInv, TurnInv, StatusInv, LeavesInv, ReadsAnswered,
                      [Next]_vars
               PROVE  ReadsAnswered'
    OBVIOUS
  <1>99. \A n \in Inputs : <<"steer", n>> \in Tasks
    BY TaskFacts
  <1>98. \A n \in Inputs : n # 0
    BY DEF Inputs
  <1>1. ASSUME Prompt PROVE ReadsAnswered'
    <2>1. PICK n \in Inputs : n = inputs + 1 /\ PromptWorld
      BY <1>1, PromptSends DEF PromptWorld
    <2>2. \A m \in Inputs : <<"steer", m>> # <<"prompt", n>>
      BY TaskFacts
    <2>3. captured' = captured /\ \A m \in Inputs : pc'[<<"steer", m>>] = pc[<<"steer", m>>]
      BY <1>99, <2>1, <2>2 DEF PromptWorld, Asks
    <2>4. QED
      BY <2>3 DEF ReadsAnswered
  <1>2. ASSUME Steer PROVE ReadsAnswered'
    <2>1. PICK n \in Inputs : n = inputs + 1 /\ SteerWorld
      BY <1>2, SteerSends DEF SteerWorld
    <2>2. \A m \in Inputs : m # n => <<"steer", m>> # <<"steer", n>>
      BY TaskFacts
    <2>3. captured' = captured /\ \A m \in Inputs : m # n => pc'[<<"steer", m>>] = pc[<<"steer", m>>]
      BY <1>99, <2>1, <2>2 DEF SteerWorld, Asks
    <2>4. pc[<<"steer", n>>] = "none"
      <3>1. inputs \in Nat
        BY TypeSplit DEF PlacesOK
      <3>2. n > inputs
        BY <2>1, <3>1
      <3>3. QED
        BY <3>2 DEF FreshInv
    <2>5. QED
      BY <2>3, <2>4 DEF ReadsAnswered
  <1>3. ASSUME NEW n \in Inputs, PromptResult(n) PROVE ReadsAnswered'
    <2>1. \A u \in Tasks : captured'[u] \in {captured[u], 0} /\ (Busy(pc[u]) => Busy(pc'[u]))
      BY <1>3, ResultTakes DEF ResultWorld, TaskWorld, Moved, Busy
    <2>2. QED
      BY <1>98, <1>99, <2>1 DEF ReadsAnswered, Busy
  <1>4. ASSUME NEW n \in Inputs, PromptResultLate(n) PROVE ReadsAnswered'
    <2>1. \A u \in Tasks : captured'[u] \in {captured[u], 0} /\ (Busy(pc[u]) => Busy(pc'[u]))
      BY <1>4, ResultTakes DEF ResultWorld, TaskWorld, Moved, Busy
    <2>2. QED
      BY <1>98, <1>99, <2>1 DEF ReadsAnswered, Busy
  <1>5. ASSUME NEW n \in Inputs, SteerAnswer(n) PROVE ReadsAnswered'
    <2>1. \A u \in Tasks : captured'[u] \in {captured[u], 0} /\ (Busy(pc[u]) => Busy(pc'[u]))
      BY <1>5, AnswerTakes DEF AnswerWorld, TaskWorld, Moved, Busy
    <2>2. QED
      BY <1>98, <1>99, <2>1 DEF ReadsAnswered, Busy
  <1>6. ASSUME NEW n \in Inputs, SteerAnswerLate(n) PROVE ReadsAnswered'
    <2>1. \A u \in Tasks : captured'[u] \in {captured[u], 0} /\ (Busy(pc[u]) => Busy(pc'[u]))
      BY <1>6, AnswerTakes DEF AnswerWorld, TaskWorld, Moved, Busy
    <2>2. QED
      BY <1>98, <1>99, <2>1 DEF ReadsAnswered, Busy
  <1>7. ASSUME NEW n \in Inputs, CancelAgain(n) PROVE ReadsAnswered'
    <2>1. \A u \in Tasks : captured'[u] \in {captured[u], 0} /\ (Busy(pc[u]) => Busy(pc'[u]))
      BY <1>7, CancelTakes DEF TaskWorld, Moved, Busy
    <2>2. QED
      BY <1>98, <1>99, <2>1 DEF ReadsAnswered, Busy
  <1>8. ASSUME NEW t \in Tasks, Peek(t) PROVE ReadsAnswered'
    <2>1. PeekWorld(t)
      BY <1>8, PeekLooks
    <2>2. \A u \in Tasks : Busy(pc[u]) => Busy(pc'[u])
      BY <2>1 DEF PeekWorld, Busy
    <2>3. \A u \in Tasks : captured'[u] \in {captured[u], 0} \/ (captured'[u] = thread.pending.id /\ FallbackDue(thread))
      BY <2>1 DEF PeekWorld
    <2>4. \A n \in Inputs : thread.pending.id = n /\ FallbackDue(thread) => Busy(pc[<<"steer", n>>])
      BY DEF FallbackDue, OnceInv, Busy
    <2>5. ASSUME NEW u \in Tasks, NEW n \in Inputs, captured'[u] = n
          PROVE  Busy(pc'[<<"steer", n>>])
      <3>1. captured[u] = n \/ (thread.pending.id = n /\ FallbackDue(thread))
        BY <1>98, <2>3, <2>5
      <3>2. Busy(pc[<<"steer", n>>])
        BY <2>4, <3>1 DEF ReadsAnswered, Busy
      <3>3. QED
        BY <1>99, <2>2, <3>2
    <2>6. QED
      BY <2>5 DEF ReadsAnswered, Busy
  <1>9. ASSUME NEW t \in Tasks, FallbackStart(t) PROVE ReadsAnswered'
    <2>1. PICK n \in Inputs : FallbackWorld(t, n)
      BY <1>9, FallbackSends DEF FallbackWorld
    <2>2. \A m \in Inputs : <<"steer", m>> # <<"prompt", n>>
      BY TaskFacts
    <2>3. /\ \A u \in Tasks : captured'[u] \in {captured[u], 0}
          /\ \A m \in Inputs : pc'[<<"steer", m>>] \in {pc[<<"steer", m>>], "done"}
      BY <1>99, <2>1, <2>2 DEF FallbackWorld
    <2>4. QED
      BY <1>98, <2>3 DEF ReadsAnswered
  <1>10. ASSUME NEW t \in Tasks, FallbackRefused(t) PROVE ReadsAnswered'
    <2>1. \A u \in Tasks : captured'[u] \in {captured[u], 0} /\ (Busy(pc[u]) => Busy(pc'[u]))
      BY <1>10, RefusedTakes DEF RefusedWorld, TaskWorld, Moved, Busy
    <2>2. QED
      BY <1>98, <1>99, <2>1 DEF ReadsAnswered, Busy
  <1>11. ASSUME UNCHANGED <<pc, captured>> PROVE ReadsAnswered'
    BY <1>11 DEF ReadsAnswered
  <1> QED
    BY <1>1, <1>2, <1>3, <1>4, <1>5, <1>6, <1>7, <1>8, <1>9, <1>10, <1>11
       DEF Next, User, Settling, Task, AgentNext, PromptUnsaved, Stop, Close, Reopen, Break,
           StopSent, Closed, CloseFails, Receive, StopConnection, ConnectionLost,
           AgentBegins, AgentEnds, AgentAnnounces, AgentConsumes, AgentAnswers, SendCancel,
           AgentStep, AgentFrame, vars, taskVars, logVars

\* Nothing new of n comes to the agent.
Away(n) ==
    /\ first' = first /\ (link' = "up" => link = "up")
    /\ agent'.reports = agent.reports
    /\ AtAgent(n)' => AtAgent(n)
    /\ pc'[<<"steer", n>>] = "waiting" => pc[<<"steer", n>>] = "waiting"
    /\ agent'.running = n /\ sent'[n] = 0 => agent.running = n /\ sent[n] = 0

\* The conversation still works at what it worked at.
Stands(n) ==
    /\ thread'.active = thread.active
    /\ thread.pending.id = n => thread'.pending.id = n
    /\ thread.detached => thread'.detached
    /\ thread.status = "disconnected" => thread'.status = "disconnected"

\* What holds of an input goes on while neither side moves on it.
LEMMA QuietKept == ASSUME NEW n \in Inputs, QuietAt(n), Away(n), Stands(n) PROVE QuietAt(n)'
  BY DEF QuietAt, Away, Stands

\* Nothing is asked of a conversation that is disconnected.
LEMMA QuietLost == ASSUME NEW n \in Inputs, thread'.status = "disconnected" PROVE QuietAt(n)'
  BY DEF QuietAt

\* Pending input may go that has been answered, where the agent starts no turns of its own.
LEMMA QuietCleared ==
  ASSUME NEW n \in Inputs, QuietAt(n), Away(n), agent.leaves, LeavesInv,
         thread'.active = thread.active,
         thread.status = "disconnected" => thread'.status = "disconnected",
         thread.pending.id = n => pc[<<"steer", n>>] # "waiting"
  PROVE  QuietAt(n)'
  <1>1. ~(agent.running = n /\ sent[n] = 0)
    <2>1. n # 0
      BY DEF Inputs
    <2>2. agent.running # 0 => sent[agent.running] > 0
      BY Zenon DEF LeavesInv
    <2>3. QED
      BY <2>1, <2>2
  <1>2. QED
    BY <1>1 DEF QuietAt, Away

\* Where the agent and the tasks stay, nothing new comes to the agent.
LEMMA AwayIs ==
  ASSUME NEW n \in Inputs, first' = first, link' = "up" => link = "up",
         agent'.reports = agent.reports, agent'.queue = agent.queue,
         agent'.running = agent.running, sent' = sent,
         pc'[<<"steer", n>>] \in {pc[<<"steer", n>>], "peek", "cancel", "start", "done"}
  PROVE  Away(n)
  BY DEF Away, AtAgent

\* What is at the agent is what the conversation works at.
LEMMA QuietAtStep ==
  Typed /\ FreshInv /\ MailInv /\ OnceInv /\ LeavesInv /\ LinkInv /\ TurnInv /\ StatusInv
    /\ QuietInv /\ [Next]_vars
    => \A m \in Inputs : QuietAt(m)'
  <1> SUFFICES ASSUME Typed, FreshInv, MailInv, OnceInv, LeavesInv, LinkInv, TurnInv, StatusInv,
                      QuietInv, [Next]_vars
               PROVE  \A m \in Inputs : QuietAt(m)'
    OBVIOUS
  <1> LostOld /\ ReadsAnswered /\ MuteThread /\ \A m \in Inputs : QuietAt(m)
    BY QuietSplit
  <1>99. \A m \in Inputs : <<"steer", m>> \in Tasks
    BY TaskFacts
  <1>98. agent'.reports = agent.reports
    BY NatureFixed
  <1>1. ASSUME Prompt PROVE \A m \in Inputs : QuietAt(m)'
    <2>1. PICK n \in Inputs : n = inputs + 1 /\ PromptWorld
      BY <1>1, PromptSends DEF PromptWorld
    <2>2. /\ thread'.active = n /\ thread'.pending = thread.pending
      BY <1>1, <2>1, PromptDoes DEF AfterPrompt, Begins
    <2>3. /\ thread.active = 0 /\ thread.status = "idle" /\ ~thread.detached
          /\ thread.pending.id = 0
      BY <1>1, Zenon DEF Prompt, Admits, Admissible, HasPending
    <2>4. n > inputs
      <3>1. inputs \in Nat
        BY TypeSplit DEF PlacesOK
      <3>2. QED
        BY <2>1, <3>1
    <2>5. /\ first' = first /\ link' = link /\ agent'.running = agent.running
          /\ \A m \in Inputs : m # n => sent'[m] = sent[m] /\ (m \in agent'.queue => m \in agent.queue)
      BY <2>1 DEF PromptWorld, Queued, SendsOnce
    <2>6. \A m \in Inputs : pc'[<<"steer", m>>] = pc[<<"steer", m>>]
      <3>1. \A m \in Inputs : <<"steer", m>> # <<"prompt", n>>
        BY TaskFacts
      <3>2. QED
        BY <1>99, <2>1, <3>1 DEF PromptWorld, Asks
    <2>7. \A m \in Inputs : m # 0
      BY DEF Inputs
    <2>8. ASSUME NEW m \in Inputs, m # n PROVE QuietAt(m)'
      <3>1. AtAgent(m)' => AtAgent(m)
        BY <2>5, <2>8 DEF AtAgent
      <3>2. QED
        BY <1>98, <2>3, <2>5, <2>6, <2>7, <2>8, <3>1 DEF QuietAt
    <2>9. QuietAt(n)'
      <3>1. sent[n] = 0 /\ consumed[n] = 0 /\ pc[<<"steer", n>>] = "none"
        BY <2>4 DEF FreshInv
      <3>2. agent.running # n
        BY <3>1, OwnTurn
      <3>3. QED
        BY <2>2, <2>5, <2>6, <3>1, <3>2 DEF QuietAt
    <2>10. QED
      BY <2>8, <2>9
  <1>2. ASSUME PromptUnsaved PROVE \A m \in Inputs : QuietAt(m)'
    <2>0. first' = first /\ (link' = "up" => link = "up")
      BY <1>2 DEF PromptUnsaved
    <2>1. /\ agent'.queue = agent.queue /\ agent'.running = agent.running /\ sent' = sent
          /\ first' = first /\ (link' = "up" => link = "up")
          /\ \A u \in Tasks : pc'[u] \in {pc[u], "peek", "cancel", "start", "done"}
      BY <1>2, <2>0, BystandersKeep DEF OthersKeep, AgentKeeps
    <2>2. \A m \in Inputs : Away(m)
      BY <1>98, <1>99, <2>1, AwayIs
    <2>3. \A m \in Inputs : Stands(m)
      BY <1>2, PromptUnsavedDoes DEF Unmoved, Quiet, Stands
    <2>4. QED
      BY <2>2, <2>3, QuietKept
  <1>3. ASSUME Steer PROVE \A m \in Inputs : QuietAt(m)'
    <2>1. PICK n \in Inputs : n = inputs + 1 /\ SteerWorld /\ AfterSteer
      BY <1>3, SteerSends, SteerDoes DEF SteerWorld
    <2>2. /\ thread'.pending.id = n /\ thread.status = "working" /\ thread'.active = thread.active
          /\ thread'.detached = thread.detached /\ thread.pending.id = 0
      BY <2>1 DEF AfterSteer, HasPending, Quiet
    <2>3. /\ first' = first /\ link' = link /\ agent'.running = agent.running /\ sent' = sent
          /\ agent'.queue = agent.queue
      BY <2>1 DEF SteerWorld, Consults
    <2>4. \A m \in Inputs : m # n => pc'[<<"steer", m>>] = pc[<<"steer", m>>]
      <3>1. \A m \in Inputs : m # n => <<"steer", m>> # <<"steer", n>>
        BY TaskFacts
      <3>2. QED
        BY <1>99, <2>1, <3>1 DEF SteerWorld, Asks
    <2>5. \A m \in Inputs : AtAgent(m)' <=> AtAgent(m)
      BY <2>3 DEF AtAgent
    <2>6. \A m \in Inputs : m # 0
      BY DEF Inputs
    <2>7. ASSUME NEW m \in Inputs PROVE QuietAt(m)'
      BY <1>98, <2>2, <2>3, <2>4, <2>5, <2>6 DEF QuietAt
    <2>8. QED
      BY <2>7
  <1>4. ASSUME Stop PROVE \A m \in Inputs : QuietAt(m)'
    <2>0. first' = first /\ (link' = "up" => link = "up")
      BY <1>4 DEF Stop
    <2>1. /\ agent'.queue = agent.queue /\ agent'.running = agent.running /\ sent' = sent
          /\ first' = first /\ (link' = "up" => link = "up")
          /\ \A u \in Tasks : pc'[u] \in {pc[u], "peek", "cancel", "start", "done"}
      BY <1>4, <2>0, BystandersKeep DEF OthersKeep, AgentKeeps
    <2>2. \A m \in Inputs : Away(m)
      BY <1>98, <1>99, <2>1, AwayIs
    <2>3. CASE thread.pending.required
      <3>1. GivenUp /\ agent.leaves
        BY <1>4, <2>3, StopDoes DEF AfterStop, LeavesInv
      <3>2. \A m \in Inputs : thread.pending.id = m => pc[<<"steer", m>>] # "waiting"
        BY <2>3 DEF OnceInv
      <3>3. /\ thread'.active = thread.active
            /\ thread.status = "disconnected" => thread'.status = "disconnected"
        BY <3>1 DEF GivenUp
      <3>4. QED
        BY <2>2, <3>1, <3>2, <3>3, QuietCleared
    <2>4. CASE ~thread.pending.required
      <3>1. thread'.pending.id = thread.pending.id
        <4>1. thread.pending \in PendingSteer
          BY TypeSplit DEF ThreadOK, Snapshot
        <4>2. QED
          BY <1>4, <2>4, <4>1, StopDoes DEF AfterStop, PendingSteer
      <3>2. \A m \in Inputs : Stands(m)
        BY <1>4, <2>4, <3>1, StopDoes DEF AfterStop, Quiet, Stands
      <3>3. QED
        BY <2>2, <3>2, QuietKept
    <2>5. QED
      BY <2>3, <2>4
  <1>5. ASSUME Close PROVE \A m \in Inputs : QuietAt(m)'
    <2>0. first' = first /\ (link' = "up" => link = "up")
      BY <1>5 DEF Close
    <2>1. /\ agent'.queue = agent.queue /\ agent'.running = agent.running /\ sent' = sent
          /\ first' = first /\ (link' = "up" => link = "up")
          /\ \A u \in Tasks : pc'[u] \in {pc[u], "peek", "cancel", "start", "done"}
      BY <1>5, <2>0, BystandersKeep DEF OthersKeep, AgentKeeps
    <2>2. \A m \in Inputs : Away(m)
      BY <1>98, <1>99, <2>1, AwayIs
    <2>3. \A m \in Inputs : Stands(m)
      BY <1>5 DEF Close, Stands
    <2>4. QED
      BY <2>2, <2>3, QuietKept
  <1>6. ASSUME Reopen PROVE \A m \in Inputs : QuietAt(m)'
    <2>1. first' = inputs + 1
      BY <1>6 DEF Reopen
    <2>2. inputs \in Nat
      BY TypeSplit DEF PlacesOK
    <2>3. pc' = pc /\ sent' = sent /\ agent'.running = agent.running /\ agent'.queue = agent.queue
      BY <1>6, BystandersKeep DEF OthersKeep, AgentKeeps
    <2>4. ASSUME NEW m \in Inputs, m > inputs PROVE QuietAt(m)'
      <3>1. sent[m] = 0 /\ consumed[m] = 0 /\ pc[<<"steer", m>>] = "none" /\ pc[<<"prompt", m>>] = "none"
        BY <2>4 DEF FreshInv
      <3>2. ~AtAgent(m)
        BY <3>1 DEF MailInv, Expects
      <3>3. agent.running # m
        BY <3>1, OwnTurn
      <3>4. ~AtAgent(m)'
        BY <2>3, <3>2 DEF AtAgent
      <3>5. QED
        BY <2>3, <3>1, <3>3, <3>4 DEF QuietAt
    <2>5. ASSUME NEW m \in Inputs, ~(m > inputs) PROVE QuietAt(m)'
      <3>1. ~(m >= inputs + 1)
        BY <2>2, <2>5 DEF Inputs
      <3>2. QED
        BY <2>1, <3>1 DEF QuietAt
    <2>6. QED
      BY <2>4, <2>5
  <1>7. ASSUME Break PROVE \A m \in Inputs : QuietAt(m)'
    <2>1. link' = "broken"
      BY <1>7, BreakDoes DEF BreakWorld
    <2>2. QED
      BY <2>1 DEF QuietAt
  <1>8. ASSUME NEW n \in Inputs, PromptResult(n) PROVE \A m \in Inputs : QuietAt(m)'
    <2>1. /\ thread'.active = 0 /\ thread'.pending = thread.pending /\ thread'.detached = thread.detached
          /\ thread.status = "disconnected" => thread'.status = "disconnected"
      BY <1>8, PromptResultDoes DEF AfterResult, Quiet
    <2>2. /\ agent' = agent /\ sent' = sent /\ first' = first /\ link' = link /\ thread.active = n
          /\ answer[<<"prompt", n>>] # "none"
      BY <1>8, ResultTakes DEF ResultWorld, TaskWorld
    <2>3. \A m \in Inputs : pc'[<<"steer", m>>] = pc[<<"steer", m>>]
      <3>1. \A m \in Inputs : <<"steer", m>> # <<"prompt", n>>
        BY TaskFacts
      <3>2. QED
        BY <1>99, <1>8, <3>1, ResultTakes DEF TaskWorld, Moved
    <2>4. ~AtAgent(n)
      BY <2>2 DEF MailInv, Expects
    <2>5. \A m \in Inputs : AtAgent(m)' <=> AtAgent(m)
      BY <2>2 DEF AtAgent
    <2>6. ASSUME NEW m \in Inputs PROVE QuietAt(m)'
      BY <2>1, <2>2, <2>3, <2>4, <2>5 DEF QuietAt
    <2>7. QED
      BY <2>6
  <1>9. ASSUME NEW n \in Inputs, PromptResultLate(n) PROVE \A m \in Inputs : QuietAt(m)'
    <2>1. /\ agent'.queue = agent.queue /\ agent'.running = agent.running /\ sent' = sent
          /\ first' = first /\ thread' = thread /\ link' = link
          /\ \A u \in Tasks : pc'[u] \in {pc[u], "peek", "cancel", "start", "done"}
      BY <1>9, ResultTakes DEF ResultWorld, TaskWorld, Moved
    <2>2. \A m \in Inputs : Away(m)
      BY <1>98, <1>99, <2>1, AwayIs
    <2>3. QED
      BY <2>1, <2>2, QuietKept DEF Stands
  <1>10. ASSUME NEW n \in Inputs, SteerAnswer(n) PROVE \A m \in Inputs : QuietAt(m)'
    <2>1. /\ thread'.active = thread.active /\ thread.pending.id = n
          /\ thread.status = "disconnected" => thread'.status = "disconnected"
          /\ answer[<<"steer", n>>] # "started" => thread'.detached = thread.detached
          /\ answer[<<"steer", n>>] = "started" => (thread'.detached <=> thread.pending.terminal = "none")
      BY <1>10, SteerAnswerDoes DEF AfterAnswer, Quiet
    <2>2. /\ agent' = agent /\ sent' = sent /\ first' = first /\ link' = link
          /\ answer[<<"steer", n>>] # "none"
      BY <1>10, AnswerTakes DEF AnswerWorld, TaskWorld
    <2>3. /\ \A m \in Inputs : m # n => pc'[<<"steer", m>>] = pc[<<"steer", m>>]
          /\ pc'[<<"steer", n>>] # "waiting"
      <3>1. \A m \in Inputs : m # n => <<"steer", m>> # <<"steer", n>>
        BY TaskFacts
      <3>2. QED
        BY <1>99, <1>10, <3>1, AnswerTakes DEF TaskWorld, Moved
    <2>4. \A m \in Inputs : AtAgent(m)' <=> AtAgent(m)
      BY <2>2 DEF AtAgent
    <2>5. agent.reports = "never" => thread.pending.terminal = "none"
      BY TypeSplit DEF MuteThread, ThreadOK
    <2>6. ASSUME NEW m \in Inputs, m # n PROVE QuietAt(m)'
      BY <1>98, <2>1, <2>2, <2>3, <2>4, <2>5, <2>6 DEF QuietAt
    <2>7. ASSUME link = "up", n >= first, agent.running = n, sent[n] = 0
          PROVE  answer[<<"steer", n>>] = "started"
      <3>1. answer[<<"steer", n>>] \in {"none", "lost", "started"}
        BY <2>7, OwnTurn
      <3>2. ~(n < first)
        <4>1. first \in Nat
          BY TypeSplit, TurnsAssumption DEF PlacesOK
        <4>2. QED
          BY <2>7, <4>1 DEF Inputs
      <3>3. QED
        BY <2>2, <2>7, <3>1, <3>2 DEF LostOld
    <2>8. QuietAt(n)'
      BY <1>98, <2>1, <2>2, <2>3, <2>4, <2>5, <2>7 DEF QuietAt
    <2>9. QED
      BY <2>6, <2>8
  <1>11. ASSUME NEW n \in Inputs, SteerAnswerLate(n) PROVE \A m \in Inputs : QuietAt(m)'
    <2>1. /\ agent'.queue = agent.queue /\ agent'.running = agent.running /\ sent' = sent
          /\ first' = first /\ thread' = thread /\ link' = link
          /\ \A u \in Tasks : pc'[u] \in {pc[u], "peek", "cancel", "start", "done"}
      BY <1>11, AnswerTakes DEF AnswerWorld, TaskWorld, Moved
    <2>2. \A m \in Inputs : Away(m)
      BY <1>98, <1>99, <2>1, AwayIs
    <2>3. QED
      BY <2>1, <2>2, QuietKept DEF Stands
  <1>12. ASSUME NEW n \in Inputs, CancelAgain(n) PROVE \A m \in Inputs : QuietAt(m)'
    <2>1. /\ agent'.queue = agent.queue /\ agent'.running = agent.running /\ sent' = sent
          /\ first' = first /\ thread' = thread /\ link' = link
          /\ \A u \in Tasks : pc'[u] \in {pc[u], "peek", "cancel", "start", "done"}
      BY <1>12, CancelTakes DEF AgentKeeps, TaskWorld, Moved
    <2>2. \A m \in Inputs : Away(m)
      BY <1>98, <1>99, <2>1, AwayIs
    <2>3. QED
      BY <2>1, <2>2, QuietKept DEF Stands
  <1>13. ASSUME NEW t \in Tasks, Peek(t) PROVE \A m \in Inputs : QuietAt(m)'
    <2>1. /\ agent'.queue = agent.queue /\ agent'.running = agent.running /\ sent' = sent
          /\ first' = first /\ thread' = thread /\ link' = link
          /\ \A u \in Tasks : pc'[u] \in {pc[u], "peek", "cancel", "start", "done"}
      BY <1>13, PeekLooks DEF PeekWorld
    <2>2. \A m \in Inputs : Away(m)
      BY <1>98, <1>99, <2>1, AwayIs
    <2>3. QED
      BY <2>1, <2>2, QuietKept DEF Stands
  <1>14. ASSUME NEW t \in Tasks, FallbackStart(t) PROVE \A m \in Inputs : QuietAt(m)'
    <2>1. PICK n \in Inputs : n = captured[t] /\ FallbackWorld(t, n) /\ AfterFallback(n)
      BY <1>14, FallbackSends, FallbackStartDoes DEF AfterFallback
    <2>2. /\ thread'.active = n /\ thread.active = 0 /\ ~thread.detached
          /\ thread.status # "disconnected" /\ thread.pending.id = n
      BY <2>1 DEF AfterFallback
    <2>3. agent.leaves
      BY <2>1 DEF FallbackWorld, LeavesInv
    <2>4. /\ first' = first /\ link' = link /\ agent'.running = agent.running
          /\ \A m \in Inputs : m # n => sent'[m] = sent[m] /\ (m \in agent'.queue => m \in agent.queue)
          /\ sent'[n] = sent[n] + 1
      BY <2>1 DEF FallbackWorld, Queued, SendsOnce
    <2>5. \A m \in Inputs : pc'[<<"steer", m>>] \in {pc[<<"steer", m>>], "done"}
      <3>1. \A m \in Inputs : <<"steer", m>> # <<"prompt", n>>
        BY TaskFacts
      <3>2. QED
        BY <1>99, <2>1, <3>1 DEF FallbackWorld
    <2>6. pc[<<"steer", n>>] # "waiting"
      BY <2>1 DEF ReadsAnswered
    <2>7. ASSUME NEW m \in Inputs PROVE ~(agent.running = m /\ sent[m] = 0)
      <3>1. m # 0
        BY DEF Inputs
      <3>2. agent.running # 0 => sent[agent.running] > 0
        BY <2>3, Zenon DEF LeavesInv
      <3>3. QED
        BY <3>1, <3>2
    <2>8. ASSUME NEW m \in Inputs, m # n PROVE QuietAt(m)'
      <3>1. m # 0
        BY DEF Inputs
      <3>2. AtAgent(m)' => AtAgent(m)
        BY <2>4, <2>8 DEF AtAgent
      <3>3. QED
        BY <2>2, <2>4, <2>5, <2>7, <2>8, <3>1, <3>2 DEF QuietAt
    <2>9. QuietAt(n)'
      <3>1. sent'[n] # 0
        <4>1. sent[n] \in Nat
          BY DEF Typed, WorldOK
        <4>2. QED
          BY <2>4, <4>1
      <3>2. QED
        BY <2>2, <2>5, <2>6, <3>1 DEF QuietAt
    <2>10. QED
      BY <2>8, <2>9
  <1>15. ASSUME NEW t \in Tasks, FallbackRefused(t) PROVE \A m \in Inputs : QuietAt(m)'
    <2>1. /\ agent'.queue = agent.queue /\ agent'.running = agent.running /\ sent' = sent
          /\ first' = first /\ link' = link
          /\ \A u \in Tasks : pc'[u] \in {pc[u], "peek", "cancel", "start", "done"}
      BY <1>15, RefusedTakes DEF RefusedWorld, TaskWorld, Moved
    <2>2. \A m \in Inputs : Away(m)
      BY <1>98, <1>99, <2>1, AwayIs
    <2>3. CASE thread.pending.id = captured[t]
      <3>1. GivenUp
        BY <1>15, <2>3, FallbackRefusedDoes DEF AfterRefusal
      <3>2. agent.leaves
        BY <1>15, RefusedTakes DEF RefusedWorld, LeavesInv
      <3>3. \A m \in Inputs : thread.pending.id = m => pc[<<"steer", m>>] # "waiting"
        BY <2>3 DEF ReadsAnswered
      <3>4. /\ thread'.active = thread.active
            /\ thread.status = "disconnected" => thread'.status = "disconnected"
        BY <3>1 DEF GivenUp
      <3>5. QED
        BY <2>2, <3>1, <3>2, <3>3, <3>4, QuietCleared
    <2>4. CASE thread.pending.id # captured[t]
      <3>1. thread' = thread
        BY <1>15, <2>4, FallbackRefusedDoes DEF AfterRefusal
      <3>2. QED
        BY <2>2, <3>1, QuietKept DEF Stands
    <2>5. QED
      BY <2>3, <2>4
  <1>16. ASSUME StopSent PROVE \A m \in Inputs : QuietAt(m)'
    <2>0. first' = first /\ (link' = "up" => link = "up")
      BY <1>16 DEF StopSent
    <2>1. /\ agent'.queue = agent.queue /\ agent'.running = agent.running /\ sent' = sent
          /\ first' = first /\ (link' = "up" => link = "up")
          /\ \A u \in Tasks : pc'[u] \in {pc[u], "peek", "cancel", "start", "done"}
      BY <1>16, <2>0, BystandersKeep DEF OthersKeep, AgentKeeps
    <2>2. \A m \in Inputs : Away(m)
      BY <1>98, <1>99, <2>1, AwayIs
    <2>3. \A m \in Inputs : Stands(m)
      BY <1>16 DEF StopSent, Stands
    <2>4. QED
      BY <2>2, <2>3, QuietKept
  <1>17. ASSUME Closed PROVE \A m \in Inputs : QuietAt(m)'
    <2>1. thread'.status = "disconnected"
      BY <1>17, ClosedDoes DEF AfterSilence
    <2>2. QED
      BY <2>1, QuietLost
  <1>18. ASSUME CloseFails PROVE \A m \in Inputs : QuietAt(m)'
    <2>0. first' = first /\ (link' = "up" => link = "up")
      BY <1>18 DEF CloseFails
    <2>1. /\ agent'.queue = agent.queue /\ agent'.running = agent.running /\ sent' = sent
          /\ first' = first /\ (link' = "up" => link = "up")
          /\ \A u \in Tasks : pc'[u] \in {pc[u], "peek", "cancel", "start", "done"}
      BY <1>18, <2>0, BystandersKeep DEF OthersKeep, AgentKeeps
    <2>2. \A m \in Inputs : Away(m)
      BY <1>98, <1>99, <2>1, AwayIs
    <2>3. \A m \in Inputs : Stands(m)
      BY <1>18 DEF CloseFails, Stands
    <2>4. QED
      BY <2>2, <2>3, QuietKept
  <1>19. ASSUME Receive PROVE \A m \in Inputs : QuietAt(m)'
    <2>1. /\ agent' = agent /\ sent' = sent
          /\ first' = first /\ link' = link /\ pc' = pc
          /\ wire[1].kind = "activity" \/ thread' = thread
          /\ ReadOne
      BY <1>19, ReadTakes DEF ReadWorld
    <2>2. \A m \in Inputs : Away(m)
      BY <1>98, <1>99, <2>1, AwayIs
    <2>3. thread' = thread \/ \E a \in Activities : AfterReport(a)
      BY <1>19, ReadDoes DEF AfterRead
    <2>4. CASE thread' = thread
      BY <2>2, <2>4, QuietKept DEF Stands
    <2>5. CASE thread' # thread
      <3>1. PICK a \in Activities : AfterReport(a)
        BY <2>3, <2>5
      <3>2. agent.reports # "never"
        BY <2>1, <2>5, QuietSplit DEF MuteWire, ReadOne
      <3>3. /\ thread'.active = thread.active /\ thread'.pending.id = thread.pending.id
            /\ thread.status = "disconnected" => thread'.status = "disconnected"
        BY <3>1 DEF AfterReport
      <3>4. QED
        BY <1>98, <2>2, <3>2, <3>3 DEF QuietAt, Away
    <2>6. QED
      BY <2>4, <2>5
  <1>20. ASSUME StopConnection PROVE \A m \in Inputs : QuietAt(m)'
    <2>0. first' = first /\ (link' = "up" => link = "up")
      BY <1>20 DEF StopConnection
    <2>1. /\ agent'.queue = agent.queue /\ agent'.running = agent.running /\ sent' = sent
          /\ first' = first /\ (link' = "up" => link = "up")
          /\ \A u \in Tasks : pc'[u] \in {pc[u], "peek", "cancel", "start", "done"}
      BY <1>20, <2>0, BystandersKeep DEF OthersKeep, AgentKeeps
    <2>2. \A m \in Inputs : Away(m)
      BY <1>98, <1>99, <2>1, AwayIs
    <2>3. \A m \in Inputs : Stands(m)
      BY <1>20 DEF StopConnection, Stands
    <2>4. QED
      BY <2>2, <2>3, QuietKept
  <1>21. ASSUME ConnectionLost PROVE \A m \in Inputs : QuietAt(m)'
    <2>1. link' = "handled"
      BY <1>21 DEF ConnectionLost
    <2>2. QED
      BY <2>1 DEF QuietAt
  <1>22. ASSUME AgentBegins PROVE \A m \in Inputs : QuietAt(m)'
    <2>1. PICK n \in Inputs : /\ n \in agent.queue /\ agent'.running = n /\ sent' = sent
                            /\ agent'.queue = agent.queue \ {n}
                            /\ first' = first /\ link' = link /\ pc' = pc /\ thread' = thread
      BY <1>22, BeginsMoves DEF BeginsWorld, AfterBegins, AgentAlone
    <2>2. sent[n] > 0
      <3>1. pc[<<"prompt", n>>] # "none"
        BY <2>1 DEF MailInv, AtAgent, Expects
      <3>2. QED
        BY <3>1 DEF MailInv
    <2>3. \A m \in Inputs : Away(m)
      BY <1>98, <2>1, <2>2 DEF Away, AtAgent
    <2>4. QED
      BY <2>1, <2>3, QuietKept DEF Stands
  <1>23. ASSUME AgentEnds PROVE \A m \in Inputs : QuietAt(m)'
    <2>1. /\ agent'.queue = agent.queue /\ agent'.running = 0 /\ sent' = sent
          /\ first' = first /\ link' = link /\ pc' = pc /\ thread' = thread
      BY <1>23, EndsMoves DEF EndsWorld, AfterEnds, AgentAlone
    <2>2. \A m \in Inputs : m # 0
      BY DEF Inputs
    <2>3. \A m \in Inputs : Away(m)
      BY <1>98, <2>1, <2>2 DEF Away, AtAgent
    <2>4. QED
      BY <2>1, <2>3, QuietKept DEF Stands
  <1>24. ASSUME AgentAnnounces PROVE \A m \in Inputs : QuietAt(m)'
    <2>1. /\ agent'.queue = agent.queue /\ agent'.running = agent.running /\ sent' = sent
          /\ first' = first /\ link' = link /\ pc' = pc /\ thread' = thread
      BY <1>24, AnnouncesMoves DEF AnnouncesWorld, AfterAnnounces, AgentAlone
    <2>2. \A m \in Inputs : Away(m)
      BY <1>98, <1>99, <2>1, AwayIs
    <2>3. QED
      BY <2>1, <2>2, QuietKept DEF Stands
  <1>25. ASSUME NEW n \in Inputs, AgentConsumes(n) PROVE \A m \in Inputs : QuietAt(m)'
    <2>1. AfterConsumes(n) /\ AgentAlone
      BY <1>25, ConsumesMoves DEF ConsumesWorld
    <2>2. /\ agent'.queue = agent.queue /\ sent' = sent /\ agent'.running \in {n, agent.running}
          /\ first' = first /\ link' = link /\ pc' = pc /\ thread' = thread
          /\ agent.asked[n] = "new"
      BY <2>1 DEF AfterConsumes, Consults, AgentAlone
    <2>3. sent[n] = 0
      BY <2>2 DEF OnceInv
    <2>4. \A m \in Inputs : AtAgent(m)' => AtAgent(m)
      BY <2>2, <2>3 DEF AtAgent
    <2>5. ASSUME NEW m \in Inputs, m # n PROVE QuietAt(m)'
      <3>1. Away(m)
        BY <1>98, <2>2, <2>4, <2>5 DEF Away
      <3>2. QED
        BY <2>2, <3>1, QuietKept DEF Stands
    <2>6. QuietAt(n)'
      <3>1. pc[<<"steer", n>>] = "waiting"
        BY <2>2 DEF MailInv, Expects
      <3>2. QED
        BY <2>2, <2>4, <3>1 DEF QuietAt
    <2>7. QED
      BY <2>5, <2>6
  <1>26. ASSUME NEW n \in Inputs, AgentAnswers(n) PROVE \A m \in Inputs : QuietAt(m)'
    <2>1. /\ agent'.queue = agent.queue /\ agent'.running = agent.running /\ sent' = sent
          /\ first' = first /\ link' = link /\ pc' = pc /\ thread' = thread
      BY <1>26, AnswersMoves DEF AnswersWorld, Consults, AgentAlone
    <2>2. \A m \in Inputs : Away(m)
      BY <1>98, <1>99, <2>1, AwayIs
    <2>3. QED
      BY <2>1, <2>2, QuietKept DEF Stands
  <1>27. ASSUME UNCHANGED <<thread, first, pc, link, agent, sent>> PROVE \A m \in Inputs :
           QuietAt(m)'
    <2>1. \A m \in Inputs : QuietAt(m)' <=> QuietAt(m)
      BY <1>27 DEF QuietAt, AtAgent
    <2>2. QED
      BY <2>1
  <1> QED
    BY <1>1, <1>2, <1>3, <1>4, <1>5, <1>6, <1>7, <1>8, <1>9, <1>10, <1>11, <1>12, <1>13,
       <1>14, <1>15, <1>16, <1>17, <1>18, <1>19, <1>20, <1>21, <1>22, <1>23, <1>24, <1>25,
       <1>26, <1>27
       DEF Next, User, Settling, Task, AgentNext, vars, taskVars, logVars

\* What the agent works at goes on being what the conversation works at.
LEMMA QuietStep ==
  Typed /\ FreshInv /\ MailInv /\ OnceInv /\ LeavesInv /\ LinkInv /\ TurnInv /\ StatusInv /\ QuietInv
    /\ [Next]_vars => QuietInv'
  <1> SUFFICES ASSUME Typed, FreshInv, MailInv, OnceInv, LeavesInv, LinkInv, TurnInv, StatusInv,
                      QuietInv, [Next]_vars
               PROVE  QuietInv'
    OBVIOUS
  <1>1. LostOld /\ ReadsAnswered /\ MuteWire /\ MuteThread
    BY QuietSplit
  <1>2. LostOld' /\ ReadsAnswered'
    BY <1>1, LostOldStep, ReadsAnsweredStep
  <1>3. MuteWire' /\ MuteThread'
    BY <1>1, MuteWireStep, MuteThreadStep
  <1>4. (\A n \in Inputs : QuietAt(n))'
    BY QuietAtStep
  <1>5. LostOld' /\ ReadsAnswered' /\ MuteWire' /\ MuteThread' /\ (\A n \in Inputs : QuietAt(n))'
          => QuietInv'
    BY QuietSplit, PTL
  <1>6. QED
    BY <1>2, <1>3, <1>4, <1>5

-----------------------------------------------------------------------------
(* Whatever waits has somebody to end the wait *)

SendingWaits == \A n \in Inputs : thread.delivery[n] = "sending" => thread.pending.id = n
ActiveWaits == thread.active # 0 => pc[<<"prompt", thread.active>>] = "waiting"
PendingWaits ==
    HasPending(thread) /\ ~thread.pending.required => pc[<<"steer", thread.pending.id>>] = "waiting"
\* The task that will try the fallback.
Tries(t) == pc[t] = "peek" \/ (pc[t] = "start" /\ captured[t] = thread.pending.id)
RequiredWaits == thread.pending.required => thread.active # 0 \/ \E t \in Tasks : Tries(t)
UntrackedIs == thread.detached => (thread.untracked <=> ~thread.detachedActive)
EndsFollow ==
    \A i \in 1..Len(wire) : wire[i].what = "active" =>
      \/ Announced
      \/ \E j \in 1..Len(wire) : j > i /\ wire[j].kind = "activity" /\ wire[j].what # "active"
\* The beginning of a turn has been seen, and not its end.
Seen ==
    \/ thread.pending.sawActive /\ thread.pending.terminal = "none"
    \/ thread.detached /\ thread.detachedActive
EndComes == link = "up" /\ Seen => Announced \/ EndOnWire

\* The parts of WaitInv.
LEMMA WaitSplit ==
  WaitInv <=> /\ SendingWaits /\ ActiveWaits /\ PendingWaits /\ RequiredWaits /\ UntrackedIs
              /\ EndsFollow /\ EndComes
  BY Zenon DEF WaitInv, SendingWaits, ActiveWaits, PendingWaits, RequiredWaits, Tries, UntrackedIs,
               EndsFollow, EndComes, Seen

\* What a report does to the pending input.
LEMMA ReportPending ==
  ASSUME Typed, StatusInv, NEW a \in Activities, AfterReport(a)
  PROVE  /\ thread'.pending.id = thread.pending.id
         /\ thread'.pending.required = thread.pending.required
         /\ thread'.pending.sawActive => thread.pending.sawActive \/ a = "active"
         /\ thread'.pending.sawActive /\ thread'.pending.terminal = "none" => a = "active"
  <1>1. thread.pending \in PendingSteer
    BY TypeSplit DEF ThreadOK, Snapshot
  <1>2. CASE HasPending(thread)
    <2>1. thread'.pending = PendingSees(thread.pending, a)
      BY <1>2 DEF AfterReport
    <2>2. QED
      BY <1>1, <2>1, PendingSeesIs DEF Activities
  <1>3. CASE ~HasPending(thread)
    <2>1. thread'.pending = thread.pending
      BY <1>3 DEF AfterReport
    <2>2. ~thread.pending.sawActive
      BY <1>3 DEF StatusInv
    <2>3. QED
      BY <2>1, <2>2
  <1>4. QED
    BY <1>2, <1>3

\* Input that is being sent is the pending one.
LEMMA SendingWaitsStep ==
  Typed /\ TurnInv /\ LeavesInv /\ LinkInv /\ StatusInv /\ SendingWaits /\ [Next]_vars
    => SendingWaits'
  <1> SUFFICES ASSUME Typed, TurnInv, LeavesInv, LinkInv, StatusInv, SendingWaits, [Next]_vars
               PROVE  SendingWaits'
    OBVIOUS
  <1>99. \A m \in Inputs : m # 0
    BY DEF Inputs
  <1>98. thread.pending \in PendingSteer
    BY TypeSplit DEF ThreadOK, Snapshot
  <1>1. ASSUME Prompt PROVE SendingWaits'
    BY <1>1, PromptDoes DEF AfterPrompt, Begins, SendingWaits
  <1>2. ASSUME PromptUnsaved PROVE SendingWaits'
    BY <1>2, PromptUnsavedDoes DEF Unmoved, SendingWaits
  <1>3. ASSUME Steer PROVE SendingWaits'
    <2>1. PICK n \in Inputs : /\ thread.pending.id = 0 /\ thread'.pending.id = n
                 /\ \A m \in Inputs : thread'.delivery[m] = IF m = n THEN "sending" ELSE thread.delivery[m]
      BY <1>3, SteerDoes DEF AfterSteer, HasPending
    <2>2. QED
      BY <1>99, <2>1 DEF SendingWaits
  <1>4. ASSUME Stop PROVE SendingWaits'
    <2>1. CASE thread.pending.required
      <3>1. /\ \A m \in Inputs : thread'.delivery[m] = thread.delivery[m] \/ thread'.delivery[m] # "sending"
            /\ thread.pending.id \in Inputs => thread'.delivery[thread.pending.id] # "sending"
        BY <1>4, <2>1, StopDoes DEF AfterStop, GivenUp
      <3>2. QED
        BY <3>1 DEF SendingWaits
    <2>2. CASE ~thread.pending.required
      <3>1. thread'.delivery = thread.delivery /\ thread'.pending.id = thread.pending.id
        BY <1>4, <1>98, <2>2, StopDoes DEF AfterStop, PendingSteer
      <3>2. QED
        BY <3>1 DEF SendingWaits
    <2>3. QED
      BY <2>1, <2>2
  <1>5. ASSUME Reopen PROVE SendingWaits'
    <2>1. ~HasPending(thread)
      <3>1. ~route \/ link = "handled"
        BY <1>5 DEF Reopen
      <3>2. QED
        BY <3>1 DEF LinkInv
    <2>2. thread'.delivery = thread.delivery
      BY <1>5, ReopenDoes DEF Anew
    <2>3. QED
      BY <1>99, <2>1, <2>2 DEF HasPending, SendingWaits
  <1>6. ASSUME NEW n \in Inputs, PromptResult(n) PROVE SendingWaits'
    BY <1>6, PromptResultDoes DEF AfterResult, SendingWaits
  <1>7. ASSUME NEW n \in Inputs, SteerAnswer(n) PROVE SendingWaits'
    <2>1. AfterAnswer(n)
      BY <1>7, SteerAnswerDoes
    <2>2. CASE answer[<<"steer", n>>] = "required" /\ ~thread.pending.cancelled
      <3>1. thread'.pending.id = thread.pending.id /\ thread'.delivery = thread.delivery
        BY <1>98, <2>1, <2>2 DEF AfterAnswer, PendingSteer
      <3>2. QED
        BY <3>1 DEF SendingWaits
    <2>3. CASE ~(answer[<<"steer", n>>] = "required" /\ ~thread.pending.cancelled)
      BY <2>1, <2>3 DEF AfterAnswer, SendingWaits
    <2>4. QED
      BY <2>2, <2>3
  <1>8. ASSUME NEW t \in Tasks, FallbackStart(t) PROVE SendingWaits'
    <2>1. PICK n \in Inputs : AfterFallback(n)
      BY <1>8, FallbackStartDoes DEF AfterFallback
    <2>2. QED
      BY <2>1 DEF AfterFallback, SendingWaits
  <1>9. ASSUME NEW t \in Tasks, FallbackRefused(t) PROVE SendingWaits'
    <2>1. CASE thread.pending.id = captured[t]
      <3>1. /\ \A m \in Inputs : thread'.delivery[m] = thread.delivery[m] \/ thread'.delivery[m] # "sending"
            /\ thread.pending.id \in Inputs => thread'.delivery[thread.pending.id] # "sending"
        BY <1>9, <2>1, FallbackRefusedDoes DEF AfterRefusal, GivenUp
      <3>2. QED
        BY <3>1 DEF SendingWaits
    <2>2. CASE thread.pending.id # captured[t]
      BY <1>9, <2>2, FallbackRefusedDoes DEF AfterRefusal, SendingWaits
    <2>3. QED
      BY <2>1, <2>2
  <1>10. ASSUME Closed PROVE SendingWaits'
    BY <1>10, ClosedDoes DEF AfterSilence, SendingWaits
  <1>11. ASSUME Receive PROVE SendingWaits'
    <2>1. thread' = thread \/ \E a \in Activities : AfterReport(a)
      BY <1>11, ReadDoes DEF AfterRead
    <2>2. CASE thread' = thread
      BY <2>2 DEF SendingWaits
    <2>3. CASE \E a \in Activities : AfterReport(a)
      BY <2>3, ReportPending DEF AfterReport, SendingWaits
    <2>4. QED
      BY <2>1, <2>2, <2>3
  <1>12. ASSUME ConnectionLost PROVE SendingWaits'
    <2>1. CASE route
      BY <1>12, <2>1, ConnectionLostDoes DEF AfterSilence, SendingWaits
    <2>2. CASE ~route
      BY <1>12, <2>2, ConnectionLostDoes DEF SendingWaits
    <2>3. QED
      BY <2>1, <2>2
  <1>13. ASSUME UNCHANGED thread PROVE SendingWaits'
    BY <1>13
       DEF SendingWaits
  <1> QED
    BY <1>1, <1>2, <1>3, <1>4, <1>5, <1>6, <1>7, <1>8, <1>9, <1>10, <1>11, <1>12, <1>13
       DEF Next, User, Settling, Task, AgentNext, Close, Break, PromptResultLate,
           SteerAnswerLate, CancelAgain, Peek, StopSent, CloseFails, StopConnection,
           AgentBegins, AgentEnds, AgentAnnounces, AgentConsumes, AgentAnswers, SendCancel,
           Goto, AgentStep, AgentFrame, vars, taskVars, logVars

\* A turn of the agent's own is untracked until its beginning is seen.
LEMMA UntrackedIsStep ==
  Typed /\ TurnInv /\ LeavesInv /\ StatusInv /\ UntrackedIs /\ [Next]_vars
    => UntrackedIs'
  <1> SUFFICES ASSUME Typed, TurnInv, LeavesInv, StatusInv, UntrackedIs, [Next]_vars
               PROVE  UntrackedIs'
    OBVIOUS
  <1>1. ASSUME Prompt PROVE UntrackedIs'
    BY <1>1, PromptDoes DEF AfterPrompt, Begins, UntrackedIs
  <1>2. ASSUME PromptUnsaved PROVE UntrackedIs'
    BY <1>2, PromptUnsavedDoes DEF Unmoved, Quiet, UntrackedIs
  <1>3. ASSUME Steer PROVE UntrackedIs'
    BY <1>3, SteerDoes DEF AfterSteer, Quiet, UntrackedIs
  <1>4. ASSUME Stop PROVE UntrackedIs'
    BY <1>4, StopDoes DEF AfterStop, GivenUp, Quiet, UntrackedIs
  <1>5. ASSUME Reopen PROVE UntrackedIs'
    BY <1>5, ReopenDoes DEF Anew, UntrackedIs
  <1>6. ASSUME NEW n \in Inputs, PromptResult(n) PROVE UntrackedIs'
    BY <1>6, PromptResultDoes DEF AfterResult, Quiet, UntrackedIs
  <1>7. ASSUME NEW n \in Inputs, SteerAnswer(n) PROVE UntrackedIs'
    BY <1>7, SteerAnswerDoes DEF AfterAnswer, Quiet, UntrackedIs
  <1>8. ASSUME NEW t \in Tasks, FallbackStart(t) PROVE UntrackedIs'
    BY <1>8, FallbackStartDoes DEF AfterFallback, Quiet, UntrackedIs
  <1>9. ASSUME NEW t \in Tasks, FallbackRefused(t) PROVE UntrackedIs'
    BY <1>9, FallbackRefusedDoes DEF AfterRefusal, GivenUp, Quiet, UntrackedIs
  <1>10. ASSUME Closed PROVE UntrackedIs'
    BY <1>10, ClosedDoes DEF AfterSilence, UntrackedIs
  <1>11. ASSUME Receive PROVE UntrackedIs'
    <2>1. thread' = thread \/ \E a \in Activities : AfterReport(a)
      BY <1>11, ReadDoes DEF AfterRead
    <2>2. CASE thread' = thread
      BY <2>2 DEF UntrackedIs
    <2>3. CASE \E a \in Activities : AfterReport(a)
      BY <2>3 DEF AfterReport, UntrackedIs
    <2>4. QED
      BY <2>1, <2>2, <2>3
  <1>12. ASSUME ConnectionLost PROVE UntrackedIs'
    <2>1. CASE route
      BY <1>12, <2>1, ConnectionLostDoes DEF AfterSilence, UntrackedIs
    <2>2. CASE ~route
      BY <1>12, <2>2, ConnectionLostDoes DEF UntrackedIs
    <2>3. QED
      BY <2>1, <2>2
  <1>13. ASSUME UNCHANGED thread PROVE UntrackedIs'
    BY <1>13
       DEF UntrackedIs
  <1> QED
    BY <1>1, <1>2, <1>3, <1>4, <1>5, <1>6, <1>7, <1>8, <1>9, <1>10, <1>11, <1>12, <1>13
       DEF Next, User, Settling, Task, AgentNext, Close, Break, PromptResultLate,
           SteerAnswerLate, CancelAgain, Peek, StopSent, CloseFails, StopConnection,
           AgentBegins, AgentEnds, AgentAnnounces, AgentConsumes, AgentAnswers, SendCancel,
           Goto, AgentStep, AgentFrame, vars, taskVars, logVars

\* Whence what has been seen was seen.
SeenBefore ==
    link' = "up" /\ Seen' =>
      /\ link = "up"
      /\ \/ Receive /\ (wire[1].what = "active" \/ (wire[1].kind = "response" /\ Seen))
         \/ wire' = wire /\ Seen
         \/ WireGrows /\ Seen

\* A report is seen when it is read.
LEMMA SeenRead == ASSUME Typed, LinkInv, TurnInv, StatusInv, Receive PROVE SeenBefore
  <1>1. ReadWorld /\ AfterRead
    BY ReadTakes, ReadDoes
  <1>2. link' = link
    BY <1>1 DEF ReadWorld
  <1>3. CASE wire[1].kind = "response"
    <2>1. thread' = thread
      BY <1>1, <1>3 DEF ReadWorld
    <2>2. QED
      BY <1>2, <1>3, <2>1 DEF SeenBefore, Seen
  <1>4. CASE wire[1].kind = "activity" /\ route
    <2>1. AfterReport(wire[1].what) /\ wire[1].what \in Activities
      BY <1>1, <1>4, MessageFacts DEF AfterRead, ReadWorld, ReadOne
    <2>2. Seen' => wire[1].what = "active"
      BY <2>1, ReportPending DEF AfterReport, Seen
    <2>3. QED
      BY <1>2, <2>2 DEF SeenBefore
  <1>5. CASE wire[1].kind = "activity" /\ ~route
    <2>1. thread' = thread
      BY <1>1, <1>5 DEF AfterRead
    <2>2. ~thread.detached /\ ~HasPending(thread)
      BY <1>5 DEF LinkInv
    <2>3. ~thread.pending.sawActive
      BY <2>2 DEF StatusInv
    <2>4. QED
      BY <2>1, <2>2, <2>3 DEF SeenBefore, Seen
  <1>6. QED
    BY <1>1, <1>3, <1>4, <1>5 DEF ReadWorld

\* What has been seen has been reported.
LEMMA SeenStep ==
  Typed /\ FreshInv /\ LeavesInv /\ LinkInv /\ TurnInv /\ StatusInv /\ [Next]_vars
    => SeenBefore
  <1> SUFFICES ASSUME Typed, FreshInv, LeavesInv, LinkInv, TurnInv, StatusInv, [Next]_vars
               PROVE  SeenBefore
    OBVIOUS
  <1>1. ASSUME Prompt PROVE SeenBefore
    <2>1. Seen' => Seen
      BY <1>1, PromptDoes DEF AfterPrompt, Begins, Seen
    <2>2. wire' = wire /\ (link' = "up" => link = "up")
      BY <1>1, PromptSends DEF PromptWorld
    <2>3. QED
      BY <2>1, <2>2 DEF SeenBefore
  <1>2. ASSUME PromptUnsaved PROVE SeenBefore
    <2>1. Seen' => Seen
      BY <1>2, PromptUnsavedDoes DEF Unmoved, Quiet, Seen
    <2>2. wire' = wire /\ (link' = "up" => link = "up")
      BY <1>2 DEF PromptUnsaved
    <2>3. QED
      BY <2>1, <2>2 DEF SeenBefore
  <1>3. ASSUME Steer PROVE SeenBefore
    <2>1. Seen' => Seen
      BY <1>3, SteerDoes DEF AfterSteer, Quiet, Seen
    <2>2. wire' = wire /\ (link' = "up" => link = "up")
      BY <1>3, SteerSends DEF SteerWorld
    <2>3. QED
      BY <2>1, <2>2 DEF SeenBefore
  <1>4. ASSUME Stop PROVE SeenBefore
    <2>1. Seen' => Seen
      <3>1. thread.pending \in PendingSteer
        BY TypeSplit DEF ThreadOK, Snapshot
      <3>2. QED
        BY <1>4, <3>1, StopDoes DEF AfterStop, GivenUp, Quiet, NoPending, PendingSteer, Seen
    <2>2. wire' = wire /\ (link' = "up" => link = "up")
      BY <1>4 DEF Stop
    <2>3. QED
      BY <2>1, <2>2 DEF SeenBefore
  <1>5. ASSUME Close PROVE SeenBefore
    <2>1. Seen' => Seen
      BY <1>5 DEF Close, Seen
    <2>2. wire' = wire /\ (link' = "up" => link = "up")
      BY <1>5 DEF Close
    <2>3. QED
      BY <2>1, <2>2 DEF SeenBefore
  <1>6. ASSUME Reopen PROVE SeenBefore
    <2>1. ~Seen'
      BY <1>6, ReopenDoes DEF Anew, NoPending, Seen
    <2>2. QED
      BY <2>1 DEF SeenBefore
  <1>7. ASSUME Break PROVE SeenBefore
    <2>1. link' = "broken"
      BY <1>7, BreakDoes DEF BreakWorld
    <2>2. QED
      BY <2>1 DEF SeenBefore
  <1>8. ASSUME NEW n \in Inputs, PromptResult(n) PROVE SeenBefore
    <2>1. Seen' => Seen
      BY <1>8, PromptResultDoes DEF AfterResult, Quiet, Seen
    <2>2. wire' = wire /\ (link' = "up" => link = "up")
      BY <1>8, ResultTakes DEF TaskWorld
    <2>3. QED
      BY <2>1, <2>2 DEF SeenBefore
  <1>9. ASSUME NEW n \in Inputs, PromptResultLate(n) PROVE SeenBefore
    <2>1. Seen' => Seen
      BY <1>9, ResultTakes DEF TaskWorld, Seen
    <2>2. wire' = wire /\ (link' = "up" => link = "up")
      BY <1>9, ResultTakes DEF TaskWorld
    <2>3. QED
      BY <2>1, <2>2 DEF SeenBefore
  <1>10. ASSUME NEW n \in Inputs, SteerAnswer(n) PROVE SeenBefore
    <2>1. AfterAnswer(n)
      BY <1>10, SteerAnswerDoes
    <2>2. thread'.pending.sawActive /\ thread'.pending.terminal = "none" => Seen
      <3>1. thread.pending \in PendingSteer
        BY TypeSplit DEF ThreadOK, Snapshot
      <3>2. thread'.pending = NoPending \/ thread'.pending = [thread.pending EXCEPT !.required = TRUE]
        BY <2>1 DEF AfterAnswer
      <3>3. QED
        BY <3>1, <3>2 DEF NoPending, PendingSteer, Seen
    <2>3. thread'.detached /\ thread'.detachedActive => Seen
      BY <2>1 DEF AfterAnswer, Quiet, Seen
    <2>4. wire' = wire /\ link' = link
      BY <1>10, AnswerTakes DEF TaskWorld
    <2>5. QED
      BY <2>2, <2>3, <2>4 DEF SeenBefore, Seen
  <1>11. ASSUME NEW n \in Inputs, SteerAnswerLate(n) PROVE SeenBefore
    <2>1. Seen' => Seen
      BY <1>11, AnswerTakes DEF TaskWorld, Seen
    <2>2. wire' = wire /\ (link' = "up" => link = "up")
      BY <1>11, AnswerTakes DEF TaskWorld
    <2>3. QED
      BY <2>1, <2>2 DEF SeenBefore
  <1>12. ASSUME NEW n \in Inputs, CancelAgain(n) PROVE SeenBefore
    <2>1. Seen' => Seen
      BY <1>12, CancelTakes DEF TaskWorld, Seen
    <2>2. wire' = wire /\ (link' = "up" => link = "up")
      BY <1>12, CancelTakes DEF TaskWorld
    <2>3. QED
      BY <2>1, <2>2 DEF SeenBefore
  <1>13. ASSUME NEW t \in Tasks, Peek(t) PROVE SeenBefore
    <2>1. Seen' => Seen
      BY <1>13, PeekLooks DEF PeekWorld, Seen
    <2>2. wire' = wire /\ (link' = "up" => link = "up")
      BY <1>13, PeekLooks DEF PeekWorld
    <2>3. QED
      BY <2>1, <2>2 DEF SeenBefore
  <1>14. ASSUME NEW t \in Tasks, FallbackStart(t) PROVE SeenBefore
    <2>1. Seen' => Seen
      BY <1>14, FallbackStartDoes DEF AfterFallback, NoPending, Quiet, Seen
    <2>2. wire' = wire /\ (link' = "up" => link = "up")
      BY <1>14, FallbackSends DEF FallbackWorld
    <2>3. QED
      BY <2>1, <2>2 DEF SeenBefore
  <1>15. ASSUME NEW t \in Tasks, FallbackRefused(t) PROVE SeenBefore
    <2>1. Seen' => Seen
      BY <1>15, FallbackRefusedDoes DEF AfterRefusal, GivenUp, NoPending, Quiet, Seen
    <2>2. wire' = wire /\ (link' = "up" => link = "up")
      BY <1>15, RefusedTakes DEF RefusedWorld, TaskWorld
    <2>3. QED
      BY <2>1, <2>2 DEF SeenBefore
  <1>16. ASSUME StopSent PROVE SeenBefore
    <2>1. Seen' => Seen
      BY <1>16 DEF StopSent, Seen
    <2>2. wire' = wire /\ (link' = "up" => link = "up")
      BY <1>16 DEF StopSent
    <2>3. QED
      BY <2>1, <2>2 DEF SeenBefore
  <1>17. ASSUME Closed PROVE SeenBefore
    <2>1. Seen' => Seen
      BY <1>17, ClosedDoes DEF AfterSilence, NoPending, Seen
    <2>2. wire' = wire /\ (link' = "up" => link = "up")
      BY <1>17 DEF Closed
    <2>3. QED
      BY <2>1, <2>2 DEF SeenBefore
  <1>18. ASSUME CloseFails PROVE SeenBefore
    <2>1. Seen' => Seen
      BY <1>18 DEF CloseFails, Seen
    <2>2. wire' = wire /\ (link' = "up" => link = "up")
      BY <1>18 DEF CloseFails
    <2>3. QED
      BY <2>1, <2>2 DEF SeenBefore
  <1>19. ASSUME Receive PROVE SeenBefore
    BY <1>19, SeenRead
  <1>20. ASSUME StopConnection PROVE SeenBefore
    <2>1. Seen' => Seen
      BY <1>20 DEF StopConnection, Seen
    <2>2. wire' = wire /\ (link' = "up" => link = "up")
      BY <1>20 DEF StopConnection
    <2>3. QED
      BY <2>1, <2>2 DEF SeenBefore
  <1>21. ASSUME ConnectionLost PROVE SeenBefore
    <2>1. link' = "handled"
      BY <1>21 DEF ConnectionLost
    <2>2. QED
      BY <2>1 DEF SeenBefore
  <1>22. ASSUME AgentBegins PROVE SeenBefore
    <2>1. thread' = thread /\ link' = link /\ link = "up"
      BY <1>22, BeginsMoves DEF BeginsWorld, AfterBegins, AgentAlone
    <2>2. WireKeeps \/ WireReads \/ WireGrows
      BY <1>22, <2>1, WireStep DEF WireBreaks
    <2>3. WireReads => Receive
      BY DEF WireReads
    <2>4. CASE WireKeeps \/ WireGrows
      BY <2>1, <2>4 DEF SeenBefore, Seen, WireKeeps
    <2>5. CASE WireReads
      BY <2>5, SeenRead DEF WireReads
    <2>6. QED
      BY <2>2, <2>4, <2>5
  <1>23. ASSUME AgentEnds PROVE SeenBefore
    <2>1. thread' = thread /\ link' = link /\ link = "up"
      BY <1>23, EndsMoves DEF EndsWorld, AgentAlone
    <2>2. WireKeeps \/ WireReads \/ WireGrows
      BY <1>23, <2>1, WireStep DEF WireBreaks
    <2>3. WireReads => Receive
      BY DEF WireReads
    <2>4. CASE WireKeeps \/ WireGrows
      BY <2>1, <2>4 DEF SeenBefore, Seen, WireKeeps
    <2>5. CASE WireReads
      BY <2>5, SeenRead DEF WireReads
    <2>6. QED
      BY <2>2, <2>4, <2>5
  <1>24. ASSUME AgentAnnounces PROVE SeenBefore
    <2>1. thread' = thread /\ link' = link /\ link = "up"
      BY <1>24, AnnouncesMoves DEF AnnouncesWorld, AfterAnnounces, AgentAlone
    <2>2. WireKeeps \/ WireReads \/ WireGrows
      BY <1>24, <2>1, WireStep DEF WireBreaks
    <2>3. WireReads => Receive
      BY DEF WireReads
    <2>4. CASE WireKeeps \/ WireGrows
      BY <2>1, <2>4 DEF SeenBefore, Seen, WireKeeps
    <2>5. CASE WireReads
      BY <2>5, SeenRead DEF WireReads
    <2>6. QED
      BY <2>2, <2>4, <2>5
  <1>25. ASSUME NEW n \in Inputs, AgentConsumes(n) PROVE SeenBefore
    <2>1. thread' = thread /\ link' = link /\ link = "up"
      BY <1>25, ConsumesMoves DEF ConsumesWorld, AfterConsumes, AgentAlone
    <2>2. WireKeeps \/ WireReads \/ WireGrows
      BY <1>25, <2>1, WireStep DEF WireBreaks
    <2>3. WireReads => Receive
      BY DEF WireReads
    <2>4. CASE WireKeeps \/ WireGrows
      BY <2>1, <2>4 DEF SeenBefore, Seen, WireKeeps
    <2>5. CASE WireReads
      BY <2>5, SeenRead DEF WireReads
    <2>6. QED
      BY <2>2, <2>4, <2>5
  <1>26. ASSUME NEW n \in Inputs, AgentAnswers(n) PROVE SeenBefore
    <2>1. thread' = thread /\ link' = link /\ link = "up"
      BY <1>26, AnswersMoves DEF AnswersWorld, Replies, AgentAlone
    <2>2. WireKeeps \/ WireReads \/ WireGrows
      BY <1>26, <2>1, WireStep DEF WireBreaks
    <2>3. WireReads => Receive
      BY DEF WireReads
    <2>4. CASE WireKeeps \/ WireGrows
      BY <2>1, <2>4 DEF SeenBefore, Seen, WireKeeps
    <2>5. CASE WireReads
      BY <2>5, SeenRead DEF WireReads
    <2>6. QED
      BY <2>2, <2>4, <2>5
  <1>27. ASSUME UNCHANGED <<thread, link, agent, wire>> PROVE SeenBefore
    BY <1>27 DEF SeenBefore, Seen
  <1> QED
    BY <1>1, <1>2, <1>3, <1>4, <1>5, <1>6, <1>7, <1>8, <1>9, <1>10, <1>11, <1>12, <1>13,
       <1>14, <1>15, <1>16, <1>17, <1>18, <1>19, <1>20, <1>21, <1>22, <1>23, <1>24, <1>25,
       <1>26, <1>27
       DEF Next, User, Settling, Task, AgentNext, vars, taskVars, logVars

-----------------------------------------------------------------------------
(* Every wait goes on until its answer is taken *)

\* The response that ends the wait of a task is taken.
Taken(u) ==
    \E n \in Inputs : \/ u = <<"prompt", n>> /\ (PromptResult(n) \/ PromptResultLate(n))
                      \/ u = <<"steer", n>> /\ (SteerAnswer(n) \/ SteerAnswerLate(n))
WaitsOn == \A u \in Tasks : pc[u] = "waiting" => pc'[u] = "waiting" \/ Taken(u)

\* A task waits until it takes its response.
LEMMA WaitsOnStep == Typed /\ TurnInv /\ StatusInv /\ [Next]_vars => WaitsOn
  <1> SUFFICES ASSUME Typed, TurnInv, StatusInv, [Next]_vars PROVE WaitsOn
    OBVIOUS
  <1>1. ASSUME Prompt PROVE WaitsOn
    BY <1>1, PromptSends
       DEF PromptWorld, Asks, WaitsOn
  <1>2. ASSUME Steer PROVE WaitsOn
    BY <1>2, SteerSends
       DEF SteerWorld, Asks, WaitsOn
  <1>3. ASSUME NEW n \in Inputs, PromptResult(n) PROVE WaitsOn
    BY <1>3, ResultTakes
       DEF TaskWorld, Moved, Taken, WaitsOn
  <1>4. ASSUME NEW n \in Inputs, PromptResultLate(n) PROVE WaitsOn
    BY <1>4, ResultTakes
       DEF TaskWorld, Moved, Taken, WaitsOn
  <1>5. ASSUME NEW n \in Inputs, SteerAnswer(n) PROVE WaitsOn
    BY <1>5, AnswerTakes
       DEF TaskWorld, Moved, Taken, WaitsOn
  <1>6. ASSUME NEW n \in Inputs, SteerAnswerLate(n) PROVE WaitsOn
    BY <1>6, AnswerTakes
       DEF TaskWorld, Moved, Taken, WaitsOn
  <1>7. ASSUME NEW n \in Inputs, CancelAgain(n) PROVE WaitsOn
    BY <1>7, CancelTakes
       DEF TaskWorld, Moved, WaitsOn
  <1>8. ASSUME NEW t \in Tasks, Peek(t) PROVE WaitsOn
    BY <1>8, PeekLooks
       DEF PeekWorld, WaitsOn
  <1>9. ASSUME NEW t \in Tasks, FallbackStart(t) PROVE WaitsOn
    BY <1>9, FallbackSends
       DEF FallbackWorld, WaitsOn
  <1>10. ASSUME NEW t \in Tasks, FallbackRefused(t) PROVE WaitsOn
    BY <1>10, RefusedTakes
       DEF RefusedWorld, TaskWorld, Moved, WaitsOn
  <1>11. ASSUME UNCHANGED pc PROVE WaitsOn
    BY <1>11
       DEF WaitsOn
  <1> QED
    BY <1>1, <1>2, <1>3, <1>4, <1>5, <1>6, <1>7, <1>8, <1>9, <1>10, <1>11
       DEF Next, User, Settling, Task, AgentNext, PromptUnsaved, Stop, Close, Reopen, Break,
           StopSent, Closed, CloseFails, Receive, StopConnection, ConnectionLost,
           AgentBegins, AgentEnds, AgentAnnounces, AgentConsumes, AgentAnswers, SendCancel,
           AgentStep, AgentFrame, vars, taskVars, logVars

\* Input that was handed back stays so while it is pending.
PendFirm == thread'.pending.id # 0 /\ thread.pending.required => thread'.pending.required

\* No step takes back that input was handed back.
LEMMA PendFirmStep == Typed /\ TurnInv /\ StatusInv /\ LeavesInv /\ [Next]_vars => PendFirm
  <1> SUFFICES ASSUME Typed, TurnInv, StatusInv, LeavesInv, [Next]_vars PROVE PendFirm
    OBVIOUS
  <1>98. thread.pending \in PendingSteer
    BY TypeSplit DEF ThreadOK, Snapshot
  <1>1. ASSUME Prompt PROVE PendFirm
    BY <1>1, PromptDoes
       DEF AfterPrompt, Begins, PendFirm
  <1>2. ASSUME PromptUnsaved PROVE PendFirm
    BY <1>2, PromptUnsavedDoes
       DEF Unmoved, PendFirm
  <1>3. ASSUME Steer PROVE PendFirm
    <2>1. ~HasPending(thread)
      BY <1>3 DEF Steer
    <2>2. QED
      BY <2>1 DEF StatusInv, PendFirm
  <1>4. ASSUME Stop PROVE PendFirm
    <2>1. CASE thread.pending.required
      BY <1>4, <2>1, StopDoes DEF AfterStop, GivenUp, NoPending, PendFirm
    <2>2. CASE ~thread.pending.required
      BY <2>2 DEF PendFirm
    <2>3. QED
      BY <2>1, <2>2
  <1>5. ASSUME Reopen PROVE PendFirm
    BY <1>5, ReopenDoes
       DEF Anew, NoPending, PendFirm
  <1>6. ASSUME NEW n \in Inputs, PromptResult(n) PROVE PendFirm
    BY <1>6, PromptResultDoes
       DEF AfterResult, PendFirm
  <1>7. ASSUME NEW n \in Inputs, SteerAnswer(n) PROVE PendFirm
    <2>1. \/ thread'.pending = NoPending
          \/ thread'.pending = [thread.pending EXCEPT !.required = TRUE]
      BY <1>7, SteerAnswerDoes, Zenon DEF AfterAnswer
    <2>2. QED
      BY <1>98, <2>1 DEF NoPending, PendingSteer, PendFirm
  <1>8. ASSUME NEW t \in Tasks, FallbackStart(t) PROVE PendFirm
    BY <1>8, FallbackStartDoes
       DEF AfterFallback, NoPending, PendFirm
  <1>9. ASSUME NEW t \in Tasks, FallbackRefused(t) PROVE PendFirm
    BY <1>9, FallbackRefusedDoes
       DEF AfterRefusal, GivenUp, NoPending, PendFirm
  <1>10. ASSUME Closed PROVE PendFirm
    BY <1>10, ClosedDoes
       DEF AfterSilence, NoPending, PendFirm
  <1>11. ASSUME Receive PROVE PendFirm
    <2>1. thread' = thread \/ \E a \in Activities : AfterReport(a)
      BY <1>11, ReadDoes DEF AfterRead
    <2>2. QED
      BY <2>1, ReportPending DEF PendFirm
  <1>12. ASSUME ConnectionLost PROVE PendFirm
    BY <1>12, ConnectionLostDoes
       DEF AfterSilence, NoPending, PendFirm
  <1>13. ASSUME UNCHANGED thread PROVE PendFirm
    BY <1>13
       DEF PendFirm
  <1> QED
    BY <1>1, <1>2, <1>3, <1>4, <1>5, <1>6, <1>7, <1>8, <1>9, <1>10, <1>11, <1>12, <1>13
       DEF Next, User, Settling, Task, AgentNext, Close, Break, PromptResultLate,
           SteerAnswerLate, CancelAgain, Peek, StopSent, CloseFails, StopConnection,
           AgentBegins, AgentEnds, AgentAnnounces, AgentConsumes, AgentAnswers, SendCancel,
           Goto, AgentStep, AgentFrame, vars, taskVars, logVars

\* The active turn goes on, ends, or is a new one whose prompt has been sent.
ActiveMoves ==
    \/ thread'.active \in {0, thread.active}
    \/ thread'.active \in Inputs /\ pc'[<<"prompt", thread'.active>>] = "waiting"

\* No step makes another turn active than one whose prompt it sends.
LEMMA ActiveMovesStep == Typed /\ TurnInv /\ StatusInv /\ LeavesInv /\ [Next]_vars => ActiveMoves
  <1> SUFFICES ASSUME Typed, TurnInv, StatusInv, LeavesInv, [Next]_vars PROVE ActiveMoves
    OBVIOUS
  <1>1. ASSUME Prompt PROVE ActiveMoves
    BY <1>1, PromptDoes, PromptSends
       DEF AfterPrompt, Begins, PromptWorld, Asks, ActiveMoves
  <1>2. ASSUME PromptUnsaved PROVE ActiveMoves
    BY <1>2, PromptUnsavedDoes
       DEF Unmoved, ActiveMoves
  <1>3. ASSUME Steer PROVE ActiveMoves
    BY <1>3, SteerDoes
       DEF AfterSteer, ActiveMoves
  <1>4. ASSUME Stop PROVE ActiveMoves
    BY <1>4, StopDoes
       DEF AfterStop, GivenUp, ActiveMoves
  <1>5. ASSUME Reopen PROVE ActiveMoves
    BY <1>5, ReopenDoes
       DEF Anew, ActiveMoves
  <1>6. ASSUME NEW n \in Inputs, PromptResult(n) PROVE ActiveMoves
    BY <1>6, PromptResultDoes
       DEF AfterResult, ActiveMoves
  <1>7. ASSUME NEW n \in Inputs, SteerAnswer(n) PROVE ActiveMoves
    BY <1>7, SteerAnswerDoes
       DEF AfterAnswer, ActiveMoves
  <1>8. ASSUME NEW t \in Tasks, FallbackStart(t) PROVE ActiveMoves
    BY <1>8, FallbackStartDoes, FallbackSends
       DEF AfterFallback, FallbackWorld, ActiveMoves
  <1>9. ASSUME NEW t \in Tasks, FallbackRefused(t) PROVE ActiveMoves
    BY <1>9, FallbackRefusedDoes
       DEF AfterRefusal, GivenUp, ActiveMoves
  <1>10. ASSUME Closed PROVE ActiveMoves
    <2>1. thread'.active = 0
      BY <1>10, ClosedDoes
    <2>2. QED
      BY <2>1 DEF ActiveMoves
  <1>11. ASSUME Receive PROVE ActiveMoves
    <2>1. thread' = thread \/ \E a \in Activities : AfterReport(a)
      BY <1>11, ReadDoes DEF AfterRead
    <2>2. QED
      BY <2>1 DEF AfterReport, ActiveMoves
  <1>12. ASSUME ConnectionLost PROVE ActiveMoves
    <2>1. thread'.active = thread.active
      BY <1>12, ConnectionLostDoes
    <2>2. QED
      BY <2>1 DEF ActiveMoves
  <1>13. ASSUME UNCHANGED thread PROVE ActiveMoves
    BY <1>13
       DEF ActiveMoves
  <1> QED
    BY <1>1, <1>2, <1>3, <1>4, <1>5, <1>6, <1>7, <1>8, <1>9, <1>10, <1>11, <1>12, <1>13
       DEF Next, User, Settling, Task, AgentNext, Close, Break, PromptResultLate,
           SteerAnswerLate, CancelAgain, Peek, StopSent, CloseFails, StopConnection,
           AgentBegins, AgentEnds, AgentAnnounces, AgentConsumes, AgentAnswers, SendCancel,
           Goto, AgentStep, AgentFrame, vars, taskVars, logVars

\* The prompt of the active turn is waited for.
LEMMA ActiveWaitsStep ==
  Typed /\ TurnInv /\ StatusInv /\ LeavesInv /\ ActiveWaits /\ [Next]_vars => ActiveWaits'
  <1> SUFFICES ASSUME Typed, TurnInv, StatusInv, LeavesInv, ActiveWaits, [Next]_vars,
                      thread'.active # 0
               PROVE  pc'[<<"prompt", thread'.active>>] = "waiting"
    BY DEF ActiveWaits
  <1>1. CASE thread'.active = thread.active
    <2>1. thread.active \in Inputs
      BY <1>1, TypeSplit DEF ThreadOK, Snapshot, Inputs
    <2> DEFINE u == <<"prompt", thread.active>>
    <2>2. u \in Tasks
      BY <2>1, TaskFacts
    <2>3. pc[u] = "waiting"
      BY <1>1 DEF ActiveWaits
    <2>4. ~Taken(u)
      <3>1. ASSUME NEW n \in Inputs, u = <<"prompt", n>>, PromptResult(n) PROVE FALSE
        BY <1>1, <3>1, PromptResultDoes DEF AfterResult
      <3>2. ASSUME NEW n \in Inputs, u = <<"prompt", n>>, PromptResultLate(n) PROVE FALSE
        <4>1. n = thread.active
          BY <2>1, <3>2, TaskFacts
        <4>2. QED
          BY <3>2, <4>1, Zenon DEF PromptResultLate
      <3>3. ASSUME NEW n \in Inputs, u = <<"steer", n>> PROVE FALSE
        BY <2>1, <3>3, TaskFacts
      <3>4. QED
        BY <3>1, <3>2, <3>3, Zenon DEF Taken
    <2>5. QED
      BY <1>1, <2>2, <2>3, <2>4, WaitsOnStep DEF WaitsOn
  <1>2. CASE thread'.active # thread.active
    BY <1>2, ActiveMovesStep DEF ActiveMoves
  <1>3. QED
    BY <1>1, <1>2

\* The answer to pending input is waited for.
LEMMA PendingWaitsStep ==
  Typed /\ TurnInv /\ StatusInv /\ LeavesInv /\ PendingWaits /\ [Next]_vars => PendingWaits'
  <1> SUFFICES ASSUME Typed, TurnInv, StatusInv, LeavesInv, PendingWaits, [Next]_vars,
                      thread'.pending.id # 0, ~thread'.pending.required
               PROVE  pc'[<<"steer", thread'.pending.id>>] = "waiting"
    BY DEF PendingWaits, HasPending
  <1>1. CASE \E n \in Inputs : SteerAnswer(n)
    <2>1. PICK n \in Inputs : \/ thread'.pending = NoPending
                            \/ thread'.pending = [thread.pending EXCEPT !.required = TRUE]
      BY <1>1, SteerAnswerDoes, Zenon DEF AfterAnswer
    <2>2. thread.pending \in PendingSteer
      BY TypeSplit DEF ThreadOK, Snapshot
    <2>3. QED
      BY <2>1, <2>2 DEF NoPending, PendingSteer
  <1>2. CASE Steer
    <2>1. thread'.pending.id = inputs + 1
      BY <1>2, SteerDoes DEF AfterSteer
    <2>2. <<"steer", inputs + 1>> \in Tasks /\ Asks(<<"steer", inputs + 1>>)
      BY <1>2, SteerSends DEF SteerWorld
    <2>3. QED
      BY <2>1, <2>2 DEF Asks
  <1>3. CASE PendKeeps /\ ~\E n \in Inputs : SteerAnswer(n)
    <2>1. thread'.pending.id = thread.pending.id /\ ~thread.pending.required
      BY <1>3, PendFirmStep DEF PendKeeps, PendFirm
    <2>2. thread.pending \in PendingSteer
      BY TypeSplit DEF ThreadOK, Snapshot
    <2>3. thread.pending.id \in Inputs
      BY <2>1, <2>2 DEF PendingSteer, Inputs
    <2> DEFINE u == <<"steer", thread.pending.id>>
    <2>4. u \in Tasks
      BY <2>3, TaskFacts
    <2>5. pc[u] = "waiting"
      BY <2>1 DEF PendingWaits, HasPending
    <2>6. ~Taken(u)
      <3>1. ASSUME NEW n \in Inputs, u = <<"steer", n>>, SteerAnswerLate(n) PROVE FALSE
        <4>1. n = thread.pending.id
          BY <2>3, <3>1, TaskFacts
        <4>2. QED
          BY <3>1, <4>1, Zenon DEF SteerAnswerLate
      <3>2. ASSUME NEW n \in Inputs, u = <<"prompt", n>> PROVE FALSE
        BY <2>3, <3>2, TaskFacts
      <3>3. QED
        BY <1>3, <3>1, <3>2, Zenon DEF Taken
    <2>7. QED
      BY <2>1, <2>4, <2>5, <2>6, WaitsOnStep DEF WaitsOn
  <1>4. QED
    BY <1>1, <1>2, <1>3, PendingMoves

-----------------------------------------------------------------------------
(* Input that was handed back is sent in the end *)

\* A task that tries the fallback goes on, unless there is nothing pending before or after.
TriesOn ==
    \A u \in Tasks : pc[u] \in {"peek", "start"} =>
      \/ pc'[u] = pc[u] /\ captured'[u] = captured[u]
      \/ Peek(u) \/ FallbackRefused(u)
      \/ thread'.pending = NoPending \/ ~HasPending(thread)

\* No step but its own ends the attempt of a task.
LEMMA TriesOnStep == Typed /\ TurnInv /\ StatusInv /\ [Next]_vars => TriesOn
  <1> SUFFICES ASSUME Typed, TurnInv, StatusInv, [Next]_vars PROVE TriesOn
    OBVIOUS
  <1>1. ASSUME Prompt PROVE TriesOn
    <2>1. ~HasPending(thread)
      BY <1>1 DEF Prompt, Admits
    <2>2. QED
      BY <2>1 DEF TriesOn
  <1>2. ASSUME Steer PROVE TriesOn
    <2>1. ~HasPending(thread)
      BY <1>2 DEF Steer
    <2>2. QED
      BY <2>1 DEF TriesOn
  <1>3. ASSUME NEW n \in Inputs, PromptResult(n) PROVE TriesOn
    BY <1>3, ResultTakes
       DEF ResultWorld, TaskWorld, Moved, TriesOn
  <1>4. ASSUME NEW n \in Inputs, PromptResultLate(n) PROVE TriesOn
    BY <1>4, ResultTakes
       DEF ResultWorld, TaskWorld, Moved, TriesOn
  <1>5. ASSUME NEW n \in Inputs, SteerAnswer(n) PROVE TriesOn
    BY <1>5, AnswerTakes
       DEF AnswerWorld, TaskWorld, Moved, TriesOn
  <1>6. ASSUME NEW n \in Inputs, SteerAnswerLate(n) PROVE TriesOn
    BY <1>6, AnswerTakes
       DEF AnswerWorld, TaskWorld, Moved, TriesOn
  <1>7. ASSUME NEW n \in Inputs, CancelAgain(n) PROVE TriesOn
    BY <1>7, CancelTakes
       DEF TaskWorld, Moved, TriesOn
  <1>8. ASSUME NEW t \in Tasks, Peek(t) PROVE TriesOn
    BY <1>8, PeekLooks
       DEF PeekWorld, TriesOn
  <1>9. ASSUME NEW t \in Tasks, FallbackStart(t) PROVE TriesOn
    <2>1. thread'.pending = NoPending
      BY <1>9, FallbackStartDoes DEF AfterFallback
    <2>2. QED
      BY <2>1 DEF TriesOn
  <1>10. ASSUME NEW t \in Tasks, FallbackRefused(t) PROVE TriesOn
    BY <1>10, RefusedTakes
       DEF RefusedWorld, TaskWorld, Moved, TriesOn
  <1>11. ASSUME UNCHANGED <<pc, captured>> PROVE TriesOn
    BY <1>11
       DEF TriesOn
  <1> QED
    BY <1>1, <1>2, <1>3, <1>4, <1>5, <1>6, <1>7, <1>8, <1>9, <1>10, <1>11
       DEF Next, User, Settling, Task, AgentNext, PromptUnsaved, Stop, Close, Reopen, Break,
           StopSent, Closed, CloseFails, Receive, StopConnection, ConnectionLost,
           AgentBegins, AgentEnds, AgentAnnounces, AgentConsumes, AgentAnswers, SendCancel,
           AgentStep, AgentFrame, vars, taskVars, logVars

\* An active turn ends with its result, or with everything.
ActiveEnds ==
    thread.active # 0 /\ thread'.active = 0 =>
      (\E m \in Inputs : PromptResult(m)) \/ thread'.pending = NoPending

\* No step but a result ends a turn and leaves input pending.
LEMMA ActiveEndsStep == Typed /\ TurnInv /\ StatusInv /\ LeavesInv /\ [Next]_vars => ActiveEnds
  <1> SUFFICES ASSUME Typed, TurnInv, StatusInv, LeavesInv, [Next]_vars PROVE ActiveEnds
    OBVIOUS
  <1>1. ASSUME Prompt PROVE ActiveEnds
    <2>1. thread'.active = inputs + 1 /\ inputs + 1 \in Inputs
      BY <1>1, PromptDoes DEF AfterPrompt, Begins
    <2>2. QED
      BY <2>1 DEF Inputs, ActiveEnds
  <1>2. ASSUME PromptUnsaved PROVE ActiveEnds
    BY <1>2, PromptUnsavedDoes
       DEF Unmoved, ActiveEnds
  <1>3. ASSUME Steer PROVE ActiveEnds
    BY <1>3, SteerDoes
       DEF AfterSteer, ActiveEnds
  <1>4. ASSUME Stop PROVE ActiveEnds
    BY <1>4, StopDoes
       DEF AfterStop, GivenUp, ActiveEnds
  <1>5. ASSUME Reopen PROVE ActiveEnds
    BY <1>5, ReopenDoes
       DEF Anew, ActiveEnds
  <1>6. ASSUME NEW n \in Inputs, PromptResult(n) PROVE ActiveEnds
    BY <1>6
       DEF ActiveEnds
  <1>7. ASSUME NEW n \in Inputs, SteerAnswer(n) PROVE ActiveEnds
    BY <1>7, SteerAnswerDoes
       DEF AfterAnswer, ActiveEnds
  <1>8. ASSUME NEW t \in Tasks, FallbackStart(t) PROVE ActiveEnds
    BY <1>8, FallbackStartDoes
       DEF AfterFallback, ActiveEnds
  <1>9. ASSUME NEW t \in Tasks, FallbackRefused(t) PROVE ActiveEnds
    BY <1>9, FallbackRefusedDoes
       DEF AfterRefusal, GivenUp, ActiveEnds
  <1>10. ASSUME Closed PROVE ActiveEnds
    <2>1. thread'.pending = NoPending
      BY <1>10, ClosedDoes DEF AfterSilence
    <2>2. QED
      BY <2>1 DEF ActiveEnds
  <1>11. ASSUME Receive PROVE ActiveEnds
    <2>1. thread' = thread \/ \E a \in Activities : AfterReport(a)
      BY <1>11, ReadDoes DEF AfterRead
    <2>2. QED
      BY <2>1 DEF AfterReport, ActiveEnds
  <1>12. ASSUME ConnectionLost PROVE ActiveEnds
    <2>1. thread'.active = thread.active
      BY <1>12, ConnectionLostDoes
    <2>2. QED
      BY <2>1 DEF ActiveEnds
  <1>13. ASSUME UNCHANGED thread PROVE ActiveEnds
    BY <1>13
       DEF ActiveEnds
  <1> QED
    BY <1>1, <1>2, <1>3, <1>4, <1>5, <1>6, <1>7, <1>8, <1>9, <1>10, <1>11, <1>12, <1>13
       DEF Next, User, Settling, Task, AgentNext, Close, Break, PromptResultLate,
           SteerAnswerLate, CancelAgain, Peek, StopSent, CloseFails, StopConnection,
           AgentBegins, AgentEnds, AgentAnnounces, AgentConsumes, AgentAnswers, SendCancel,
           Goto, AgentStep, AgentFrame, vars, taskVars, logVars

\* What was handed back waits for the active turn, or for a task to send it.
LEMMA RequiredWaitsStep ==
  Typed /\ TurnInv /\ StatusInv /\ LeavesInv /\ RequiredWaits /\ StatusInv' /\ [Next]_vars
    => RequiredWaits'
  <1> SUFFICES ASSUME Typed, TurnInv, StatusInv, LeavesInv, RequiredWaits, StatusInv', [Next]_vars,
                      thread'.pending.required, thread'.active = 0
               PROVE  \E t \in Tasks : Tries(t)'
    BY DEF RequiredWaits
  <1>1. thread'.pending.id # 0
    BY DEF StatusInv, HasPending
  <1>2. thread'.pending # NoPending
    BY DEF NoPending
  <1>3. CASE \E n \in Inputs : SteerAnswer(n)
    <2>1. PICK n \in Inputs : SteerAnswer(n)
      BY <1>3
    <2>2. answer[<<"steer", n>>] = "required"
      BY <1>1, <2>1, PendAnswered
    <2>3. Goto(<<"steer", n>>, "peek")
      BY <2>1, <2>2, Zenon DEF SteerAnswer
    <2>4. <<"steer", n>> \in Tasks
      BY TaskFacts
    <2>5. pc'[<<"steer", n>>] = "peek"
      BY <2>3, <2>4, GotoDoes DEF Moved
    <2>6. QED
      BY <2>4, <2>5 DEF Tries
  <1>4. CASE Steer
    <2>1. thread'.pending.required = FALSE
      BY <1>4, SteerDoes DEF AfterSteer, NoPending
    <2>2. QED
      BY <2>1
  <1>5. CASE PendKeeps
    <2>1. thread'.pending.id = thread.pending.id /\ thread.pending.required /\ HasPending(thread)
      BY <1>1, <1>5 DEF PendKeeps, HasPending
    <2>2. CASE thread.active # 0
      <3>1. PICK n \in Inputs : PromptResult(n)
        BY <1>2, <2>2, ActiveEndsStep DEF ActiveEnds
      <3>2. <<"prompt", n>> \in Tasks /\ pc'[<<"prompt", n>>] = "peek"
        BY <3>1, ResultTakes DEF ResultWorld, TaskWorld, Moved
      <3>3. QED
        BY <3>2 DEF Tries
    <2>3. CASE thread.active = 0
      <3>1. PICK t \in Tasks : Tries(t)
        BY <2>1, <2>3 DEF RequiredWaits
      <3>2. CASE pc'[t] = pc[t] /\ captured'[t] = captured[t]
        BY <2>1, <3>1, <3>2 DEF Tries
      <3>3. CASE Peek(t)
        <4>1. FallbackDue(thread)
          BY <2>1, <2>3 DEF FallbackDue, StatusInv
        <4>2. pc'[t] = "start" /\ captured'[t] = thread.pending.id
          BY <3>3, <4>1, PeekLooks DEF PeekWorld
        <4>3. QED
          BY <2>1, <4>2 DEF Tries
      <3>4. CASE FallbackRefused(t)
        <4>1. pc[t] = "start"
          BY <3>4, RefusedTakes DEF RefusedWorld
        <4>2. captured[t] = thread.pending.id
          BY <3>1, <4>1 DEF Tries
        <4>3. thread'.pending = NoPending
          BY <3>4, <4>2, FallbackRefusedDoes DEF AfterRefusal, GivenUp
        <4>4. QED
          BY <1>2, <4>3
      <3>5. QED
        BY <1>2, <2>1, <3>1, <3>2, <3>3, <3>4, TriesOnStep DEF TriesOn, Tries
    <2>4. QED
      BY <2>2, <2>3
  <1>6. QED
    BY <1>3, <1>4, <1>5, PendingMoves

-----------------------------------------------------------------------------
(* A turn whose beginning was reported has its end reported *)

\* What is announced stays announced until its end is on the wire.
LEMMA AnnouncedOn ==
  ASSUME WireGrows, agent.reports # "never", Announced
  PROVE  Announced' \/ EndOnWire'
  <1>1. PICK s : Wrote(s) /\ Writes(s)
    BY DEF WireGrows
  <1>2. CASE \E i \in 1..Len(s) : s[i].kind = "activity" /\ s[i].what # "active"
    <2>1. PICK i \in 1..Len(s) : s[i].kind = "activity" /\ s[i].what # "active"
      BY <1>2
    <2>2. Len(wire) + i \in 1..Len(wire') /\ wire'[Len(wire) + i] = s[i]
      BY <1>1 DEF Wrote
    <2>3. QED
      BY <2>1, <2>2 DEF EndOnWire
  <1>3. QED
    BY <1>1, <1>2 DEF Writes

\* An end that is on the wire stays there unless it is read.
LEMMA EndStays ==
  ASSUME NEW s, Wrote(s), EndOnWire
  PROVE  EndOnWire'
  BY DEF Wrote, EndOnWire

\* The report of a beginning is followed by the report of the end, if that has come.
LEMMA EndsFollowStep ==
  Typed /\ TurnInv /\ StatusInv /\ MuteWire /\ EndsFollow /\ [Next]_vars => EndsFollow'
  <1> SUFFICES ASSUME Typed, TurnInv, StatusInv, MuteWire, EndsFollow, [Next]_vars,
                      NEW i \in 1..Len(wire'), wire'[i].what = "active", ~Announced'
               PROVE  \E j \in 1..Len(wire') : j > i /\ wire'[j].kind = "activity" /\ wire'[j].what # "active"
    BY DEF EndsFollow
  <1>1. CASE WireKeeps
    BY <1>1 DEF WireKeeps, EndsFollow
  <1>2. CASE WireReads
    <2>1. ReadOne /\ ~Announced
      BY <1>2 DEF WireReads, Announced
    <2>2. i + 1 \in 1..Len(wire) /\ wire[i + 1].what = "active"
      BY <2>1 DEF ReadOne
    <2>3. PICK j \in 1..Len(wire) : j > i + 1 /\ wire[j].kind = "activity" /\ wire[j].what # "active"
      BY <2>1, <2>2 DEF EndsFollow
    <2>4. j \in 2..Len(wire) /\ j - 1 > i
      BY <2>1, <2>3 DEF ReadOne
    <2>5. j - 1 \in 1..Len(wire') /\ wire'[j - 1] = wire[j]
      BY <2>1, <2>4 DEF ReadOne
    <2>6. QED
      BY <2>3, <2>4, <2>5
  <1>3. CASE WireBreaks
    BY <1>3 DEF WireBreaks
  <1>4. CASE WireGrows
    <2>1. PICK s : Wrote(s) /\ Writes(s)
      BY <1>4 DEF WireGrows
    <2>2. i \in 1..Len(wire)
      BY <2>1 DEF Wrote, Writes
    <2>3. wire[i].what = "active"
      BY <2>1, <2>2 DEF Wrote
    <2>4. CASE Announced
      <3>1. wire[i] \in Messages
        BY <2>2 DEF Typed, WorldOK
      <3>2. wire[i].kind = "activity"
        BY <2>3, <3>1, MessageFacts
      <3>3. agent.reports # "never"
        BY <2>2, <3>2 DEF MuteWire
      <3>4. PICK k \in 1..Len(s) : s[k].kind = "activity" /\ s[k].what # "active"
        BY <2>1, <2>4, <3>3 DEF Writes
      <3>5. Len(wire) + k \in 1..Len(wire') /\ wire'[Len(wire) + k] = s[k]
        BY <2>1 DEF Wrote
      <3>6. Len(wire) + k > i
        BY <2>1, <2>2 DEF Wrote
      <3>7. QED
        BY <3>4, <3>5, <3>6
    <2>5. CASE ~Announced
      <3>1. PICK j \in 1..Len(wire) : j > i /\ wire[j].kind = "activity" /\ wire[j].what # "active"
        BY <2>2, <2>3, <2>5 DEF EndsFollow
      <3>2. j \in 1..Len(wire') /\ wire'[j] = wire[j]
        BY <2>1 DEF Wrote
      <3>3. QED
        BY <3>1, <3>2
    <2>6. QED
      BY <2>4, <2>5
  <1>5. QED
    BY <1>1, <1>2, <1>3, <1>4, WireStep

\* What has been seen to begin will be seen to end.
LEMMA EndComesStep ==
  Typed /\ FreshInv /\ LeavesInv /\ LinkInv /\ TurnInv /\ StatusInv
    /\ MuteWire /\ MuteThread /\ EndsFollow /\ EndComes /\ [Next]_vars
    => EndComes'
  <1> SUFFICES ASSUME Typed, FreshInv, LeavesInv, LinkInv, TurnInv, StatusInv,
                      MuteWire, MuteThread, EndsFollow, EndComes, [Next]_vars,
                      link' = "up", Seen'
               PROVE  Announced' \/ EndOnWire'
    BY Zenon DEF EndComes
  <1>1. /\ link = "up"
        /\ \/ Receive /\ (wire[1].what = "active" \/ (wire[1].kind = "response" /\ Seen))
           \/ wire' = wire /\ Seen
           \/ WireGrows /\ Seen
    BY SeenStep DEF SeenBefore
  <1>2. Seen => agent.reports # "never"
    BY DEF MuteThread, Seen
  <1>3. CASE Receive /\ (wire[1].what = "active" \/ (wire[1].kind = "response" /\ Seen))
    <2>1. ReadOne /\ agent' = agent
      BY <1>3, ReadTakes DEF ReadWorld
    <2>2. CASE Announced
      BY <2>1, <2>2 DEF Announced
    <2>3. CASE ~Announced
      <3>1. 1 \in 1..Len(wire) /\ Len(wire) \in Nat
        BY <2>1 DEF ReadOne
      <3>2. \E j \in 1..Len(wire) : j > 1 /\ wire[j].kind = "activity" /\ wire[j].what # "active"
        <4>1. CASE wire[1].what = "active"
          BY <2>3, <3>1, <4>1 DEF EndsFollow
        <4>2. CASE wire[1].kind = "response" /\ Seen
          <5>1. PICK j \in 1..Len(wire) : wire[j].kind = "activity" /\ wire[j].what # "active"
            BY <1>1, <2>3, <4>2 DEF EndComes, EndOnWire
          <5>2. j # 1
            BY <4>2, <5>1
          <5>3. j > 1
            BY <3>1, <5>2
          <5>4. QED
            BY <5>1, <5>3
        <4>3. QED
          BY <1>3, <4>1, <4>2
      <3>3. PICK j \in 1..Len(wire) : j > 1 /\ wire[j].kind = "activity" /\ wire[j].what # "active"
        BY <3>2
      <3>4. j \in 2..Len(wire)
        BY <3>1, <3>3
      <3>5. j - 1 \in 1..Len(wire') /\ wire'[j - 1] = wire[j]
        BY <2>1, <3>4 DEF ReadOne
      <3>6. QED
        BY <3>3, <3>5 DEF EndOnWire
    <2>4. QED
      BY <2>2, <2>3
  <1>4. CASE WireGrows /\ Seen
    <2>1. CASE Announced
      BY <1>2, <1>4, <2>1, AnnouncedOn
    <2>2. CASE EndOnWire
      <3>1. PICK s : Wrote(s)
        BY <1>4 DEF WireGrows
      <3>2. QED
        BY <2>2, <3>1, EndStays
    <2>3. QED
      BY <1>1, <1>4, <2>1, <2>2 DEF EndComes
  <1>5. CASE wire' = wire /\ Seen
    <2>1. CASE WireKeeps
      BY <1>1, <1>5, <2>1 DEF WireKeeps, EndComes, EndOnWire
    <2>2. CASE WireReads
      <3>1. Len(wire') \in Nat /\ Len(wire) = Len(wire') + 1 /\ wire' = wire
        BY <1>5, <2>2 DEF WireReads, ReadOne
      <3>2. Len(wire') = Len(wire)
        BY <3>1
      <3>3. QED
        BY <3>1, <3>2
    <2>3. CASE WireBreaks
      BY <2>3 DEF WireBreaks
    <2>4. CASE WireGrows
      BY <1>4, <1>5, <2>4
    <2>5. QED
      BY <2>1, <2>2, <2>3, <2>4, WireStep
  <1>6. QED
    BY <1>1, <1>3, <1>4, <1>5

\* Whatever waits goes on having somebody to end the wait.
LEMMA WaitStep ==
  Typed /\ FreshInv /\ LeavesInv /\ LinkInv /\ TurnInv /\ StatusInv /\ StatusInv'
    /\ QuietInv /\ WaitInv /\ [Next]_vars
    => WaitInv'
  <1> SUFFICES ASSUME Typed, FreshInv, LeavesInv, LinkInv, TurnInv, StatusInv, StatusInv',
                      QuietInv, WaitInv, [Next]_vars
               PROVE  WaitInv'
    OBVIOUS
  <1>1. /\ SendingWaits /\ ActiveWaits /\ PendingWaits /\ RequiredWaits /\ UntrackedIs
        /\ EndsFollow /\ EndComes
    BY WaitSplit
  <1>2. MuteWire /\ MuteThread
    BY QuietSplit
  <1>3. SendingWaits'
    BY <1>1, SendingWaitsStep
  <1>4. ActiveWaits' /\ PendingWaits' /\ RequiredWaits'
    BY <1>1, ActiveWaitsStep, PendingWaitsStep, RequiredWaitsStep
  <1>5. UntrackedIs'
    BY <1>1, UntrackedIsStep
  <1>6. EndsFollow' /\ EndComes'
    BY <1>1, <1>2, EndsFollowStep, EndComesStep
  <1>7. (/\ SendingWaits /\ ActiveWaits /\ PendingWaits /\ RequiredWaits /\ UntrackedIs
         /\ EndsFollow /\ EndComes)' => WaitInv'
    BY Zenon DEF WaitInv, SendingWaits, ActiveWaits, PendingWaits, RequiredWaits, Tries,
                 UntrackedIs, EndsFollow, EndComes, Seen
  <1>8. QED
    BY <1>3, <1>4, <1>5, <1>6, <1>7

-----------------------------------------------------------------------------
(* How it begins *)

AfterInit ==
    /\ thread \in Snapshot
    /\ thread.status = "idle" /\ thread.active = 0 /\ thread.pending = NoPending
    /\ ~thread.detached /\ ~thread.detachedActive /\ ~thread.untracked
    /\ thread.completion = 0 /\ thread.stopReason = "none" /\ thread.last = 0
    /\ \A n \in Inputs : thread.outcome[n] = "none" /\ thread.delivery[n] = "none"
    /\ inputs = 0 /\ first = 1 /\ route = TRUE /\ link = "up" /\ closing = FALSE
    /\ \A t \in Tasks : pc[t] = "none" /\ answer[t] = "none" /\ captured[t] = 0
    /\ agent \in AgentState /\ agent.running = 0 /\ agent.announced = FALSE /\ agent.queue = {}
    /\ \A n \in Inputs : agent.asked[n] = "none"
    /\ wire = <<>> /\ wire \in Seq(Messages) /\ Len(wire) = 0
    /\ \A n \in Inputs : sent[n] = 0 /\ consumed[n] = 0 /\ told[n] = "none" /\ reported[n] = 0
    /\ stopped = {}

\* The fields of the first state.
LEMMA InitDoes == ASSUME Init PROVE AfterInit
  <1> DEFINE t == [status |-> "idle", active |-> 0, pending |-> NoPending, activity |-> "none",
                   detached |-> FALSE, detachedActive |-> FALSE, cancelled |-> FALSE,
                   untracked |-> FALSE, completion |-> 0, stopReason |-> "none",
                   error |-> FALSE, last |-> 0, outcome |-> [n \in Inputs |-> "none"],
                   delivery |-> [n \in Inputs |-> "none"]]
  <1>1. t \in Snapshot
    <2>1. [n \in Inputs |-> "none"] \in [Inputs -> Outcomes]
      BY DEF Outcomes
    <2>2. [n \in Inputs |-> "none"] \in [Inputs -> Deliveries]
      BY DEF Deliveries
    <2>3. QED
      BY <2>1, <2>2, ZeroType, NoPendingType, Zenon DEF Snapshot
  <1>2. /\ t.last = 0
        /\ \A n \in Inputs : t.outcome[n] = "none" /\ t.delivery[n] = "none"
    OBVIOUS
  <1>3. thread = Fresh(t)
    BY Zenon DEF Init, NewThread
  <1> HIDE DEF t
  <1>4. Anew(t, thread)
    BY <1>1, <1>3, FreshIs
  <1>5. PICK reports \in {"never", "before", "after"}, leaves \in BOOLEAN :
          agent = Agent(reports, leaves)
    BY Zenon DEF Init
  <1>6. /\ agent \in AgentState /\ agent.running = 0 /\ agent.announced = FALSE
        /\ agent.queue = {} /\ \A n \in Inputs : agent.asked[n] = "none"
    BY <1>5, ZeroType DEF Agent, AgentState
  <1>7. /\ inputs = 0 /\ first = 1 /\ route = TRUE /\ link = "up" /\ closing = FALSE
        /\ wire = <<>> /\ stopped = {}
        /\ pc = [u \in Tasks |-> "none"] /\ answer = [u \in Tasks |-> "none"]
        /\ captured = [u \in Tasks |-> 0]
        /\ sent = [n \in Inputs |-> 0] /\ consumed = [n \in Inputs |-> 0]
        /\ told = [n \in Inputs |-> "none"] /\ reported = [n \in Inputs |-> 0]
    BY Zenon DEF Init
  <1>8. wire \in Seq(Messages) /\ Len(wire) = 0
    BY <1>7
  <1>9. \A u \in Tasks : pc[u] = "none" /\ answer[u] = "none" /\ captured[u] = 0
    BY <1>7, Zenon
  <1>10. \A n \in Inputs : sent[n] = 0 /\ consumed[n] = 0 /\ told[n] = "none" /\ reported[n] = 0
    BY <1>7, Zenon
  <1>11. QED
    BY <1>2, <1>4, <1>6, <1>7, <1>8, <1>9, <1>10 DEF Anew, AfterInit

\* The first state has the types.
LEMMA InitTyped == ASSUME Init PROVE Typed
  <1>1. AfterInit
    BY InitDoes
  <1>2. pc \in [Tasks -> {"none", "waiting", "peek", "cancel", "start", "done"}]
    BY Zenon DEF Init
  <1>3. captured \in [Tasks -> 0..MaxInputs]
    BY ZeroType, Zenon DEF Init
  <1>4. answer \in [Tasks -> PromptEnds \cup SteerEnds \cup {"none", "lost"}]
    BY Zenon DEF Init
  <1>5. stops = [made |-> 0, unsent |-> 0]
    BY Zenon DEF Init
  <1>6. stops \in [made : Nat, unsent : Nat] /\ stops.unsent <= stops.made /\ stops.made <= MaxStops
    BY <1>5, TurnsAssumption
  <1>7. inputs \in 0..MaxInputs /\ first \in 1..MaxInputs + 1
    BY <1>1, TurnsAssumption DEF AfterInit
  <1>8. /\ sent \in [Inputs -> Nat] /\ consumed \in [Inputs -> Nat] /\ reported \in [Inputs -> Nat]
        /\ told \in [Inputs -> PromptEnds \cup {"none"}]
    BY DEF Init
  <1>9. TypeOK
    <2>1. thread.pending.terminal = "none"
      BY <1>1 DEF AfterInit, NoPending
    <2>2. QED
      BY <1>1, <1>2, <1>3, <1>6, <1>7, <2>1 DEF AfterInit, TypeOK
  <1>10. \A t \in Tasks : answer[t] \in Ends(t) \cup {"none", "lost"}
    BY <1>1 DEF AfterInit
  <1>11. WorldOK
    BY <1>1, <1>4, <1>6, <1>8, <1>10 DEF AfterInit, WorldOK
  <1>12. QED
    BY <1>9, <1>11 DEF Typed

\* Every input has two tasks.
LEMMA NamesAreTasks ==
  \A n \in Inputs : <<"prompt", n>> \in Tasks /\ <<"steer", n>> \in Tasks /\ n # 0
  <1>1. \A n \in Inputs : n # 0
    BY DEF Inputs
  <1>2. QED
    BY <1>1, TaskFacts

\* Nothing is asked at first.
LEMMA InitMail == ASSUME Init PROVE MailInv /\ OnceInv /\ LeavesInv /\ LinkInv
  <1>1. AfterInit
    BY InitDoes
  <1>2. \A n \in Inputs : <<"prompt", n>> \in Tasks /\ <<"steer", n>> \in Tasks /\ n # 0
    BY NamesAreTasks
  <1>3. \A t : ~Wired(t) /\ \A how : ~OnWire(t, how)
    BY <1>1 DEF AfterInit, Wired, OnWire
  <1>4. \A n \in Inputs : ~AtAgent(n)
    BY <1>1, <1>2 DEF AfterInit, AtAgent
  <1>5. MailInv
    <2>1. OneAnswer
      BY <1>1 DEF AfterInit, OneAnswer
    <2>2. QED
      BY <1>1, <1>2, <1>3, <1>4, <2>1 DEF AfterInit, MailInv
  <1>6. OnceInv
    BY <1>1, <1>2, <1>3 DEF AfterInit, OnceInv, NeverResent, NoPending
  <1>7. LeavesInv
    <2>1. ~thread.pending.required /\ ~thread.detached /\ agent.running = 0
      BY <1>1 DEF AfterInit, NoPending
    <2>2. /\ \A n \in Inputs : agent.asked[n] = "none" /\ answer[<<"steer", n>>] = "none"
          /\ \A t \in Tasks : pc[t] = "none"
      BY <1>1, <1>2 DEF AfterInit
    <2>3. \A n \in Inputs : agent.running # n
      BY <1>2, <2>1
    <2>4. QED
      BY <1>3, <2>1, <2>2, <2>3 DEF LeavesInv
  <1>8. LinkInv
    BY <1>1 DEF AfterInit, LinkInv
  <1>9. QED
    BY <1>5, <1>6, <1>7, <1>8

\* Nothing is known of any input at first.
LEMMA InitThread ==
  ASSUME Init PROVE FreshInv /\ StatusInv /\ TurnInv /\ ToldInv /\ ReportInv /\ StopInv
  <1>1. AfterInit
    BY InitDoes
  <1>2. \A n \in Inputs : <<"prompt", n>> \in Tasks /\ <<"steer", n>> \in Tasks /\ n # 0
    BY NamesAreTasks
  <1>3. \A n \in Inputs : ~AtAgent(n) /\ \A how : ~OnWire(<<"prompt", n>>, how)
    BY <1>1, <1>2 DEF AfterInit, AtAgent, OnWire
  <1>4. FreshInv
    BY <1>1, <1>2 DEF AfterInit, FreshInv, NoPending
  <1>5. StatusInv
    BY <1>1 DEF AfterInit, StatusInv, NoPending, HasPending
  <1>6. TurnInv
    <2>1. /\ thread.pending.id = 0 /\ thread.active = 0 /\ thread.stopReason = "none"
          /\ ~thread.detached /\ \A n \in Inputs : thread.outcome[n] = "none"
      BY <1>1 DEF AfterInit, NoPending
    <2>2. QED
      BY <1>2, <2>1 DEF TurnInv
  <1>7. ToldInv
    BY <1>1, <1>2, <1>3 DEF AfterInit, ToldInv, CompletedByItsOwn, PromptEnds
  <1>8. ReportInv
    BY <1>1 DEF AfterInit, ReportInv, ReportedOnce
  <1>9. StopInv
    BY <1>1 DEF AfterInit, StopInv
  <1>10. QED
    BY <1>4, <1>5, <1>6, <1>7, <1>8, <1>9

\* Nothing is under way at first.
LEMMA InitQuiet == ASSUME Init PROVE QuietInv /\ WaitInv
  <1>1. AfterInit
    BY InitDoes
  <1>2. \A n \in Inputs : <<"prompt", n>> \in Tasks /\ <<"steer", n>> \in Tasks /\ n # 0
    BY NamesAreTasks
  <1>3. \A n \in Inputs : ~AtAgent(n)
    BY <1>1, <1>2 DEF AfterInit, AtAgent
  <1>4. QuietInv
    <2>1. /\ ~thread.pending.sawActive /\ ~thread.detachedActive /\ agent.running = 0
          /\ Len(wire) = 0
      BY <1>1 DEF AfterInit, NoPending
    <2>2. \A n \in Inputs : /\ pc[<<"steer", n>>] = "none" /\ answer[<<"steer", n>>] = "none"
                            /\ agent.running # n /\ ~AtAgent(n)
      BY <1>1, <1>2, <1>3, <2>1 DEF AfterInit
    <2>3. \A t \in Tasks : captured[t] = 0
      BY <1>1 DEF AfterInit
    <2>4. LostOld /\ MuteWire /\ MuteThread
      BY <2>1, <2>2 DEF LostOld, MuteWire, MuteThread
    <2>5. ReadsAnswered
      BY <1>2, <2>3 DEF ReadsAnswered
    <2>6. \A n \in Inputs : QuietAt(n)
      BY <2>2 DEF QuietAt
    <2>7. QED
      BY <2>4, <2>5, <2>6, QuietSplit
  <1>5. WaitInv
    BY <1>1 DEF AfterInit, WaitInv, NoPending, HasPending
  <1>6. QED
    BY <1>4, <1>5

-----------------------------------------------------------------------------
(* The theorems *)

\* The inductive invariant.
IInv ==
    /\ Typed /\ FreshInv /\ MailInv /\ OnceInv /\ LeavesInv /\ LinkInv
    /\ StatusInv /\ TurnInv /\ ToldInv /\ ReportInv /\ StopInv /\ QuietInv /\ WaitInv

\* The invariant holds at first.
LEMMA IInvInit == Init => IInv
  BY InitTyped, InitMail, InitThread, InitQuiet DEF IInv

\* Every step keeps the invariant.
LEMMA IInvStep == IInv /\ [Next]_vars => IInv'
  <1> SUFFICES ASSUME Typed, FreshInv, MailInv, OnceInv, LeavesInv, LinkInv, StatusInv, TurnInv,
                      ToldInv, ReportInv, StopInv, QuietInv, WaitInv, [Next]_vars
               PROVE  IInv'
    BY Zenon DEF IInv
  <1>1. Typed' /\ StatusInv' /\ TurnInv'
    BY TypedStep, StatusStep, TurnStep
  <1>2. MailInv' /\ OnceInv' /\ LeavesInv' /\ LinkInv'
    BY MailStep, OnceStep, LeavesStep, LinkStep
  <1>3. FreshInv' /\ ToldInv' /\ ReportInv' /\ StopInv'
    BY FreshStep, ToldStep, ReportStep, StopStep
  <1>4. QuietInv' /\ WaitInv'
    BY <1>1, QuietStep, WaitStep
  <1>5. QED
    BY <1>1, <1>2, <1>3, <1>4, Zenon DEF IInv

\* The invariant holds always.
LEMMA Invariance == Spec => []IInv
  BY IInvInit, IInvStep, PTL DEF Spec

\* The variables have their types (TypeOK).
THEOREM TypeCorrect == Spec => []TypeOK
  <1>1. IInv => TypeOK
    BY DEF IInv, Typed
  <1>2. QED
    BY <1>1, Invariance, PTL

\* No input reaches the agent twice (NeverResent).
THEOREM InputsGoOnce == Spec => []NeverResent
  <1>1. IInv => NeverResent
    BY DEF IInv, OnceInv
  <1>2. QED
    BY <1>1, Invariance, PTL

\* A turn is recorded as completed only by the end of its own prompt (CompletedByItsOwn).
THEOREM CompletionsAreTrue == Spec => []CompletedByItsOwn
  <1>1. IInv => CompletedByItsOwn
    BY DEF IInv, ToldInv
  <1>2. QED
    BY <1>1, Invariance, PTL

\* The host hears at most once of a turn, and only of one that has completed (ReportedOnce).
THEOREM HostHearsOnce == Spec => []ReportedOnce
  <1>1. IInv => ReportedOnce
    BY DEF IInv, ReportInv
  <1>2. QED
    BY <1>1, Invariance, PTL

\* A conversation shown as idle has no prompt at the agent (IdleMeansQuiet).
THEOREM IdleIsQuiet == Spec => []IdleMeansQuiet
  <1>1. IInv => IdleMeansQuiet
    <2> SUFFICES ASSUME Typed, QuietInv, StatusInv, thread.status = "idle", link = "up",
                        NEW n \in first..MaxInputs
                 PROVE  /\ n \notin agent.queue
                        /\ agent.running = n => sent[n] = 0 /\ agent.reports # "never"
      BY Zenon DEF IInv, IdleMeansQuiet
    <2>1. n \in Inputs /\ n >= first /\ n # 0
      BY TypeSplit DEF PlacesOK, Inputs
    <2>2. thread.active = 0 /\ thread.pending.id = 0 /\ ~thread.detached
      BY DEF StatusInv, HasPending
    <2>3. ~AtAgent(n)
      BY <2>1, <2>2 DEF QuietInv
    <2>4. sent[n] \in Nat
      BY <2>1 DEF Typed, WorldOK
    <2>5. n \notin agent.queue /\ (agent.running = n => sent[n] = 0)
      BY <2>3, <2>4 DEF AtAgent
    <2>6. agent.running = n => agent.reports # "never"
      BY <2>1, <2>2, <2>5 DEF QuietInv
    <2>7. QED
      BY <2>5, <2>6
  <1>2. QED
    BY <1>1, Invariance, PTL

\* At rest, no steering input waits for its fate, and a conversation that still works says
\* that nobody reports on its turn (RestIsSettled).
THEOREM RestSettles == Spec => []RestIsSettled
  <1>1. IInv => RestIsSettled
    <2> SUFFICES ASSUME Typed, LinkInv, StatusInv, WaitInv, AtRest
                 PROVE  /\ \A n \in Inputs : thread.delivery[n] # "sending"
                        /\ thread.status = "working" => thread.untracked
      BY Zenon DEF IInv, RestIsSettled
    <2>1. SendingWaits /\ ActiveWaits /\ PendingWaits /\ RequiredWaits /\ UntrackedIs /\ EndComes
      BY WaitSplit
    <2>2. thread \in Snapshot /\ thread.pending \in PendingSteer
      BY TypeSplit DEF ThreadOK, Snapshot
    <2>3. \A t \in Tasks : pc[t] \in {"none", "done"}
      BY DEF AtRest
    <2>4. thread.active = 0
      <3>1. ASSUME thread.active # 0 PROVE FALSE
        <4>1. thread.active \in Inputs
          BY <2>2, <3>1 DEF Snapshot, Inputs
        <4>2. <<"prompt", thread.active>> \in Tasks
          BY <4>1, TaskFacts
        <4>3. QED
          BY <2>1, <2>3, <3>1, <4>2 DEF ActiveWaits
      <3>2. QED
        BY <3>1
    <2>5. ~thread.pending.required
      BY <2>1, <2>3, <2>4 DEF RequiredWaits, Tries
    <2>6. thread.pending.id = 0
      <3>1. ASSUME thread.pending.id # 0 PROVE FALSE
        <4>1. thread.pending.id \in Inputs
          BY <2>2, <3>1 DEF PendingSteer, Inputs
        <4>2. <<"steer", thread.pending.id>> \in Tasks
          BY <4>1, TaskFacts
        <4>3. QED
          BY <2>1, <2>3, <2>5, <3>1, <4>2 DEF PendingWaits, HasPending
      <3>2. QED
        BY <3>1
    <2>7. \A n \in Inputs : thread.delivery[n] # "sending"
      BY <2>1, <2>6 DEF SendingWaits, Inputs
    <2>8. thread.status = "working" => thread.untracked
      <3> SUFFICES ASSUME thread.status = "working", ~thread.untracked PROVE FALSE
        BY Zenon
      <3>1. thread.detached
        BY <2>4, <2>6 DEF StatusInv, HasPending
      <3>2. thread.detachedActive
        BY <2>1, <3>1 DEF UntrackedIs
      <3>3. link = "up"
        BY <3>1 DEF AtRest, LinkInv
      <3>4. Announced \/ EndOnWire
        BY <2>1, <3>1, <3>2, <3>3 DEF EndComes, Seen
      <3>5. ~Announced
        BY <3>3 DEF AtRest, Announced
      <3>6. ~EndOnWire
        <4>1. wire = <<>>
          BY DEF AtRest
        <4>2. Len(wire) = 0
          BY <4>1
        <4>3. QED
          BY <4>2 DEF EndOnWire
      <3>7. QED
        BY <3>4, <3>5, <3>6
    <2>9. QED
      BY <2>7, <2>8
  <1>2. QED
    BY <1>1, Invariance, PTL

\* Input that was pending when the user stopped is not sent as a prompt afterwards (StopHolds).
THEOREM StopsHold == Spec => StopHolds
  <1>1. IInv /\ [Next]_vars => \A n \in stopped : sent'[n] = sent[n]
    BY StopHoldsStep, Zenon DEF IInv
  <1>2. IInv /\ [Next]_vars => [\A n \in stopped : sent'[n] = sent[n]]_vars
    BY <1>1
  <1>3. QED
    BY <1>2, Invariance, PTL DEF Spec, StopHolds
=============================================================================
