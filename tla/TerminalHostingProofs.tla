----------------------- MODULE TerminalHostingProofs -----------------------
(***************************************************************************)
(* Proofs about TerminalHosting, for any set of hostings, browsers and     *)
(* submissions, any limit of inputs, and any number of restarts.           *)
(***************************************************************************)
EXTENDS TerminalHosting, FiniteSetTheorems, SequenceTheorems, TLAPS

-----------------------------------------------------------------------------
(* The inductive invariant *)

\* Where a submission is under way, and where a worker of this run of the server is.
Submitting == {"claim", "claiming", "pasting", "entering", "finishing"}
Running == {"enabling", "restoring", "first", "loop", "starting", "dispatching", "collecting",
            "pasting", "entering", "entered"}
Resting == {"off", "recover", "failing", "unsaved"}

\* Only workers of the present run of the server are anywhere but off, and of hostings that were.
Boot(w) ==
    /\ pc[w] # "off" => w[2] = boot /\ w[1] \in used
    /\ pc[w] \in {"recover", "restoring"} => boot # 0
BootInv == \A w \in Workers : Boot(w)

\* A submission of the CLI holds the gate; the initialization is alone while it lasts.
SubmitLock(s) ==
    pc[s] \in Submitting => IF s = Creation THEN phase = "Starting" /\ hosting = None ELSE gate = s

\* A worker that claims or types holds the gate, and the hosting is its own.
WorkerLock(w) ==
    pc[w] \in {"enabling", "restoring", "pasting", "entering", "entered"} => gate = w /\ Owns(w)

LockInv == (\A s \in Submitters : SubmitLock(s)) /\ (\A w \in Workers : WorkerLock(w))

\* A record tells how often its worker went round: every review has its run, and is followed
\* by at most one input.
Rounds(r) ==
    /\ r.phase = "Waiting" => r.run = r.count
    /\ r.phase \in {"Reviewing", "Collecting", "Submitting"} => r.run = r.count + 1
    /\ r.phase = "Submitting" => r.count < MaxInputs

\* The phase in which a worker stands where it does.
Stands(l, ph) ==
    /\ l \in {"enabling", "first", "starting"} => ph = "Waiting"
    /\ l = "dispatching" => ph = "Reviewing"
    /\ l = "collecting" => ph = "Collecting"
    /\ l \in {"pasting", "entering", "entered"} => ph = "Submitting"
    /\ l \in {"restoring", "loop"} => ph # "Submitting"

\* As long as the hosting is a worker's own, its copy is the record that is saved.
Copied(w) ==
    /\ Rounds(copy[w]) /\ Stands(pc[w], copy[w].phase)
    /\ pc[w] \in Resting \cup {"enabling"} => copy[w] = Fresh(w[1])
    /\ pc[w] \in Running /\ Owns(w) => copy[w] = hosting
CopyInv == (Hosted => Rounds(hosting)) /\ \A w \in Workers : Copied(w)

\* Control is given up by closing the connection, which nobody has done while it types.
Holding == {"claiming", "pasting", "entering"} \cup Running
Keeps(c) ==
    pc[c] \in Holding => \A i \in DOMAIN pipe[c] : pipe[c][i].op \notin {"close", "observe"}
KeepInv == \A c \in Workers \cup Submitters : Keeps(c)

\* While a submission, or the owner of the hosting, works, no forced claim of anybody else is on its
\* way but those that were before.
Quiet(c) == \A d \in Clients : d # c /\ ForceUnread(d) => <<c, d>> \in late
QuietInv ==
    /\ \A s \in Submitters : pc[s] \in Submitting \ {"claim"} => Quiet(s)
    /\ \A w \in Workers : pc[w] \in Running /\ Owns(w) => Quiet(w)

\* What a running worker has sent and not had an answer to: one frame, or nothing.
Asked(l) == CASE l \in {"enabling", "restoring"} -> "force" [] l = "pasting" -> "paste"
              [] l = "entering" -> "enter" [] OTHER -> "none"
Answer(l) == CASE l \in {"enabling", "restoring"} -> "claimed"
               [] l \in {"pasting", "entering"} -> "written" [] OTHER -> "none"
Asks(w) ==
    /\ w \notin waiting
    /\ \A i \in DOMAIN pipe[w] : pipe[w][i].op # "claim"
    /\ pc[w] \in Resting => inbox[w] = <<>>
    /\ pc[w] \in Running =>
         /\ Len(pipe[w]) <= 1 /\ (Asked(pc[w]) = "none" => pipe[w] = <<>>)
         /\ \A i \in DOMAIN pipe[w] : pipe[w][i].op = Asked(pc[w])
         /\ \A i \in DOMAIN inbox[w] : inbox[w][i] = Answer(pc[w]) => pipe[w] = <<>>
         /\ \A i \in DOMAIN inbox[w] : inbox[w][i] = "written" => pc[w] \in {"pasting", "entering"}
         /\ \A i, j \in DOMAIN inbox[w] :
              inbox[w][i] = "written" /\ inbox[w][j] = "written" => i = j
AskInv == \A w \in Workers : Asks(w)

\* The conclusion t of a review is spent: its hosting is past it.
Spent(t) ==
    /\ t \in used \X (1..MaxInputs)
    /\ Hosted /\ hosting.id = t[1] =>
         /\ t[2] <= hosting.run
         /\ hosting.phase \in {"Reviewing", "Collecting"} => t[2] < hosting.run

\* The conclusions that were pasted or are about to be are all different.
PasteInv ==
    /\ \A i \in DOMAIN pasted : Spent(pasted[i])
    /\ \A i, j \in DOMAIN pasted : pasted[i] = pasted[j] => i = j
    /\ \A w \in Workers : \A k \in DOMAIN pipe[w] : pipe[w][k].op = "paste" =>
         /\ Spent(pipe[w][k].text)
         /\ \A i \in DOMAIN pasted : pasted[i] # pipe[w][k].text
         /\ \A v \in Workers : \A l \in DOMAIN pipe[v] :
              pipe[v][l].op = "paste" /\ pipe[v][l].text = pipe[w][k].text => v = w /\ l = k

\* Until a restart: the Enter is delivered before its turn can end, and the turn before its
\* completion is taken.
Turning(w) ==
    boot = 0 /\ (\/ pc[w] = "entering" /\ \E i \in DOMAIN inbox[w] : inbox[w][i] = "written"
                 \/ pc[w] = "entered"
                 \/ pc[w] = "loop" /\ copy[w].phase = "Waiting" /\ copy[w].count > 0)
      => prompts + events[w] > 0
TurnInv == \A w \in Workers : Turning(w)

\* The whole of it.
IInv ==
    /\ TypeOK /\ BootInv /\ LockInv /\ CopyInv
    /\ KeepInv /\ QuietInv /\ AskInv /\ PasteInv /\ TurnInv

-----------------------------------------------------------------------------
(* Types *)

\* The frames and answers that are sent have their types, and so has a queue that one is taken of.
LEMMA FrameType == \A op \in Ops : Frame(op) \in Frames
  BY DEF Frame, Frames

\* A queue of frames, and of answers, keeps its type.
LEMMA Sending ==
    ASSUME DaemonType, NEW c \in Clients, NEW f \in Frames, Sends(c, f)
    PROVE  pipe' \in Pipes
  BY DEF DaemonType, Pipes, Sends

\* A new connection, with the claim as its only frame; what is late stays so.
LEMMA Attaching ==
    ASSUME DaemonType, NEW c \in Clients, NEW op \in Ops, Attaches(c, op)
    PROVE  /\ pipe' \in Pipes
           /\ \A d \in Clients : d # c => pipe'[d] = pipe[d]
           /\ Len(pipe'[c]) = 1
           /\ \A i \in DOMAIN pipe'[c] : i = 1 /\ pipe'[c][i] = Frame(op)
           /\ late \subseteq late'
           /\ late \subseteq Clients \X Clients => late' \subseteq Clients \X Clients
           /\ \A d \in Clients : d # c /\ ForceUnread(d) => <<c, d>> \in late'
  <1>1. Frame(op) \in Frames
    BY FrameType
  <1>2. pipe \in Pipes
    BY DEF DaemonType
  <1>3. <<Frame(op)>> \in Seq(Frames) /\ Len(<<Frame(op)>>) = 1 /\ DOMAIN <<Frame(op)>> = {1}
        /\ <<Frame(op)>>[1] = Frame(op)
    BY <1>1
  <1>4. pipe' = [pipe EXCEPT ![c] = <<Frame(op)>>]
    BY DEF Attaches
  <1>5. pipe' \in Pipes /\ pipe'[c] = <<Frame(op)>> /\ \A d \in Clients : d # c => pipe'[d] = pipe[d]
    BY <1>2, <1>3, <1>4 DEF Pipes
  <1>6. late' = late \cup {<<c, d>> : d \in {x \in Clients \ {c} : ForceUnread(x)}}
    BY DEF Attaches
  <1>7. late \subseteq Clients \X Clients => late' \subseteq Clients \X Clients
    BY <1>6
  <1>8. \A d \in Clients : d # c /\ ForceUnread(d) => <<c, d>> \in late'
    BY <1>6
  <1>9. QED
    BY <1>3, <1>5, <1>6, <1>7, <1>8

\* An answer is taken from the front.
LEMMA Reading ==
    ASSUME DaemonType, NEW c \in Clients, NEW m, Reads(c, m)
    PROVE  inbox' \in Boxes
  BY DEF DaemonType, Boxes, Reads

LEMMA Telling ==
    ASSUME NEW box \in Boxes, NEW c \in Clients, NEW m \in Messages
    PROVE  Told(box, c, m) \in Boxes
  BY DEF Boxes, Told

\* Whoever loses control is told, and whoever gets it.
LEMMA Granting ==
    ASSUME DaemonType, NEW c \in Clients, Grant(c)
    PROVE  inbox' \in Boxes
  <1>1. "closed" \in Messages /\ "claimed" \in Messages
    BY DEF Messages
  <1>2. (IF owner = None THEN inbox ELSE Told(inbox, owner, "closed")) \in Boxes
    BY <1>1, Telling DEF DaemonType
  <1>3. QED
    BY <1>1, <1>2, Telling DEF Grant

\* A connection that is dropped.
LEMMA Dropping ==
    ASSUME DaemonType, NEW c \in Clients, Drops(c)
    PROVE  pipe' \in Pipes /\ inbox' \in Boxes
  <1>1. Frame("close") \in Frames
    BY FrameType DEF Ops
  <1>2. pipe' \in Pipes
    BY <1>1, Sending DEF Drops, Closes
  <1>3. inbox' \in Boxes
    BY EmptySeq DEF Drops, DaemonType, Boxes
  <1>4. QED
    BY <1>2, <1>3

\* The record that enable saves first.
LEMMA FreshType ==
    \A h \in Hostings : Fresh(h) \in Records /\ Fresh(h).id = h /\ Fresh(h) # None
  <1> SUFFICES ASSUME NEW h \in Hostings
               PROVE  Fresh(h) \in Records /\ Fresh(h).id = h /\ Fresh(h) # None
    OBVIOUS
  <1>1. 0 \in 0..MaxInputs
    BY HostingAssumption
  <1>2. Fresh(h) \in Records /\ Fresh(h).id = h
    BY <1>1 DEF Fresh, Records, Phases
  <1>3. QED
    BY <1>2, HostingAssumption

\* What a worker saves is a record of the same hosting.
LEMMA RecordKept ==
    ASSUME NEW r \in Records, NEW p \in Phases
    PROVE  /\ [r EXCEPT !.phase = p] \in Records /\ [r EXCEPT !.phase = p].id = r.id
           /\ [r EXCEPT !.phase = p, !.run = @ + 1] \in Records
           /\ [r EXCEPT !.phase = p, !.run = @ + 1].id = r.id
           /\ r.count < MaxInputs =>
                /\ [r EXCEPT !.phase = p, !.count = @ + 1] \in Records
                /\ [r EXCEPT !.phase = p, !.count = @ + 1].id = r.id
  <1>1. MaxInputs \in Nat
    BY HostingAssumption
  <1>2. r.id \in Hostings /\ r.count \in 0..MaxInputs /\ r.run \in Nat
    BY DEF Records
  <1>3. r.run + 1 \in Nat /\ (r.count < MaxInputs => r.count + 1 \in 0..MaxInputs)
    BY <1>1, <1>2
  <1>4. /\ [r EXCEPT !.phase = p] \in Records
        /\ [r EXCEPT !.phase = p, !.run = @ + 1] \in Records
        /\ r.count < MaxInputs => [r EXCEPT !.phase = p, !.count = @ + 1] \in Records
    BY <1>2, <1>3 DEF Records
  <1>5. QED
    BY <1>4 DEF Records

\* What run does when it returns, and save, to what a worker has.
WorkerType ==
    /\ pc \in [Workers \cup Submitters -> Labels]
    /\ copy \in [Workers -> Records] /\ \A w \in Workers : copy[w].id = w[1]
    /\ events \in [Workers -> Nat]
    /\ pipe \in Pipes /\ inbox \in Boxes

LEMMA Returning ==
    ASSUME TypeOK, NEW w \in Workers, NEW l \in Labels, Returns(w, l)
    PROVE  WorkerType'
  <1>1. pipe' \in Pipes /\ inbox' \in Boxes
    BY Dropping DEF Returns, TypeOK, Clients
  <1>2. w[1] \in Hostings
    BY DEF Workers
  <1>3. QED
    BY <1>1, <1>2, FreshType DEF Returns, Goto, TypeOK, WorkType, WorkerType

LEMMA Saving ==
    ASSUME TypeOK, NEW w \in Workers, NEW r \in Records, r.id = w[1], NEW l \in Labels,
           Saves(w, r, l)
    PROVE  /\ WorkerType'
           /\ hosting' = None \/ (hosting' \in Records /\ hosting'.id \in used)
  <1>1. CASE Owns(w) /\ hosting' = r /\ copy' = [copy EXCEPT ![w] = r] /\ Goto(w, l)
               /\ UNCHANGED <<pipe, inbox, events>>
    BY <1>1 DEF TypeOK, RecordType, WorkType, DaemonType, WorkerType, Goto, Owns, Hosted
  <1>2. CASE Errs(w) /\ UNCHANGED hosting
    <2>1. "failing" \in Labels
      BY DEF Labels
    <2>2. QED
      BY <1>2, <2>1, Returning DEF Errs, TypeOK, RecordType
  <1>3. QED
    BY <1>1, <1>2 DEF Saves

\* The types of the initial state.
LEMMA InitType == Init => TypeOK
  <1> SUFFICES ASSUME Init PROVE TypeOK
    OBVIOUS
  <1> USE HostingAssumption
  <1>1. RecordType
    BY DEF Init, RecordType, Boots
  <1>2. LockType
    BY DEF Init, LockType, Submitters
  <1>3. WorkType
    <2>1. \A w \in Workers : Fresh(w[1]) \in Records /\ Fresh(w[1]).id = w[1]
      BY FreshType DEF Workers
    <2>2. QED
      BY <2>1 DEF Init, WorkType, Labels
  <1>4. DaemonType
    BY EmptySeq DEF Init, DaemonType, Pipes, Boxes
  <1>5. prompts \in 0..MaxQueue /\ frames \in 0..MaxFrames
    BY DEF Init
  <1>6. late \subseteq Clients \X Clients
    BY DEF Init
  <1>7. QED
    BY <1>1, <1>2, <1>3, <1>4, <1>5, <1>6 DEF TypeOK

\* Every step of terminald, of the agent, of a browser, a submission or a worker keeps the types.
LEMMA TypeStep == TypeOK /\ CopyInv /\ PasteInv /\ [Next]_vars => TypeOK'
  <1> SUFFICES ASSUME TypeOK, CopyInv, PasteInv, [Next]_vars PROVE TypeOK'
    OBVIOUS
  <1> USE HostingAssumption DEF TypeOK
  <1>c. Browsers \subseteq Clients /\ Submitters \subseteq Clients /\ Workers \subseteq Clients
    BY DEF Clients
  <1>l. {"off", "claim", "claiming", "pasting", "entering", "finishing", "done", "enabling",
         "recover", "restoring", "first", "loop", "starting", "dispatching", "collecting",
         "entered", "failing", "unsaved"} \subseteq Labels
    BY DEF Labels
  <1>f. \A op \in {"claim", "force", "observe", "paste", "enter", "keys", "close"} :
          Frame(op) \in Frames
    BY FrameType DEF Ops
  <1>1. ASSUME NEW c \in Clients, DaemonClaims(c) PROVE TypeOK'
    <2>1. pipe' \in Pipes
      BY <1>1, <1>c, EmptySeq
      DEF DaemonClaims, recordVars, lockVars, workVars, DaemonType, Pipes, Is
    <2>2. inbox' \in Boxes
      BY <1>1, <1>c, Granting
      DEF DaemonClaims, recordVars, lockVars, workVars, DaemonType, Messages
    <2>3. DaemonType'
      BY <1>1, <2>2, <2>1
      DEF DaemonClaims, Grant, recordVars, lockVars, workVars, DaemonType
    <2>4. RecordType' /\ LockType' /\ WorkType' /\ prompts' \in 0..MaxQueue /\ frames' \in 0..MaxFrames
         /\ late' \subseteq Clients \X Clients
      BY <1>1
      DEF DaemonClaims, Forgets, recordVars, lockVars, workVars, RecordType, LockType,
          WorkType
    <2> QED
      BY <2>1, <2>2, <2>3, <2>4
      DEF TypeOK
  <1>2. ASSUME NEW c \in Clients, DaemonRefuses(c) PROVE TypeOK'
    <2>1. pipe' \in Pipes
      BY <1>2, <1>c
      DEF DaemonRefuses, recordVars, lockVars, workVars, DaemonType, Pipes, Is
    <2>2. inbox' \in Boxes
      BY <1>2, <1>c, Telling
      DEF DaemonRefuses, recordVars, lockVars, workVars, DaemonType, Messages
    <2>3. DaemonType'
      BY <1>2, <2>2, <2>1
      DEF DaemonRefuses, recordVars, lockVars, workVars, DaemonType
    <2>4. RecordType' /\ LockType' /\ WorkType' /\ prompts' \in 0..MaxQueue /\ frames' \in 0..MaxFrames
         /\ late' \subseteq Clients \X Clients
      BY <1>2
      DEF DaemonRefuses, recordVars, lockVars, workVars, RecordType, LockType,
          WorkType
    <2> QED
      BY <2>1, <2>2, <2>3, <2>4
      DEF TypeOK
  <1>3. ASSUME NEW c \in Clients, DaemonUnchanged(c) PROVE TypeOK'
    <2>1. pipe' \in Pipes
      BY <1>3, <1>c
      DEF DaemonUnchanged, recordVars, lockVars, workVars, DaemonType, Pipes, Is
    <2>2. DaemonType'
      BY <1>3, <2>1
      DEF DaemonUnchanged, recordVars, lockVars, workVars, DaemonType
    <2>3. RecordType' /\ LockType' /\ WorkType' /\ prompts' \in 0..MaxQueue /\ frames' \in 0..MaxFrames
         /\ late' \subseteq Clients \X Clients
      BY <1>3
      DEF DaemonUnchanged, Forgets, recordVars, lockVars, workVars, RecordType, LockType,
          WorkType
    <2> QED
      BY <2>1, <2>2, <2>3
      DEF TypeOK
  <1>4. ASSUME NEW c \in Clients, DaemonVacancy(c) PROVE TypeOK'
    <2>1. inbox' \in Boxes
      BY <1>4, <1>c, Granting
      DEF DaemonVacancy, recordVars, lockVars, workVars, DaemonType, Messages
    <2>2. DaemonType'
      BY <1>4, <2>1
      DEF DaemonVacancy, Grant, recordVars, lockVars, workVars, DaemonType
    <2>3. RecordType' /\ LockType' /\ WorkType' /\ prompts' \in 0..MaxQueue /\ frames' \in 0..MaxFrames
         /\ late' \subseteq Clients \X Clients
      BY <1>4
      DEF DaemonVacancy, recordVars, lockVars, workVars, RecordType, LockType,
          WorkType
    <2> QED
      BY <2>1, <2>2, <2>3
      DEF TypeOK
  <1>5. ASSUME NEW c \in Clients, DaemonReleases(c) PROVE TypeOK'
    <2>1. pipe' \in Pipes
      BY <1>5, <1>c
      DEF DaemonReleases, recordVars, lockVars, workVars, DaemonType, Pipes, Is
    <2>2. inbox' \in Boxes
      BY <1>5, <1>c, Telling
      DEF DaemonReleases, recordVars, lockVars, workVars, DaemonType, Messages
    <2>3. DaemonType'
      BY <1>5, <2>2, <2>1
      DEF DaemonReleases, recordVars, lockVars, workVars, DaemonType
    <2>4. RecordType' /\ LockType' /\ WorkType' /\ prompts' \in 0..MaxQueue /\ frames' \in 0..MaxFrames
         /\ late' \subseteq Clients \X Clients
      BY <1>5
      DEF DaemonReleases, recordVars, lockVars, workVars, RecordType, LockType,
          WorkType
    <2> QED
      BY <2>1, <2>2, <2>3, <2>4
      DEF TypeOK
  <1>6. ASSUME NEW c \in Clients, DaemonWrites(c), owner = c PROVE TypeOK'
    <2>1. pipe' \in Pipes
      BY <1>6, <1>c
      DEF DaemonWrites, recordVars, lockVars, workVars, DaemonType, Pipes, Is
    <2>2. inbox' \in Boxes
      BY <1>6, <1>c, Telling
      DEF DaemonWrites, recordVars, lockVars, workVars, DaemonType, Messages
    <2>3. Head(pipe[c]).op = "paste" /\ c \in Workers => Head(pipe[c]).text \in Hostings
         \X Nat
      <3>1. SUFFICES ASSUME Head(pipe[c]).op = "paste", c \in Workers
                     PROVE  Head(pipe[c]).text \in Hostings \X Nat
        OBVIOUS
      <3>2. 1 \in DOMAIN pipe[c] /\ Head(pipe[c]) = pipe[c][1]
        BY <1>6 DEF DaemonWrites, Is, DaemonType, Pipes
      <3>3. Head(pipe[c]).text \in used \X (1..MaxInputs)
        BY <3>1, <3>2 DEF PasteInv, Spent
      <3>4. QED
        BY <3>3 DEF RecordType
    <2>4. DaemonType'
      BY <1>6, <2>2, <2>1, <2>3
      DEF DaemonWrites, recordVars, lockVars, workVars, DaemonType
    <2>5. RecordType' /\ LockType' /\ WorkType' /\ prompts' \in 0..MaxQueue /\ frames' \in 0..MaxFrames
         /\ late' \subseteq Clients \X Clients
      BY <1>6
      DEF DaemonWrites, recordVars, lockVars, workVars, RecordType, LockType,
          WorkType
    <2> QED
      BY <2>1, <2>2, <2>3, <2>4, <2>5
      DEF TypeOK
  <1>7. ASSUME NEW c \in Clients, DaemonWrites(c), owner # c PROVE TypeOK'
    <2>1. pipe' \in Pipes
      BY <1>7, <1>c
      DEF DaemonWrites, recordVars, lockVars, workVars, DaemonType, Pipes, Is
    <2>2. inbox' \in Boxes
      BY <1>7, <1>c, Telling
      DEF DaemonWrites, recordVars, lockVars, workVars, DaemonType, Messages
    <2>3. DaemonType'
      BY <1>7, <2>2, <2>1
      DEF DaemonWrites, recordVars, lockVars, workVars, DaemonType
    <2>4. RecordType' /\ LockType' /\ WorkType' /\ prompts' \in 0..MaxQueue /\ frames' \in 0..MaxFrames
         /\ late' \subseteq Clients \X Clients
      BY <1>7
      DEF DaemonWrites, recordVars, lockVars, workVars, RecordType, LockType,
          WorkType
    <2> QED
      BY <2>1, <2>2, <2>3, <2>4
      DEF TypeOK
  <1>8. ASSUME NEW b \in Browsers, TakeOver(b) PROVE TypeOK'
    <2>1. RecordType'
      BY <1>8
      DEF TakeOver, Forwards, Passes, workVars, RecordType
    <2>2. LockType'
      BY <1>8
      DEF TakeOver, Forwards, Passes, workVars, LockType
    <2>3. pipe' \in Pipes
      BY <1>8, <1>c, <1>f, Sending
      DEF TakeOver, Forwards, Passes, workVars, DaemonType
    <2>4. DaemonType'
      BY <1>8, <2>3
      DEF TakeOver, Forwards, workVars, DaemonType
    <2>5. WorkType' /\ prompts' \in 0..MaxQueue /\ frames' \in 0..MaxFrames
         /\ late' \subseteq Clients \X Clients
      BY <1>8
      DEF TakeOver, Forwards, Passes, workVars, WorkType
    <2> QED
      BY <2>1, <2>2, <2>3, <2>4, <2>5
      DEF TypeOK
  <1>9. ASSUME NEW b \in Browsers, Claims(b) PROVE TypeOK'
    <2>1. pipe' \in Pipes
      BY <1>9, <1>c, <1>f, Sending
      DEF Claims, Forwards, Passes, recordVars, lockVars, workVars, DaemonType
    <2>2. DaemonType'
      BY <1>9, <2>1
      DEF Claims, Forwards, recordVars, lockVars, workVars, DaemonType
    <2>3. RecordType' /\ LockType' /\ WorkType' /\ prompts' \in 0..MaxQueue /\ frames' \in 0..MaxFrames
         /\ late' \subseteq Clients \X Clients
      BY <1>9
      DEF Claims, Forwards, Passes, recordVars, lockVars, workVars, RecordType,
          LockType, WorkType
    <2> QED
      BY <2>1, <2>2, <2>3
      DEF TypeOK
  <1>10. ASSUME NEW b \in Browsers, Observes(b) PROVE TypeOK'
    <2>1. LockType'
      BY <1>10
      DEF Observes, Forwards, Passes, recordVars, workVars, LockType
    <2>2. pipe' \in Pipes
      BY <1>10, <1>c, <1>f, Sending
      DEF Observes, Forwards, Passes, recordVars, workVars, DaemonType
    <2>3. DaemonType'
      BY <1>10, <2>2
      DEF Observes, Forwards, recordVars, workVars, DaemonType
    <2>4. RecordType' /\ WorkType' /\ prompts' \in 0..MaxQueue /\ frames' \in 0..MaxFrames
         /\ late' \subseteq Clients \X Clients
      BY <1>10
      DEF Observes, Forwards, Passes, recordVars, workVars, RecordType, WorkType
    <2> QED
      BY <2>1, <2>2, <2>3, <2>4
      DEF TypeOK
  <1>11. ASSUME NEW b \in Browsers, Types(b) PROVE TypeOK'
    <2>1. pipe' \in Pipes
      BY <1>11, <1>c, <1>f, Sending
      DEF Types, Forwards, Passes, recordVars, lockVars, workVars, DaemonType
    <2>2. DaemonType'
      BY <1>11, <2>1
      DEF Types, Forwards, recordVars, lockVars, workVars, DaemonType
    <2>3. RecordType' /\ LockType' /\ WorkType' /\ prompts' \in 0..MaxQueue /\ frames' \in 0..MaxFrames
         /\ late' \subseteq Clients \X Clients
      BY <1>11
      DEF Types, Forwards, Passes, recordVars, lockVars, workVars, RecordType,
          LockType, WorkType
    <2> QED
      BY <2>1, <2>2, <2>3
      DEF TypeOK
  <1>12. ASSUME NEW b \in Browsers, Leaves(b) PROVE TypeOK'
    <2>1. LockType'
      BY <1>12
      DEF Leaves, recordVars, workVars, LockType
    <2>2. pipe' \in Pipes
      BY <1>12, <1>c, Dropping
      DEF Leaves, recordVars, workVars, DaemonType
    <2>3. inbox' \in Boxes
      BY <1>12, <1>c, Dropping
      DEF Leaves, recordVars, workVars, DaemonType
    <2>4. DaemonType'
      BY <1>12, <2>3, <2>2
      DEF Leaves, recordVars, workVars, DaemonType
    <2>5. RecordType' /\ WorkType' /\ prompts' \in 0..MaxQueue /\ frames' \in 0..MaxFrames
         /\ late' \subseteq Clients \X Clients
      BY <1>12
      DEF Leaves, recordVars, workVars, RecordType, WorkType
    <2> QED
      BY <2>1, <2>2, <2>3, <2>4, <2>5
      DEF TypeOK
  <1>13. ASSUME NEW b \in Browsers, BridgeEnds(b) PROVE TypeOK'
    <2>1. LockType'
      BY <1>13
      DEF BridgeEnds, recordVars, workVars, LockType
    <2>2. pipe' \in Pipes
      BY <1>13, <1>c, EmptySeq
      DEF BridgeEnds, recordVars, workVars, DaemonType, Pipes
    <2>3. inbox' \in Boxes
      BY <1>13, <1>c, Reading
      DEF BridgeEnds, recordVars, workVars, DaemonType
    <2>4. DaemonType'
      BY <1>13, <2>3, <2>2
      DEF BridgeEnds, recordVars, workVars, DaemonType
    <2>5. RecordType' /\ WorkType' /\ prompts' \in 0..MaxQueue /\ frames' \in 0..MaxFrames
         /\ late' \subseteq Clients \X Clients
      BY <1>13
      DEF BridgeEnds, recordVars, workVars, RecordType, WorkType
    <2> QED
      BY <2>1, <2>2, <2>3, <2>4, <2>5
      DEF TypeOK
  <1>14. ASSUME NEW b \in Browsers, Reconnects(b) PROVE TypeOK'
    <2>1. LockType'
      BY <1>14
      DEF Reconnects, recordVars, workVars, LockType
    <2>2. inbox' \in Boxes
      BY <1>14, <1>c, EmptySeq
      DEF Reconnects, recordVars, workVars, DaemonType, Boxes
    <2>3. DaemonType'
      BY <1>14, <2>2
      DEF Reconnects, recordVars, workVars, DaemonType
    <2>4. RecordType' /\ WorkType' /\ prompts' \in 0..MaxQueue /\ frames' \in 0..MaxFrames
         /\ late' \subseteq Clients \X Clients
      BY <1>14
      DEF Reconnects, recordVars, workVars, RecordType, WorkType
    <2> QED
      BY <2>1, <2>2, <2>3, <2>4
      DEF TypeOK
  <1>15. ASSUME NEW s \in Submissions, SubmitBegin(s) PROVE TypeOK'
    <2>1. LockType'
      BY <1>15
      DEF SubmitBegin, At, Hosted, NoLease, recordVars, daemonVars, LockType,
          Submitters
    <2>2. WorkType'
      BY <1>15, <1>l
      DEF SubmitBegin, At, Goto, Hosted, NoLease, recordVars, daemonVars,
          WorkType, Outcomes
    <2>3. RecordType' /\ DaemonType' /\ prompts' \in 0..MaxQueue /\ frames' \in 0..MaxFrames
         /\ late' \subseteq Clients \X Clients
      BY <1>15
      DEF SubmitBegin, recordVars, daemonVars, RecordType, DaemonType
    <2> QED
      BY <2>1, <2>2, <2>3
      DEF TypeOK
  <1>54. ASSUME NEW b \in Browsers, TakeOverFails(b) PROVE TypeOK'
    <2>1. pipe' \in Pipes /\ inbox' \in Boxes
      BY <1>54, <1>c, Dropping
      DEF TakeOverFails
    <2>2. DaemonType' /\ RecordType'
      BY <1>54, <2>1
      DEF TakeOverFails, workVars, DaemonType, RecordType
    <2>3. LockType' /\ WorkType'
      BY <1>54
      DEF TakeOverFails, workVars, LockType, WorkType
    <2>4. prompts' \in 0..MaxQueue /\ frames' \in 0..MaxFrames
         /\ late' \subseteq Clients \X Clients
      BY <1>54
      DEF TakeOverFails
    <2> QED
      BY <2>1, <2>2, <2>3, <2>4
      DEF TypeOK
  <1>16. ASSUME NEW s \in Submitters, SubmitClaims(s) PROVE TypeOK'
    <2>1. WorkType'
      BY <1>16, <1>l
      DEF SubmitClaims, At, Goto, recordVars, lockVars, WorkType,
          Outcomes
    <2>2. pipe' \in Pipes /\ late' \subseteq Clients \X Clients
      BY <1>16, <1>c, <1>f, Attaching
      DEF SubmitClaims, Ops
    <2>3. DaemonType'
      BY <1>16, <2>2
      DEF SubmitClaims, recordVars, lockVars, DaemonType
    <2>4. RecordType' /\ LockType' /\ prompts' \in 0..MaxQueue /\ frames' \in 0..MaxFrames
         /\ late' \subseteq Clients \X Clients
      BY <1>16, <2>2
      DEF SubmitClaims, recordVars, lockVars, RecordType, LockType
    <2> QED
      BY <2>1, <2>2, <2>3, <2>4
      DEF TypeOK
  <1>17. ASSUME NEW s \in Submitters, Claimed(s) PROVE TypeOK'
    <2>1. WorkType'
      BY <1>17, <1>l
      DEF Claimed, At, Goto, recordVars, lockVars, WorkType, Outcomes
    <2>2. pipe' \in Pipes
      BY <1>17, <1>c, <1>f, Sending
      DEF Claimed, Closes, recordVars, lockVars, DaemonType
    <2>3. inbox' \in Boxes
      BY <1>17, <1>c, Reading
      DEF Claimed, recordVars, lockVars, DaemonType
    <2>4. DaemonType'
      BY <1>17, <2>3, <2>2
      DEF Claimed, recordVars, lockVars, DaemonType
    <2>5. RecordType' /\ LockType' /\ prompts' \in 0..MaxQueue /\ frames' \in 0..MaxFrames
         /\ late' \subseteq Clients \X Clients
      BY <1>17
      DEF Claimed, recordVars, lockVars, RecordType, LockType
    <2> QED
      BY <2>1, <2>2, <2>3, <2>4, <2>5
      DEF TypeOK
  <1>18. ASSUME NEW s \in Submitters, Pasted(s) PROVE TypeOK'
    <2>1. WorkType'
      BY <1>18, <1>l
      DEF Pasted, At, Goto, recordVars, lockVars, WorkType, Outcomes
    <2>2. pipe' \in Pipes
      BY <1>18, <1>c, <1>f, Sending
      DEF Pasted, recordVars, lockVars, DaemonType
    <2>3. inbox' \in Boxes
      BY <1>18, <1>c, Reading
      DEF Pasted, recordVars, lockVars, DaemonType
    <2>4. DaemonType'
      BY <1>18, <2>3, <2>2
      DEF Pasted, recordVars, lockVars, DaemonType
    <2>5. RecordType' /\ LockType' /\ prompts' \in 0..MaxQueue /\ frames' \in 0..MaxFrames
         /\ late' \subseteq Clients \X Clients
      BY <1>18
      DEF Pasted, recordVars, lockVars, RecordType, LockType
    <2> QED
      BY <2>1, <2>2, <2>3, <2>4, <2>5
      DEF TypeOK
  <1>19. ASSUME NEW s \in Submitters, Entered(s) PROVE TypeOK'
    <2>1. WorkType'
      BY <1>19, <1>l
      DEF Entered, At, Goto, recordVars, lockVars, WorkType, Outcomes
    <2>2. pipe' \in Pipes
      BY <1>19, <1>c, <1>f, Sending
      DEF Entered, Closes, recordVars, lockVars, DaemonType
    <2>3. inbox' \in Boxes
      BY <1>19, <1>c, Reading
      DEF Entered, recordVars, lockVars, DaemonType
    <2>4. DaemonType'
      BY <1>19, <2>3, <2>2
      DEF Entered, recordVars, lockVars, DaemonType
    <2>5. RecordType' /\ LockType' /\ prompts' \in 0..MaxQueue /\ frames' \in 0..MaxFrames
         /\ late' \subseteq Clients \X Clients
      BY <1>19
      DEF Entered, recordVars, lockVars, RecordType, LockType
    <2> QED
      BY <2>1, <2>2, <2>3, <2>4, <2>5
      DEF TypeOK
  <1>20. ASSUME NEW s \in Submitters, Finished(s) PROVE TypeOK'
    <2>1. RecordType'
      BY <1>20
      DEF Finished, At, FreeGate, Reads, SubmitEnds, RecordType
    <2>2. LockType'
      BY <1>20
      DEF Finished, At, FreeGate, SubmitEnds, LockType, Submitters
    <2>3. WorkType'
      BY <1>20, <1>l
      DEF Finished, At, FreeGate, Goto, SubmitEnds, WorkType, Outcomes
    <2>4. inbox' \in Boxes
      BY <1>20, <1>c, Reading
      DEF Finished, DaemonType, SubmitEnds
    <2>5. DaemonType'
      BY <1>20, <2>4
      DEF Finished, SubmitEnds, DaemonType
    <2>6. prompts' \in 0..MaxQueue /\ frames' \in 0..MaxFrames
         /\ late' \subseteq Clients \X Clients
      BY <1>20
      DEF Finished, SubmitEnds
    <2> QED
      BY <2>1, <2>2, <2>3, <2>4, <2>5, <2>6
      DEF TypeOK
  <1>21. ASSUME NEW s \in Submitters, SubmitFails(s) PROVE TypeOK'
    <2>1. RecordType'
      BY <1>21
      DEF SubmitFails, At, CallFails, FreeGate, Lost, SubmitEnds, RecordType
    <2>2. LockType'
      BY <1>21
      DEF SubmitFails, At, FreeGate, SubmitEnds, LockType, Submitters
    <2>3. WorkType'
      BY <1>21, <1>l
      DEF SubmitFails, At, FreeGate, Goto, SubmitEnds, WorkType, Outcomes
    <2>4. pipe' \in Pipes
      BY <1>21, <1>c, Dropping
      DEF SubmitFails, SubmitEnds, DaemonType
    <2>5. inbox' \in Boxes
      BY <1>21, <1>c, Dropping
      DEF SubmitFails, DaemonType, SubmitEnds
    <2>6. DaemonType'
      BY <1>21, <2>5, <2>4
      DEF SubmitFails, SubmitEnds, DaemonType
    <2>7. prompts' \in 0..MaxQueue /\ frames' \in 0..MaxFrames
         /\ late' \subseteq Clients \X Clients
      BY <1>21
      DEF SubmitFails, SubmitEnds
    <2> QED
      BY <2>1, <2>2, <2>3, <2>4, <2>5, <2>6, <2>7
      DEF TypeOK
  <1>22. ASSUME NEW h \in Hostings, Enable(h) PROVE TypeOK'
    <2>1. RecordType'
      BY <1>22, FreshType
      DEF Enable, Hosted, Worker, RecordType
    <2>2. LockType'
      BY <1>22
      DEF Enable, Hosted, Submitters, Worker, Workers, LockType,
          RecordType
    <2>3. WorkType'
      BY <1>22, <1>l
      DEF Enable, Goto, Hosted, Worker, WorkType, Outcomes,
          RecordType, Workers
    <2>4. pipe' \in Pipes /\ late' \subseteq Clients \X Clients
      BY <1>22, <1>c, <1>f, Attaching
      DEF Enable, Worker, Workers, RecordType, Ops
    <2>5. DaemonType'
      BY <1>22, <2>4
      DEF Enable, Worker, DaemonType
    <2>6. prompts' \in 0..MaxQueue /\ frames' \in 0..MaxFrames
         /\ late' \subseteq Clients \X Clients
      BY <1>22, <2>4
      DEF Enable
    <2> QED
      BY <2>1, <2>2, <2>3, <2>4, <2>5, <2>6
      DEF TypeOK
  <1>23. ASSUME NEW h \in Hostings, ReviewEnds(h) PROVE TypeOK'
    <2>1. WorkType'
      BY <1>23, <1>l
      DEF ReviewEnds, Outcomes, recordVars, lockVars, daemonVars, WorkType,
          Workers
    <2>2. RecordType' /\ LockType' /\ DaemonType' /\ prompts' \in 0..MaxQueue /\ frames' \in 0..MaxFrames
         /\ late' \subseteq Clients \X Clients
      BY <1>23
      DEF ReviewEnds, recordVars, lockVars, daemonVars, RecordType, LockType,
          DaemonType
    <2> QED
      BY <2>1, <2>2
      DEF TypeOK
  <1>24. ASSUME NEW w \in Workers, RecoverSkips(w) PROVE TypeOK'
    <2>1. WorkType'
      BY <1>24, <1>l
      DEF RecoverSkips, At, Goto, Hosted, Live, Owns, Stopped, recordVars,
          lockVars, daemonVars, WorkType, Outcomes
    <2>2. RecordType' /\ LockType' /\ DaemonType' /\ prompts' \in 0..MaxQueue /\ frames' \in 0..MaxFrames
         /\ late' \subseteq Clients \X Clients
      BY <1>24
      DEF RecoverSkips, recordVars, lockVars, daemonVars, RecordType, LockType,
          DaemonType
    <2> QED
      BY <2>1, <2>2
      DEF TypeOK
  <1>25. ASSUME NEW w \in Workers, RecoverRefuses(w) PROVE TypeOK'
    <2>1. WorkType'
      BY <1>25, <1>l
      DEF RecoverRefuses, At, Goto, Hosted, Live, Owns, Stopped, recordVars,
          lockVars, daemonVars, WorkType, Outcomes
    <2>2. RecordType' /\ LockType' /\ DaemonType' /\ prompts' \in 0..MaxQueue /\ frames' \in 0..MaxFrames
         /\ late' \subseteq Clients \X Clients
      BY <1>25
      DEF RecoverRefuses, recordVars, lockVars, daemonVars, RecordType, LockType,
          DaemonType
    <2> QED
      BY <2>1, <2>2
      DEF TypeOK
  <1>26. ASSUME NEW w \in Workers, Recovers(w) PROVE TypeOK'
    <2>1. LockType'
      BY <1>26
      DEF Recovers, At, Hosted, Stopped, Submitters, Workers,
          recordVars, LockType
    <2>2. WorkType'
      BY <1>26, <1>l
      DEF Recovers, At, Goto, Hosted, Owns, Stopped, recordVars,
          WorkType, Outcomes, RecordType
    <2>3. pipe' \in Pipes /\ late' \subseteq Clients \X Clients
      BY <1>26, <1>c, <1>f, Attaching
      DEF Recovers, Ops
    <2>4. DaemonType'
      BY <1>26, <2>3
      DEF Recovers, recordVars, DaemonType
    <2>5. RecordType' /\ prompts' \in 0..MaxQueue /\ frames' \in 0..MaxFrames
         /\ late' \subseteq Clients \X Clients
      BY <1>26, <2>3
      DEF Recovers, recordVars, RecordType
    <2> QED
      BY <2>1, <2>2, <2>3, <2>4, <2>5
      DEF TypeOK
  <1>27. ASSUME NEW w \in Workers, CollectAbandoned(w) PROVE TypeOK'
    <2>1. WorkType'
      BY <1>27, <1>l
      DEF CollectAbandoned, At, Collects, Goto, Hosted, Owns, recordVars,
          lockVars, daemonVars, WorkType, Outcomes
    <2>2. RecordType' /\ LockType' /\ DaemonType' /\ prompts' \in 0..MaxQueue /\ frames' \in 0..MaxFrames
         /\ late' \subseteq Clients \X Clients
      BY <1>27
      DEF CollectAbandoned, recordVars, lockVars, daemonVars, RecordType,
          LockType, DaemonType
    <2> QED
      BY <2>1, <2>2
      DEF TypeOK
  <1>28. ASSUME NEW w \in Workers, CollectEnds(w) PROVE TypeOK'
    <2>1. copy[w] \in Records /\ copy[w].id = w[1] /\ Outcome(w) \in Phases
      BY DEF WorkType, Phases, Outcome
    <2>2. [copy[w] EXCEPT !.phase = Outcome(w)] \in Records /\ [copy[w] EXCEPT !.phase =
         Outcome(w)].id = w[1]
      BY <2>1, RecordKept
    <2>3. WorkerType' /\ (hosting' = None \/ (hosting' \in Records /\ hosting'.id \in
         used))
      BY <1>28, <1>l, <2>2, Saving
      DEF CollectEnds
    <2>4. RecordType'
      BY <1>28, <2>3
      DEF CollectEnds, RecordType
    <2>5. WorkType'
      BY <1>28, <2>3
      DEF CollectEnds, WorkType, WorkerType, Outcomes
    <2>6. DaemonType'
      BY <1>28, <2>3
      DEF CollectEnds, DaemonType, WorkerType
    <2>7. LockType' /\ prompts' \in 0..MaxQueue /\ frames' \in 0..MaxFrames
         /\ late' \subseteq Clients \X Clients
      BY <1>28
      DEF CollectEnds, Saves, lockVars, LockType
    <2> QED
      BY <2>1, <2>2, <2>3, <2>4, <2>5, <2>6, <2>7
      DEF TypeOK
  <1>29. ASSUME NEW w \in Workers, CollectUnusable(w) PROVE TypeOK'
    <2>1. WorkerType'
      BY <1>29, <1>l, Returning
      DEF CollectUnusable, Errs
    <2>2. WorkType'
      BY <1>29, <2>1
      DEF CollectUnusable, WorkType, WorkerType, Outcomes
    <2>3. DaemonType'
      BY <1>29, <2>1
      DEF CollectUnusable, DaemonType, WorkerType
    <2>4. RecordType' /\ LockType' /\ prompts' \in 0..MaxQueue /\ frames' \in 0..MaxFrames
         /\ late' \subseteq Clients \X Clients
      BY <1>29
      DEF CollectUnusable, recordVars, lockVars, RecordType, LockType
    <2> QED
      BY <2>1, <2>2, <2>3, <2>4
      DEF TypeOK
  <1>30. ASSUME NEW w \in Workers, SubmitConclusion(w) PROVE TypeOK'
    <2>1. Errs(w) => WorkerType'
      BY <1>l, Returning
      DEF Errs
    <2>2. RecordType'
      BY <1>30
      DEF SubmitConclusion, At, AtLimit, Collects, Errs, Hosted, Outcome, Owns,
          RecordType, WorkType, Records, Phases
    <2>3. LockType'
      BY <1>30
      DEF SubmitConclusion, At, Collects, Hosted, LockType
    <2>4. WorkType'
      BY <1>30, <1>l, <2>1
      DEF SubmitConclusion, WorkType, WorkerType, Goto, Collects, Records, Phases
    <2>5. [op |-> "paste", text |-> <<w[1], copy[w].run>>] \in Frames
      BY DEF Frames, Ops, WorkType, Records, Workers
    <2>6. DaemonType'
      BY <1>30, <1>c, <2>1, <2>5, Sending
      DEF SubmitConclusion, DaemonType, WorkerType
    <2>7. prompts' \in 0..MaxQueue /\ frames' \in 0..MaxFrames
         /\ late' \subseteq Clients \X Clients
      BY <1>30
      DEF SubmitConclusion
    <2> QED
      BY <2>1, <2>2, <2>3, <2>4, <2>5, <2>6, <2>7
      DEF TypeOK
  <1>31. ASSUME NEW w \in Workers, Fail(w) PROVE TypeOK'
    <2>1. RecordType'
      BY <1>31
      DEF Fail, At, Hosted, Live, Owns, Stopped, lockVars, daemonVars, RecordType,
          WorkType, Records, Phases
    <2>2. WorkType'
      BY <1>31, <1>l
      DEF Fail, At, Goto, Hosted, Live, Owns, Stopped, lockVars, daemonVars,
          WorkType, Outcomes
    <2>3. LockType' /\ DaemonType' /\ prompts' \in 0..MaxQueue /\ frames' \in 0..MaxFrames
         /\ late' \subseteq Clients \X Clients
      BY <1>31
      DEF Fail, lockVars, daemonVars, LockType, DaemonType
    <2> QED
      BY <2>1, <2>2, <2>3
      DEF TypeOK
  <1>32. ASSUME NEW w \in Workers, Enabled(w) PROVE TypeOK'
    <2>1. LockType'
      BY <1>32
      DEF Enabled, At, FreeGate, recordVars, LockType
    <2>2. WorkType'
      BY <1>32, <1>l
      DEF Enabled, At, FreeGate, Goto, recordVars, WorkType, Outcomes
    <2>3. inbox' \in Boxes
      BY <1>32, <1>c, Reading
      DEF Enabled, recordVars, DaemonType
    <2>4. DaemonType'
      BY <1>32, <2>3
      DEF Enabled, recordVars, DaemonType
    <2>5. RecordType' /\ prompts' \in 0..MaxQueue /\ frames' \in 0..MaxFrames
         /\ late' \subseteq Clients \X Clients
      BY <1>32
      DEF Enabled, recordVars, RecordType
    <2> QED
      BY <2>1, <2>2, <2>3, <2>4, <2>5
      DEF TypeOK
  <1>33. ASSUME NEW w \in Workers, EnableFails(w) PROVE TypeOK'
    <2>1. WorkerType'
      BY <1>33, <1>l, Returning
      DEF EnableFails
    <2>2. RecordType'
      BY <1>33
      DEF EnableFails, At, CallFails, FreeGate, Hosted, Lost, Owns, RecordType,
          WorkType, Records, Phases
    <2>3. LockType'
      BY <1>33
      DEF EnableFails, At, FreeGate, Hosted, LockType
    <2>4. WorkType'
      BY <1>33, <2>1
      DEF EnableFails, WorkType, WorkerType, Outcomes
    <2>5. DaemonType'
      BY <1>33, <2>1
      DEF EnableFails, DaemonType, WorkerType
    <2>6. prompts' \in 0..MaxQueue /\ frames' \in 0..MaxFrames
         /\ late' \subseteq Clients \X Clients
      BY <1>33
      DEF EnableFails
    <2> QED
      BY <2>1, <2>2, <2>3, <2>4, <2>5, <2>6
      DEF TypeOK
  <1>34. ASSUME NEW w \in Workers, Recovered(w) PROVE TypeOK'
    <2>1. LockType'
      BY <1>34
      DEF Recovered, At, FreeGate, recordVars, LockType
    <2>2. WorkType'
      BY <1>34, <1>l
      DEF Recovered, At, FreeGate, Goto, recordVars, WorkType, Outcomes
    <2>3. inbox' \in Boxes
      BY <1>34, <1>c, Reading
      DEF Recovered, recordVars, DaemonType
    <2>4. DaemonType'
      BY <1>34, <2>3
      DEF Recovered, recordVars, DaemonType
    <2>5. RecordType' /\ prompts' \in 0..MaxQueue /\ frames' \in 0..MaxFrames
         /\ late' \subseteq Clients \X Clients
      BY <1>34
      DEF Recovered, recordVars, RecordType
    <2> QED
      BY <2>1, <2>2, <2>3, <2>4, <2>5
      DEF TypeOK
  <1>35. ASSUME NEW w \in Workers, RestoreFails(w) PROVE TypeOK'
    <2>1. WorkerType'
      BY <1>35, <1>l, Returning
      DEF RestoreFails, Errs
    <2>2. LockType'
      BY <1>35
      DEF RestoreFails, At, FreeGate, recordVars, LockType
    <2>3. WorkType'
      BY <1>35, <2>1
      DEF RestoreFails, WorkType, WorkerType, Outcomes
    <2>4. DaemonType'
      BY <1>35, <2>1
      DEF RestoreFails, DaemonType, WorkerType
    <2>5. RecordType' /\ prompts' \in 0..MaxQueue /\ frames' \in 0..MaxFrames
         /\ late' \subseteq Clients \X Clients
      BY <1>35
      DEF RestoreFails, recordVars, RecordType
    <2> QED
      BY <2>1, <2>2, <2>3, <2>4, <2>5
      DEF TypeOK
  <1>36. ASSUME NEW w \in Workers, FirstReview(w) PROVE TypeOK'
    <2>1. WorkType'
      BY <1>36, <1>l
      DEF FirstReview, At, Goto, Hosted, Owns, recordVars, lockVars, daemonVars,
          WorkType, Outcomes
    <2>2. RecordType' /\ LockType' /\ DaemonType' /\ prompts' \in 0..MaxQueue /\ frames' \in 0..MaxFrames
         /\ late' \subseteq Clients \X Clients
      BY <1>36
      DEF FirstReview, recordVars, lockVars, daemonVars, RecordType, LockType,
          DaemonType
    <2> QED
      BY <2>1, <2>2
      DEF TypeOK
  <1>37. ASSUME NEW w \in Workers, TakeEvent(w) PROVE TypeOK'
    <2>1. WorkType'
      BY <1>37, <1>l
      DEF TakeEvent, At, Goto, recordVars, lockVars, daemonVars, WorkType,
          Outcomes
    <2>2. RecordType' /\ LockType' /\ DaemonType' /\ prompts' \in 0..MaxQueue /\ frames' \in 0..MaxFrames
         /\ late' \subseteq Clients \X Clients
      BY <1>37
      DEF TakeEvent, recordVars, lockVars, daemonVars, RecordType, LockType,
          DaemonType
    <2> QED
      BY <2>1, <2>2
      DEF TypeOK
  <1>38. ASSUME NEW w \in Workers, StartReview(w) PROVE TypeOK'
    <2>1. copy[w] \in Records /\ copy[w].id = w[1] /\ "Reviewing" \in Phases
      BY DEF WorkType, Phases
    <2>2. [copy[w] EXCEPT !.phase = "Reviewing", !.run = @ + 1] \in Records /\ [copy[w]
         EXCEPT !.phase = "Reviewing", !.run = @ + 1].id = w[1]
      BY <2>1, RecordKept
    <2>3. WorkerType' /\ (hosting' = None \/ (hosting' \in Records /\ hosting'.id \in
         used))
      BY <1>38, <1>l, <2>2, Saving
      DEF StartReview
    <2>4. RecordType'
      BY <1>38, <2>3
      DEF StartReview, RecordType
    <2>5. WorkType'
      BY <1>38, <2>3
      DEF StartReview, WorkType, WorkerType, Outcomes
    <2>6. DaemonType'
      BY <1>38, <2>3
      DEF StartReview, DaemonType, WorkerType
    <2>7. LockType' /\ prompts' \in 0..MaxQueue /\ frames' \in 0..MaxFrames
         /\ late' \subseteq Clients \X Clients
      BY <1>38
      DEF StartReview, Saves, lockVars, LockType
    <2> QED
      BY <2>1, <2>2, <2>3, <2>4, <2>5, <2>6, <2>7
      DEF TypeOK
  <1>39. ASSUME NEW w \in Workers, Dispatched(w) PROVE TypeOK'
    <2>1. WorkType'
      BY <1>39, <1>l
      DEF Dispatched, At, Goto, recordVars, lockVars, daemonVars, WorkType,
          Outcomes
    <2>2. RecordType' /\ LockType' /\ DaemonType' /\ prompts' \in 0..MaxQueue /\ frames' \in 0..MaxFrames
         /\ late' \subseteq Clients \X Clients
      BY <1>39
      DEF Dispatched, recordVars, lockVars, daemonVars, RecordType, LockType,
          DaemonType
    <2> QED
      BY <2>1, <2>2
      DEF TypeOK
  <1>40. ASSUME NEW w \in Workers, DispatchFails(w) PROVE TypeOK'
    <2>1. WorkerType'
      BY <1>40, <1>l, Returning
      DEF DispatchFails, Errs
    <2>2. WorkType'
      BY <1>40, <2>1
      DEF DispatchFails, WorkType, WorkerType, Outcomes
    <2>3. DaemonType'
      BY <1>40, <2>1
      DEF DispatchFails, DaemonType, WorkerType
    <2>4. RecordType' /\ LockType' /\ prompts' \in 0..MaxQueue /\ frames' \in 0..MaxFrames
         /\ late' \subseteq Clients \X Clients
      BY <1>40
      DEF DispatchFails, recordVars, lockVars, RecordType, LockType
    <2> QED
      BY <2>1, <2>2, <2>3, <2>4
      DEF TypeOK
  <1>41. ASSUME NEW w \in Workers, ReviewDone(w) PROVE TypeOK'
    <2>1. copy[w] \in Records /\ copy[w].id = w[1] /\ "Collecting" \in Phases
      BY DEF WorkType, Phases
    <2>2. [copy[w] EXCEPT !.phase = "Collecting"] \in Records /\ [copy[w] EXCEPT !.phase =
         "Collecting"].id = w[1]
      BY <2>1, RecordKept
    <2>3. WorkerType' /\ (hosting' = None \/ (hosting' \in Records /\ hosting'.id \in
         used))
      BY <1>41, <1>l, <2>2, Saving
      DEF ReviewDone
    <2>4. RecordType'
      BY <1>41, <2>3
      DEF ReviewDone, RecordType
    <2>5. WorkType'
      BY <1>41, <2>3
      DEF ReviewDone, WorkType, WorkerType, Outcomes
    <2>6. DaemonType'
      BY <1>41, <2>3
      DEF ReviewDone, DaemonType, WorkerType
    <2>7. LockType' /\ prompts' \in 0..MaxQueue /\ frames' \in 0..MaxFrames
         /\ late' \subseteq Clients \X Clients
      BY <1>41
      DEF ReviewDone, Saves, lockVars, LockType
    <2> QED
      BY <2>1, <2>2, <2>3, <2>4, <2>5, <2>6, <2>7
      DEF TypeOK
  <1>42. ASSUME NEW w \in Workers, ReviewFails(w) PROVE TypeOK'
    <2>1. WorkerType'
      BY <1>42, <1>l, Returning
      DEF ReviewFails, Errs
    <2>2. WorkType'
      BY <1>42, <2>1
      DEF ReviewFails, WorkType, WorkerType, Outcomes
    <2>3. DaemonType'
      BY <1>42, <2>1
      DEF ReviewFails, DaemonType, WorkerType
    <2>4. RecordType' /\ LockType' /\ prompts' \in 0..MaxQueue /\ frames' \in 0..MaxFrames
         /\ late' \subseteq Clients \X Clients
      BY <1>42
      DEF ReviewFails, recordVars, lockVars, RecordType, LockType
    <2> QED
      BY <2>1, <2>2, <2>3, <2>4
      DEF TypeOK
  <1>43. ASSUME NEW w \in Workers, CollectBegin(w) PROVE TypeOK'
    <2>1. WorkType'
      BY <1>43, <1>l
      DEF CollectBegin, At, Goto, recordVars, lockVars, daemonVars, WorkType,
          Outcomes
    <2>2. RecordType' /\ LockType' /\ DaemonType' /\ prompts' \in 0..MaxQueue /\ frames' \in 0..MaxFrames
         /\ late' \subseteq Clients \X Clients
      BY <1>43
      DEF CollectBegin, recordVars, lockVars, daemonVars, RecordType, LockType,
          DaemonType
    <2> QED
      BY <2>1, <2>2
      DEF TypeOK
  <1>44. ASSUME NEW w \in Workers, Pasted(w) PROVE TypeOK'
    <2>1. WorkType'
      BY <1>44, <1>l
      DEF Pasted, At, Goto, recordVars, lockVars, WorkType, Outcomes
    <2>2. pipe' \in Pipes
      BY <1>44, <1>c, <1>f, Sending
      DEF Pasted, recordVars, lockVars, DaemonType
    <2>3. inbox' \in Boxes
      BY <1>44, <1>c, Reading
      DEF Pasted, recordVars, lockVars, DaemonType
    <2>4. DaemonType'
      BY <1>44, <2>3, <2>2
      DEF Pasted, recordVars, lockVars, DaemonType
    <2>5. RecordType' /\ LockType' /\ prompts' \in 0..MaxQueue /\ frames' \in 0..MaxFrames
         /\ late' \subseteq Clients \X Clients
      BY <1>44
      DEF Pasted, recordVars, lockVars, RecordType, LockType
    <2> QED
      BY <2>1, <2>2, <2>3, <2>4, <2>5
      DEF TypeOK
  <1>45. ASSUME NEW w \in Workers, WorkerEntered(w) PROVE TypeOK'
    <2>1. WorkType'
      BY <1>45, <1>l
      DEF WorkerEntered, At, Goto, recordVars, lockVars, WorkType, Outcomes
    <2>2. inbox' \in Boxes
      BY <1>45, <1>c, Reading
      DEF WorkerEntered, recordVars, lockVars, DaemonType
    <2>3. DaemonType'
      BY <1>45, <2>2
      DEF WorkerEntered, recordVars, lockVars, DaemonType
    <2>4. RecordType' /\ LockType' /\ prompts' \in 0..MaxQueue /\ frames' \in 0..MaxFrames
         /\ late' \subseteq Clients \X Clients
      BY <1>45
      DEF WorkerEntered, recordVars, lockVars, RecordType, LockType
    <2> QED
      BY <2>1, <2>2, <2>3, <2>4
      DEF TypeOK
  <1>46. ASSUME NEW w \in Workers, Submitted(w) PROVE TypeOK'
    <2>1. copy[w] \in Records /\ copy[w].id = w[1] /\ "Waiting" \in Phases
      BY DEF WorkType, Phases
    <2>2. copy[w].count < MaxInputs
      BY <1>46
      DEF Submitted, At, CopyInv, Copied, Rounds, Stands
    <2>3. [copy[w] EXCEPT !.phase = "Waiting", !.count = @ + 1] \in Records /\ [copy[w]
         EXCEPT !.phase = "Waiting", !.count = @ + 1].id = w[1]
      BY <2>1, RecordKept, <2>2
    <2>4. WorkerType' /\ (hosting' = None \/ (hosting' \in Records /\ hosting'.id \in
         used))
      BY <1>46, <1>l, <2>3, Saving
      DEF Submitted
    <2>5. RecordType'
      BY <1>46, <2>4
      DEF Submitted, RecordType
    <2>6. LockType'
      BY <1>46
      DEF Submitted, At, FreeGate, Hosted, LockType
    <2>7. WorkType'
      BY <1>46, <2>4
      DEF Submitted, WorkType, WorkerType, Outcomes
    <2>8. DaemonType'
      BY <1>46, <2>4
      DEF Submitted, DaemonType, WorkerType
    <2>9. prompts' \in 0..MaxQueue /\ frames' \in 0..MaxFrames
         /\ late' \subseteq Clients \X Clients
      BY <1>46
      DEF Submitted, Saves
    <2> QED
      BY <2>1, <2>2, <2>3, <2>4, <2>5, <2>6, <2>7, <2>8, <2>9
      DEF TypeOK
  <1>47. ASSUME NEW w \in Workers, WorkerSubmitFails(w) PROVE TypeOK'
    <2>1. WorkerType'
      BY <1>47, <1>l, Returning
      DEF WorkerSubmitFails, Errs
    <2>2. LockType'
      BY <1>47
      DEF WorkerSubmitFails, FreeGate, recordVars, LockType
    <2>3. WorkType'
      BY <1>47, <2>1
      DEF WorkerSubmitFails, WorkType, WorkerType, Outcomes
    <2>4. DaemonType'
      BY <1>47, <2>1
      DEF WorkerSubmitFails, DaemonType, WorkerType
    <2>5. RecordType' /\ prompts' \in 0..MaxQueue /\ frames' \in 0..MaxFrames
         /\ late' \subseteq Clients \X Clients
      BY <1>47
      DEF WorkerSubmitFails, recordVars, RecordType
    <2> QED
      BY <2>1, <2>2, <2>3, <2>4, <2>5
      DEF TypeOK
  <1>48. ASSUME NEW w \in Workers, LoopEnds(w) PROVE TypeOK'
    <2>1. WorkerType'
      BY <1>48, <1>l, Returning
      DEF LoopEnds
    <2>2. WorkType'
      BY <1>48, <2>1
      DEF LoopEnds, WorkType, WorkerType, Outcomes
    <2>3. DaemonType'
      BY <1>48, <2>1
      DEF LoopEnds, DaemonType, WorkerType
    <2>4. RecordType' /\ LockType' /\ prompts' \in 0..MaxQueue /\ frames' \in 0..MaxFrames
         /\ late' \subseteq Clients \X Clients
      BY <1>48
      DEF LoopEnds, recordVars, lockVars, RecordType, LockType
    <2> QED
      BY <2>1, <2>2, <2>3, <2>4
      DEF TypeOK
  <1>49. ASSUME NEW w \in Workers, NoticeLost(w) PROVE TypeOK'
    <2>1. WorkerType'
      BY <1>49, <1>l, Returning
      DEF NoticeLost, Errs
    <2>2. WorkType'
      BY <1>49, <2>1
      DEF NoticeLost, WorkType, WorkerType, Outcomes
    <2>3. DaemonType'
      BY <1>49, <2>1
      DEF NoticeLost, DaemonType, WorkerType
    <2>4. RecordType' /\ LockType' /\ prompts' \in 0..MaxQueue /\ frames' \in 0..MaxFrames
         /\ late' \subseteq Clients \X Clients
      BY <1>49
      DEF NoticeLost, recordVars, lockVars, RecordType, LockType
    <2> QED
      BY <2>1, <2>2, <2>3, <2>4
      DEF TypeOK
  <1>50. ASSUME NEW w \in Workers, AgentChanged(w) PROVE TypeOK'
    <2>1. Errs(w) => WorkerType'
      BY <1>l, Returning
      DEF Errs
    <2>2. WorkType'
      BY <1>50, <1>l, <2>1
      DEF AgentChanged, WorkType, WorkerType, Goto, Collects, Records, Phases
    <2>3. DaemonType'
      BY <1>50, <1>c, <2>1
      DEF AgentChanged, DaemonType, WorkerType
    <2>4. RecordType' /\ LockType' /\ prompts' \in 0..MaxQueue /\ frames' \in 0..MaxFrames
         /\ late' \subseteq Clients \X Clients
      BY <1>50
      DEF AgentChanged, recordVars, lockVars, RecordType, LockType
    <2> QED
      BY <2>1, <2>2, <2>3, <2>4
      DEF TypeOK
  <1>51. ASSUME TurnEnds PROVE TypeOK'
    <2>1. WorkType'
      BY <1>51, <1>l
      DEF TurnEnds, Subscribed, recordVars, lockVars, daemonVars, WorkType,
          Outcomes
    <2>2. RecordType' /\ LockType' /\ DaemonType' /\ prompts' \in 0..MaxQueue /\ frames' \in 0..MaxFrames
         /\ late' \subseteq Clients \X Clients
      BY <1>51
      DEF TurnEnds, recordVars, lockVars, daemonVars, RecordType, LockType,
          DaemonType
    <2> QED
      BY <2>1, <2>2
      DEF TypeOK
  <1>52. ASSUME Crash PROVE TypeOK'
    <2>1. RecordType'
      BY <1>52
      DEF Crash, Connected, Hosted, Live, Owns, Stopped, RecordType, Boots
    <2>2. LockType'
      BY <1>52
      DEF Crash, Connected, Hosted, Live, Stopped, Submitters, Workers, LockType
    <2>3. WorkType'
      BY <1>52, <1>l, FreshType
      DEF Crash, Connected, Hosted, Live, Owns, Stopped, WorkType, Outcomes,
          RecordType, Workers
    <2>4. pipe' \in Pipes
      BY <1>52, <1>c, <1>f
      DEF Crash, DaemonType, Pipes
    <2>5. inbox' \in Boxes
      BY <1>52, <1>c, EmptySeq
      DEF Crash, DaemonType, Boxes
    <2>6. DaemonType'
      BY <1>52, <2>5, <2>4
      DEF Crash, DaemonType
    <2>7. prompts' \in 0..MaxQueue /\ frames' \in 0..MaxFrames
         /\ late' \subseteq Clients \X Clients
      BY <1>52
      DEF Crash
    <2> QED
      BY <2>1, <2>2, <2>3, <2>4, <2>5, <2>6, <2>7
      DEF TypeOK
  <1>53. CASE UNCHANGED vars
    BY <1>53 DEF vars, recordVars, lockVars, workVars, daemonVars, RecordType, LockType, WorkType,
        DaemonType
  <1> QED
    BY <1>1, <1>2, <1>3, <1>4, <1>5, <1>6, <1>7, <1>8, <1>9, <1>10, <1>11, <1>12,
       <1>13, <1>14, <1>15, <1>16, <1>17, <1>18, <1>19, <1>20, <1>21, <1>22, <1>23,
       <1>24, <1>25, <1>26, <1>27, <1>28, <1>29, <1>30, <1>31, <1>32, <1>33, <1>34,
       <1>35, <1>36, <1>37, <1>38, <1>39, <1>40, <1>41, <1>42, <1>43, <1>44, <1>45,
       <1>46, <1>47, <1>48, <1>49, <1>50, <1>51, <1>52, <1>53,
       <1>54
    DEF Next, DaemonStep, BrowserStep, SubmitStep, GateStep, WorkerStep

\* What a worker saves is a record of its own hosting.
LEMMA SavedRecord ==
    ASSUME TypeOK, CopyInv, NEW w \in Workers
    PROVE  /\ \A p \in Phases : [copy[w] EXCEPT !.phase = p] \in Records
                               /\ [copy[w] EXCEPT !.phase = p].id = w[1]
           /\ [copy[w] EXCEPT !.phase = Outcome(w)] \in Records
           /\ [copy[w] EXCEPT !.phase = Outcome(w)].id = w[1]
           /\ [copy[w] EXCEPT !.phase = "Reviewing", !.run = @ + 1] \in Records
           /\ [copy[w] EXCEPT !.phase = "Reviewing", !.run = @ + 1].id = w[1]
           /\ At(w, "entered") =>
                /\ [copy[w] EXCEPT !.phase = "Waiting", !.count = @ + 1] \in Records
                /\ [copy[w] EXCEPT !.phase = "Waiting", !.count = @ + 1].id = w[1]
  <1>1. copy[w] \in Records /\ copy[w].id = w[1]
    BY DEF TypeOK, WorkType
  <1>2. Outcome(w) \in Phases /\ "Reviewing" \in Phases /\ "Waiting" \in Phases
    BY DEF Outcome, Phases
  <1>3. At(w, "entered") => copy[w].count < MaxInputs
    BY DEF At, CopyInv, Copied, Rounds, Stands
  <1>4. QED
    BY <1>1, <1>2, <1>3, RecordKept

-----------------------------------------------------------------------------
(* Steps of one client *)

\* What a step of a submission or of a worker leaves alone, and what it may do to the gate,
\* to the hosting and, by a forced claim, to the control of others.
Local(c) ==
    /\ \A d \in Workers \cup Submitters : d # c => pc'[d] = pc[d]
    /\ \A v \in Workers : v # c => copy'[v] = copy[v] /\ events'[v] = events[v]
    /\ \A d \in Clients : d # c => pipe'[d] = pipe[d] /\ inbox'[d] = inbox[d]
    /\ gate' = gate \/ (gate = None /\ gate' = c) \/ (gate = c /\ gate' = None)
    /\ phase' = phase \/ c = Creation
    /\ \/ hosting' = hosting
       \/ /\ c \in Workers /\ c[2] = boot /\ hosting' # None /\ hosting'.id = c[1]
          /\ Owns(c) \/ (~Hosted /\ phase = "Ready")
    /\ UNCHANGED <<boot, owner, waiting, pasted, prompts>>
    /\ used \subseteq used' /\ late \subseteq late'

ForcedClaim(c) ==
    (\E i \in DOMAIN pipe'[c] : pipe'[c][i].op = "force") =>
        \/ \E i \in DOMAIN pipe[c] : pipe[c][i].op = "force"
        \/ /\ c \in Workers /\ c[2] = boot /\ gate = None
           /\ hosting' # None /\ hosting'.id = c[1]
           /\ Hosted \/ phase = "Ready"

\* Frames are appended, and answers taken from the front.
LEMMA SendsTo ==
    ASSUME TypeOK, NEW c \in Clients, NEW f \in Frames, Sends(c, f)
    PROVE  /\ \A d \in Clients : d # c => pipe'[d] = pipe[d]
           /\ \A i \in DOMAIN pipe'[c] :
                \/ i \in DOMAIN pipe[c] /\ pipe'[c][i] = pipe[c][i]
                \/ i = Len(pipe[c]) + 1 /\ pipe'[c][i] = f
           /\ Len(pipe'[c]) <= Len(pipe[c]) + 1
  <1>1. pipe \in Pipes /\ pipe[c] \in Seq(Frames)
    BY DEF TypeOK, DaemonType, Pipes
  <1>2. CASE Dead(c)
    <2>1. pipe' = pipe
      BY <1>2 DEF Sends
    <2>2. QED
      BY <1>1, <2>1
  <1>3. CASE ~Dead(c)
    <2>1. pipe' = [pipe EXCEPT ![c] = Append(@, f)]
      BY <1>3 DEF Sends
    <2>2. pipe'[c] = Append(pipe[c], f) /\ \A d \in Clients : d # c => pipe'[d] = pipe[d]
      BY <1>1, <2>1 DEF Pipes
    <2>3. QED
      BY <1>1, <2>2
  <1>4. QED
    BY <1>2, <1>3

\* An answer is taken from the front.
LEMMA ReadsFrom ==
    ASSUME TypeOK, NEW c \in Clients, NEW m, Reads(c, m)
    PROVE  /\ \A d \in Clients : d # c => inbox'[d] = inbox[d]
           /\ 1 \in DOMAIN inbox[c] /\ inbox[c][1] = m
           /\ \A i \in DOMAIN inbox'[c] :
                i \in Nat \ {0} /\ i + 1 \in DOMAIN inbox[c] /\ inbox'[c][i] = inbox[c][i + 1]
  <1>1. inbox \in Boxes /\ inbox[c] \in Seq(Messages)
    BY DEF TypeOK, DaemonType, Boxes
  <1>2. inbox'[c] = Tail(inbox[c]) /\ \A d \in Clients : d # c => inbox'[d] = inbox[d]
    BY <1>1 DEF Reads, Boxes
  <1>3. inbox[c] # <<>> /\ Head(inbox[c]) = m
    BY DEF Reads
  <1>4. QED
    BY <1>1, <1>2, <1>3

\* A dropped connection has no answers, and a close is all that is sent.
LEMMA DropsAll ==
    ASSUME TypeOK, NEW c \in Clients, Drops(c)
    PROVE  /\ \A d \in Clients : d # c => pipe'[d] = pipe[d] /\ inbox'[d] = inbox[d]
           /\ inbox'[c] = <<>>
           /\ \A i \in DOMAIN pipe'[c] :
                \/ i \in DOMAIN pipe[c] /\ pipe'[c][i] = pipe[c][i]
                \/ i = Len(pipe[c]) + 1 /\ pipe'[c][i] = Frame("close")
  <1>1. Frame("close") \in Frames
    BY FrameType DEF Ops
  <1>2. inbox' = [inbox EXCEPT ![c] = <<>>] /\ inbox \in Boxes
    BY DEF Drops, TypeOK, DaemonType
  <1>3. QED
    BY <1>1, <1>2, SendsTo DEF Drops, Closes, Boxes

\* A worker that returns.
Quits(w, l) ==
    /\ pc'[w] = l /\ copy'[w] = Fresh(w[1]) /\ inbox'[w] = <<>>
    /\ \A d \in Workers \cup Submitters : d # w => pc'[d] = pc[d]
    /\ \A v \in Workers : v # w => copy'[v] = copy[v] /\ events'[v] = events[v]
    /\ \A d \in Clients : d # w => pipe'[d] = pipe[d] /\ inbox'[d] = inbox[d]
    /\ \A i \in DOMAIN pipe'[w] :
         \/ i \in DOMAIN pipe[w] /\ pipe'[w][i] = pipe[w][i]
         \/ i = Len(pipe[w]) + 1 /\ pipe'[w][i] = Frame("close")

\* What Returns does, client by client.
LEMMA Quitting ==
    ASSUME TypeOK, NEW w \in Workers, NEW l \in Labels, Returns(w, l)
    PROVE  Quits(w, l)
  <1>1. w \in Clients
    BY DEF Clients
  <1>2. pc' = [pc EXCEPT ![w] = l] /\ copy' = [copy EXCEPT ![w] = Fresh(w[1])]
        /\ events' = [events EXCEPT ![w] = 0] /\ Drops(w)
    BY DEF Returns, Goto
  <1>3. /\ pc \in [Workers \cup Submitters -> Labels] /\ copy \in [Workers -> Records]
        /\ events \in [Workers -> Nat]
    BY DEF TypeOK, WorkType
  <1>4. QED
    BY <1>1, <1>2, <1>3, DropsAll DEF Quits

\* A submission or a worker moves nobody but itself.
LEMMA Locality ==
    ASSUME TypeOK, BootInv, CopyInv
    PROVE  /\ \A s \in Submitters : (s \in Submissions /\ SubmitBegin(s)) \/ SubmitStep(s) =>
                Local(s) /\ ForcedClaim(s)
           /\ \A h \in Hostings : Enable(h) => Local(Worker(h)) /\ ForcedClaim(Worker(h))
           /\ \A w \in Workers : GateStep(w) \/ WorkerStep(w) \/ AgentChanged(w) =>
                Local(w) /\ ForcedClaim(w)
  <1>c. /\ Browsers \subseteq Clients /\ Submitters \subseteq Clients /\ Workers \subseteq Clients
        /\ Submissions \subseteq Submitters
    BY DEF Clients, Submitters
  <1>f. \A op \in {"claim", "force", "paste", "enter", "close"} :
          Frame(op) \in Frames /\ Frame(op).op = op
    BY FrameType DEF Ops, Frame
  <1>l. {"off", "failing", "unsaved"} \subseteq Labels
    BY DEF Labels
  <1>t. /\ pc \in [Workers \cup Submitters -> Labels] /\ copy \in [Workers -> Records]
        /\ events \in [Workers -> Nat] /\ pipe \in Pipes /\ inbox \in Boxes
        /\ \A w \in Workers : copy[w].id = w[1]
        /\ hosting = None \/ hosting \in Records
    BY DEF TypeOK, WorkType, DaemonType, RecordType
  <1>b. \A w \in Workers : pc[w] # "off" => w[2] = boot
    BY DEF BootInv, Boot
  <1>n. \A r \in Records : r # None
    BY HostingAssumption
  <1>q. ASSUME NEW w \in Workers, NEW l \in {"off", "failing", "unsaved"}, Returns(w, l)
        PROVE  Quits(w, l)
    BY <1>q, <1>l, Quitting
  <1>h. ASSUME NEW h \in Hostings
        PROVE  /\ Worker(h) \in Workers /\ Worker(h)[1] = h /\ Worker(h)[2] = boot
               /\ Fresh(h).id = h /\ Fresh(h) # None
    BY FreshType DEF Worker, Workers, TypeOK, RecordType
  <1>1. ASSUME NEW s \in Submissions, SubmitBegin(s) PROVE Local(s) /\ ForcedClaim(s)
    BY <1>1, <1>c, <1>t, <1>n
    DEF SubmitBegin, At, Goto, Hosted, recordVars, daemonVars, Local, ForcedClaim,
        Owns
  <1>2. ASSUME NEW s \in Submitters, SubmitClaims(s) PROVE Local(s) /\ ForcedClaim(s)
    <2>1. /\ \A d \in Clients : d # s => pipe'[d] = pipe[d]
          /\ \A i \in DOMAIN pipe'[s] : pipe'[s][i].op = "force" =>
               i \in DOMAIN pipe[s] /\ pipe'[s][i] = pipe[s][i]
          /\ late \subseteq late'
      BY <1>2, <1>c, <1>f, Attaching
      DEF SubmitClaims, TypeOK, Ops
    <2>2. QED
      BY <1>2, <1>c, <1>t, <1>n, <2>1
      DEF SubmitClaims, At, Goto, recordVars, lockVars, Local, ForcedClaim,
          Hosted, Owns
  <1>3. ASSUME NEW s \in Submitters, Claimed(s) PROVE Local(s) /\ ForcedClaim(s)
    <2>1. /\ \A d \in Clients : d # s => pipe'[d] = pipe[d]
          /\ \A i \in DOMAIN pipe'[s] : pipe'[s][i].op = "force" =>
               i \in DOMAIN pipe[s] /\ pipe'[s][i] = pipe[s][i]
      BY <1>3, <1>c, <1>f, SendsTo
      DEF Claimed, Closes
    <2>2. \A d \in Clients : d # s => inbox'[d] = inbox[d]
      BY <1>3, <1>c, ReadsFrom
      DEF Claimed
    <2>3. QED
      BY <1>3, <1>c, <1>t, <1>n, <2>1, <2>2
      DEF Claimed, At, Goto, recordVars, lockVars, Local, ForcedClaim, Hosted,
          Owns
  <1>4. ASSUME NEW s \in Submitters, Pasted(s) PROVE Local(s) /\ ForcedClaim(s)
    <2>1. /\ \A d \in Clients : d # s => pipe'[d] = pipe[d]
          /\ \A i \in DOMAIN pipe'[s] : pipe'[s][i].op = "force" =>
               i \in DOMAIN pipe[s] /\ pipe'[s][i] = pipe[s][i]
      BY <1>4, <1>c, <1>f, SendsTo
      DEF Pasted
    <2>2. \A d \in Clients : d # s => inbox'[d] = inbox[d]
      BY <1>4, <1>c, ReadsFrom
      DEF Pasted
    <2>3. QED
      BY <1>4, <1>c, <1>t, <1>n, <2>1, <2>2
      DEF Pasted, At, Goto, recordVars, lockVars, Local, ForcedClaim, Hosted, Owns
  <1>5. ASSUME NEW s \in Submitters, Entered(s) PROVE Local(s) /\ ForcedClaim(s)
    <2>1. /\ \A d \in Clients : d # s => pipe'[d] = pipe[d]
          /\ \A i \in DOMAIN pipe'[s] : pipe'[s][i].op = "force" =>
               i \in DOMAIN pipe[s] /\ pipe'[s][i] = pipe[s][i]
      BY <1>5, <1>c, <1>f, SendsTo
      DEF Entered, Closes
    <2>2. \A d \in Clients : d # s => inbox'[d] = inbox[d]
      BY <1>5, <1>c, ReadsFrom
      DEF Entered
    <2>3. QED
      BY <1>5, <1>c, <1>t, <1>n, <2>1, <2>2
      DEF Entered, At, Goto, recordVars, lockVars, Local, ForcedClaim, Hosted,
          Owns
  <1>6. ASSUME NEW s \in Submitters, Finished(s) PROVE Local(s) /\ ForcedClaim(s)
    <2>1. \A d \in Clients : d # s => inbox'[d] = inbox[d]
      BY <1>6, <1>c, ReadsFrom
      DEF Finished
    <2>2. QED
      BY <1>6, <1>c, <1>t, <1>n, <2>1
      DEF Finished, At, FreeGate, Goto, SubmitEnds, Local, ForcedClaim, Hosted,
          Owns
  <1>7. ASSUME NEW s \in Submitters, SubmitFails(s) PROVE Local(s) /\ ForcedClaim(s)
    <2>1. /\ \A d \in Clients : d # s => pipe'[d] = pipe[d] /\ inbox'[d] = inbox[d]
          /\ \A i \in DOMAIN pipe'[s] : pipe'[s][i].op = "force" =>
               i \in DOMAIN pipe[s] /\ pipe'[s][i] = pipe[s][i]
      BY <1>7, <1>c, <1>f, DropsAll
      DEF SubmitFails
    <2>2. QED
      BY <1>7, <1>c, <1>t, <1>n, <2>1
      DEF SubmitFails, At, FreeGate, Goto, SubmitEnds, Local, ForcedClaim, Hosted,
          Owns
  <1>8. ASSUME NEW h \in Hostings, Enable(h) PROVE Local(Worker(h)) /\
         ForcedClaim(Worker(h))
    <2>1. \A d \in Clients : d # Worker(h) => pipe'[d] = pipe[d]
      BY <1>8, <1>c, <1>f, Attaching, <1>h
      DEF Enable, TypeOK, Ops
    <2>2. late \subseteq late'
      BY <1>8, <1>c, <1>f, Attaching, <1>h
      DEF Enable, TypeOK, Ops
    <2>3. QED
      BY <1>8, <1>c, <1>t, <1>n, <1>h, <2>1, <2>2
      DEF Enable, Goto, Hosted, Local, ForcedClaim, Owns
  <1>9. ASSUME NEW w \in Workers, RecoverSkips(w) PROVE Local(w) /\ ForcedClaim(w)
    BY <1>9, <1>c, <1>t, <1>n, <1>b
    DEF RecoverSkips, At, Goto, Hosted, Live, Owns, recordVars, lockVars,
        daemonVars, Local, ForcedClaim
  <1>10. ASSUME NEW w \in Workers, RecoverRefuses(w) PROVE Local(w) /\ ForcedClaim(w)
    BY <1>10, <1>c, <1>t, <1>n, <1>b
    DEF RecoverRefuses, At, Goto, Hosted, Live, Owns, recordVars, lockVars,
        daemonVars, Local, ForcedClaim
  <1>11. ASSUME NEW w \in Workers, Recovers(w) PROVE Local(w) /\ ForcedClaim(w)
    <2>1. \A d \in Clients : d # w => pipe'[d] = pipe[d]
      BY <1>11, <1>c, <1>f, Attaching
      DEF Recovers, TypeOK, Ops
    <2>2. late \subseteq late'
      BY <1>11, <1>c, <1>f, Attaching
      DEF Recovers, TypeOK, Ops
    <2>3. QED
      BY <1>11, <1>c, <1>t, <1>n, <1>b, <2>1, <2>2
      DEF Recovers, At, Goto, Hosted, Owns, recordVars, Local, ForcedClaim
  <1>12. ASSUME NEW w \in Workers, CollectAbandoned(w) PROVE Local(w) /\ ForcedClaim(w)
    BY <1>12, <1>c, <1>t, <1>n, <1>b
    DEF CollectAbandoned, At, Collects, Goto, Hosted, Owns, recordVars, lockVars,
        daemonVars, Local, ForcedClaim
  <1>13. ASSUME NEW w \in Workers, CollectEnds(w) PROVE Local(w) /\ ForcedClaim(w)
    <2>1. CASE Errs(w) /\ UNCHANGED hosting
      <3>1. Quits(w, "failing")
        BY <2>1, <1>q DEF Errs
      <3>2. QED
        BY <1>13, <2>1, <3>1, <1>c, <1>t, <1>f
        DEF CollectEnds, At, Collects, Hosted, Owns, lockVars, Local,
            ForcedClaim, Quits
    <2>2. CASE /\ Owns(w) /\ hosting' = [copy[w] EXCEPT !.phase = Outcome(w)]
               /\ copy' = [copy EXCEPT ![w] = [copy[w] EXCEPT !.phase = Outcome(w)]]
               /\ Goto(w, "loop") /\ UNCHANGED <<pipe, inbox, events>>
      <3>1. hosting' \in Records /\ hosting'.id = w[1]
        BY <2>2, <1>13, SavedRecord DEF CollectEnds, Phases
      <3>2. QED
        BY <1>13, <2>2, <3>1, <1>c, <1>t, <1>n, <1>b
        DEF CollectEnds, At, Collects, Goto, Hosted, Owns, lockVars, Local,
            ForcedClaim
    <2>3. QED
      BY <1>13, <2>2, <2>1 DEF CollectEnds, Saves
  <1>14. ASSUME NEW w \in Workers, CollectUnusable(w) PROVE Local(w) /\ ForcedClaim(w)
    <2>1. Quits(w, "failing")
      BY <1>14, <1>q
      DEF CollectUnusable, Errs
    <2>2. QED
      BY <1>14, <1>c, <1>t, <1>n, <1>b, <2>1, <1>f
      DEF CollectUnusable, At, Collects, Hosted, Owns, recordVars, lockVars,
          Local, ForcedClaim, Quits
  <1>15. ASSUME NEW w \in Workers, SubmitConclusion(w) PROVE Local(w) /\ ForcedClaim(w)
    <2>1. CASE Errs(w) /\ UNCHANGED hosting
      <3>1. Quits(w, "failing")
        BY <2>1, <1>q DEF Errs
      <3>2. QED
        BY <1>15, <2>1, <3>1, <1>c, <1>t, <1>f
        DEF SubmitConclusion, At, Collects, Hosted, Owns, Local, ForcedClaim,
            Quits
    <2>2. CASE /\ hosting' = [copy[w] EXCEPT !.phase = "Submitting"]
               /\ copy' = [copy EXCEPT ![w] = hosting'] /\ gate' = w
               /\ events' = [events EXCEPT ![w] = 0]
               /\ Sends(w, [op |-> "paste", text |-> <<w[1], copy[w].run>>])
               /\ Goto(w, "pasting") /\ UNCHANGED inbox
      <3>1. [op |-> "paste", text |-> <<w[1], copy[w].run>>] \in Frames
        BY <1>t DEF Frames, Ops, Records, Workers
      <3>2. /\ \A d \in Clients : d # w => pipe'[d] = pipe[d]
            /\ \A i \in DOMAIN pipe'[w] : pipe'[w][i].op = "force" =>
                 i \in DOMAIN pipe[w] /\ pipe'[w][i] = pipe[w][i]
        BY <2>2, <3>1, <1>c, SendsTo
      <3>3. hosting' \in Records /\ hosting'.id = w[1]
        BY <2>2, SavedRecord DEF Phases
      <3>4. QED
        BY <1>15, <2>2, <3>2, <3>3, <1>c, <1>t, <1>n, <1>b
        DEF SubmitConclusion, At, Collects, Goto, Hosted, Owns, Local,
            ForcedClaim
    <2>3. QED
      BY <1>15, <2>2, <2>1 DEF SubmitConclusion
  <1>16. ASSUME NEW w \in Workers, Fail(w) PROVE Local(w) /\ ForcedClaim(w)
    BY <1>16, <1>c, <1>t, <1>n, <1>b, RecordKept
    DEF Fail, At, Goto, Hosted, Live, Owns, lockVars, daemonVars, Local,
        ForcedClaim, Phases
  <1>17. ASSUME NEW w \in Workers, Enabled(w) PROVE Local(w) /\ ForcedClaim(w)
    <2>1. \A d \in Clients : d # w => inbox'[d] = inbox[d]
      BY <1>17, <1>c, ReadsFrom
      DEF Enabled
    <2>2. QED
      BY <1>17, <1>c, <1>t, <1>n, <1>b, <2>1
      DEF Enabled, At, FreeGate, Goto, recordVars, Local, ForcedClaim, Hosted,
          Owns
  <1>18. ASSUME NEW w \in Workers, EnableFails(w) PROVE Local(w) /\ ForcedClaim(w)
    <2>1. \E l \in {"off", "unsaved"} : Quits(w, l)
      BY <1>18, <1>q
      DEF EnableFails
    <2>2. hosting' = hosting \/ (Owns(w) /\ hosting' # None /\ hosting'.id = w[1])
      BY <1>18, <1>t, <1>n, RecordKept DEF EnableFails, Owns, Hosted, Phases
    <2>3. /\ At(w, "enabling") /\ FreeGate(w)
          /\ UNCHANGED <<phase, used, boot, leased, guard, linked, review, owner, waiting, pasted,
                         prompts, frames, late>>
      BY <1>18 DEF EnableFails
    <2>4. QED
      BY <1>c, <1>t, <1>n, <1>b, <2>3, <2>1, <1>f, <2>2
      DEF At, FreeGate, Hosted, Owns, Local, ForcedClaim, Quits
  <1>19. ASSUME NEW w \in Workers, Recovered(w) PROVE Local(w) /\ ForcedClaim(w)
    <2>1. \A d \in Clients : d # w => inbox'[d] = inbox[d]
      BY <1>19, <1>c, ReadsFrom
      DEF Recovered
    <2>2. QED
      BY <1>19, <1>c, <1>t, <1>n, <1>b, <2>1
      DEF Recovered, At, FreeGate, Goto, recordVars, Local, ForcedClaim, Hosted,
          Owns
  <1>20. ASSUME NEW w \in Workers, RestoreFails(w) PROVE Local(w) /\ ForcedClaim(w)
    <2>1. Quits(w, "failing")
      BY <1>20, <1>q
      DEF RestoreFails, Errs
    <2>2. QED
      BY <1>20, <1>c, <1>t, <1>n, <1>b, <2>1, <1>f
      DEF RestoreFails, At, FreeGate, recordVars, Local, ForcedClaim, Hosted,
          Owns, Quits
  <1>21. ASSUME NEW w \in Workers, FirstReview(w) PROVE Local(w) /\ ForcedClaim(w)
    BY <1>21, <1>c, <1>t, <1>n, <1>b
    DEF FirstReview, At, Goto, Hosted, Owns, recordVars, lockVars, daemonVars,
        Local, ForcedClaim
  <1>22. ASSUME NEW w \in Workers, TakeEvent(w) PROVE Local(w) /\ ForcedClaim(w)
    BY <1>22, <1>c, <1>t, <1>n, <1>b
    DEF TakeEvent, At, Goto, recordVars, lockVars, daemonVars, Local, ForcedClaim,
        Hosted, Owns
  <1>23. ASSUME NEW w \in Workers, StartReview(w) PROVE Local(w) /\ ForcedClaim(w)
    <2>1. CASE Errs(w) /\ UNCHANGED hosting
      <3>1. Quits(w, "failing")
        BY <2>1, <1>q DEF Errs
      <3>2. QED
        BY <1>23, <2>1, <3>1, <1>c, <1>t, <1>f
        DEF StartReview, At, Hosted, Owns, lockVars, Local, ForcedClaim, Quits
    <2>2. CASE /\ Owns(w) /\ hosting' = [copy[w] EXCEPT !.phase = "Reviewing", !.run = @ + 1]
               /\ copy' = [copy EXCEPT ![w] = [copy[w] EXCEPT !.phase = "Reviewing", !.run = @ + 1]]
               /\ Goto(w, "dispatching") /\ UNCHANGED <<pipe, inbox, events>>
      <3>1. hosting' \in Records /\ hosting'.id = w[1]
        BY <2>2, <1>23, SavedRecord DEF StartReview, Phases
      <3>2. QED
        BY <1>23, <2>2, <3>1, <1>c, <1>t, <1>n, <1>b
        DEF StartReview, At, Goto, Hosted, Owns, lockVars, Local, ForcedClaim
    <2>3. QED
      BY <1>23, <2>2, <2>1 DEF StartReview, Saves
  <1>24. ASSUME NEW w \in Workers, Dispatched(w) PROVE Local(w) /\ ForcedClaim(w)
    BY <1>24, <1>c, <1>t, <1>n, <1>b
    DEF Dispatched, At, Goto, recordVars, lockVars, daemonVars, Local, ForcedClaim,
        Hosted, Owns
  <1>25. ASSUME NEW w \in Workers, DispatchFails(w) PROVE Local(w) /\ ForcedClaim(w)
    <2>1. Quits(w, "failing")
      BY <1>25, <1>q
      DEF DispatchFails, Errs
    <2>2. QED
      BY <1>25, <1>c, <1>t, <1>n, <1>b, <2>1, <1>f
      DEF DispatchFails, At, recordVars, lockVars, Local, ForcedClaim, Hosted,
          Owns, Quits
  <1>26. ASSUME NEW w \in Workers, ReviewDone(w) PROVE Local(w) /\ ForcedClaim(w)
    <2>1. CASE Errs(w) /\ UNCHANGED hosting
      <3>1. Quits(w, "failing")
        BY <2>1, <1>q DEF Errs
      <3>2. QED
        BY <1>26, <2>1, <3>1, <1>c, <1>t, <1>f
        DEF ReviewDone, At, Hosted, Outcomes, Owns, lockVars, Local,
            ForcedClaim, Quits
    <2>2. CASE /\ Owns(w) /\ hosting' = [copy[w] EXCEPT !.phase = "Collecting"]
               /\ copy' = [copy EXCEPT ![w] = [copy[w] EXCEPT !.phase = "Collecting"]]
               /\ Goto(w, "loop") /\ UNCHANGED <<pipe, inbox, events>>
      <3>1. hosting' \in Records /\ hosting'.id = w[1]
        BY <2>2, <1>26, SavedRecord DEF ReviewDone, Phases
      <3>2. QED
        BY <1>26, <2>2, <3>1, <1>c, <1>t, <1>n, <1>b
        DEF ReviewDone, At, Goto, Hosted, Outcomes, Owns, lockVars, Local,
            ForcedClaim
    <2>3. QED
      BY <1>26, <2>2, <2>1 DEF ReviewDone, Saves
  <1>27. ASSUME NEW w \in Workers, ReviewFails(w) PROVE Local(w) /\ ForcedClaim(w)
    <2>1. Quits(w, "failing")
      BY <1>27, <1>q
      DEF ReviewFails, Errs
    <2>2. QED
      BY <1>27, <1>c, <1>t, <1>n, <1>b, <2>1, <1>f
      DEF ReviewFails, At, recordVars, lockVars, Local, ForcedClaim, Hosted, Owns,
          Quits
  <1>28. ASSUME NEW w \in Workers, CollectBegin(w) PROVE Local(w) /\ ForcedClaim(w)
    BY <1>28, <1>c, <1>t, <1>n, <1>b
    DEF CollectBegin, At, Goto, recordVars, lockVars, daemonVars, Local,
        ForcedClaim, Hosted, Owns
  <1>29. ASSUME NEW w \in Workers, Pasted(w) PROVE Local(w) /\ ForcedClaim(w)
    <2>1. /\ \A d \in Clients : d # w => pipe'[d] = pipe[d]
          /\ \A i \in DOMAIN pipe'[w] : pipe'[w][i].op = "force" =>
               i \in DOMAIN pipe[w] /\ pipe'[w][i] = pipe[w][i]
      BY <1>29, <1>c, <1>f, SendsTo
      DEF Pasted
    <2>2. \A d \in Clients : d # w => inbox'[d] = inbox[d]
      BY <1>29, <1>c, ReadsFrom
      DEF Pasted
    <2>3. QED
      BY <1>29, <1>c, <1>t, <1>n, <1>b, <2>1, <2>2
      DEF Pasted, At, Goto, recordVars, lockVars, Local, ForcedClaim, Hosted, Owns
  <1>30. ASSUME NEW w \in Workers, WorkerEntered(w) PROVE Local(w) /\ ForcedClaim(w)
    <2>1. \A d \in Clients : d # w => inbox'[d] = inbox[d]
      BY <1>30, <1>c, ReadsFrom
      DEF WorkerEntered
    <2>2. QED
      BY <1>30, <1>c, <1>t, <1>n, <1>b, <2>1
      DEF WorkerEntered, At, Goto, recordVars, lockVars, Local, ForcedClaim,
          Hosted, Owns
  <1>31. ASSUME NEW w \in Workers, Submitted(w) PROVE Local(w) /\ ForcedClaim(w)
    <2>1. CASE Errs(w) /\ UNCHANGED hosting
      <3>1. Quits(w, "failing")
        BY <2>1, <1>q DEF Errs
      <3>2. QED
        BY <1>31, <2>1, <3>1, <1>c, <1>t, <1>f
        DEF Submitted, At, FreeGate, Hosted, Owns, Local, ForcedClaim, Quits
    <2>2. CASE /\ Owns(w) /\ hosting' = [copy[w] EXCEPT !.phase = "Waiting", !.count = @ + 1]
               /\ copy' = [copy EXCEPT ![w] = [copy[w] EXCEPT !.phase = "Waiting", !.count = @ + 1]]
               /\ Goto(w, "loop") /\ UNCHANGED <<pipe, inbox, events>>
      <3>1. hosting' \in Records /\ hosting'.id = w[1]
        BY <2>2, <1>31, SavedRecord DEF Submitted, Phases
      <3>2. QED
        BY <1>31, <2>2, <3>1, <1>c, <1>t, <1>n, <1>b
        DEF Submitted, At, FreeGate, Goto, Hosted, Owns, Local, ForcedClaim
    <2>3. QED
      BY <1>31, <2>2, <2>1 DEF Submitted, Saves
  <1>32. ASSUME NEW w \in Workers, WorkerSubmitFails(w) PROVE Local(w) /\ ForcedClaim(w)
    <2>1. Quits(w, "failing")
      BY <1>32, <1>q
      DEF WorkerSubmitFails, Errs
    <2>2. QED
      BY <1>32, <1>c, <1>t, <1>n, <1>b, <2>1, <1>f
      DEF WorkerSubmitFails, FreeGate, recordVars, Local, ForcedClaim, Hosted,
          Owns, Quits
  <1>33. ASSUME NEW w \in Workers, LoopEnds(w) PROVE Local(w) /\ ForcedClaim(w)
    <2>1. Quits(w, "off")
      BY <1>33, <1>q
      DEF LoopEnds
    <2>2. QED
      BY <1>33, <1>c, <1>t, <1>n, <1>b, <2>1, <1>f
      DEF LoopEnds, Hosted, Live, Owns, recordVars, lockVars, Local, ForcedClaim,
          Quits
  <1>34. ASSUME NEW w \in Workers, NoticeLost(w) PROVE Local(w) /\ ForcedClaim(w)
    <2>1. Quits(w, "failing")
      BY <1>34, <1>q
      DEF NoticeLost, Errs
    <2>2. QED
      BY <1>34, <1>c, <1>t, <1>n, <1>b, <2>1, <1>f
      DEF NoticeLost, At, recordVars, lockVars, Local, ForcedClaim, Hosted, Owns,
          Quits
  <1>35. ASSUME NEW w \in Workers, AgentChanged(w) PROVE Local(w) /\ ForcedClaim(w)
    <2>1. CASE Errs(w) /\ UNCHANGED hosting
      <3>1. Quits(w, "failing")
        BY <2>1, <1>q DEF Errs
      <3>2. QED
        BY <1>35, <2>1, <3>1, <1>c, <1>t, <1>f
        DEF AgentChanged, At, Hosted, Live, Owns, recordVars, lockVars, Local,
            ForcedClaim, Quits
    <2>2. CASE Goto(w, "failing") /\ UNCHANGED <<copy, events, pipe, inbox>>
      BY <1>35, <2>2, <1>c, <1>t
      DEF AgentChanged, At, Goto, Hosted, Live, Owns, recordVars, lockVars, Local,
          ForcedClaim
    <2>3. QED
      BY <1>35, <2>2, <2>1 DEF AgentChanged, recordVars
  <1> QED
    BY <1>1, <1>2, <1>3, <1>4, <1>5, <1>6, <1>7, <1>8, <1>9, <1>10, <1>11, <1>12,
       <1>13, <1>14, <1>15, <1>16, <1>17, <1>18, <1>19, <1>20, <1>21, <1>22, <1>23,
       <1>24, <1>25, <1>26, <1>27, <1>28, <1>29, <1>30, <1>31, <1>32, <1>33, <1>34,
       <1>35
    DEF SubmitStep, GateStep, WorkerStep

-----------------------------------------------------------------------------
(* Steps of terminald and of browsers *)

\* terminald's steps take frames from the front, or drop them, and change nothing of the server's.
LEMMA DaemonFrame ==
    ASSUME TypeOK, NEW c \in Clients, DaemonStep(c)
    PROVE  /\ UNCHANGED <<recordVars, lockVars, workVars, frames>>
           /\ \A d \in Clients : \E k \in {0, 1} : \A i \in DOMAIN pipe'[d] :
                i \in Nat /\ i + k \in DOMAIN pipe[d] /\ pipe'[d][i] = pipe[d][i + k]
           /\ \A p \in late : ForceUnread(p[2])' => p \in late'
  <1>1. pipe \in Pipes /\ \A d \in Clients : pipe[d] \in Seq(Frames)
    BY DEF TypeOK, DaemonType, Pipes
  <1>2. UNCHANGED <<recordVars, lockVars, workVars, frames>>
    BY DEF DaemonStep, DaemonClaims, DaemonRefuses, DaemonUnchanged, DaemonVacancy, DaemonReleases,
        DaemonWrites
  <1>3. \A d \in Clients :
          pipe'[d] = pipe[d] \/ (pipe[d] # <<>> /\ pipe'[d] = Tail(pipe[d])) \/ pipe'[d] = <<>>
    BY <1>1 DEF DaemonStep, DaemonClaims, DaemonRefuses, DaemonUnchanged, DaemonVacancy,
        DaemonReleases, DaemonWrites, Is, Pipes
  <1>4. ASSUME NEW d \in Clients
        PROVE  \E k \in {0, 1} : \A i \in DOMAIN pipe'[d] :
                 i \in Nat /\ i + k \in DOMAIN pipe[d] /\ pipe'[d][i] = pipe[d][i + k]
    <2>1. CASE pipe'[d] = pipe[d]
      BY <1>1, <2>1
    <2>2. CASE pipe[d] # <<>> /\ pipe'[d] = Tail(pipe[d])
      BY <1>1, <2>2
    <2>3. CASE pipe'[d] = <<>>
      BY <2>3
    <2>4. QED
      BY <1>3, <2>1, <2>2, <2>3
  <1>5. \A p \in late : ForceUnread(p[2])' => p \in late'
    BY DEF DaemonStep, DaemonClaims, DaemonRefuses, DaemonUnchanged, DaemonVacancy, DaemonReleases,
        DaemonWrites, Forgets
  <1>6. QED
    BY <1>2, <1>4, <1>5

\* A browser's steps may remove the hosting, when nobody holds the gate, and then force a claim.
LEMMA BrowserFrame ==
    ASSUME TypeOK, NEW b \in Browsers, BrowserStep(b)
    PROVE  /\ \A d \in Clients : d # b => pipe'[d] = pipe[d] /\ inbox'[d] = inbox[d]
           /\ UNCHANGED <<phase, used, boot, gate, leased, workVars, owner, waiting, pasted,
                          prompts, late>>
           /\ hosting' = hosting \/ (gate = None /\ hosting' = None)
           /\ (\E i \in DOMAIN pipe'[b] : pipe'[b][i].op = "force") =>
                \/ \E i \in DOMAIN pipe[b] : pipe[b][i].op = "force"
                \/ gate = None /\ hosting' = None /\ phase = "Ready"
  <1> DEFINE Goal ==
        /\ \A d \in Clients : d # b => pipe'[d] = pipe[d] /\ inbox'[d] = inbox[d]
        /\ UNCHANGED <<phase, used, boot, gate, leased, workVars, owner, waiting, pasted, prompts,
                       late>>
        /\ hosting' = hosting \/ (gate = None /\ hosting' = None)
        /\ (\E i \in DOMAIN pipe'[b] : pipe'[b][i].op = "force") =>
             \/ \E i \in DOMAIN pipe[b] : pipe[b][i].op = "force"
             \/ gate = None /\ hosting' = None /\ phase = "Ready"
  <1>c. b \in Clients
    BY DEF Clients
  <1>s. ASSUME NEW op \in {"claim", "force", "observe", "keys"}, Forwards(b, op)
        PROVE  /\ \A d \in Clients : d # b => pipe'[d] = pipe[d]
               /\ \A i \in DOMAIN pipe'[b] :
                    \/ i \in DOMAIN pipe[b] /\ pipe'[b][i] = pipe[b][i]
                    \/ pipe'[b][i].op = op
    <2>1. Frame(op) \in Frames /\ Frame(op).op = op
      BY FrameType DEF Ops, Frame
    <2>2. QED
      BY <1>s, <1>c, <2>1, SendsTo DEF Forwards
  <1>1. ASSUME TakeOver(b) PROVE Goal
    <2>1. CASE Forwards(b, "force") /\ phase = "Ready"
      BY <1>1, <2>1, <1>s, SMTT(30) DEF TakeOver, Passes, workVars
    <2>2. CASE Forwards(b, "observe")
      BY <1>1, <2>2, <1>s, SMTT(30) DEF TakeOver, Passes, workVars
    <2>3. QED
      BY <1>1, <2>1, <2>2 DEF TakeOver
  <1>2. ASSUME Claims(b) PROVE Goal
    BY <1>2, <1>s DEF Claims, recordVars, lockVars, workVars
  <1>3. ASSUME Observes(b) PROVE Goal
    BY <1>3, <1>s DEF Observes, recordVars, workVars
  <1>4. ASSUME Types(b) PROVE Goal
    BY <1>4, <1>s DEF Types, recordVars, lockVars, workVars
  <1>5. ASSUME Leaves(b) PROVE Goal
    <2>1. Frame("close").op = "close"
      BY DEF Frame
    <2>2. QED
      BY <1>5, <1>c, <2>1, DropsAll DEF Leaves, recordVars, workVars
  <1>6. ASSUME BridgeEnds(b) PROVE Goal
    <2>1. \A d \in Clients : d # b => inbox'[d] = inbox[d]
      BY <1>6, <1>c, ReadsFrom DEF BridgeEnds
    <2>2. pipe'[b] = <<>> /\ \A d \in Clients : d # b => pipe'[d] = pipe[d]
      BY <1>6, <1>c DEF BridgeEnds, TypeOK, DaemonType, Pipes
    <2>3. QED
      BY <1>6, <2>1, <2>2 DEF BridgeEnds, recordVars, workVars
  <1>7. ASSUME Reconnects(b) PROVE Goal
    BY <1>7, <1>c DEF Reconnects, recordVars, workVars, TypeOK, DaemonType, Boxes
  <1>8. ASSUME TakeOverFails(b) PROVE Goal
    <2>1. Frame("close").op = "close"
      BY DEF Frame
    <2>2. QED
      BY <1>8, <1>c, <2>1, DropsAll DEF TakeOverFails, Passes, workVars
  <1>9. QED
    BY <1>1, <1>2, <1>3, <1>4, <1>5, <1>6, <1>7, <1>8 DEF BrowserStep

-----------------------------------------------------------------------------
(* Runs of the server, and the gate *)

\* Only a restart starts workers of another run of the server, and it leaves none of the old.
LEMMA BootStep == TypeOK /\ BootInv /\ CopyInv /\ [Next]_vars => BootInv'
  <1> SUFFICES ASSUME TypeOK, BootInv, CopyInv, [Next]_vars PROVE BootInv'
    OBVIOUS
  <1>c. /\ Browsers \subseteq Clients /\ Submitters \subseteq Clients /\ Workers \subseteq Clients
        /\ Submissions \subseteq Submitters /\ Creation \in Submitters /\ Creation \notin
             Submissions
        /\ \A b \in Browsers : b \notin Submitters /\ b \notin Workers
        /\ \A s \in Submitters : s \notin Workers
        /\ \A c \in Clients : c # None
    BY HostingAssumption DEF Clients, Submitters
  <1>t. /\ pc \in [Workers \cup Submitters -> Labels] /\ copy \in [Workers -> Records]
        /\ events \in [Workers -> Nat] /\ pipe \in Pipes /\ inbox \in Boxes
        /\ \A w \in Workers : copy[w].id = w[1]
        /\ hosting = None \/ hosting \in Records
    BY DEF TypeOK, WorkType, DaemonType, RecordType
  <1>h. ASSUME NEW h \in Hostings
        PROVE  /\ Worker(h) \in Workers /\ Worker(h)[1] = h /\ Worker(h)[2] = boot
               /\ Fresh(h).id = h /\ Fresh(h) # None
    BY FreshType DEF Worker, Workers, TypeOK, RecordType
  <1>l. {"off", "failing", "unsaved"} \subseteq Labels
    BY DEF Labels
  <1>e. ASSUME NEW w \in Workers, NEW l \in {"off", "failing", "unsaved"}, Returns(w, l)
        PROVE  Quits(w, l)
    BY <1>e, <1>l, Quitting
  <1>o. ASSUME NEW w \in Workers, GateStep(w) \/ WorkerStep(w) \/ AgentChanged(w)
        PROVE  Local(w) /\ ForcedClaim(w)
    BY <1>o, Locality
  <1>p. ASSUME NEW s \in Submitters, (s \in Submissions /\ SubmitBegin(s)) \/ SubmitStep(s)
        PROVE  Local(s) /\ ForcedClaim(s)
    BY <1>p, Locality
  <1>g. ASSUME NEW h \in Hostings, Enable(h)
        PROVE  Local(Worker(h)) /\ ForcedClaim(Worker(h))
    BY <1>g, Locality
  <1>b. \A v \in Workers : Boot(v)
    BY DEF BootInv
  <1>q. ASSUME NEW w \in Workers, NEW l \in {"off", "failing", "unsaved"}, Quits(w, l),
               boot' = boot, used' = used, pc[w] # "off"
        PROVE  Boot(w)'
    BY <1>q, <1>b DEF Quits, Boot
  <1>1. ASSUME NEW c \in Clients, DaemonStep(c) PROVE BootInv'
    BY <1>1, DaemonFrame DEF recordVars, workVars, BootInv, Boot
  <1>2. ASSUME NEW b \in Browsers, BrowserStep(b) PROVE BootInv'
    BY <1>2, BrowserFrame DEF workVars, BootInv, Boot
  <1>3. ASSUME NEW s \in Submitters, (s \in Submissions /\ SubmitBegin(s)) \/ SubmitStep(s)
        PROVE  BootInv'
    BY <1>3, <1>p, <1>c DEF Local, BootInv, Boot
  <1>4. ASSUME NEW h \in Hostings, Enable(h) PROVE BootInv'
    <2>1. pc'[Worker(h)] = "enabling" /\ h \in used'
      BY <1>4, <1>t, <1>h DEF Enable, Goto
    <2>2. QED
      BY <1>4, <1>g, <1>h, <2>1 DEF Local, BootInv, Boot
  <1>5. ASSUME NEW w \in Workers, RecoverSkips(w) PROVE Boot(w)'
    BY <1>5, <1>t, <1>c, <1>b
    DEF RecoverSkips, At, Goto, Hosted, Live, Owns, Stopped, recordVars, lockVars,
        daemonVars, Boot
  <1>6. ASSUME NEW w \in Workers, RecoverRefuses(w) PROVE Boot(w)'
    BY <1>6, <1>t, <1>c, <1>b
    DEF RecoverRefuses, At, Goto, Hosted, Live, Owns, Stopped, recordVars, lockVars,
        daemonVars, Boot
  <1>7. ASSUME NEW w \in Workers, Recovers(w) PROVE Boot(w)'
    BY <1>7, <1>t, <1>c, <1>b
    DEF Recovers, At, Goto, Hosted, Owns, Stopped, recordVars, Boot
  <1>8. ASSUME NEW w \in Workers, CollectAbandoned(w) PROVE Boot(w)'
    BY <1>8, <1>t, <1>c, <1>b
    DEF CollectAbandoned, At, Collects, Goto, Hosted, Owns, recordVars, lockVars,
        daemonVars, Boot
  <1>9. ASSUME NEW w \in Workers, CollectEnds(w) PROVE Boot(w)'
    <2>1. CASE Errs(w)
      BY <1>9, <2>1, <1>e, <1>q DEF CollectEnds, At, Collects, Errs
    <2>2. CASE /\ Owns(w) /\ hosting' = [copy[w] EXCEPT !.phase = Outcome(w)]
               /\ copy' = [copy EXCEPT ![w] = [copy[w] EXCEPT !.phase = Outcome(w)]]
               /\ Goto(w, "loop") /\ UNCHANGED <<pipe, inbox, events>>
      BY <2>2, <1>9, <1>t, <1>c, <1>b
      DEF CollectEnds, At, AtLimit, Collects, Fresh, Goto, Hosted, Outcome, Owns,
          lockVars, Boot
    <2>3. QED
      BY <1>9, <2>1, <2>2 DEF CollectEnds, Saves
  <1>10. ASSUME NEW w \in Workers, CollectUnusable(w) PROVE Boot(w)'
    BY <1>10, <1>e, <1>q
    DEF CollectUnusable, At, Collects, Errs, recordVars
  <1>11. ASSUME NEW w \in Workers, SubmitConclusion(w) PROVE Boot(w)'
    <2>1. CASE Errs(w)
      BY <1>11, <2>1, <1>e, <1>q DEF SubmitConclusion, At, Collects, Errs
    <2>2. CASE /\ hosting' = [copy[w] EXCEPT !.phase = "Submitting"]
               /\ copy' = [copy EXCEPT ![w] = hosting'] /\ gate' = w
               /\ events' = [events EXCEPT ![w] = 0]
               /\ Sends(w, [op |-> "paste", text |-> <<w[1], copy[w].run>>])
               /\ Goto(w, "pasting") /\ UNCHANGED inbox
      BY <2>2, <1>11, <1>t, <1>c, <1>b
      DEF SubmitConclusion, At, AtLimit, Collects, Fresh, Goto, Hosted, Outcome,
          Owns, Boot
    <2>3. QED
      BY <1>11, <2>1, <2>2 DEF SubmitConclusion
  <1>12. ASSUME NEW w \in Workers, Fail(w) PROVE Boot(w)'
    BY <1>12, <1>t, <1>c, <1>b
    DEF Fail, At, Goto, Hosted, Live, Owns, Stopped, lockVars, daemonVars, Boot
  <1>13. ASSUME NEW w \in Workers, Enabled(w) PROVE Boot(w)'
    BY <1>13, <1>t, <1>c, <1>b
    DEF Enabled, At, FreeGate, Goto, recordVars, Boot
  <1>14. ASSUME NEW w \in Workers, EnableFails(w) PROVE Boot(w)'
    BY <1>14, <1>e, <1>q DEF EnableFails, At
  <1>15. ASSUME NEW w \in Workers, Recovered(w) PROVE Boot(w)'
    BY <1>15, <1>t, <1>c, <1>b
    DEF Recovered, At, FreeGate, Goto, recordVars, Boot
  <1>16. ASSUME NEW w \in Workers, RestoreFails(w) PROVE Boot(w)'
    BY <1>16, <1>e, <1>q
    DEF RestoreFails, At, Errs, recordVars
  <1>17. ASSUME NEW w \in Workers, FirstReview(w) PROVE Boot(w)'
    BY <1>17, <1>t, <1>c, <1>b
    DEF FirstReview, At, Goto, Hosted, Owns, recordVars, lockVars, daemonVars, Boot
  <1>18. ASSUME NEW w \in Workers, TakeEvent(w) PROVE Boot(w)'
    BY <1>18, <1>t, <1>c, <1>b
    DEF TakeEvent, At, Goto, recordVars, lockVars, daemonVars, Boot
  <1>19. ASSUME NEW w \in Workers, StartReview(w) PROVE Boot(w)'
    <2>1. CASE Errs(w)
      BY <1>19, <2>1, <1>e, <1>q DEF StartReview, At, Collects, Errs
    <2>2. CASE /\ Owns(w) /\ hosting' = [copy[w] EXCEPT !.phase = "Reviewing", !.run = @ + 1]
               /\ copy' = [copy EXCEPT ![w] = [copy[w] EXCEPT !.phase = "Reviewing", !.run
                    = @ + 1]]
               /\ Goto(w, "dispatching") /\ UNCHANGED <<pipe, inbox, events>>
      BY <2>2, <1>19, <1>t, <1>c, <1>b
      DEF StartReview, At, Fresh, Goto, Hosted, Owns, lockVars, Boot
    <2>3. QED
      BY <1>19, <2>1, <2>2 DEF StartReview, Saves
  <1>20. ASSUME NEW w \in Workers, Dispatched(w) PROVE Boot(w)'
    BY <1>20, <1>t, <1>c, <1>b
    DEF Dispatched, At, Goto, recordVars, lockVars, daemonVars, Boot
  <1>21. ASSUME NEW w \in Workers, DispatchFails(w) PROVE Boot(w)'
    BY <1>21, <1>e, <1>q
    DEF DispatchFails, At, Errs, recordVars
  <1>22. ASSUME NEW w \in Workers, ReviewDone(w) PROVE Boot(w)'
    <2>1. CASE Errs(w)
      BY <1>22, <2>1, <1>e, <1>q DEF ReviewDone, At, Collects, Errs
    <2>2. CASE /\ Owns(w) /\ hosting' = [copy[w] EXCEPT !.phase = "Collecting"]
               /\ copy' = [copy EXCEPT ![w] = [copy[w] EXCEPT !.phase = "Collecting"]]
               /\ Goto(w, "loop") /\ UNCHANGED <<pipe, inbox, events>>
      BY <2>2, <1>22, <1>t, <1>c, <1>b
      DEF ReviewDone, At, Fresh, Goto, Hosted, Outcomes, Owns, lockVars, Boot
    <2>3. QED
      BY <1>22, <2>1, <2>2 DEF ReviewDone, Saves
  <1>23. ASSUME NEW w \in Workers, ReviewFails(w) PROVE Boot(w)'
    BY <1>23, <1>e, <1>q
    DEF ReviewFails, At, Errs, recordVars
  <1>24. ASSUME NEW w \in Workers, CollectBegin(w) PROVE Boot(w)'
    BY <1>24, <1>t, <1>c, <1>b
    DEF CollectBegin, At, Goto, recordVars, lockVars, daemonVars, Boot
  <1>25. ASSUME NEW w \in Workers, Pasted(w) PROVE Boot(w)'
    BY <1>25, <1>t, <1>c, <1>b
    DEF Pasted, At, Goto, recordVars, lockVars, Boot
  <1>26. ASSUME NEW w \in Workers, WorkerEntered(w) PROVE Boot(w)'
    BY <1>26, <1>t, <1>c, <1>b
    DEF WorkerEntered, At, Goto, recordVars, lockVars, Boot
  <1>27. ASSUME NEW w \in Workers, Submitted(w) PROVE Boot(w)'
    <2>1. CASE Errs(w)
      BY <1>27, <2>1, <1>e, <1>q DEF Submitted, At, Collects, Errs
    <2>2. CASE /\ Owns(w) /\ hosting' = [copy[w] EXCEPT !.phase = "Waiting", !.count = @ + 1]
               /\ copy' = [copy EXCEPT ![w] = [copy[w] EXCEPT !.phase = "Waiting", !.count
                    = @ + 1]]
               /\ Goto(w, "loop") /\ UNCHANGED <<pipe, inbox, events>>
      BY <2>2, <1>27, <1>t, <1>c, <1>b
      DEF Submitted, At, FreeGate, Fresh, Goto, Hosted, Owns, Boot
    <2>3. QED
      BY <1>27, <2>1, <2>2 DEF Submitted, Saves
  <1>28. ASSUME NEW w \in Workers, WorkerSubmitFails(w) PROVE Boot(w)'
    BY <1>28, <1>e, <1>q
    DEF WorkerSubmitFails, Errs, recordVars
  <1>29. ASSUME NEW w \in Workers, LoopEnds(w) PROVE Boot(w)'
    BY <1>29, <1>e, <1>q DEF LoopEnds, recordVars
  <1>30. ASSUME NEW w \in Workers, NoticeLost(w) PROVE Boot(w)'
    BY <1>30, <1>e, <1>q
    DEF NoticeLost, At, Errs, recordVars
  <1>31. ASSUME NEW w \in Workers, AgentChanged(w) PROVE Boot(w)'
    <2>1. CASE Errs(w)
      BY <1>31, <2>1, <1>e, <1>q DEF AgentChanged, At, Errs, recordVars
    <2>2. CASE At(w, "recover") /\ Goto(w, "failing") /\ UNCHANGED <<copy, events, pipe, inbox>>
      BY <2>2, <1>31, <1>t, <1>c, <1>b
      DEF AgentChanged, At, Fresh, Goto, Hosted, Live, Owns, Stopped, recordVars,
          lockVars, Boot
    <2>3. QED
      BY <1>31, <2>1, <2>2 DEF AgentChanged
  <1>32. ASSUME NEW w \in Workers, GateStep(w) \/ WorkerStep(w) \/ AgentChanged(w)
        PROVE  BootInv'
    <2>1. Boot(w)'
      BY <1>32, <1>5, <1>6, <1>7, <1>8, <1>9, <1>10, <1>11, <1>12, <1>13, <1>14, <1>15,
           <1>16, <1>17, <1>18, <1>19, <1>20, <1>21, <1>22, <1>23, <1>24, <1>25, <1>26,
           <1>27, <1>28, <1>29, <1>30, <1>31 DEF GateStep, WorkerStep
    <2>2. QED
      BY <1>32, <1>o, <2>1 DEF Local, BootInv, Boot
  <1>33. ASSUME NEW h \in Hostings, ReviewEnds(h) PROVE BootInv'
    BY <1>33 DEF ReviewEnds, recordVars, BootInv, Boot
  <1>34. ASSUME TurnEnds PROVE BootInv'
    BY <1>34 DEF TurnEnds, recordVars, BootInv, Boot
  <1>35. ASSUME Crash PROVE BootInv'
    <2>1. boot' # 0
      BY <1>35 DEF Crash, TypeOK, RecordType, Boots
    <2>2. \A w \in Workers : Live(w) => w[1] \in used
      BY DEF TypeOK, RecordType, Live, Owns, Hosted
    <2>3. QED
      BY <1>35, <1>c, <2>1, <2>2 DEF Crash, BootInv, Boot
  <1>36. CASE UNCHANGED vars
    BY <1>36 DEF vars, recordVars, workVars, BootInv, Boot
  <1> QED
    BY <1>1, <1>2, <1>3, <1>4, <1>32, <1>33, <1>34, <1>35, <1>36, <1>c DEF Next

\* The gate is passed on by nobody but its holder, and a takeover waits for it.
LEMMA LockStep == TypeOK /\ BootInv /\ CopyInv /\ LockInv /\ [Next]_vars => LockInv'
  <1> SUFFICES ASSUME TypeOK, BootInv, CopyInv, LockInv, [Next]_vars PROVE LockInv'
    OBVIOUS
  <1>c. /\ Browsers \subseteq Clients /\ Submitters \subseteq Clients /\ Workers \subseteq Clients
        /\ Submissions \subseteq Submitters /\ Creation \in Submitters /\ Creation \notin
             Submissions
        /\ \A b \in Browsers : b \notin Submitters /\ b \notin Workers
        /\ \A s \in Submitters : s \notin Workers
        /\ \A c \in Clients : c # None
    BY HostingAssumption DEF Clients, Submitters
  <1>t. /\ pc \in [Workers \cup Submitters -> Labels] /\ copy \in [Workers -> Records]
        /\ events \in [Workers -> Nat] /\ pipe \in Pipes /\ inbox \in Boxes
        /\ \A w \in Workers : copy[w].id = w[1]
        /\ hosting = None \/ hosting \in Records
    BY DEF TypeOK, WorkType, DaemonType, RecordType
  <1>n. \A r \in Records : r # None
    BY HostingAssumption
  <1>h. ASSUME NEW h \in Hostings
        PROVE  /\ Worker(h) \in Workers /\ Worker(h)[1] = h /\ Worker(h)[2] = boot
               /\ Fresh(h).id = h /\ Fresh(h) # None
    BY FreshType DEF Worker, Workers, TypeOK, RecordType
  <1>l. {"off", "failing", "unsaved"} \subseteq Labels
    BY DEF Labels
  <1>e. ASSUME NEW w \in Workers, NEW l \in {"off", "failing", "unsaved"}, Returns(w, l)
        PROVE  Quits(w, l)
    BY <1>e, <1>l, Quitting
  <1>o. ASSUME NEW w \in Workers, GateStep(w) \/ WorkerStep(w) \/ AgentChanged(w)
        PROVE  Local(w) /\ ForcedClaim(w)
    BY <1>o, Locality
  <1>p. ASSUME NEW s \in Submitters, (s \in Submissions /\ SubmitBegin(s)) \/ SubmitStep(s)
        PROVE  Local(s) /\ ForcedClaim(s)
    BY <1>p, Locality
  <1>g. ASSUME NEW h \in Hostings, Enable(h)
        PROVE  Local(Worker(h)) /\ ForcedClaim(Worker(h))
    BY <1>g, Locality
  <1>v. \A w \in Workers :
          LET r == [copy[w] EXCEPT !.phase = "Submitting"] IN r \in Records /\ r.id = w[1]
    BY SavedRecord DEF Phases
  <1>k. \A v \in Workers : WorkerLock(v)
    BY DEF LockInv
  <1>q. ASSUME NEW w \in Workers, NEW l \in {"off", "failing", "unsaved"}, Quits(w, l)
        PROVE  WorkerLock(w)'
    BY <1>q DEF Quits, WorkerLock
  <1>s. \A s \in Submitters : SubmitLock(s)
    BY DEF LockInv
  <1>1. ASSUME NEW c \in Clients, DaemonStep(c) PROVE LockInv'
    BY <1>1, DaemonFrame DEF recordVars, lockVars, workVars, LockInv, SubmitLock,
         WorkerLock, Owns, Hosted
  <1>2. ASSUME NEW b \in Browsers, BrowserStep(b) PROVE LockInv'
    BY <1>2, BrowserFrame, <1>c DEF workVars, LockInv, SubmitLock, WorkerLock, Owns, Hosted
  <1>3. ASSUME NEW s \in Submissions, SubmitBegin(s) PROVE SubmitLock(s)'
    BY <1>3, <1>t, <1>c, <1>s
    DEF SubmitBegin, At, Goto, Hosted, recordVars, daemonVars, SubmitLock,
        Submitting
  <1>4. ASSUME NEW s \in Submitters, SubmitClaims(s) PROVE SubmitLock(s)'
    BY <1>4, <1>t, <1>c, <1>s
    DEF SubmitClaims, At, Goto, recordVars, lockVars, SubmitLock, Submitting, Hosted
  <1>5. ASSUME NEW s \in Submitters, Claimed(s) PROVE SubmitLock(s)'
    BY <1>5, <1>t, <1>c, <1>s
    DEF Claimed, At, Goto, recordVars, lockVars, SubmitLock, Submitting, Hosted
  <1>6. ASSUME NEW s \in Submitters, Pasted(s) PROVE SubmitLock(s)'
    BY <1>6, <1>t, <1>c, <1>s
    DEF Pasted, At, Goto, recordVars, lockVars, SubmitLock, Submitting, Hosted
  <1>7. ASSUME NEW s \in Submitters, Entered(s) PROVE SubmitLock(s)'
    BY <1>7, <1>t, <1>c, <1>s
    DEF Entered, At, Goto, recordVars, lockVars, SubmitLock, Submitting, Hosted
  <1>8. ASSUME NEW s \in Submitters, Finished(s) PROVE SubmitLock(s)'
    BY <1>8, <1>t, <1>c, <1>s
    DEF Finished, At, FreeGate, Goto, SubmitEnds, SubmitLock, Submitting, Hosted
  <1>9. ASSUME NEW s \in Submitters, SubmitFails(s) PROVE SubmitLock(s)'
    BY <1>9, <1>t, <1>c, <1>s
    DEF SubmitFails, At, FreeGate, Goto, SubmitEnds, SubmitLock, Submitting, Hosted
  <1>10. ASSUME NEW s \in Submitters, (s \in Submissions /\ SubmitBegin(s)) \/ SubmitStep(s)
        PROVE  LockInv'
    <2>1. SubmitLock(s)'
      BY <1>10, <1>3, <1>4, <1>5, <1>6, <1>7, <1>8, <1>9 DEF SubmitStep
    <2>2. Local(s) /\ s \notin Workers
      BY <1>10, <1>p, <1>c
    <2>3. \A v \in Workers : WorkerLock(v)'
      BY <2>2, <1>k, <1>c DEF Local, WorkerLock, Owns, Hosted
    <2>4. \A d \in Submitters : d # s => SubmitLock(d)'
      BY <2>2, <1>s, <1>c DEF Local, SubmitLock
    <2>5. QED
      BY <2>1, <2>3, <2>4 DEF LockInv
  <1>11. ASSUME NEW h \in Hostings, Enable(h) PROVE LockInv'
    <2>1. PICK w \in Workers : w = Worker(h)
      BY <1>h
    <2>2. /\ pc'[w] = "enabling" /\ gate' = w /\ hosting' = Fresh(h)
          /\ gate = None /\ phase = "Ready" /\ UNCHANGED phase
      BY <1>11, <1>t, <2>1 DEF Enable, Goto
    <2>3. WorkerLock(w)'
      BY <2>1, <2>2, <1>h DEF WorkerLock, Owns, Hosted
    <2>4. \A v \in Workers : v # w => WorkerLock(v)'
      BY <1>11, <1>g, <1>k, <2>1, <2>2, <1>c DEF Local, WorkerLock
    <2>5. \A s \in Submitters : SubmitLock(s)'
      BY <1>11, <1>g, <1>s, <2>1, <2>2, <1>c DEF Local, SubmitLock
    <2>6. QED
      BY <2>3, <2>4, <2>5 DEF LockInv
  <1>12. ASSUME NEW w \in Workers, RecoverSkips(w) PROVE WorkerLock(w)'
    BY <1>12, <1>t, <1>c, <1>k, <1>n
    DEF RecoverSkips, At, Goto, Hosted, Live, Owns, Stopped, recordVars, lockVars,
        daemonVars, WorkerLock
  <1>13. ASSUME NEW w \in Workers, RecoverRefuses(w) PROVE WorkerLock(w)'
    BY <1>13, <1>t, <1>c, <1>k, <1>n
    DEF RecoverRefuses, At, Goto, Hosted, Live, Owns, Stopped, recordVars, lockVars,
        daemonVars, WorkerLock
  <1>14. ASSUME NEW w \in Workers, Recovers(w) PROVE WorkerLock(w)'
    BY <1>14, <1>t, <1>c, <1>k, <1>n
    DEF Recovers, At, Goto, Hosted, Owns, Stopped, recordVars, WorkerLock
  <1>15. ASSUME NEW w \in Workers, CollectAbandoned(w) PROVE WorkerLock(w)'
    BY <1>15, <1>t, <1>c, <1>k, <1>n
    DEF CollectAbandoned, At, Collects, Goto, Hosted, Owns, recordVars, lockVars,
        daemonVars, WorkerLock
  <1>16. ASSUME NEW w \in Workers, CollectEnds(w) PROVE WorkerLock(w)'
    <2>1. CASE Errs(w)
      BY <1>16, <2>1, <1>e, <1>q DEF CollectEnds, At, Collects, Errs
    <2>2. CASE /\ Owns(w) /\ hosting' = [copy[w] EXCEPT !.phase = Outcome(w)]
               /\ copy' = [copy EXCEPT ![w] = [copy[w] EXCEPT !.phase = Outcome(w)]]
               /\ Goto(w, "loop") /\ UNCHANGED <<pipe, inbox, events>>
      BY <2>2, <1>16, <1>t, <1>c, <1>k, <1>n
      DEF CollectEnds, At, AtLimit, Collects, Fresh, Goto, Hosted, Outcome, Owns,
          lockVars, WorkerLock
    <2>3. QED
      BY <1>16, <2>1, <2>2 DEF CollectEnds, Saves
  <1>17. ASSUME NEW w \in Workers, CollectUnusable(w) PROVE WorkerLock(w)'
    BY <1>17, <1>e, <1>q
    DEF CollectUnusable, At, Collects, Errs
  <1>18. ASSUME NEW w \in Workers, SubmitConclusion(w) PROVE WorkerLock(w)'
    <2>1. CASE Errs(w)
      BY <1>18, <2>1, <1>e, <1>q DEF SubmitConclusion, At, Collects, Errs
    <2>2. CASE /\ hosting' = [copy[w] EXCEPT !.phase = "Submitting"]
               /\ copy' = [copy EXCEPT ![w] = hosting'] /\ gate' = w
               /\ events' = [events EXCEPT ![w] = 0]
               /\ Sends(w, [op |-> "paste", text |-> <<w[1], copy[w].run>>])
               /\ Goto(w, "pasting") /\ UNCHANGED inbox
      BY <2>2, <1>18, <1>t, <1>c, <1>k, <1>n, <1>v
      DEF SubmitConclusion, At, AtLimit, Collects, Fresh, Goto, Hosted, Outcome,
          Owns, WorkerLock
    <2>3. QED
      BY <1>18, <2>1, <2>2 DEF SubmitConclusion
  <1>19. ASSUME NEW w \in Workers, Fail(w) PROVE WorkerLock(w)'
    BY <1>19, <1>t, <1>c, <1>k, <1>n
    DEF Fail, At, Goto, Hosted, Live, Owns, Stopped, lockVars, daemonVars,
        WorkerLock
  <1>20. ASSUME NEW w \in Workers, Enabled(w) PROVE WorkerLock(w)'
    BY <1>20, <1>t, <1>c, <1>k, <1>n
    DEF Enabled, At, FreeGate, Goto, recordVars, WorkerLock, Owns, Hosted
  <1>21. ASSUME NEW w \in Workers, EnableFails(w) PROVE WorkerLock(w)'
    BY <1>21, <1>e, <1>q DEF EnableFails, At
  <1>22. ASSUME NEW w \in Workers, Recovered(w) PROVE WorkerLock(w)'
    BY <1>22, <1>t, <1>c, <1>k, <1>n
    DEF Recovered, At, FreeGate, Goto, recordVars, WorkerLock, Owns, Hosted
  <1>23. ASSUME NEW w \in Workers, RestoreFails(w) PROVE WorkerLock(w)'
    BY <1>23, <1>e, <1>q
    DEF RestoreFails, At, Errs
  <1>24. ASSUME NEW w \in Workers, FirstReview(w) PROVE WorkerLock(w)'
    BY <1>24, <1>t, <1>c, <1>k, <1>n
    DEF FirstReview, At, Goto, Hosted, Owns, recordVars, lockVars, daemonVars,
        WorkerLock
  <1>25. ASSUME NEW w \in Workers, TakeEvent(w) PROVE WorkerLock(w)'
    BY <1>25, <1>t, <1>c, <1>k, <1>n
    DEF TakeEvent, At, Goto, recordVars, lockVars, daemonVars, WorkerLock, Owns,
        Hosted
  <1>26. ASSUME NEW w \in Workers, StartReview(w) PROVE WorkerLock(w)'
    <2>1. CASE Errs(w)
      BY <1>26, <2>1, <1>e, <1>q DEF StartReview, At, Collects, Errs
    <2>2. CASE /\ Owns(w) /\ hosting' = [copy[w] EXCEPT !.phase = "Reviewing", !.run = @ + 1]
               /\ copy' = [copy EXCEPT ![w] = [copy[w] EXCEPT !.phase = "Reviewing", !.run
                    = @ + 1]]
               /\ Goto(w, "dispatching") /\ UNCHANGED <<pipe, inbox, events>>
      BY <2>2, <1>26, <1>t, <1>c, <1>k, <1>n
      DEF StartReview, At, Fresh, Goto, Hosted, Owns, lockVars, WorkerLock
    <2>3. QED
      BY <1>26, <2>1, <2>2 DEF StartReview, Saves
  <1>27. ASSUME NEW w \in Workers, Dispatched(w) PROVE WorkerLock(w)'
    BY <1>27, <1>t, <1>c, <1>k, <1>n
    DEF Dispatched, At, Goto, recordVars, lockVars, daemonVars, WorkerLock, Owns,
        Hosted
  <1>28. ASSUME NEW w \in Workers, DispatchFails(w) PROVE WorkerLock(w)'
    BY <1>28, <1>e, <1>q
    DEF DispatchFails, At, Errs
  <1>29. ASSUME NEW w \in Workers, ReviewDone(w) PROVE WorkerLock(w)'
    <2>1. CASE Errs(w)
      BY <1>29, <2>1, <1>e, <1>q DEF ReviewDone, At, Collects, Errs
    <2>2. CASE /\ Owns(w) /\ hosting' = [copy[w] EXCEPT !.phase = "Collecting"]
               /\ copy' = [copy EXCEPT ![w] = [copy[w] EXCEPT !.phase = "Collecting"]]
               /\ Goto(w, "loop") /\ UNCHANGED <<pipe, inbox, events>>
      BY <2>2, <1>29, <1>t, <1>c, <1>k, <1>n
      DEF ReviewDone, At, Fresh, Goto, Hosted, Outcomes, Owns, lockVars,
          WorkerLock
    <2>3. QED
      BY <1>29, <2>1, <2>2 DEF ReviewDone, Saves
  <1>30. ASSUME NEW w \in Workers, ReviewFails(w) PROVE WorkerLock(w)'
    BY <1>30, <1>e, <1>q
    DEF ReviewFails, At, Errs
  <1>31. ASSUME NEW w \in Workers, CollectBegin(w) PROVE WorkerLock(w)'
    BY <1>31, <1>t, <1>c, <1>k, <1>n
    DEF CollectBegin, At, Goto, recordVars, lockVars, daemonVars, WorkerLock, Owns,
        Hosted
  <1>32. ASSUME NEW w \in Workers, Pasted(w) PROVE WorkerLock(w)'
    BY <1>32, <1>t, <1>c, <1>k, <1>n
    DEF Pasted, At, Goto, recordVars, lockVars, WorkerLock, Owns, Hosted
  <1>33. ASSUME NEW w \in Workers, WorkerEntered(w) PROVE WorkerLock(w)'
    BY <1>33, <1>t, <1>c, <1>k, <1>n
    DEF WorkerEntered, At, Goto, recordVars, lockVars, WorkerLock, Owns, Hosted
  <1>34. ASSUME NEW w \in Workers, Submitted(w) PROVE WorkerLock(w)'
    <2>1. CASE Errs(w)
      BY <1>34, <2>1, <1>e, <1>q DEF Submitted, At, Collects, Errs
    <2>2. CASE /\ Owns(w) /\ hosting' = [copy[w] EXCEPT !.phase = "Waiting", !.count = @ + 1]
               /\ copy' = [copy EXCEPT ![w] = [copy[w] EXCEPT !.phase = "Waiting", !.count
                    = @ + 1]]
               /\ Goto(w, "loop") /\ UNCHANGED <<pipe, inbox, events>>
      BY <2>2, <1>34, <1>t, <1>c, <1>k, <1>n
      DEF Submitted, At, FreeGate, Fresh, Goto, Hosted, Owns, WorkerLock
    <2>3. QED
      BY <1>34, <2>1, <2>2 DEF Submitted, Saves
  <1>35. ASSUME NEW w \in Workers, WorkerSubmitFails(w) PROVE WorkerLock(w)'
    BY <1>35, <1>e, <1>q
    DEF WorkerSubmitFails, Errs
  <1>36. ASSUME NEW w \in Workers, LoopEnds(w) PROVE WorkerLock(w)'
    BY <1>36, <1>e, <1>q DEF LoopEnds
  <1>37. ASSUME NEW w \in Workers, NoticeLost(w) PROVE WorkerLock(w)'
    BY <1>37, <1>e, <1>q
    DEF NoticeLost, At, Errs
  <1>38. ASSUME NEW w \in Workers, AgentChanged(w) PROVE WorkerLock(w)'
    <2>1. CASE Errs(w)
      BY <1>38, <2>1, <1>e, <1>q DEF AgentChanged, At, Errs
    <2>2. CASE At(w, "recover") /\ Goto(w, "failing") /\ UNCHANGED <<copy, events, pipe, inbox>>
      BY <2>2, <1>38, <1>t, <1>c, <1>k, <1>n
      DEF AgentChanged, At, Fresh, Goto, Hosted, Live, Owns, Stopped, recordVars,
          lockVars, WorkerLock
    <2>3. QED
      BY <1>38, <2>1, <2>2 DEF AgentChanged
  <1>39. ASSUME NEW w \in Workers, GateStep(w) \/ WorkerStep(w) \/ AgentChanged(w)
        PROVE  LockInv'
    <2>1. WorkerLock(w)'
      BY <1>39, <1>12, <1>13, <1>14, <1>15, <1>16, <1>17, <1>18, <1>19, <1>20, <1>21,
           <1>22, <1>23, <1>24, <1>25, <1>26, <1>27, <1>28, <1>29, <1>30, <1>31, <1>32,
           <1>33, <1>34, <1>35, <1>36, <1>37, <1>38 DEF GateStep, WorkerStep
    <2>2. Local(w)
      BY <1>39, <1>o
    <2>3. \A v \in Workers : v # w => WorkerLock(v)'
      <3>1. SUFFICES ASSUME NEW v \in Workers, v # w,
                            pc[v] \in {"enabling", "restoring", "pasting", "entering", "entered"}
                     PROVE  gate' = v /\ Owns(v)'
        BY <2>2 DEF Local, WorkerLock
      <3>2. gate = v /\ Owns(v) /\ v # None
        BY <3>1, <1>k, <1>c DEF WorkerLock
      <3>3. gate' = v
        BY <3>1, <3>2, <2>2 DEF Local
      <3>4. hosting'.id = hosting.id /\ (hosting' = None => hosting = None)
        BY <3>2, <2>2 DEF Local, Owns, Hosted
      <3>5. QED
        BY <3>2, <3>3, <3>4 DEF Owns, Hosted
    <2>4. \A s \in Submitters : SubmitLock(s)'
      BY <2>2, <1>s, <1>c DEF Local, SubmitLock, Owns, Hosted
    <2>5. QED
      BY <2>1, <2>3, <2>4 DEF LockInv
  <1>40. ASSUME NEW h \in Hostings, ReviewEnds(h) PROVE LockInv'
    BY <1>40 DEF ReviewEnds, recordVars, lockVars, LockInv, SubmitLock, WorkerLock, Owns, Hosted
  <1>41. ASSUME TurnEnds PROVE LockInv'
    BY <1>41 DEF TurnEnds, recordVars, lockVars, LockInv, SubmitLock, WorkerLock, Owns, Hosted
  <1>42. ASSUME Crash PROVE LockInv'
    BY <1>42, <1>c DEF Crash, LockInv, SubmitLock, WorkerLock, Submitting
  <1>43. CASE UNCHANGED vars
    BY <1>43 DEF vars, recordVars, lockVars, workVars, LockInv, SubmitLock, WorkerLock,
         Owns, Hosted
  <1> QED
    BY <1>1, <1>2, <1>10, <1>11, <1>39, <1>40, <1>41, <1>42, <1>43, <1>c DEF Next

-----------------------------------------------------------------------------
(* What a worker has of its hosting *)

\* Two workers of this run of the server do not share a hosting.
LEMMA SameWorker == \A v, w \in Workers : v[1] = w[1] /\ v[2] = w[2] => v = w
  BY DEF Workers

\* A step of one worker leaves the record of another alone.
LEMMA OthersRecord ==
    ASSUME TypeOK, BootInv, NEW w \in Workers, Local(w),
           NEW v \in Workers, v # w, pc[v] # "off", hosting' # None, hosting'.id = v[1]
    PROVE  hosting' = hosting /\ Owns(v)
  <1>1. v[2] = boot
    BY DEF BootInv, Boot
  <1>2. hosting' = hosting
    BY <1>1, SameWorker DEF Local
  <1>3. QED
    BY <1>2 DEF Owns, Hosted

\* A worker saves what it has, and what another saves is of another hosting.
LEMMA CopyStep == TypeOK /\ BootInv /\ LockInv /\ CopyInv /\ [Next]_vars => (\A v \in
     Workers : Copied(v))'
  <1> SUFFICES ASSUME TypeOK, BootInv, LockInv, CopyInv, [Next]_vars PROVE (\A v \in
       Workers : Copied(v))'
    OBVIOUS
  <1>c. /\ Browsers \subseteq Clients /\ Submitters \subseteq Clients /\ Workers \subseteq Clients
        /\ Submissions \subseteq Submitters /\ Creation \in Submitters /\ Creation \notin
             Submissions
        /\ \A b \in Browsers : b \notin Submitters /\ b \notin Workers
        /\ \A s \in Submitters : s \notin Workers
        /\ \A c \in Clients : c # None
    BY HostingAssumption DEF Clients, Submitters
  <1>t. /\ pc \in [Workers \cup Submitters -> Labels] /\ copy \in [Workers -> Records]
        /\ events \in [Workers -> Nat] /\ pipe \in Pipes /\ inbox \in Boxes
        /\ \A w \in Workers : copy[w].id = w[1]
        /\ hosting = None \/ hosting \in Records
    BY DEF TypeOK, WorkType, DaemonType, RecordType
  <1>h. ASSUME NEW h \in Hostings
        PROVE  /\ Worker(h) \in Workers /\ Worker(h)[1] = h /\ Worker(h)[2] = boot
               /\ Fresh(h).id = h /\ Fresh(h) # None
    BY FreshType DEF Worker, Workers, TypeOK, RecordType
  <1>l. {"off", "failing", "unsaved"} \subseteq Labels
    BY DEF Labels
  <1>e. ASSUME NEW w \in Workers, NEW l \in {"off", "failing", "unsaved"}, Returns(w, l)
        PROVE  Quits(w, l)
    BY <1>e, <1>l, Quitting
  <1>o. ASSUME NEW w \in Workers, GateStep(w) \/ WorkerStep(w) \/ AgentChanged(w)
        PROVE  Local(w) /\ ForcedClaim(w)
    BY <1>o, Locality
  <1>p. ASSUME NEW s \in Submitters, (s \in Submissions /\ SubmitBegin(s)) \/ SubmitStep(s)
        PROVE  Local(s) /\ ForcedClaim(s)
    BY <1>p, Locality
  <1>g. ASSUME NEW h \in Hostings, Enable(h)
        PROVE  Local(Worker(h)) /\ ForcedClaim(Worker(h))
    BY <1>g, Locality
  <1>k. /\ Hosted => Rounds(hosting)
        /\ \A v \in Workers : Copied(v)
    BY DEF CopyInv
  <1>r. \A w \in Workers : copy[w].run \in Nat /\ copy[w].count \in Nat /\ copy[w] \in Records
    BY HostingAssumption DEF TypeOK, WorkType, Records
  <1>q. ASSUME NEW w \in Workers, NEW l \in {"off", "failing", "unsaved"}, Quits(w, l)
        PROVE  Copied(w)'
    BY <1>q DEF Quits, Copied, Rounds, Stands, Resting, Running, Fresh
  <1>1. ASSUME NEW c \in Clients, DaemonStep(c) PROVE (\A v \in Workers : Copied(v))'
    BY <1>1, <1>k, DaemonFrame DEF recordVars, workVars, Copied, Owns, Hosted
  <1>2. ASSUME NEW b \in Browsers, BrowserStep(b) PROVE (\A v \in Workers : Copied(v))'
    BY <1>2, <1>k, BrowserFrame, <1>c DEF workVars, Copied, Owns, Hosted
  <1>3. ASSUME NEW s \in Submitters, (s \in Submissions /\ SubmitBegin(s)) \/ SubmitStep(s)
        PROVE  (\A v \in Workers : Copied(v))'
    <2>1. Local(s) /\ s \notin Workers
      BY <1>3, <1>p, <1>c
    <2>2. QED
      BY <2>1, <1>k, <1>c DEF Local, Copied, Owns, Hosted
  <1>4. ASSUME NEW h \in Hostings, Enable(h) PROVE (\A v \in Workers : Copied(v))'
    <2>1. PICK w \in Workers : w = Worker(h)
      BY <1>h
    <2>2. pc'[w] = "enabling" /\ hosting' = Fresh(h) /\ pc[w] = "off" /\ copy' = copy
      BY <1>4, <1>t, <1>h, <2>1 DEF Enable, Goto, BootInv, Boot
    <2>3. copy[w] = Fresh(h) /\ Rounds(copy[w])
      BY <2>1, <2>2, <1>h, <1>k DEF Copied, Resting
    <2>4. Copied(w)'
      BY <2>1, <2>2, <2>3, <1>h DEF Copied, Stands, Resting, Running, Fresh
    <2>5. ASSUME NEW v \in Workers, v # w PROVE Copied(v)'
      <3>1. Local(w) /\ pc'[v] = pc[v] /\ copy'[v] = copy[v]
        BY <1>4, <1>g, <2>1, <2>5 DEF Local
      <3>2. pc[v] \in Running /\ Owns(v)' => hosting' = hosting /\ Owns(v)
        BY <2>5, <3>1, OthersRecord DEF Owns, Hosted, Running
      <3>3. QED
        BY <3>1, <3>2, <1>k DEF Copied
    <2>6. QED
      BY <2>4, <2>5
  <1>5. ASSUME NEW w \in Workers, RecoverSkips(w) PROVE Copied(w)'
    BY <1>5, <1>t, <1>c, <1>k, <1>r
    DEF RecoverSkips, At, Goto, Hosted, Live, Owns, Stopped, recordVars, lockVars,
        daemonVars, Copied, Rounds, Stands, Running, Resting
  <1>6. ASSUME NEW w \in Workers, RecoverRefuses(w) PROVE Copied(w)'
    BY <1>6, <1>t, <1>c, <1>k, <1>r
    DEF RecoverRefuses, At, Goto, Hosted, Live, Owns, Stopped, recordVars, lockVars,
        daemonVars, Copied, Rounds, Stands, Running, Resting
  <1>7. ASSUME NEW w \in Workers, Recovers(w) PROVE Copied(w)'
    BY <1>7, <1>t, <1>c, <1>k, <1>r
    DEF Recovers, At, Goto, Hosted, Owns, Stopped, recordVars, Copied, Rounds,
        Stands, Running, Resting, CopyInv
  <1>8. ASSUME NEW w \in Workers, CollectAbandoned(w) PROVE Copied(w)'
    BY <1>8, <1>t, <1>c, <1>k, <1>r
    DEF CollectAbandoned, At, Collects, Goto, Hosted, Owns, recordVars, lockVars,
        daemonVars, Copied, Rounds, Stands, Running, Resting
  <1>9. ASSUME NEW w \in Workers, CollectEnds(w) PROVE Copied(w)'
    <2>1. CASE Errs(w)
      BY <1>9, <2>1, <1>e, <1>q DEF CollectEnds, At, Collects, Errs
    <2>2. CASE /\ Owns(w) /\ hosting' = [copy[w] EXCEPT !.phase = Outcome(w)]
               /\ copy' = [copy EXCEPT ![w] = [copy[w] EXCEPT !.phase = Outcome(w)]]
               /\ Goto(w, "loop") /\ UNCHANGED <<pipe, inbox, events>>
      BY <2>2, <1>9, <1>t, <1>c, <1>k, <1>r
      DEF CollectEnds, At, AtLimit, Collects, Fresh, Goto, Hosted, Outcome, Owns,
          lockVars, Copied, Rounds, Stands, Running, Resting
    <2>3. QED
      BY <1>9, <2>1, <2>2 DEF CollectEnds, Saves
  <1>10. ASSUME NEW w \in Workers, CollectUnusable(w) PROVE Copied(w)'
    BY <1>10, <1>e, <1>q
    DEF CollectUnusable, At, Collects, Errs
  <1>11. ASSUME NEW w \in Workers, SubmitConclusion(w) PROVE Copied(w)'
    <2>1. CASE Errs(w)
      BY <1>11, <2>1, <1>e, <1>q DEF SubmitConclusion, At, Collects, Errs
    <2>2. CASE /\ hosting' = [copy[w] EXCEPT !.phase = "Submitting"]
               /\ copy' = [copy EXCEPT ![w] = hosting'] /\ gate' = w
               /\ events' = [events EXCEPT ![w] = 0]
               /\ Sends(w, [op |-> "paste", text |-> <<w[1], copy[w].run>>])
               /\ Goto(w, "pasting") /\ UNCHANGED inbox
      <3>1. copy[w].run = copy[w].count + 1 /\ copy[w].count < MaxInputs
        BY <1>11, <1>k, <1>r, HostingAssumption
        DEF SubmitConclusion, Collects, At, Outcome, AtLimit, Copied, Stands, Rounds
      <3>2. copy'[w] = hosting' /\ pc'[w] = "pasting"
        BY <2>2, <1>t DEF Goto
      <3>3. /\ hosting'.phase = "Submitting" /\ hosting'.run = copy[w].run
            /\ hosting'.count = copy[w].count
        BY <2>2, <1>r DEF Records
      <3>4. QED
        BY <3>1, <3>2, <3>3 DEF Copied, Rounds, Stands, Resting
    <2>3. QED
      BY <1>11, <2>1, <2>2 DEF SubmitConclusion
  <1>12. ASSUME NEW w \in Workers, Fail(w) PROVE Copied(w)'
    BY <1>12, <1>t, <1>c, <1>k, <1>r
    DEF Fail, At, Goto, Hosted, Live, Owns, Stopped, lockVars, daemonVars, Copied,
        Rounds, Stands, Running, Resting
  <1>13. ASSUME NEW w \in Workers, Enabled(w) PROVE Copied(w)'
    BY <1>13, <1>t, <1>c, <1>k, <1>r
    DEF Enabled, At, FreeGate, Goto, recordVars, Copied, Rounds, Stands, Running,
        Resting, Owns, Hosted
  <1>14. ASSUME NEW w \in Workers, EnableFails(w) PROVE Copied(w)'
    BY <1>14, <1>e, <1>q DEF EnableFails, At
  <1>15. ASSUME NEW w \in Workers, Recovered(w) PROVE Copied(w)'
    BY <1>15, <1>t, <1>c, <1>k, <1>r
    DEF Recovered, At, FreeGate, Goto, recordVars, Copied, Rounds, Stands, Running,
        Resting, Owns, Hosted
  <1>16. ASSUME NEW w \in Workers, RestoreFails(w) PROVE Copied(w)'
    BY <1>16, <1>e, <1>q
    DEF RestoreFails, At, Errs
  <1>17. ASSUME NEW w \in Workers, FirstReview(w) PROVE Copied(w)'
    BY <1>17, <1>t, <1>c, <1>k, <1>r
    DEF FirstReview, At, Goto, Hosted, Owns, recordVars, lockVars, daemonVars,
        Copied, Rounds, Stands, Running, Resting
  <1>18. ASSUME NEW w \in Workers, TakeEvent(w) PROVE Copied(w)'
    BY <1>18, <1>t, <1>c, <1>k, <1>r
    DEF TakeEvent, At, Goto, recordVars, lockVars, daemonVars, Copied, Rounds,
        Stands, Running, Resting, Owns, Hosted
  <1>19. ASSUME NEW w \in Workers, StartReview(w) PROVE Copied(w)'
    <2>1. CASE Errs(w)
      BY <1>19, <2>1, <1>e, <1>q DEF StartReview, At, Collects, Errs
    <2>2. CASE /\ Owns(w) /\ hosting' = [copy[w] EXCEPT !.phase = "Reviewing", !.run = @ + 1]
               /\ copy' = [copy EXCEPT ![w] = [copy[w] EXCEPT !.phase = "Reviewing", !.run
                    = @ + 1]]
               /\ Goto(w, "dispatching") /\ UNCHANGED <<pipe, inbox, events>>
      BY <2>2, <1>19, <1>t, <1>c, <1>k, <1>r
      DEF StartReview, At, Fresh, Goto, Hosted, Owns, lockVars, Copied, Rounds,
          Stands, Running, Resting
    <2>3. QED
      BY <1>19, <2>1, <2>2 DEF StartReview, Saves
  <1>20. ASSUME NEW w \in Workers, Dispatched(w) PROVE Copied(w)'
    BY <1>20, <1>t, <1>c, <1>k, <1>r
    DEF Dispatched, At, Goto, recordVars, lockVars, daemonVars, Copied, Rounds,
        Stands, Running, Resting, Owns, Hosted
  <1>21. ASSUME NEW w \in Workers, DispatchFails(w) PROVE Copied(w)'
    BY <1>21, <1>e, <1>q
    DEF DispatchFails, At, Errs
  <1>22. ASSUME NEW w \in Workers, ReviewDone(w) PROVE Copied(w)'
    <2>1. CASE Errs(w)
      BY <1>22, <2>1, <1>e, <1>q DEF ReviewDone, At, Collects, Errs
    <2>2. CASE /\ Owns(w) /\ hosting' = [copy[w] EXCEPT !.phase = "Collecting"]
               /\ copy' = [copy EXCEPT ![w] = [copy[w] EXCEPT !.phase = "Collecting"]]
               /\ Goto(w, "loop") /\ UNCHANGED <<pipe, inbox, events>>
      BY <2>2, <1>22, <1>t, <1>c, <1>k, <1>r
      DEF ReviewDone, At, Fresh, Goto, Hosted, Outcomes, Owns, lockVars, Copied,
          Rounds, Stands, Running, Resting
    <2>3. QED
      BY <1>22, <2>1, <2>2 DEF ReviewDone, Saves
  <1>23. ASSUME NEW w \in Workers, ReviewFails(w) PROVE Copied(w)'
    BY <1>23, <1>e, <1>q
    DEF ReviewFails, At, Errs
  <1>24. ASSUME NEW w \in Workers, CollectBegin(w) PROVE Copied(w)'
    BY <1>24, <1>t, <1>c, <1>k, <1>r
    DEF CollectBegin, At, Goto, recordVars, lockVars, daemonVars, Copied, Rounds,
        Stands, Running, Resting, Owns, Hosted
  <1>25. ASSUME NEW w \in Workers, Pasted(w) PROVE Copied(w)'
    BY <1>25, <1>t, <1>c, <1>k, <1>r
    DEF Pasted, At, Goto, recordVars, lockVars, Copied, Rounds, Stands, Running,
        Resting, Owns, Hosted
  <1>26. ASSUME NEW w \in Workers, WorkerEntered(w) PROVE Copied(w)'
    BY <1>26, <1>t, <1>c, <1>k, <1>r
    DEF WorkerEntered, At, Goto, recordVars, lockVars, Copied, Rounds, Stands,
        Running, Resting, Owns, Hosted
  <1>27. ASSUME NEW w \in Workers, Submitted(w) PROVE Copied(w)'
    <2>1. CASE Errs(w)
      BY <1>27, <2>1, <1>e, <1>q DEF Submitted, At, Collects, Errs
    <2>2. CASE /\ Owns(w) /\ hosting' = [copy[w] EXCEPT !.phase = "Waiting", !.count = @ + 1]
               /\ copy' = [copy EXCEPT ![w] = [copy[w] EXCEPT !.phase = "Waiting", !.count
                    = @ + 1]]
               /\ Goto(w, "loop") /\ UNCHANGED <<pipe, inbox, events>>
      BY <2>2, <1>27, <1>t, <1>c, <1>k, <1>r
      DEF Submitted, At, FreeGate, Fresh, Goto, Hosted, Owns, Copied, Rounds,
          Stands, Running, Resting
    <2>3. QED
      BY <1>27, <2>1, <2>2 DEF Submitted, Saves
  <1>28. ASSUME NEW w \in Workers, WorkerSubmitFails(w) PROVE Copied(w)'
    BY <1>28, <1>e, <1>q
    DEF WorkerSubmitFails, Errs
  <1>29. ASSUME NEW w \in Workers, LoopEnds(w) PROVE Copied(w)'
    BY <1>29, <1>e, <1>q DEF LoopEnds
  <1>30. ASSUME NEW w \in Workers, NoticeLost(w) PROVE Copied(w)'
    BY <1>30, <1>e, <1>q
    DEF NoticeLost, At, Errs
  <1>31. ASSUME NEW w \in Workers, AgentChanged(w) PROVE Copied(w)'
    <2>1. CASE Errs(w)
      BY <1>31, <2>1, <1>e, <1>q DEF AgentChanged, At, Errs
    <2>2. CASE At(w, "recover") /\ Goto(w, "failing") /\ UNCHANGED <<copy, events, pipe, inbox>>
      BY <2>2, <1>31, <1>t, <1>c, <1>k, <1>r
      DEF AgentChanged, At, Fresh, Goto, Hosted, Live, Owns, Stopped, recordVars,
          lockVars, Copied, Rounds, Stands, Running, Resting
    <2>3. QED
      BY <1>31, <2>1, <2>2 DEF AgentChanged
  <1>32. ASSUME NEW w \in Workers, GateStep(w) \/ WorkerStep(w) \/ AgentChanged(w)
        PROVE  (\A v \in Workers : Copied(v))'
    <2>1. Copied(w)'
      BY <1>32, <1>5, <1>6, <1>7, <1>8, <1>9, <1>10, <1>11, <1>12, <1>13, <1>14, <1>15,
           <1>16, <1>17, <1>18, <1>19, <1>20, <1>21, <1>22, <1>23, <1>24, <1>25, <1>26,
           <1>27, <1>28, <1>29, <1>30, <1>31 DEF GateStep, WorkerStep
    <2>2. ASSUME NEW v \in Workers, v # w PROVE Copied(v)'
      <3>1. Local(w) /\ pc'[v] = pc[v] /\ copy'[v] = copy[v]
        BY <1>32, <1>o, <2>2 DEF Local
      <3>2. pc[v] \in Running /\ Owns(v)' => hosting' = hosting /\ Owns(v)
        BY <2>2, <3>1, OthersRecord DEF Owns, Hosted, Running
      <3>3. QED
        BY <3>1, <3>2, <1>k DEF Copied
    <2>3. QED
      BY <2>1, <2>2
  <1>33. ASSUME NEW h \in Hostings, ReviewEnds(h) PROVE (\A v \in Workers : Copied(v))'
    BY <1>33, <1>k DEF ReviewEnds, recordVars, Copied, Owns, Hosted
  <1>34. ASSUME TurnEnds PROVE (\A v \in Workers : Copied(v))'
    BY <1>34, <1>k DEF TurnEnds, recordVars, Copied, Owns, Hosted
  <1>35. ASSUME Crash PROVE (\A v \in Workers : Copied(v))'
    BY <1>35, <1>c DEF Crash, Copied, Rounds, Stands, Resting, Running, Fresh
  <1>36. CASE UNCHANGED vars
    BY <1>36, <1>k DEF vars, recordVars, workVars, Copied, Owns, Hosted
  <1> QED
    BY <1>1, <1>2, <1>3, <1>4, <1>32, <1>33, <1>34, <1>35, <1>36, <1>c DEF Next

\* Whatever is saved tells the rounds of its hosting.
LEMMA RoundsStep == TypeOK /\ BootInv /\ CopyInv /\ [Next]_vars => (Hosted => Rounds(hosting))'
  <1> SUFFICES ASSUME TypeOK, BootInv, CopyInv, [Next]_vars, Hosted' PROVE Rounds(hosting)'
    OBVIOUS
  <1>k. /\ Hosted => Rounds(hosting)
        /\ \A v \in Workers : Copied(v)
    BY DEF CopyInv
  <1>r. \A w \in Workers : copy[w].run \in Nat /\ copy[w].count \in Nat /\ copy[w] \in Records
    BY HostingAssumption DEF TypeOK, WorkType, Records
  <1>t. hosting = None \/ hosting \in Records
    BY DEF TypeOK, RecordType
  <1>u. ASSUME UNCHANGED hosting PROVE Rounds(hosting)'
    BY <1>u, <1>k DEF Hosted
  <1>1. ASSUME NEW h \in Hostings, Enable(h) PROVE Rounds(hosting)'
    BY <1>1 DEF Enable, Fresh, Rounds
  <1>2. ASSUME NEW w \in Workers, CollectEnds(w) PROVE Rounds(hosting)'
    <2>1. hosting' = hosting \/ hosting' = [copy[w] EXCEPT !.phase = Outcome(w)]
      BY <1>2 DEF CollectEnds, Saves
    <2>2. QED
      BY <1>2, <2>1, <1>u, <1>k, <1>r DEF CollectEnds, Collects, Outcome, At, Copied,
           Stands, Rounds, Records
  <1>3. ASSUME NEW w \in Workers, SubmitConclusion(w) PROVE Rounds(hosting)'
    <2>1. hosting' = hosting \/ hosting' = [copy[w] EXCEPT !.phase = "Submitting"]
      BY <1>3 DEF SubmitConclusion
    <2>2. copy[w].run = copy[w].count + 1 /\ copy[w].count < MaxInputs
      BY <1>3, <1>k, <1>r, HostingAssumption
      DEF SubmitConclusion, Collects, At, Outcome, AtLimit, Copied, Stands, Rounds
    <2>3. QED
      BY <2>1, <2>2, <1>u, <1>r DEF Rounds, Records
  <1>4. ASSUME NEW w \in Workers, Fail(w) PROVE Rounds(hosting)'
    <2>1. hosting' = hosting \/ (hosting' = [hosting EXCEPT !.phase = "Failed"] /\ Hosted)
      BY <1>4 DEF Fail, Live, Owns
    <2>2. QED
      BY <2>1, <1>u, <1>t DEF Rounds, Records, Hosted
  <1>5. ASSUME NEW w \in Workers, EnableFails(w) PROVE Rounds(hosting)'
    <2>1. hosting' = hosting \/ (hosting' = [hosting EXCEPT !.phase = "Failed"] /\ Hosted)
      BY <1>5 DEF EnableFails, Live, Owns
    <2>2. QED
      BY <2>1, <1>u, <1>t DEF Rounds, Records, Hosted
  <1>6. ASSUME NEW w \in Workers, StartReview(w) PROVE Rounds(hosting)'
    <2>1. hosting' = hosting \/ hosting' = [copy[w] EXCEPT !.phase = "Reviewing", !.run = @ + 1]
      BY <1>6 DEF StartReview, Saves
    <2>2. copy[w].run = copy[w].count
      BY <1>6, <1>k DEF StartReview, At, Copied, Stands, Rounds
    <2>3. QED
      BY <2>1, <2>2, <1>u, <1>r DEF Rounds, Records
  <1>7. ASSUME NEW w \in Workers, ReviewDone(w) PROVE Rounds(hosting)'
    <2>1. hosting' = hosting \/ hosting' = [copy[w] EXCEPT !.phase = "Collecting"]
      BY <1>7 DEF ReviewDone, Saves
    <2>2. QED
      BY <1>7, <2>1, <1>u, <1>k, <1>r DEF ReviewDone, At, Copied, Stands, Rounds, Records
  <1>8. ASSUME NEW w \in Workers, Submitted(w) PROVE Rounds(hosting)'
    <2>1. hosting' = hosting \/ hosting' = [copy[w] EXCEPT !.phase = "Waiting", !.count = @ + 1]
      BY <1>8 DEF Submitted, Saves
    <2>2. QED
      BY <1>8, <2>1, <1>u, <1>k, <1>r DEF Submitted, At, Copied, Stands, Rounds, Records
  <1>9. ASSUME NEW b \in Browsers, BrowserStep(b) PROVE Rounds(hosting)'
    BY <1>9, <1>u, BrowserFrame DEF Hosted
  <1>10. ASSUME NEW c \in Clients, DaemonStep(c) PROVE Rounds(hosting)'
    BY <1>10, <1>u, DaemonFrame DEF recordVars
  <1>11. ASSUME NEW s \in Submitters, (s \in Submissions /\ SubmitBegin(s)) \/ SubmitStep(s)
        PROVE  Rounds(hosting)'
    <2>1. s \notin Workers
      BY <1>11, HostingAssumption
    <2>2. QED
      BY <1>11, <1>u, <2>1, Locality DEF Local
  <1>12. ASSUME NEW w \in Workers, RecoverSkips(w) PROVE Rounds(hosting)'
    BY <1>12, <1>u DEF RecoverSkips, recordVars
  <1>13. ASSUME NEW w \in Workers, RecoverRefuses(w) PROVE Rounds(hosting)'
    BY <1>13, <1>u DEF RecoverRefuses, recordVars
  <1>14. ASSUME NEW w \in Workers, Recovers(w) PROVE Rounds(hosting)'
    BY <1>14, <1>u DEF Recovers, recordVars
  <1>15. ASSUME NEW w \in Workers, CollectAbandoned(w) PROVE Rounds(hosting)'
    BY <1>15, <1>u DEF CollectAbandoned, recordVars
  <1>16. ASSUME NEW w \in Workers, CollectUnusable(w) PROVE Rounds(hosting)'
    BY <1>16, <1>u DEF CollectUnusable, recordVars
  <1>17. ASSUME NEW w \in Workers, Enabled(w) PROVE Rounds(hosting)'
    BY <1>17, <1>u DEF Enabled, recordVars
  <1>18. ASSUME NEW w \in Workers, Recovered(w) PROVE Rounds(hosting)'
    BY <1>18, <1>u DEF Recovered, recordVars
  <1>19. ASSUME NEW w \in Workers, RestoreFails(w) PROVE Rounds(hosting)'
    BY <1>19, <1>u DEF RestoreFails, recordVars
  <1>20. ASSUME NEW w \in Workers, FirstReview(w) PROVE Rounds(hosting)'
    BY <1>20, <1>u DEF FirstReview, recordVars
  <1>21. ASSUME NEW w \in Workers, TakeEvent(w) PROVE Rounds(hosting)'
    BY <1>21, <1>u DEF TakeEvent, recordVars
  <1>22. ASSUME NEW w \in Workers, Dispatched(w) PROVE Rounds(hosting)'
    BY <1>22, <1>u DEF Dispatched, recordVars
  <1>23. ASSUME NEW w \in Workers, DispatchFails(w) PROVE Rounds(hosting)'
    BY <1>23, <1>u DEF DispatchFails, recordVars
  <1>24. ASSUME NEW w \in Workers, ReviewFails(w) PROVE Rounds(hosting)'
    BY <1>24, <1>u DEF ReviewFails, recordVars
  <1>25. ASSUME NEW w \in Workers, CollectBegin(w) PROVE Rounds(hosting)'
    BY <1>25, <1>u DEF CollectBegin, recordVars
  <1>26. ASSUME NEW w \in Workers, Pasted(w) PROVE Rounds(hosting)'
    BY <1>26, <1>u DEF Pasted, recordVars
  <1>27. ASSUME NEW w \in Workers, WorkerEntered(w) PROVE Rounds(hosting)'
    BY <1>27, <1>u DEF WorkerEntered, recordVars
  <1>28. ASSUME NEW w \in Workers, WorkerSubmitFails(w) PROVE Rounds(hosting)'
    BY <1>28, <1>u DEF WorkerSubmitFails, recordVars
  <1>29. ASSUME NEW w \in Workers, LoopEnds(w) PROVE Rounds(hosting)'
    BY <1>29, <1>u DEF LoopEnds, recordVars
  <1>30. ASSUME NEW w \in Workers, NoticeLost(w) PROVE Rounds(hosting)'
    BY <1>30, <1>u DEF NoticeLost, recordVars
  <1>31. ASSUME NEW w \in Workers, AgentChanged(w) PROVE Rounds(hosting)'
    BY <1>31, <1>u DEF AgentChanged, recordVars
  <1>32. CASE UNCHANGED vars
    BY <1>32, <1>u DEF vars, recordVars
  <1>33. ASSUME (\E h \in Hostings : ReviewEnds(h)) \/ TurnEnds \/ Crash PROVE Rounds(hosting)'
    BY <1>33, <1>u DEF ReviewEnds, TurnEnds, Crash, recordVars
  <1> QED
    BY <1>1, <1>2, <1>3, <1>4, <1>5, <1>6, <1>7, <1>8, <1>12, <1>13, <1>14, <1>15,
       <1>16, <1>17, <1>18, <1>19, <1>20, <1>21, <1>22, <1>23, <1>24, <1>25, <1>26,
       <1>27, <1>28, <1>29, <1>30, <1>31, <1>9, <1>10, <1>11, <1>32, <1>33
    DEF Next, GateStep, WorkerStep, Submitters

\* Both halves of CopyInv together.
LEMMA CopyInvStep == TypeOK /\ BootInv /\ LockInv /\ CopyInv /\ [Next]_vars => CopyInv'
  BY CopyStep, RoundsStep DEF CopyInv

\* Nobody closes the connection on which it is claiming or typing.
LEMMA KeepStep == TypeOK /\ BootInv /\ CopyInv /\ KeepInv /\ [Next]_vars => KeepInv'
  <1> SUFFICES ASSUME TypeOK, BootInv, CopyInv, KeepInv, [Next]_vars PROVE KeepInv'
    OBVIOUS
  <1>c. /\ Browsers \subseteq Clients /\ Submitters \subseteq Clients /\ Workers \subseteq Clients
        /\ Submissions \subseteq Submitters /\ Creation \in Submitters /\ Creation \notin
             Submissions
        /\ \A b \in Browsers : b \notin Submitters /\ b \notin Workers
        /\ \A s \in Submitters : s \notin Workers
        /\ \A c \in Clients : c # None
    BY HostingAssumption DEF Clients, Submitters
  <1>f. \A op \in {"claim", "force", "paste", "enter", "close"} :
          Frame(op) \in Frames /\ Frame(op).op = op
    BY FrameType DEF Ops, Frame
  <1>t. /\ pc \in [Workers \cup Submitters -> Labels] /\ copy \in [Workers -> Records]
        /\ events \in [Workers -> Nat] /\ pipe \in Pipes /\ inbox \in Boxes
        /\ \A w \in Workers : copy[w].id = w[1]
        /\ hosting = None \/ hosting \in Records
    BY DEF TypeOK, WorkType, DaemonType, RecordType
  <1>h. ASSUME NEW h \in Hostings
        PROVE  /\ Worker(h) \in Workers /\ Worker(h)[1] = h /\ Worker(h)[2] = boot
               /\ Fresh(h).id = h /\ Fresh(h) # None
    BY FreshType DEF Worker, Workers, TypeOK, RecordType
  <1>l. {"off", "failing", "unsaved"} \subseteq Labels
    BY DEF Labels
  <1>e. ASSUME NEW w \in Workers, NEW l \in {"off", "failing", "unsaved"}, Returns(w, l)
        PROVE  Quits(w, l)
    BY <1>e, <1>l, Quitting
  <1>o. ASSUME NEW w \in Workers, GateStep(w) \/ WorkerStep(w) \/ AgentChanged(w)
        PROVE  Local(w) /\ ForcedClaim(w)
    BY <1>o, Locality
  <1>p. ASSUME NEW s \in Submitters, (s \in Submissions /\ SubmitBegin(s)) \/ SubmitStep(s)
        PROVE  Local(s) /\ ForcedClaim(s)
    BY <1>p, Locality
  <1>g. ASSUME NEW h \in Hostings, Enable(h)
        PROVE  Local(Worker(h)) /\ ForcedClaim(Worker(h))
    BY <1>g, Locality
  <1>k. \A c \in Workers \cup Submitters : Keeps(c)
    BY DEF KeepInv
  <1>q. ASSUME NEW w \in Workers, NEW l \in {"off", "failing", "unsaved"}, Quits(w, l)
        PROVE  Keeps(w)'
    BY <1>q DEF Quits, Keeps, Holding, Running
  <1>1. ASSUME NEW c \in Clients, DaemonStep(c) PROVE KeepInv'
    <2>1. ASSUME NEW d \in Workers \cup Submitters PROVE Keeps(d)'
      <3>1. pc' = pc
        BY <1>1, DaemonFrame DEF workVars
      <3>2. PICK k \in {0, 1} : \A i \in DOMAIN pipe'[d] :
              i \in Nat /\ i + k \in DOMAIN pipe[d] /\ pipe'[d][i] = pipe[d][i + k]
        BY <1>1, <1>c, <2>1, DaemonFrame
      <3>3. QED
        BY <3>1, <3>2, <2>1, <1>k DEF Keeps
    <2>2. QED
      BY <2>1 DEF KeepInv
  <1>2. ASSUME NEW b \in Browsers, BrowserStep(b) PROVE KeepInv'
    BY <1>2, <1>k, BrowserFrame, <1>c DEF workVars, KeepInv, Keeps
  <1>3. ASSUME NEW s \in Submissions, SubmitBegin(s) PROVE Keeps(s)'
    BY <1>3, <1>t, <1>c, <1>k, <1>f
    DEF SubmitBegin, At, Goto, Hosted, recordVars, daemonVars, Keeps, Holding,
        Running
  <1>4. ASSUME NEW s \in Submitters, SubmitClaims(s) PROVE Keeps(s)'
    <2>1. /\ \A d \in Clients : d # s => pipe'[d] = pipe[d]
          /\ \A i \in DOMAIN pipe'[s] : i = 1 /\ pipe'[s][i] = Frame("claim")
          /\ Len(pipe'[s]) = 1
      BY <1>4, <1>c, <1>f, Attaching
      DEF SubmitClaims, TypeOK, Ops
    <2>2. QED
      BY <1>4, <1>t, <1>c, <1>k, <1>f, <2>1
      DEF SubmitClaims, At, Goto, recordVars, lockVars, Keeps, Holding, Running
  <1>5. ASSUME NEW s \in Submitters, Claimed(s) PROVE Keeps(s)'
    <2>1. /\ \A d \in Clients : d # s => pipe'[d] = pipe[d]
          /\ \A i \in DOMAIN pipe'[s] :
               \/ i \in DOMAIN pipe[s] /\ pipe'[s][i] = pipe[s][i]
               \/ i = Len(pipe[s]) + 1 /\ pipe'[s][i] = Frame("paste")
               \/ pc'[s] = "finishing"
          /\ Len(pipe'[s]) <= Len(pipe[s]) + 1
      BY <1>5, <1>c, <1>f, SendsTo, <1>t
      DEF Claimed, Closes, Goto
    <2>2. QED
      BY <1>5, <1>t, <1>c, <1>k, <1>f, <2>1
      DEF Claimed, At, Goto, recordVars, lockVars, Keeps, Holding, Running
  <1>6. ASSUME NEW s \in Submitters, Pasted(s) PROVE Keeps(s)'
    <2>1. /\ \A d \in Clients : d # s => pipe'[d] = pipe[d]
          /\ \A i \in DOMAIN pipe'[s] :
               \/ i \in DOMAIN pipe[s] /\ pipe'[s][i] = pipe[s][i]
               \/ i = Len(pipe[s]) + 1 /\ pipe'[s][i] = Frame("enter")
          /\ Len(pipe'[s]) <= Len(pipe[s]) + 1
      BY <1>6, <1>c, <1>f, SendsTo
      DEF Pasted
    <2>2. QED
      BY <1>6, <1>t, <1>c, <1>k, <1>f, <2>1
      DEF Pasted, At, Goto, recordVars, lockVars, Keeps, Holding, Running
  <1>7. ASSUME NEW s \in Submitters, Entered(s) PROVE Keeps(s)'
    <2>1. /\ \A d \in Clients : d # s => pipe'[d] = pipe[d]
          /\ \A i \in DOMAIN pipe'[s] :
               \/ i \in DOMAIN pipe[s] /\ pipe'[s][i] = pipe[s][i]
               \/ i = Len(pipe[s]) + 1 /\ pipe'[s][i] = Frame("close")
          /\ Len(pipe'[s]) <= Len(pipe[s]) + 1
      BY <1>7, <1>c, <1>f, SendsTo
      DEF Entered, Closes
    <2>2. QED
      BY <1>7, <1>t, <1>c, <1>k, <1>f, <2>1
      DEF Entered, At, Goto, recordVars, lockVars, Keeps, Holding, Running
  <1>8. ASSUME NEW s \in Submitters, Finished(s) PROVE Keeps(s)'
    BY <1>8, <1>t, <1>c, <1>k, <1>f
    DEF Finished, At, FreeGate, Goto, SubmitEnds, Keeps, Holding, Running
  <1>9. ASSUME NEW s \in Submitters, SubmitFails(s) PROVE Keeps(s)'
    <2>1. /\ \A d \in Clients : d # s => pipe'[d] = pipe[d]
          /\ \A i \in DOMAIN pipe'[s] :
               \/ i \in DOMAIN pipe[s] /\ pipe'[s][i] = pipe[s][i]
               \/ i = Len(pipe[s]) + 1 /\ pipe'[s][i] = Frame("close")
      BY <1>9, <1>c, DropsAll DEF SubmitFails
    <2>2. QED
      BY <1>9, <1>t, <1>c, <1>k, <1>f, <2>1
      DEF SubmitFails, At, FreeGate, Goto, SubmitEnds, Keeps, Holding, Running
  <1>10. ASSUME NEW s \in Submitters, (s \in Submissions /\ SubmitBegin(s)) \/ SubmitStep(s)
        PROVE  KeepInv'
    <2>1. Keeps(s)'
      BY <1>10, <1>3, <1>4, <1>5, <1>6, <1>7, <1>8, <1>9 DEF SubmitStep
    <2>2. ASSUME NEW d \in Workers \cup Submitters, d # s PROVE Keeps(d)'
      BY <1>10, <1>p, <1>k, <1>c, <2>2 DEF Local, Keeps
    <2>3. QED
      BY <2>1, <2>2 DEF KeepInv
  <1>11. ASSUME NEW h \in Hostings, Enable(h) PROVE KeepInv'
    <2>1. PICK w \in Workers : w = Worker(h)
      BY <1>h
    <2>2. Attaches(w, "force")
      BY <1>11, <2>1 DEF Enable
    <2>3. Keeps(w)'
      BY <2>2, <1>c, <1>f, Attaching DEF Keeps, TypeOK, Ops
    <2>4. ASSUME NEW d \in Workers \cup Submitters, d # w PROVE Keeps(d)'
      BY <1>11, <1>g, <1>k, <1>c, <2>1, <2>4 DEF Local, Keeps
    <2>5. QED
      BY <2>3, <2>4 DEF KeepInv
  <1>12. ASSUME NEW w \in Workers, RecoverSkips(w) PROVE Keeps(w)'
    BY <1>12, <1>t, <1>c, <1>k, <1>f
    DEF RecoverSkips, At, Goto, Hosted, Live, Owns, Stopped, recordVars, lockVars,
        daemonVars, Keeps, Holding, Running
  <1>13. ASSUME NEW w \in Workers, RecoverRefuses(w) PROVE Keeps(w)'
    BY <1>13, <1>t, <1>c, <1>k, <1>f
    DEF RecoverRefuses, At, Goto, Hosted, Live, Owns, Stopped, recordVars, lockVars,
        daemonVars, Keeps, Holding, Running
  <1>14. ASSUME NEW w \in Workers, Recovers(w) PROVE Keeps(w)'
    <2>1. /\ \A d \in Clients : d # w => pipe'[d] = pipe[d]
          /\ \A i \in DOMAIN pipe'[w] : i = 1 /\ pipe'[w][i] = Frame("force")
          /\ Len(pipe'[w]) = 1
      BY <1>14, <1>c, <1>f, Attaching
      DEF Recovers, TypeOK, Ops
    <2>2. QED
      BY <1>14, <1>t, <1>c, <1>k, <1>f, <2>1
      DEF Recovers, At, Goto, Hosted, Owns, Stopped, recordVars, Keeps, Holding,
          Running
  <1>15. ASSUME NEW w \in Workers, CollectAbandoned(w) PROVE Keeps(w)'
    BY <1>15, <1>t, <1>c, <1>k, <1>f
    DEF CollectAbandoned, At, Collects, Goto, Hosted, Owns, recordVars, lockVars,
        daemonVars, Keeps, Holding, Running
  <1>16. ASSUME NEW w \in Workers, CollectEnds(w) PROVE Keeps(w)'
    <2>1. CASE Errs(w)
      BY <1>16, <2>1, <1>e, <1>q DEF CollectEnds, At, Collects, Errs
    <2>2. CASE /\ Owns(w) /\ hosting' = [copy[w] EXCEPT !.phase = Outcome(w)]
               /\ copy' = [copy EXCEPT ![w] = [copy[w] EXCEPT !.phase = Outcome(w)]]
               /\ Goto(w, "loop") /\ UNCHANGED <<pipe, inbox, events>>
      BY <2>2, <1>16, <1>t, <1>c, <1>k, <1>f
      DEF CollectEnds, At, AtLimit, Collects, Fresh, Goto, Hosted, Outcome, Owns,
          lockVars, Keeps, Holding, Running
    <2>3. QED
      BY <1>16, <2>1, <2>2 DEF CollectEnds, Saves
  <1>17. ASSUME NEW w \in Workers, CollectUnusable(w) PROVE Keeps(w)'
    BY <1>17, <1>e, <1>q
    DEF CollectUnusable, At, Collects, Errs
  <1>18. ASSUME NEW w \in Workers, SubmitConclusion(w) PROVE Keeps(w)'
    <2>1. CASE Errs(w)
      BY <1>18, <2>1, <1>e, <1>q DEF SubmitConclusion, At, Collects, Errs
    <2>2. CASE /\ hosting' = [copy[w] EXCEPT !.phase = "Submitting"]
               /\ copy' = [copy EXCEPT ![w] = hosting'] /\ gate' = w
               /\ events' = [events EXCEPT ![w] = 0]
               /\ Sends(w, [op |-> "paste", text |-> <<w[1], copy[w].run>>])
               /\ Goto(w, "pasting") /\ UNCHANGED inbox
      <3>1. [op |-> "paste", text |-> <<w[1], copy[w].run>>] \in Frames
        BY <1>t DEF Frames, Ops, Records, Workers
      <3>2. /\ \A d \in Clients : d # w => pipe'[d] = pipe[d]
            /\ \A i \in DOMAIN pipe'[w] :
                 \/ i \in DOMAIN pipe[w] /\ pipe'[w][i] = pipe[w][i]
                 \/ i = Len(pipe[w]) + 1 /\ pipe'[w][i] = [op |-> "paste", text |->
                      <<w[1], copy[w].run>>]
            /\ Len(pipe'[w]) <= Len(pipe[w]) + 1
        BY <2>2, <3>1, <1>c, SendsTo
      <3>3. pc[w] = "collecting" /\ pc'[w] = "pasting"
        BY <1>18, <2>2, <1>t DEF SubmitConclusion, Collects, At, Goto
      <3>4. QED
        BY <3>2, <3>3, <1>k
        DEF Keeps, Holding, Running
    <2>3. QED
      BY <1>18, <2>1, <2>2 DEF SubmitConclusion
  <1>19. ASSUME NEW w \in Workers, Fail(w) PROVE Keeps(w)'
    BY <1>19, <1>t, <1>c, <1>k, <1>f
    DEF Fail, At, Goto, Hosted, Live, Owns, Stopped, lockVars, daemonVars, Keeps,
        Holding, Running
  <1>20. ASSUME NEW w \in Workers, Enabled(w) PROVE Keeps(w)'
    BY <1>20, <1>t, <1>c, <1>k, <1>f
    DEF Enabled, At, FreeGate, Goto, recordVars, Keeps, Holding, Running
  <1>21. ASSUME NEW w \in Workers, EnableFails(w) PROVE Keeps(w)'
    BY <1>21, <1>e, <1>q DEF EnableFails, At
  <1>22. ASSUME NEW w \in Workers, Recovered(w) PROVE Keeps(w)'
    BY <1>22, <1>t, <1>c, <1>k, <1>f
    DEF Recovered, At, FreeGate, Goto, recordVars, Keeps, Holding, Running
  <1>23. ASSUME NEW w \in Workers, RestoreFails(w) PROVE Keeps(w)'
    BY <1>23, <1>e, <1>q
    DEF RestoreFails, At, Errs
  <1>24. ASSUME NEW w \in Workers, FirstReview(w) PROVE Keeps(w)'
    BY <1>24, <1>t, <1>c, <1>k, <1>f
    DEF FirstReview, At, Goto, Hosted, Owns, recordVars, lockVars, daemonVars,
        Keeps, Holding, Running
  <1>25. ASSUME NEW w \in Workers, TakeEvent(w) PROVE Keeps(w)'
    BY <1>25, <1>t, <1>c, <1>k, <1>f
    DEF TakeEvent, At, Goto, recordVars, lockVars, daemonVars, Keeps, Holding,
        Running
  <1>26. ASSUME NEW w \in Workers, StartReview(w) PROVE Keeps(w)'
    <2>1. CASE Errs(w)
      BY <1>26, <2>1, <1>e, <1>q DEF StartReview, At, Collects, Errs
    <2>2. CASE /\ Owns(w) /\ hosting' = [copy[w] EXCEPT !.phase = "Reviewing", !.run = @ + 1]
               /\ copy' = [copy EXCEPT ![w] = [copy[w] EXCEPT !.phase = "Reviewing", !.run
                    = @ + 1]]
               /\ Goto(w, "dispatching") /\ UNCHANGED <<pipe, inbox, events>>
      BY <2>2, <1>26, <1>t, <1>c, <1>k, <1>f
      DEF StartReview, At, Fresh, Goto, Hosted, Owns, lockVars, Keeps, Holding,
          Running
    <2>3. QED
      BY <1>26, <2>1, <2>2 DEF StartReview, Saves
  <1>27. ASSUME NEW w \in Workers, Dispatched(w) PROVE Keeps(w)'
    BY <1>27, <1>t, <1>c, <1>k, <1>f
    DEF Dispatched, At, Goto, recordVars, lockVars, daemonVars, Keeps, Holding,
        Running
  <1>28. ASSUME NEW w \in Workers, DispatchFails(w) PROVE Keeps(w)'
    BY <1>28, <1>e, <1>q
    DEF DispatchFails, At, Errs
  <1>29. ASSUME NEW w \in Workers, ReviewDone(w) PROVE Keeps(w)'
    <2>1. CASE Errs(w)
      BY <1>29, <2>1, <1>e, <1>q DEF ReviewDone, At, Collects, Errs
    <2>2. CASE /\ Owns(w) /\ hosting' = [copy[w] EXCEPT !.phase = "Collecting"]
               /\ copy' = [copy EXCEPT ![w] = [copy[w] EXCEPT !.phase = "Collecting"]]
               /\ Goto(w, "loop") /\ UNCHANGED <<pipe, inbox, events>>
      BY <2>2, <1>29, <1>t, <1>c, <1>k, <1>f
      DEF ReviewDone, At, Fresh, Goto, Hosted, Outcomes, Owns, lockVars, Keeps,
          Holding, Running
    <2>3. QED
      BY <1>29, <2>1, <2>2 DEF ReviewDone, Saves
  <1>30. ASSUME NEW w \in Workers, ReviewFails(w) PROVE Keeps(w)'
    BY <1>30, <1>e, <1>q
    DEF ReviewFails, At, Errs
  <1>31. ASSUME NEW w \in Workers, CollectBegin(w) PROVE Keeps(w)'
    BY <1>31, <1>t, <1>c, <1>k, <1>f
    DEF CollectBegin, At, Goto, recordVars, lockVars, daemonVars, Keeps, Holding,
        Running
  <1>32. ASSUME NEW w \in Workers, Pasted(w) PROVE Keeps(w)'
    <2>1. /\ \A d \in Clients : d # w => pipe'[d] = pipe[d]
          /\ \A i \in DOMAIN pipe'[w] :
               \/ i \in DOMAIN pipe[w] /\ pipe'[w][i] = pipe[w][i]
               \/ i = Len(pipe[w]) + 1 /\ pipe'[w][i] = Frame("enter")
          /\ Len(pipe'[w]) <= Len(pipe[w]) + 1
      BY <1>32, <1>c, <1>f, SendsTo
      DEF Pasted
    <2>2. QED
      BY <1>32, <1>t, <1>c, <1>k, <1>f, <2>1
      DEF Pasted, At, Goto, recordVars, lockVars, Keeps, Holding, Running
  <1>33. ASSUME NEW w \in Workers, WorkerEntered(w) PROVE Keeps(w)'
    BY <1>33, <1>t, <1>c, <1>k, <1>f
    DEF WorkerEntered, At, Goto, recordVars, lockVars, Keeps, Holding, Running
  <1>34. ASSUME NEW w \in Workers, Submitted(w) PROVE Keeps(w)'
    <2>1. CASE Errs(w)
      BY <1>34, <2>1, <1>e, <1>q DEF Submitted, At, Collects, Errs
    <2>2. CASE /\ Owns(w) /\ hosting' = [copy[w] EXCEPT !.phase = "Waiting", !.count = @ + 1]
               /\ copy' = [copy EXCEPT ![w] = [copy[w] EXCEPT !.phase = "Waiting", !.count
                    = @ + 1]]
               /\ Goto(w, "loop") /\ UNCHANGED <<pipe, inbox, events>>
      BY <2>2, <1>34, <1>t, <1>c, <1>k, <1>f
      DEF Submitted, At, FreeGate, Fresh, Goto, Hosted, Owns, Keeps, Holding,
          Running
    <2>3. QED
      BY <1>34, <2>1, <2>2 DEF Submitted, Saves
  <1>35. ASSUME NEW w \in Workers, WorkerSubmitFails(w) PROVE Keeps(w)'
    BY <1>35, <1>e, <1>q
    DEF WorkerSubmitFails, Errs
  <1>36. ASSUME NEW w \in Workers, LoopEnds(w) PROVE Keeps(w)'
    BY <1>36, <1>e, <1>q DEF LoopEnds
  <1>37. ASSUME NEW w \in Workers, NoticeLost(w) PROVE Keeps(w)'
    BY <1>37, <1>e, <1>q
    DEF NoticeLost, At, Errs
  <1>38. ASSUME NEW w \in Workers, AgentChanged(w) PROVE Keeps(w)'
    <2>1. CASE Errs(w)
      BY <1>38, <2>1, <1>e, <1>q DEF AgentChanged, At, Errs
    <2>2. CASE At(w, "recover") /\ Goto(w, "failing") /\ UNCHANGED <<copy, events, pipe, inbox>>
      BY <2>2, <1>38, <1>t, <1>c, <1>k, <1>f
      DEF AgentChanged, At, Fresh, Goto, Hosted, Live, Owns, Stopped, recordVars,
          lockVars, Keeps, Holding, Running
    <2>3. QED
      BY <1>38, <2>1, <2>2 DEF AgentChanged
  <1>39. ASSUME NEW w \in Workers, GateStep(w) \/ WorkerStep(w) \/ AgentChanged(w)
        PROVE  KeepInv'
    <2>1. Keeps(w)'
      BY <1>39, <1>12, <1>13, <1>14, <1>15, <1>16, <1>17, <1>18, <1>19, <1>20, <1>21,
           <1>22, <1>23, <1>24, <1>25, <1>26, <1>27, <1>28, <1>29, <1>30, <1>31, <1>32,
           <1>33, <1>34, <1>35, <1>36, <1>37, <1>38 DEF GateStep, WorkerStep
    <2>2. ASSUME NEW d \in Workers \cup Submitters, d # w PROVE Keeps(d)'
      BY <1>39, <1>o, <1>k, <1>c, <2>2 DEF Local, Keeps
    <2>3. QED
      BY <2>1, <2>2 DEF KeepInv
  <1>40. ASSUME NEW h \in Hostings, ReviewEnds(h) PROVE KeepInv'
    BY <1>40, <1>k DEF ReviewEnds, daemonVars, KeepInv, Keeps
  <1>41. ASSUME TurnEnds PROVE KeepInv'
    BY <1>41, <1>k DEF TurnEnds, daemonVars, KeepInv, Keeps
  <1>42. ASSUME Crash PROVE KeepInv'
    BY <1>42, <1>c DEF Crash, KeepInv, Keeps, Holding, Running
  <1>43. CASE UNCHANGED vars
    BY <1>43, <1>k DEF vars, daemonVars, workVars, KeepInv, Keeps
  <1> QED
    BY <1>1, <1>2, <1>10, <1>11, <1>39, <1>40, <1>41, <1>42, <1>43, <1>c DEF Next

-----------------------------------------------------------------------------
(* Control *)

\* A claim is forced under the gate, and by the owner of the hosting or when there is none.
LEMMA QuietStep == TypeOK /\ BootInv /\ LockInv /\ CopyInv /\ QuietInv /\ [Next]_vars => QuietInv'
  <1> SUFFICES ASSUME TypeOK, BootInv, LockInv, CopyInv, QuietInv, [Next]_vars PROVE QuietInv'
    OBVIOUS
  <1>c. /\ Browsers \subseteq Clients /\ Submitters \subseteq Clients /\ Workers \subseteq Clients
        /\ Submissions \subseteq Submitters /\ Creation \in Submitters /\ Creation \notin
             Submissions
        /\ \A b \in Browsers : b \notin Submitters /\ b \notin Workers
        /\ \A s \in Submitters : s \notin Workers
        /\ \A c \in Clients : c # None
    BY HostingAssumption DEF Clients, Submitters
  <1>t. /\ pc \in [Workers \cup Submitters -> Labels] /\ copy \in [Workers -> Records]
        /\ events \in [Workers -> Nat] /\ pipe \in Pipes /\ inbox \in Boxes
        /\ \A w \in Workers : copy[w].id = w[1]
        /\ hosting = None \/ hosting \in Records
    BY DEF TypeOK, WorkType, DaemonType, RecordType
  <1>h. ASSUME NEW h \in Hostings
        PROVE  /\ Worker(h) \in Workers /\ Worker(h)[1] = h /\ Worker(h)[2] = boot
               /\ Fresh(h).id = h /\ Fresh(h) # None
    BY FreshType DEF Worker, Workers, TypeOK, RecordType
  <1>l. {"off", "failing", "unsaved"} \subseteq Labels
    BY DEF Labels
  <1>e. ASSUME NEW w \in Workers, NEW l \in {"off", "failing", "unsaved"}, Returns(w, l)
        PROVE  Quits(w, l)
    BY <1>e, <1>l, Quitting
  <1>o. ASSUME NEW w \in Workers, GateStep(w) \/ WorkerStep(w) \/ AgentChanged(w)
        PROVE  Local(w) /\ ForcedClaim(w)
    BY <1>o, Locality
  <1>p. ASSUME NEW s \in Submitters, (s \in Submissions /\ SubmitBegin(s)) \/ SubmitStep(s)
        PROVE  Local(s) /\ ForcedClaim(s)
    BY <1>p, Locality
  <1>g. ASSUME NEW h \in Hostings, Enable(h)
        PROVE  Local(Worker(h)) /\ ForcedClaim(Worker(h))
    BY <1>g, Locality
  <1>s. \A s \in Submitters : pc[s] \in Submitting \ {"claim"} => Quiet(s)
    BY DEF QuietInv
  <1>k. \A w \in Workers : pc[w] \in Running /\ Owns(w) => Quiet(w)
    BY DEF QuietInv
  <1> DEFINE Excepted(c) == \A d \in Clients : d # c /\ ForceUnread(d) => <<c, d>> \in late'
  <1>y. ASSUME NEW c \in Clients, NEW op \in {"claim", "force"}, Attaches(c, op) PROVE Excepted(c)
    BY <1>y, Attaching DEF TypeOK, Ops
  <1>z. ASSUME NEW c \in Clients, NEW d \in Clients, Local(d), Quiet(c) PROVE Excepted(c)
    BY <1>z DEF Local, Quiet
  <1>m. \A s \in Submitters : pc[s] \in Submitting \ {"claim"} =>
          ~(gate = None /\ (Hosted \/ phase = "Ready"))
    BY <1>c DEF LockInv, SubmitLock, Hosted
  <1>q. ASSUME NEW w \in Workers, NEW l \in {"off", "failing", "unsaved"}, Quits(w, l)
        PROVE  pc'[w] \in Running /\ Owns(w)' => Quiet(w)
    BY <1>q DEF Quits, Running
  <1>1. ASSUME NEW c \in Clients, DaemonStep(c) PROVE QuietInv'
    <2>1. ASSUME NEW e \in Clients, Quiet(e) PROVE Quiet(e)'
      <3>1. SUFFICES ASSUME NEW d \in Clients, d # e, ForceUnread(d)'
                     PROVE  <<e, d>> \in late'
        BY DEF Quiet
      <3>2. PICK k \in {0, 1} : \A j \in DOMAIN pipe'[d] :
              j \in Nat /\ j + k \in DOMAIN pipe[d] /\ pipe'[d][j] = pipe[d][j + k]
        BY <1>1, DaemonFrame
      <3>3. ForceUnread(d) /\ \A p \in late : ForceUnread(p[2])' => p \in late'
        BY <1>1, <3>1, <3>2, DaemonFrame DEF ForceUnread
      <3>4. <<e, d>> \in late /\ <<e, d>>[2] = d
        BY <2>1, <3>1, <3>3 DEF Quiet
      <3>5. QED
        BY <3>1, <3>3, <3>4
    <2>2. QED
      BY <1>1, <2>1, <1>s, <1>k, <1>c, DaemonFrame DEF recordVars, workVars, QuietInv, Owns, Hosted
  <1>2. ASSUME NEW b \in Browsers, BrowserStep(b) PROVE QuietInv'
    <2>1. /\ \A d \in Clients : d # b => pipe'[d] = pipe[d]
          /\ pc' = pc /\ (hosting' = hosting \/ (gate = None /\ hosting' = None))
          /\ (\E i \in DOMAIN pipe'[b] : pipe'[b][i].op = "force") =>
               \/ \E i \in DOMAIN pipe[b] : pipe[b][i].op = "force"
               \/ gate = None /\ hosting' = None /\ phase = "Ready"
          /\ late' = late
      BY <1>2, BrowserFrame DEF workVars
    <2>2. ASSUME NEW s \in Submitters, pc'[s] \in Submitting \ {"claim"} PROVE Quiet(s)'
      BY <2>1, <2>2, <1>s, <1>m, <1>c DEF Quiet, ForceUnread
    <2>3. ASSUME NEW v \in Workers, pc'[v] \in Running, Owns(v)' PROVE Quiet(v)'
      BY <2>1, <2>3, <1>k, <1>c DEF Quiet, ForceUnread, Owns, Hosted
    <2>4. QED
      BY <2>2, <2>3 DEF QuietInv
  <1>3. ASSUME NEW s \in Submissions, SubmitBegin(s) PROVE pc'[s] \in Submitting \
         {"claim"} => Quiet(s)
    BY <1>3, <1>t, <1>c, <1>s
    DEF SubmitBegin, At, Goto, Hosted, recordVars, daemonVars, Submitting
  <1>4. ASSUME NEW s \in Submitters, SubmitClaims(s) PROVE Excepted(s)
    BY <1>4, <1>c, <1>y DEF SubmitClaims
  <1>5. ASSUME NEW s \in Submitters, Claimed(s) PROVE pc'[s] \in Submitting \ {"claim"} =>
         Quiet(s)
    BY <1>5, <1>t, <1>c, <1>s
    DEF Claimed, At, Goto, recordVars, lockVars, Submitting
  <1>6. ASSUME NEW s \in Submitters, Pasted(s) PROVE pc'[s] \in Submitting \ {"claim"} =>
         Quiet(s)
    BY <1>6, <1>t, <1>c, <1>s
    DEF Pasted, At, Goto, recordVars, lockVars, Submitting
  <1>7. ASSUME NEW s \in Submitters, Entered(s) PROVE pc'[s] \in Submitting \ {"claim"} =>
         Quiet(s)
    BY <1>7, <1>t, <1>c, <1>s
    DEF Entered, At, Goto, recordVars, lockVars, Submitting
  <1>8. ASSUME NEW s \in Submitters, Finished(s) PROVE pc'[s] \in Submitting \ {"claim"}
         => Quiet(s)
    BY <1>8, <1>t, <1>c, <1>s
    DEF Finished, At, FreeGate, Goto, SubmitEnds, Submitting
  <1>9. ASSUME NEW s \in Submitters, SubmitFails(s) PROVE pc'[s] \in Submitting \
         {"claim"} => Quiet(s)
    BY <1>9, <1>t, <1>c, <1>s
    DEF SubmitFails, At, FreeGate, Goto, SubmitEnds, Submitting
  <1>10. ASSUME NEW s \in Submitters, (s \in Submissions /\ SubmitBegin(s)) \/ SubmitStep(s)
        PROVE  QuietInv'
    <2>1. pc'[s] \in Submitting \ {"claim"} => Excepted(s)
      BY <1>10, <1>p, <1>z, <1>c, <1>3, <1>4, <1>5, <1>6, <1>7, <1>8, <1>9 DEF SubmitStep
    <2>2. Local(s) /\ ForcedClaim(s) /\ s \in Clients /\ s \notin Workers
      BY <1>10, <1>p, <1>c
    <2>3. ASSUME NEW c \in Clients, Quiet(c) PROVE Quiet(c)'
      BY <2>2, <2>3 DEF Local, ForcedClaim, Quiet, ForceUnread
    <2>4. ASSUME NEW d \in Submitters, pc'[d] \in Submitting \ {"claim"} PROVE Quiet(d)'
      <3>1. CASE d = s
        BY <2>1, <2>2, <2>4, <3>1 DEF Local, Quiet, ForceUnread
      <3>2. CASE d # s
        BY <2>2, <2>3, <2>4, <3>2, <1>s, <1>c DEF Local
      <3>3. QED
        BY <3>1, <3>2
    <2>5. ASSUME NEW v \in Workers, pc'[v] \in Running, Owns(v)' PROVE Quiet(v)'
      BY <2>2, <2>3, <2>5, <1>k, <1>c DEF Local, Owns, Hosted
    <2>6. QED
      BY <2>4, <2>5 DEF QuietInv
  <1>11. ASSUME NEW h \in Hostings, Enable(h) PROVE QuietInv'
    <2>0. PICK w \in Workers : w = Worker(h)
      BY <1>h
    <2>1. Excepted(w)
      BY <1>11, <2>0, <1>y, <1>c DEF Enable
    <2>2. Local(w) /\ ForcedClaim(w) /\ w \in Clients
      BY <1>11, <2>0, <1>g, <1>c
    <2>3. ASSUME NEW s \in Submitters, pc'[s] \in Submitting \ {"claim"} PROVE Quiet(s)'
      <3>1. pc[s] \in Submitting \ {"claim"} /\ Quiet(s) /\ s # w
        BY <2>2, <2>3, <1>s, <1>c DEF Local
      <3>2. ~(gate = None /\ (Hosted \/ phase = "Ready"))
        BY <3>1, <1>m
      <3>3. QED
        BY <2>2, <3>1, <3>2, <1>c DEF Local, ForcedClaim, Quiet, ForceUnread
    <2>4. ASSUME NEW v \in Workers, v # w, pc'[v] \in Running, Owns(v)' PROVE Quiet(v)'
      <3>1. pc[v] \in Running /\ pc[v] # "off"
        BY <2>2, <2>4 DEF Local, Running
      <3>2. hosting' # None /\ hosting'.id = v[1]
        BY <2>4 DEF Owns, Hosted
      <3>3. Quiet(v) /\ v[2] = boot
        BY <2>2, <2>4, <3>1, <3>2, <1>k, OthersRecord DEF BootInv, Boot
      <3>4. ~(hosting'.id = w[1] /\ w[2] = boot)
        BY <2>4, <3>2, <3>3, SameWorker
      <3>5. QED
        BY <2>2, <2>4, <3>3, <3>4, <1>c DEF Local, ForcedClaim, Quiet, ForceUnread
    <2>5. ASSUME pc'[w] \in Running, Owns(w)' PROVE Quiet(w)'
      BY <2>1, <2>2, <2>5 DEF Local, Quiet, ForceUnread
    <2>6. QED
      BY <2>3, <2>4, <2>5 DEF QuietInv
  <1>12. ASSUME NEW w \in Workers, RecoverSkips(w) PROVE pc'[w] \in Running /\ Owns(w)' =>
         Quiet(w)
    BY <1>12, <1>t, <1>c, <1>k
    DEF RecoverSkips, At, Goto, Hosted, Live, Owns, Stopped, recordVars, lockVars,
        daemonVars, Running
  <1>13. ASSUME NEW w \in Workers, RecoverRefuses(w) PROVE pc'[w] \in Running /\ Owns(w)'
         => Quiet(w)
    BY <1>13, <1>t, <1>c, <1>k
    DEF RecoverRefuses, At, Goto, Hosted, Live, Owns, Stopped, recordVars, lockVars,
        daemonVars, Running
  <1>14. ASSUME NEW w \in Workers, Recovers(w) PROVE Excepted(w)
    BY <1>14, <1>c, <1>y DEF Recovers
  <1>15. ASSUME NEW w \in Workers, CollectAbandoned(w) PROVE pc'[w] \in Running /\
         Owns(w)' => Quiet(w)
    BY <1>15, <1>t, <1>c, <1>k
    DEF CollectAbandoned, At, Collects, Goto, Hosted, Owns, recordVars, lockVars,
        daemonVars, Running
  <1>16. ASSUME NEW w \in Workers, CollectEnds(w) PROVE pc'[w] \in Running /\ Owns(w)' =>
         Quiet(w)
    <2>1. CASE Errs(w)
      BY <1>16, <2>1, <1>e, <1>q DEF CollectEnds, At, Collects, Errs
    <2>2. CASE /\ Owns(w) /\ hosting' = [copy[w] EXCEPT !.phase = Outcome(w)]
               /\ copy' = [copy EXCEPT ![w] = [copy[w] EXCEPT !.phase = Outcome(w)]]
               /\ Goto(w, "loop") /\ UNCHANGED <<pipe, inbox, events>>
      BY <2>2, <1>16, <1>t, <1>c, <1>k
      DEF CollectEnds, At, AtLimit, Collects, Fresh, Goto, Hosted, Outcome, Owns,
          lockVars, Running
    <2>3. QED
      BY <1>16, <2>1, <2>2 DEF CollectEnds, Saves
  <1>17. ASSUME NEW w \in Workers, CollectUnusable(w) PROVE pc'[w] \in Running /\ Owns(w)'
         => Quiet(w)
    BY <1>17, <1>e, <1>q
    DEF CollectUnusable, At, Collects, Errs
  <1>18. ASSUME NEW w \in Workers, SubmitConclusion(w) PROVE pc'[w] \in Running /\
         Owns(w)' => Quiet(w)
    <2>1. CASE Errs(w)
      BY <1>18, <2>1, <1>e, <1>q DEF SubmitConclusion, At, Collects, Errs
    <2>2. CASE /\ hosting' = [copy[w] EXCEPT !.phase = "Submitting"]
               /\ copy' = [copy EXCEPT ![w] = hosting'] /\ gate' = w
               /\ events' = [events EXCEPT ![w] = 0]
               /\ Sends(w, [op |-> "paste", text |-> <<w[1], copy[w].run>>])
               /\ Goto(w, "pasting") /\ UNCHANGED inbox
      BY <2>2, <1>18, <1>t, <1>c, <1>k
      DEF SubmitConclusion, At, AtLimit, Collects, Fresh, Goto, Hosted, Outcome,
          Owns, Running
    <2>3. QED
      BY <1>18, <2>1, <2>2 DEF SubmitConclusion
  <1>19. ASSUME NEW w \in Workers, Fail(w) PROVE pc'[w] \in Running /\ Owns(w)' =>
         Quiet(w)
    BY <1>19, <1>t, <1>c, <1>k
    DEF Fail, At, Goto, Hosted, Live, Owns, Stopped, lockVars, daemonVars, Running
  <1>20. ASSUME NEW w \in Workers, Enabled(w) PROVE pc'[w] \in Running /\ Owns(w)' =>
         Quiet(w)
    BY <1>20, <1>t, <1>c, <1>k
    DEF Enabled, At, FreeGate, Goto, recordVars, Running, Owns, Hosted
  <1>21. ASSUME NEW w \in Workers, EnableFails(w) PROVE pc'[w] \in Running /\ Owns(w)' =>
         Quiet(w)
    BY <1>21, <1>e, <1>q DEF EnableFails, At
  <1>22. ASSUME NEW w \in Workers, Recovered(w) PROVE pc'[w] \in Running /\ Owns(w)' =>
         Quiet(w)
    BY <1>22, <1>t, <1>c, <1>k
    DEF Recovered, At, FreeGate, Goto, recordVars, Running, Owns, Hosted
  <1>23. ASSUME NEW w \in Workers, RestoreFails(w) PROVE pc'[w] \in Running /\ Owns(w)' =>
         Quiet(w)
    BY <1>23, <1>e, <1>q
    DEF RestoreFails, At, Errs
  <1>24. ASSUME NEW w \in Workers, FirstReview(w) PROVE pc'[w] \in Running /\ Owns(w)' =>
         Quiet(w)
    BY <1>24, <1>t, <1>c, <1>k
    DEF FirstReview, At, Goto, Hosted, Owns, recordVars, lockVars, daemonVars,
        Running
  <1>25. ASSUME NEW w \in Workers, TakeEvent(w) PROVE pc'[w] \in Running /\ Owns(w)' =>
         Quiet(w)
    BY <1>25, <1>t, <1>c, <1>k
    DEF TakeEvent, At, Goto, recordVars, lockVars, daemonVars, Running, Owns, Hosted
  <1>26. ASSUME NEW w \in Workers, StartReview(w) PROVE pc'[w] \in Running /\ Owns(w)' =>
         Quiet(w)
    <2>1. CASE Errs(w)
      BY <1>26, <2>1, <1>e, <1>q DEF StartReview, At, Collects, Errs
    <2>2. CASE /\ Owns(w) /\ hosting' = [copy[w] EXCEPT !.phase = "Reviewing", !.run = @ + 1]
               /\ copy' = [copy EXCEPT ![w] = [copy[w] EXCEPT !.phase = "Reviewing", !.run
                    = @ + 1]]
               /\ Goto(w, "dispatching") /\ UNCHANGED <<pipe, inbox, events>>
      BY <2>2, <1>26, <1>t, <1>c, <1>k
      DEF StartReview, At, Fresh, Goto, Hosted, Owns, lockVars, Running
    <2>3. QED
      BY <1>26, <2>1, <2>2 DEF StartReview, Saves
  <1>27. ASSUME NEW w \in Workers, Dispatched(w) PROVE pc'[w] \in Running /\ Owns(w)' =>
         Quiet(w)
    BY <1>27, <1>t, <1>c, <1>k
    DEF Dispatched, At, Goto, recordVars, lockVars, daemonVars, Running, Owns,
        Hosted
  <1>28. ASSUME NEW w \in Workers, DispatchFails(w) PROVE pc'[w] \in Running /\ Owns(w)'
         => Quiet(w)
    BY <1>28, <1>e, <1>q
    DEF DispatchFails, At, Errs
  <1>29. ASSUME NEW w \in Workers, ReviewDone(w) PROVE pc'[w] \in Running /\ Owns(w)' =>
         Quiet(w)
    <2>1. CASE Errs(w)
      BY <1>29, <2>1, <1>e, <1>q DEF ReviewDone, At, Collects, Errs
    <2>2. CASE /\ Owns(w) /\ hosting' = [copy[w] EXCEPT !.phase = "Collecting"]
               /\ copy' = [copy EXCEPT ![w] = [copy[w] EXCEPT !.phase = "Collecting"]]
               /\ Goto(w, "loop") /\ UNCHANGED <<pipe, inbox, events>>
      BY <2>2, <1>29, <1>t, <1>c, <1>k
      DEF ReviewDone, At, Fresh, Goto, Hosted, Outcomes, Owns, lockVars, Running
    <2>3. QED
      BY <1>29, <2>1, <2>2 DEF ReviewDone, Saves
  <1>30. ASSUME NEW w \in Workers, ReviewFails(w) PROVE pc'[w] \in Running /\ Owns(w)' =>
         Quiet(w)
    BY <1>30, <1>e, <1>q
    DEF ReviewFails, At, Errs
  <1>31. ASSUME NEW w \in Workers, CollectBegin(w) PROVE pc'[w] \in Running /\ Owns(w)' =>
         Quiet(w)
    BY <1>31, <1>t, <1>c, <1>k
    DEF CollectBegin, At, Goto, recordVars, lockVars, daemonVars, Running, Owns,
        Hosted
  <1>32. ASSUME NEW w \in Workers, Pasted(w) PROVE pc'[w] \in Running /\ Owns(w)' =>
         Quiet(w)
    BY <1>32, <1>t, <1>c, <1>k
    DEF Pasted, At, Goto, recordVars, lockVars, Running, Owns, Hosted
  <1>33. ASSUME NEW w \in Workers, WorkerEntered(w) PROVE pc'[w] \in Running /\ Owns(w)'
         => Quiet(w)
    BY <1>33, <1>t, <1>c, <1>k
    DEF WorkerEntered, At, Goto, recordVars, lockVars, Running, Owns, Hosted
  <1>34. ASSUME NEW w \in Workers, Submitted(w) PROVE pc'[w] \in Running /\ Owns(w)' =>
         Quiet(w)
    <2>1. CASE Errs(w)
      BY <1>34, <2>1, <1>e, <1>q DEF Submitted, At, Collects, Errs
    <2>2. CASE /\ Owns(w) /\ hosting' = [copy[w] EXCEPT !.phase = "Waiting", !.count = @ + 1]
               /\ copy' = [copy EXCEPT ![w] = [copy[w] EXCEPT !.phase = "Waiting", !.count
                    = @ + 1]]
               /\ Goto(w, "loop") /\ UNCHANGED <<pipe, inbox, events>>
      BY <2>2, <1>34, <1>t, <1>c, <1>k
      DEF Submitted, At, FreeGate, Fresh, Goto, Hosted, Owns, Running
    <2>3. QED
      BY <1>34, <2>1, <2>2 DEF Submitted, Saves
  <1>35. ASSUME NEW w \in Workers, WorkerSubmitFails(w) PROVE pc'[w] \in Running /\
         Owns(w)' => Quiet(w)
    BY <1>35, <1>e, <1>q
    DEF WorkerSubmitFails, Errs
  <1>36. ASSUME NEW w \in Workers, LoopEnds(w) PROVE pc'[w] \in Running /\ Owns(w)' =>
         Quiet(w)
    BY <1>36, <1>e, <1>q DEF LoopEnds
  <1>37. ASSUME NEW w \in Workers, NoticeLost(w) PROVE pc'[w] \in Running /\ Owns(w)' =>
         Quiet(w)
    BY <1>37, <1>e, <1>q
    DEF NoticeLost, At, Errs
  <1>38. ASSUME NEW w \in Workers, AgentChanged(w) PROVE pc'[w] \in Running /\ Owns(w)' =>
         Quiet(w)
    <2>1. CASE Errs(w)
      BY <1>38, <2>1, <1>e, <1>q DEF AgentChanged, At, Errs
    <2>2. CASE At(w, "recover") /\ Goto(w, "failing") /\ UNCHANGED <<copy, events, pipe, inbox>>
      BY <2>2, <1>38, <1>t, <1>c, <1>k
      DEF AgentChanged, At, Fresh, Goto, Hosted, Live, Owns, Stopped, recordVars,
          lockVars, Running
    <2>3. QED
      BY <1>38, <2>1, <2>2 DEF AgentChanged
  <1>39. ASSUME NEW w \in Workers, GateStep(w) \/ WorkerStep(w) \/ AgentChanged(w)
        PROVE  QuietInv'
    <2>1. pc'[w] \in Running /\ Owns(w)' => Excepted(w)
      BY <1>39, <1>o, <1>z, <1>c, <1>12, <1>13, <1>14, <1>15, <1>16, <1>17, <1>18, <1>19, <1>20, <1>21,
           <1>22, <1>23, <1>24, <1>25, <1>26, <1>27, <1>28, <1>29, <1>30, <1>31, <1>32,
           <1>33, <1>34, <1>35, <1>36, <1>37, <1>38 DEF GateStep, WorkerStep
    <2>2. Local(w) /\ ForcedClaim(w) /\ w \in Clients
      BY <1>39, <1>o, <1>c
    <2>3. ASSUME NEW s \in Submitters, pc'[s] \in Submitting \ {"claim"} PROVE Quiet(s)'
      <3>1. pc[s] \in Submitting \ {"claim"} /\ Quiet(s) /\ s # w
        BY <2>2, <2>3, <1>s, <1>c DEF Local
      <3>2. ~(gate = None /\ (Hosted \/ phase = "Ready"))
        BY <3>1, <1>m
      <3>3. QED
        BY <2>2, <3>1, <3>2, <1>c DEF Local, ForcedClaim, Quiet, ForceUnread
    <2>4. ASSUME NEW v \in Workers, v # w, pc'[v] \in Running, Owns(v)' PROVE Quiet(v)'
      <3>1. pc[v] \in Running /\ pc[v] # "off"
        BY <2>2, <2>4 DEF Local, Running
      <3>2. hosting' # None /\ hosting'.id = v[1]
        BY <2>4 DEF Owns, Hosted
      <3>3. Quiet(v) /\ v[2] = boot
        BY <2>2, <2>4, <3>1, <3>2, <1>k, OthersRecord DEF BootInv, Boot
      <3>4. ~(hosting'.id = w[1] /\ w[2] = boot)
        BY <2>4, <3>2, <3>3, SameWorker
      <3>5. QED
        BY <2>2, <2>4, <3>3, <3>4, <1>c DEF Local, ForcedClaim, Quiet, ForceUnread
    <2>5. ASSUME pc'[w] \in Running, Owns(w)' PROVE Quiet(w)'
      BY <2>1, <2>2, <2>5 DEF Local, Quiet, ForceUnread
    <2>6. QED
      BY <2>3, <2>4, <2>5 DEF QuietInv
  <1>40. ASSUME NEW h \in Hostings, ReviewEnds(h) PROVE QuietInv'
    BY <1>40, <1>s, <1>k DEF ReviewEnds, recordVars, daemonVars, QuietInv, Quiet, ForceUnread, Owns, Hosted
  <1>41. ASSUME TurnEnds PROVE QuietInv'
    BY <1>41, <1>s, <1>k DEF TurnEnds, recordVars, daemonVars, QuietInv, Quiet, ForceUnread, Owns, Hosted
  <1>42. ASSUME Crash PROVE QuietInv'
    BY <1>42, <1>c DEF Crash, QuietInv, Submitting, Running
  <1>43. CASE UNCHANGED vars
    BY <1>43, <1>s, <1>k DEF vars, recordVars, daemonVars, workVars, QuietInv, Quiet, ForceUnread, Owns, Hosted
  <1> QED
    BY <1>1, <1>2, <1>10, <1>11, <1>39, <1>40, <1>41, <1>42, <1>43, <1>c DEF Next

\* While it types, no close of its own takes its control, and no claim of another that is not late.
LEMMA ControlKept ==
    ASSUME TypeOK, BootInv, CopyInv, LockInv, KeepInv, QuietInv, [Next]_vars,
           NEW c \in Workers \cup Submitters, pc[c] \in {"pasting", "entering"}, owner = c
    PROVE  owner' = c \/ <<c, owner'>> \in late
  <1>1. c \in Clients /\ c # None
    BY HostingAssumption DEF Clients
  <1>2. Quiet(c)
    BY DEF QuietInv, LockInv, WorkerLock, Submitting, Running
  <1>3. Keeps(c) /\ pc[c] \in Holding
    BY DEF KeepInv, Holding
  <1>4. \A d \in Clients : pipe[d] \in Seq(Frames)
    BY DEF TypeOK, DaemonType, Pipes
  <1>5. ASSUME NEW d \in Clients, NEW op, Is(d, op)
        PROVE  \E i \in DOMAIN pipe[d] : pipe[d][i].op = op
    BY <1>4, <1>5 DEF Is
  <1>6. ASSUME NEW d \in Clients, DaemonStep(d) PROVE owner' = c \/ <<c, owner'>> \in late
    <2>1. ASSUME DaemonClaims(d) PROVE <<c, owner'>> \in late
      <3>1. d # c /\ Is(d, "force") /\ owner' = d
        BY <1>1, <2>1 DEF DaemonClaims, Grant
      <3>2. QED
        BY <3>1, <1>2, <1>5 DEF Quiet, ForceUnread
    <2>2. ASSUME DaemonReleases(d) PROVE owner' = c
      <3>1. d # c
        BY <2>2, <1>3, <1>5 DEF DaemonReleases, Keeps
      <3>2. QED
        BY <2>2, <3>1 DEF DaemonReleases
    <2>3. ~DaemonVacancy(d)
      BY <1>1 DEF DaemonVacancy
    <2>4. DaemonRefuses(d) \/ DaemonUnchanged(d) \/ DaemonWrites(d) => owner' = c
      BY DEF DaemonRefuses, DaemonUnchanged, DaemonWrites
    <2>5. QED
      BY <1>6, <2>1, <2>2, <2>3, <2>4 DEF DaemonStep
  <1>7. ASSUME NEW b \in Browsers, BrowserStep(b) PROVE owner' = c
    BY <1>7, BrowserFrame
  <1>8. ASSUME \/ \E s \in Submitters : (s \in Submissions /\ SubmitBegin(s)) \/ SubmitStep(s)
               \/ \E h \in Hostings : Enable(h)
               \/ \E w \in Workers : GateStep(w) \/ WorkerStep(w) \/ AgentChanged(w)
        PROVE  owner' = c
    BY <1>8, Locality DEF Local
  <1>9. (\E h \in Hostings : ReviewEnds(h)) \/ TurnEnds \/ Crash \/ UNCHANGED vars => owner' = c
    BY DEF ReviewEnds, TurnEnds, Crash, vars, daemonVars
  <1>10. QED
    BY <1>6, <1>7, <1>8, <1>9 DEF Next, Submitters

-----------------------------------------------------------------------------
(* Answers *)

\* Of a single frame nothing is left.
LEMMA ShortTail ==
    ASSUME NEW S, NEW q \in Seq(S), q # <<>>, Len(q) <= 1
    PROVE  Tail(q) = <<>>
  <1>1. Len(q) \in Nat \ {0}
    BY EmptySeq, Zenon
  <1>2. Len(q) = 1
    BY <1>1
  <1>3. Tail(q) \in Seq(S) /\ Len(Tail(q)) = 0
    BY <1>2, HeadTailProperties
  <1>4. Tail(q) # <<>> => Len(Tail(q)) \in Nat \ {0}
    BY <1>3, EmptySeq, Zenon
  <1>5. QED
    BY <1>3, <1>4

\* What a worker hears of a step of terminald.
LEMMA ToldOne ==
    ASSUME NEW box \in Boxes, NEW c \in Clients, NEW m
    PROVE  /\ \A d \in Clients : d # c => Told(box, c, m)[d] = box[d]
           /\ ~Connected(c) => Told(box, c, m)[c] = box[c]
           /\ \A i \in DOMAIN Told(box, c, m)[c] :
                \/ i \in DOMAIN box[c] /\ Told(box, c, m)[c][i] = box[c][i]
                \/ i = Len(box[c]) + 1 /\ Told(box, c, m)[c][i] = m
  <1>1. box[c] \in Seq(Messages)
    BY DEF Boxes
  <1>2. CASE Told(box, c, m) = box
    BY <1>1, <1>2 DEF Boxes
  <1>3. CASE Connected(c) /\ Told(box, c, m) = [box EXCEPT ![c] = Append(@, m)]
    <2>1. Told(box, c, m)[c] = Append(box[c], m)
      BY <1>3 DEF Boxes
    <2>2. \A d \in Clients : d # c => Told(box, c, m)[d] = box[d]
      BY <1>3 DEF Boxes
    <2>3. QED
      BY <1>1, <1>3, <2>1, <2>2
  <1>4. QED
    BY <1>2, <1>3 DEF Told

Heard(v, ms) ==
    \A i \in DOMAIN inbox'[v] :
        \/ i \in DOMAIN inbox[v] /\ inbox'[v][i] = inbox[v][i]
        \/ i = Len(inbox[v]) + 1 /\ inbox'[v][i] \in ms

\* What a client hears when control is granted.
LEMMA Granted ==
    ASSUME TypeOK, NEW c \in Clients, owner # c, Grant(c), NEW v \in Clients
    PROVE  /\ ~Connected(v) => inbox'[v] = inbox[v]
           /\ Heard(v, IF v = c THEN {"claimed"} ELSE {"closed"})
  <1> DEFINE box == IF owner = None THEN inbox ELSE Told(inbox, owner, "closed")
  <1>1. inbox \in Boxes /\ owner \in Clients \cup {None}
    BY DEF TypeOK, DaemonType
  <1>2. box \in Boxes
    BY <1>1, Telling DEF Messages
  <1>3. inbox' = Told(box, c, "claimed")
    BY DEF Grant
  <1>4. CASE v = c
    <2>1. box[v] = inbox[v]
      BY <1>1, <1>4, ToldOne
    <2>2. QED
      BY <1>2, <1>3, <1>4, <2>1, ToldOne DEF Heard
  <1>5. CASE v # c
    <2>1. inbox'[v] = box[v]
      BY <1>2, <1>3, <1>5, ToldOne
    <2>2. QED
      BY <1>1, <1>5, <2>1, ToldOne DEF Heard
  <1>6. QED
    BY <1>4, <1>5

\* It hears that it has control, or that something was written, for a frame of its own.
Answered(v) ==
    \A i \in DOMAIN inbox'[v] :
        \/ i \in DOMAIN inbox[v] /\ inbox'[v][i] = inbox[v][i]
        \/ /\ i = Len(inbox[v]) + 1
           /\ \/ inbox'[v][i] \in {"waiting", "closed", "refused"}
              \/ /\ pipe[v] # <<>> /\ pipe'[v] = Tail(pipe[v])
                 /\ \/ inbox'[v][i] = "claimed" /\ Head(pipe[v]).op = "force"
                    \/ /\ inbox'[v][i] = "written"
                       /\ Head(pipe[v]).op \in {"paste", "enter", "keys"}
                       /\ Head(pipe[v]).op # "paste" => prompts' > 0

\* A worker that does not wait hears only of the frame that it sent, or that control is lost.
LEMMA DaemonNews ==
    ASSUME TypeOK, NEW c \in Clients, DaemonStep(c), NEW v \in Workers, v \notin waiting,
           \A i \in DOMAIN pipe[v] : pipe[v][i].op # "claim"
    PROVE  /\ v \notin waiting' /\ prompts' \in Nat /\ prompts' >= prompts
           /\ ~Connected(v) => inbox'[v] = inbox[v]
           /\ \/ pipe'[v] = pipe[v] \/ pipe'[v] = <<>>
              \/ pipe[v] # <<>> /\ pipe'[v] = Tail(pipe[v])
           /\ Answered(v)
  <1> DEFINE Goal ==
        /\ v \notin waiting' /\ prompts' \in Nat /\ prompts' >= prompts
        /\ ~Connected(v) => inbox'[v] = inbox[v]
        /\ \/ pipe'[v] = pipe[v] \/ pipe'[v] = <<>>
           \/ pipe[v] # <<>> /\ pipe'[v] = Tail(pipe[v])
        /\ Answered(v)
  <1>c. v \in Clients /\ v \notin Submitters
    BY HostingAssumption DEF Clients
  <1>t. /\ pipe \in Pipes /\ inbox \in Boxes /\ prompts \in 0..MaxQueue /\ MaxQueue \in Nat \ {0}
        /\ pipe[v] \in Seq(Frames)
    BY <1>c, HostingAssumption DEF TypeOK, DaemonType, Pipes
  <1>h. ~Is(v, "claim")
    BY <1>t DEF Is
  <1>1. ASSUME DaemonClaims(c) PROVE Goal
    <2>1. owner # c /\ Grant(c)
      BY <1>1 DEF DaemonClaims
    <2>2. ~Connected(v) => inbox'[v] = inbox[v]
      BY <2>1, <1>c, Granted
    <2>3. CASE v = c
      <3>1. Is(v, "force") /\ pipe[v] # <<>> /\ pipe'[v] = Tail(pipe[v])
        BY <1>1, <1>c, <1>h, <2>3 DEF DaemonClaims, Is
      <3>2. Heard(v, {"claimed"})
        BY <2>1, <2>3, <1>c, Granted
      <3>3. Answered(v)
        BY <3>1, <3>2 DEF Is, Heard, Answered
      <3>4. QED
        BY <1>1, <1>t, <2>2, <3>1, <3>3 DEF DaemonClaims, Grant
    <2>4. CASE v # c
      <3>1. pipe'[v] = pipe[v] \/ pipe'[v] = <<>>
        BY <1>1, <1>c, <2>4 DEF DaemonClaims
      <3>2. Heard(v, {"closed"})
        BY <2>1, <2>4, <1>c, Granted
      <3>3. Answered(v)
        BY <3>2 DEF Heard, Answered
      <3>4. QED
        BY <1>1, <1>t, <2>2, <3>1, <3>3 DEF DaemonClaims, Grant
    <2>5. QED
      BY <2>3, <2>4
  <1>2. ASSUME DaemonRefuses(c) PROVE Goal
    <2>1. v # c
      BY <1>2, <1>h DEF DaemonRefuses
    <2>2. inbox'[v] = inbox[v] /\ pipe'[v] = pipe[v]
      BY <1>2, <1>c, <1>t, <2>1, ToldOne DEF DaemonRefuses, Pipes
    <2>3. QED
      BY <1>2, <1>t, <2>1, <2>2 DEF DaemonRefuses, Answered
  <1>3. ASSUME DaemonUnchanged(c) PROVE Goal
    BY <1>3, <1>t, <1>c DEF DaemonUnchanged, Answered, Is, Pipes
  <1>4. ASSUME DaemonVacancy(c) PROVE Goal
    <2>1. v # c /\ owner # c /\ Grant(c)
      BY <1>4, HostingAssumption DEF DaemonVacancy
    <2>2. Heard(v, {"closed"}) /\ (~Connected(v) => inbox'[v] = inbox[v])
      BY <2>1, <1>c, Granted
    <2>3. QED
      BY <1>4, <1>t, <2>2 DEF DaemonVacancy, Grant, Heard, Answered
  <1>5. ASSUME DaemonReleases(c) PROVE Goal
    <2>1. inbox'[v] = inbox[v]
      BY <1>5, <1>c, <1>t, ToldOne DEF DaemonReleases
    <2>2. pipe'[v] = pipe[v] \/ (pipe[v] # <<>> /\ pipe'[v] = Tail(pipe[v]))
      BY <1>5, <1>c, <1>t DEF DaemonReleases, Is, Pipes
    <2>3. QED
      BY <1>5, <1>t, <2>1, <2>2 DEF DaemonReleases, Answered
  <1>6. ASSUME DaemonWrites(c), owner = c PROVE Goal
    <2>1. prompts' \in Nat /\ prompts' >= prompts /\ (Head(pipe[c]).op # "paste" => prompts' > 0)
      BY <1>6, <1>t DEF DaemonWrites
    <2>2. CASE v = c
      <3>1. /\ pipe[v] # <<>> /\ pipe'[v] = Tail(pipe[v])
            /\ Head(pipe[v]).op \in {"paste", "enter", "keys"}
        BY <1>6, <1>c, <1>t, <2>2 DEF DaemonWrites, Is, Pipes
      <3>2. Heard(v, {"written"}) /\ (~Connected(v) => inbox'[v] = inbox[v])
        BY <1>6, <1>c, <1>t, <2>2, ToldOne DEF DaemonWrites, Heard
      <3>3. Answered(v)
        BY <2>1, <2>2, <3>1, <3>2 DEF Heard, Answered
      <3>4. QED
        BY <1>6, <2>1, <3>1, <3>2, <3>3 DEF DaemonWrites
    <2>3. CASE v # c
      <3>1. inbox'[v] = inbox[v] /\ pipe'[v] = pipe[v]
        BY <1>6, <1>c, <1>t, <2>3, ToldOne DEF DaemonWrites, Pipes
      <3>2. QED
        BY <1>6, <2>1, <3>1 DEF DaemonWrites, Answered
    <2>4. QED
      BY <2>2, <2>3
  <1>7. ASSUME DaemonWrites(c), owner # c PROVE Goal
    <2>1. pipe'[v] = pipe[v] \/ (pipe[v] # <<>> /\ pipe'[v] = Tail(pipe[v]))
      BY <1>7, <1>c, <1>t DEF DaemonWrites, Is, Pipes
    <2>2. Heard(v, {"refused"}) /\ (~Connected(v) => inbox'[v] = inbox[v])
      BY <1>7, <1>c, <1>t, ToldOne DEF DaemonWrites, Heard
    <2>3. QED
      BY <1>7, <1>t, <2>1, <2>2 DEF DaemonWrites, Heard, Answered
  <1>8. QED
    BY <1>1, <1>2, <1>3, <1>4, <1>5, <1>6, <1>7 DEF DaemonStep

\* A worker has one frame under way and reads the answer to it before it sends the next.
LEMMA AskStep == TypeOK /\ BootInv /\ CopyInv /\ AskInv /\ [Next]_vars => AskInv'
  <1> SUFFICES ASSUME TypeOK, BootInv, CopyInv, AskInv, [Next]_vars PROVE AskInv'
    OBVIOUS
  <1>c. /\ Browsers \subseteq Clients /\ Submitters \subseteq Clients /\ Workers \subseteq Clients
        /\ Submissions \subseteq Submitters /\ Creation \in Submitters /\ Creation \notin
             Submissions
        /\ \A b \in Browsers : b \notin Submitters /\ b \notin Workers
        /\ \A s \in Submitters : s \notin Workers
        /\ \A c \in Clients : c # None
    BY HostingAssumption DEF Clients, Submitters
  <1>f. \A op \in {"claim", "force", "paste", "enter", "close"} :
          Frame(op) \in Frames /\ Frame(op).op = op
    BY FrameType DEF Ops, Frame
  <1>t. /\ pc \in [Workers \cup Submitters -> Labels] /\ copy \in [Workers -> Records]
        /\ events \in [Workers -> Nat] /\ pipe \in Pipes /\ inbox \in Boxes
        /\ \A w \in Workers : copy[w].id = w[1]
        /\ hosting = None \/ hosting \in Records
    BY DEF TypeOK, WorkType, DaemonType, RecordType
  <1>h. ASSUME NEW h \in Hostings
        PROVE  /\ Worker(h) \in Workers /\ Worker(h)[1] = h /\ Worker(h)[2] = boot
               /\ Fresh(h).id = h /\ Fresh(h) # None
    BY FreshType DEF Worker, Workers, TypeOK, RecordType
  <1>l. {"off", "failing", "unsaved"} \subseteq Labels
    BY DEF Labels
  <1>e. ASSUME NEW w \in Workers, NEW l \in {"off", "failing", "unsaved"}, Returns(w, l)
        PROVE  Quits(w, l)
    BY <1>e, <1>l, Quitting
  <1>o. ASSUME NEW w \in Workers, GateStep(w) \/ WorkerStep(w) \/ AgentChanged(w)
        PROVE  Local(w) /\ ForcedClaim(w)
    BY <1>o, Locality
  <1>p. ASSUME NEW s \in Submitters, (s \in Submissions /\ SubmitBegin(s)) \/ SubmitStep(s)
        PROVE  Local(s) /\ ForcedClaim(s)
    BY <1>p, Locality
  <1>g. ASSUME NEW h \in Hostings, Enable(h)
        PROVE  Local(Worker(h)) /\ ForcedClaim(Worker(h))
    BY <1>g, Locality
  <1>k. \A v \in Workers : Asks(v)
    BY DEF AskInv
  <1>z. \A v \in Workers : pipe[v] \in Seq(Frames) /\ inbox[v] \in Seq(Messages)
    BY DEF TypeOK, DaemonType, Pipes, Boxes, Clients
  <1>q. ASSUME NEW w \in Workers, NEW l \in {"off", "failing", "unsaved"}, Quits(w, l),
               waiting' = waiting
        PROVE  Asks(w)'
    BY <1>q, <1>k, <1>f DEF Quits, Asks, Resting, Running
  <1>1. ASSUME NEW c \in Clients, DaemonStep(c) PROVE AskInv'
    <2>1. ASSUME NEW v \in Workers PROVE Asks(v)'
      <3>1. Asks(v) /\ pc' = pc /\ pipe[v] \in Seq(Frames) /\ inbox[v] \in Seq(Messages)
        BY <1>1, <1>k, <1>z, DaemonFrame DEF workVars
      <3>2. /\ v \notin waiting'
            /\ ~Connected(v) => inbox'[v] = inbox[v]
            /\ \/ pipe'[v] = pipe[v] \/ pipe'[v] = <<>>
               \/ pipe[v] # <<>> /\ pipe'[v] = Tail(pipe[v])
            /\ Answered(v)
        BY <1>1, <3>1, DaemonNews DEF Asks
      <3>a. \A i \in DOMAIN pipe'[v] :
              i \in DOMAIN pipe[v] /\ (pipe'[v][i] = pipe[v][i] \/ pipe'[v][i] = pipe[v][i + 1])
              /\ (pipe'[v][i] = pipe[v][i] \/ i + 1 \in DOMAIN pipe[v])
        <4>1. CASE pipe'[v] = pipe[v] \/ pipe'[v] = <<>>
          BY <4>1
        <4>2. CASE pipe[v] # <<>> /\ pipe'[v] = Tail(pipe[v])
          <5>1. \A i \in 1..Len(Tail(pipe[v])) :
                  i \in 1..Len(pipe[v]) /\ i + 1 \in 1..Len(pipe[v])
                  /\ Tail(pipe[v])[i] = pipe[v][i + 1]
            BY <3>1, <4>2
          <5>2. DOMAIN pipe[v] = 1..Len(pipe[v]) /\ DOMAIN pipe'[v] = 1..Len(Tail(pipe[v]))
            BY <3>1, <4>2
          <5>3. QED
            BY <4>2, <5>1, <5>2
        <4>3. QED
          BY <3>2, <4>1, <4>2
      <3>b. Len(pipe[v]) <= 1 => pipe'[v] = pipe[v] \/ pipe'[v] = <<>>
        BY <3>1, <3>2, ShortTail
      <3>3. \A i \in DOMAIN pipe'[v] : pipe'[v][i].op # "claim"
        <4>1. \A i \in DOMAIN pipe[v] : pipe[v][i].op # "claim"
          BY <3>1 DEF Asks
        <4>2. QED
          BY <3>a, <4>1
      <3>4. pc[v] \in Resting => inbox'[v] = <<>>
        <4>1. pc[v] \in Resting => ~Connected(v)
          BY <1>c DEF Connected, Resting, TypeOK, LockType
        <4>2. QED
          BY <3>1, <3>2, <4>1 DEF Asks
      <3>5. ASSUME pc[v] \in Running
            PROVE  /\ pipe'[v] = pipe[v] \/ pipe'[v] = <<>>
                   /\ Len(pipe'[v]) <= 1 /\ (Asked(pc[v]) = "none" => pipe'[v] = <<>>)
                   /\ \A i \in DOMAIN pipe'[v] : pipe'[v][i].op = Asked(pc[v])
        <4>1. /\ Len(pipe[v]) <= 1 /\ (Asked(pc[v]) = "none" => pipe[v] = <<>>)
              /\ \A i \in DOMAIN pipe[v] : pipe[v][i].op = Asked(pc[v])
          BY <3>1, <3>5 DEF Asks
        <4>2. QED
          BY <3>b, <4>1
      <3>6. ASSUME pc[v] \in Running
            PROVE  \A i \in DOMAIN inbox'[v] : inbox'[v][i] = Answer(pc[v]) => pipe'[v] = <<>>
        <4>1. Answer(pc[v]) \notin {"waiting", "closed", "refused"}
          BY DEF Answer
        <4>2. QED
          <5>1. /\ \A i \in DOMAIN inbox[v] : inbox[v][i] = Answer(pc[v]) => pipe[v] = <<>>
                /\ pipe'[v] = pipe[v] \/ pipe'[v] = <<>>
            BY <3>1, <3>5, <3>6 DEF Asks
          <5>2. pipe[v] # <<>> /\ pipe'[v] = Tail(pipe[v]) => pipe'[v] = <<>>
            <6>1. SUFFICES ASSUME pipe[v] # <<>>, pipe'[v] = Tail(pipe[v]), pipe'[v] = pipe[v]
                           PROVE  FALSE
              BY <5>1
            <6>2. Len(pipe'[v]) = Len(pipe[v]) - 1
              BY <3>1, <6>1
            <6>3. QED
              BY <3>1, <6>1, <6>2
          <5>3. QED
            BY <3>2, <4>1, <5>1, <5>2 DEF Answered
      <3>7. ASSUME pc[v] \in Running
            PROVE  /\ \A i \in DOMAIN inbox'[v] :
                        inbox'[v][i] = "written" => pc[v] \in {"pasting", "entering"}
                   /\ \A i, j \in DOMAIN inbox'[v] :
                        inbox'[v][i] = "written" /\ inbox'[v][j] = "written" => i = j
        <4>1. CASE \A i \in DOMAIN inbox'[v] : inbox'[v][i] = "written" =>
                     i \in DOMAIN inbox[v] /\ inbox'[v][i] = inbox[v][i]
          BY <3>1, <3>7, <4>1 DEF Asks
        <4>2. CASE /\ pipe[v] # <<>> /\ Head(pipe[v]).op \in {"paste", "enter", "keys"}
                   /\ \A i \in DOMAIN inbox'[v] : inbox'[v][i] = "written" =>
                        \/ i \in DOMAIN inbox[v] /\ inbox'[v][i] = inbox[v][i]
                        \/ i = Len(inbox[v]) + 1
          <5>1. Asked(pc[v]) \in {"paste", "enter", "keys"}
            BY <3>1, <3>7, <4>2 DEF Asks
          <5>2. pc[v] \in {"pasting", "entering"} /\ Answer(pc[v]) = "written"
            BY <5>1 DEF Asked, Answer
          <5>3. \A i \in DOMAIN inbox[v] : inbox[v][i] # "written"
            BY <3>1, <3>7, <4>2, <5>2 DEF Asks
          <5>4. QED
            BY <4>2, <5>2, <5>3
        <4>3. QED
          BY <3>2, <4>1, <4>2 DEF Answered
      <3>8. QED
        BY <3>1, <3>2, <3>3, <3>4, <3>5, <3>6, <3>7 DEF Asks
    <2>2. QED
      BY <2>1 DEF AskInv
  <1>2. ASSUME NEW b \in Browsers, BrowserStep(b) PROVE AskInv'
    BY <1>2, <1>k, BrowserFrame, <1>c DEF workVars, AskInv, Asks
  <1>3. ASSUME NEW s \in Submitters, (s \in Submissions /\ SubmitBegin(s)) \/ SubmitStep(s)
        PROVE  AskInv'
    <2>1. Local(s) /\ s \notin Workers
      BY <1>3, <1>p, <1>c
    <2>2. QED
      BY <2>1, <1>k, <1>c DEF Local, AskInv, Asks
  <1>4. ASSUME NEW h \in Hostings, Enable(h) PROVE AskInv'
    <2>1. PICK w \in Workers : w = Worker(h)
      BY <1>h
    <2>2. Attaches(w, "force") /\ pc[w] = "off" /\ pc'[w] = "enabling"
          /\ UNCHANGED <<inbox, waiting>>
      BY <1>4, <1>t, <1>h, <2>1 DEF Enable, Goto, BootInv, Boot
    <2>3. inbox[w] = <<>> /\ w \notin waiting
      BY <2>2, <1>k DEF Asks, Resting
    <2>4. /\ \A i \in DOMAIN pipe'[w] : i = 1 /\ pipe'[w][i].op = "force"
          /\ Len(pipe'[w]) <= 1
      <3>1. DaemonType /\ w \in Clients /\ "force" \in Ops
        BY <1>c DEF TypeOK, Ops
      <3>2. Len(pipe'[w]) = 1 /\ \A i \in DOMAIN pipe'[w] : i = 1 /\ pipe'[w][i] = Frame("force")
        BY <2>2, <3>1, Attaching
      <3>3. QED
        BY <3>2 DEF Frame
    <2>5. Asks(w)'
      BY <2>2, <2>3, <2>4 DEF Asks, Asked, Resting
    <2>6. ASSUME NEW v \in Workers, v # w PROVE Asks(v)'
      BY <1>4, <1>g, <1>k, <1>c, <2>1, <2>6 DEF Local, Asks
    <2>7. QED
      BY <2>5, <2>6 DEF AskInv
  <1>5. ASSUME NEW w \in Workers, RecoverSkips(w) PROVE Asks(w)'
    BY <1>5, <1>t, <1>c, <1>k, <1>z, <1>f
    DEF RecoverSkips, At, Goto, Hosted, Live, Owns, Stopped, recordVars, lockVars,
        daemonVars, Asks, Asked, Answer, Running, Resting
  <1>6. ASSUME NEW w \in Workers, RecoverRefuses(w) PROVE Asks(w)'
    BY <1>6, <1>t, <1>c, <1>k, <1>z, <1>f
    DEF RecoverRefuses, At, Goto, Hosted, Live, Owns, Stopped, recordVars, lockVars,
        daemonVars, Asks, Asked, Answer, Running, Resting
  <1>7. ASSUME NEW w \in Workers, Recovers(w) PROVE Asks(w)'
    <2>1. /\ \A d \in Clients : d # w => pipe'[d] = pipe[d]
          /\ \A i \in DOMAIN pipe'[w] : i = 1 /\ pipe'[w][i] = Frame("force")
          /\ Len(pipe'[w]) = 1
      BY <1>7, <1>c, <1>f, Attaching
      DEF Recovers, TypeOK, Ops
    <2>2. QED
      BY <1>7, <1>t, <1>c, <1>k, <1>z, <1>f, <2>1
      DEF Recovers, At, Goto, Hosted, Owns, Stopped, recordVars, Asks, Asked,
          Answer, Running, Resting
  <1>8. ASSUME NEW w \in Workers, CollectAbandoned(w) PROVE Asks(w)'
    BY <1>8, <1>t, <1>c, <1>k, <1>z, <1>f
    DEF CollectAbandoned, At, Collects, Goto, Hosted, Owns, recordVars, lockVars,
        daemonVars, Asks, Asked, Answer, Running, Resting
  <1>9. ASSUME NEW w \in Workers, CollectEnds(w) PROVE Asks(w)'
    <2>1. CASE Errs(w)
      BY <1>9, <2>1, <1>e, <1>q DEF CollectEnds, At, Collects, Errs
    <2>2. CASE Goto(w, "loop") /\ UNCHANGED <<pipe, inbox, events>>
      <3>1. pc[w] = "collecting" /\ pc'[w] = "loop" /\ UNCHANGED <<waiting, pipe, inbox>>
        BY <1>9, <2>2, <1>t DEF CollectEnds, At, Collects, Goto
      <3>2. QED
        BY <3>1, <1>k DEF Asks, Asked, Answer, Resting, Running
    <2>3. QED
      BY <1>9, <2>1, <2>2 DEF CollectEnds, Saves
  <1>10. ASSUME NEW w \in Workers, CollectUnusable(w) PROVE Asks(w)'
    BY <1>10, <1>e, <1>q
    DEF CollectUnusable, At, Collects, Errs
  <1>11. ASSUME NEW w \in Workers, SubmitConclusion(w) PROVE Asks(w)'
    <2>1. CASE Errs(w)
      BY <1>11, <2>1, <1>e, <1>q DEF SubmitConclusion, At, Collects, Errs
    <2>2. CASE Sends(w, [op |-> "paste", text |-> <<w[1], copy[w].run>>]) /\ Goto(w, "pasting")
               /\ UNCHANGED inbox
      <3>1. [op |-> "paste", text |-> <<w[1], copy[w].run>>] \in Frames
        BY <1>t DEF Frames, Ops, Records, Workers
      <3>2. pc[w] = "collecting" /\ pc'[w] = "pasting" /\ waiting' = waiting
        BY <1>11, <2>2, <1>t DEF SubmitConclusion, Collects, At, Goto
      <3>3. /\ w \notin waiting /\ pipe[w] = <<>>
            /\ \A i \in DOMAIN inbox[w] : inbox[w][i] # "written"
        BY <3>2, <1>k DEF Asks, Asked, Running
      <3>4. /\ \A i \in DOMAIN pipe'[w] : i = 1 /\ pipe'[w][i].op = "paste"
            /\ Len(pipe'[w]) <= 1
        BY <2>2, <3>1, <3>3, <1>c, SendsTo
      <3>5. QED
        BY <2>2, <3>2, <3>3, <3>4 DEF Asks, Asked, Answer, Resting
    <2>3. QED
      BY <1>11, <2>1, <2>2 DEF SubmitConclusion
  <1>12. ASSUME NEW w \in Workers, Fail(w) PROVE Asks(w)'
    BY <1>12, <1>t, <1>c, <1>k, <1>z, <1>f
    DEF Fail, At, Goto, Hosted, Live, Owns, Stopped, lockVars, daemonVars, Asks,
        Asked, Answer, Running, Resting
  <1>13. ASSUME NEW w \in Workers, Enabled(w) PROVE Asks(w)'
    <2>1. /\ 1 \in DOMAIN inbox[w] /\ inbox[w][1] = "claimed"
          /\ \A i \in DOMAIN inbox'[w] :
               i \in Nat \ {0} /\ i + 1 \in DOMAIN inbox[w] /\ inbox'[w][i] = inbox[w][i + 1]
      BY <1>13, <1>c, ReadsFrom DEF Enabled
    <2>2. QED
      BY <1>13, <1>t, <1>c, <1>k, <1>z, <1>f, <2>1
      DEF Enabled, At, FreeGate, Goto, recordVars, Asks, Asked, Answer, Running,
          Resting
  <1>14. ASSUME NEW w \in Workers, EnableFails(w) PROVE Asks(w)'
    BY <1>14, <1>e, <1>q DEF EnableFails, At
  <1>15. ASSUME NEW w \in Workers, Recovered(w) PROVE Asks(w)'
    <2>1. /\ 1 \in DOMAIN inbox[w] /\ inbox[w][1] = "claimed"
          /\ \A i \in DOMAIN inbox'[w] :
               i \in Nat \ {0} /\ i + 1 \in DOMAIN inbox[w] /\ inbox'[w][i] = inbox[w][i + 1]
      BY <1>15, <1>c, ReadsFrom DEF Recovered
    <2>2. QED
      BY <1>15, <1>t, <1>c, <1>k, <1>z, <1>f, <2>1
      DEF Recovered, At, FreeGate, Goto, recordVars, Asks, Asked, Answer, Running,
          Resting
  <1>16. ASSUME NEW w \in Workers, RestoreFails(w) PROVE Asks(w)'
    BY <1>16, <1>e, <1>q
    DEF RestoreFails, At, Errs
  <1>17. ASSUME NEW w \in Workers, FirstReview(w) PROVE Asks(w)'
    BY <1>17, <1>t, <1>c, <1>k, <1>z, <1>f
    DEF FirstReview, At, Goto, Hosted, Owns, recordVars, lockVars, daemonVars, Asks,
        Asked, Answer, Running, Resting
  <1>18. ASSUME NEW w \in Workers, TakeEvent(w) PROVE Asks(w)'
    BY <1>18, <1>t, <1>c, <1>k, <1>z, <1>f
    DEF TakeEvent, At, Goto, recordVars, lockVars, daemonVars, Asks, Asked, Answer,
        Running, Resting
  <1>19. ASSUME NEW w \in Workers, StartReview(w) PROVE Asks(w)'
    <2>1. CASE Errs(w)
      BY <1>19, <2>1, <1>e, <1>q DEF StartReview, At, Errs
    <2>2. CASE Goto(w, "dispatching") /\ UNCHANGED <<pipe, inbox, events>>
      <3>1. pc[w] = "starting" /\ pc'[w] = "dispatching" /\ UNCHANGED <<waiting, pipe, inbox>>
        BY <1>19, <2>2, <1>t DEF StartReview, At, Goto
      <3>2. QED
        BY <3>1, <1>k DEF Asks, Asked, Answer, Resting, Running
    <2>3. QED
      BY <1>19, <2>1, <2>2 DEF StartReview, Saves
  <1>20. ASSUME NEW w \in Workers, Dispatched(w) PROVE Asks(w)'
    BY <1>20, <1>t, <1>c, <1>k, <1>z, <1>f
    DEF Dispatched, At, Goto, recordVars, lockVars, daemonVars, Asks, Asked, Answer,
        Running, Resting
  <1>21. ASSUME NEW w \in Workers, DispatchFails(w) PROVE Asks(w)'
    BY <1>21, <1>e, <1>q
    DEF DispatchFails, At, Errs
  <1>22. ASSUME NEW w \in Workers, ReviewDone(w) PROVE Asks(w)'
    <2>1. CASE Errs(w)
      BY <1>22, <2>1, <1>e, <1>q DEF ReviewDone, At, Errs
    <2>2. CASE Goto(w, "loop") /\ UNCHANGED <<pipe, inbox, events>>
      <3>1. pc[w] = "loop" /\ pc'[w] = "loop" /\ UNCHANGED <<waiting, pipe, inbox>>
        BY <1>22, <2>2, <1>t DEF ReviewDone, At, Goto
      <3>2. QED
        BY <3>1, <1>k DEF Asks, Asked, Answer, Resting, Running
    <2>3. QED
      BY <1>22, <2>1, <2>2 DEF ReviewDone, Saves
  <1>23. ASSUME NEW w \in Workers, ReviewFails(w) PROVE Asks(w)'
    BY <1>23, <1>e, <1>q
    DEF ReviewFails, At, Errs
  <1>24. ASSUME NEW w \in Workers, CollectBegin(w) PROVE Asks(w)'
    BY <1>24, <1>t, <1>c, <1>k, <1>z, <1>f
    DEF CollectBegin, At, Goto, recordVars, lockVars, daemonVars, Asks, Asked,
        Answer, Running, Resting
  <1>25. ASSUME NEW w \in Workers, Pasted(w) PROVE Asks(w)'
    <2>1. pc[w] = "pasting" /\ pc'[w] = "entering" /\ waiting' = waiting
      BY <1>25, <1>t DEF Pasted, At, Goto
    <2>2. Reads(w, "written") /\ Sends(w, Frame("enter"))
      BY <1>25 DEF Pasted
    <2>3. /\ 1 \in DOMAIN inbox[w] /\ inbox[w][1] = "written"
          /\ \A i \in DOMAIN inbox'[w] :
               i \in Nat \ {0} /\ i + 1 \in DOMAIN inbox[w] /\ inbox'[w][i] = inbox[w][i + 1]
      BY <2>2, <1>c, ReadsFrom
    <2>4. /\ w \notin waiting /\ pipe[w] = <<>>
          /\ \A i, j \in DOMAIN inbox[w] : inbox[w][i] = "written" /\ inbox[w][j] =
               "written" => i = j
      BY <2>1, <2>3, <1>k DEF Asks, Answer, Running
    <2>5. \A i \in DOMAIN inbox'[w] : inbox'[w][i] # "written"
      BY <2>3, <2>4
    <2>6. /\ \A i \in DOMAIN pipe'[w] : i = 1 /\ pipe'[w][i].op = "enter"
          /\ Len(pipe'[w]) <= 1
      BY <2>2, <2>4, <1>c, <1>f, SendsTo
    <2>7. QED
      BY <2>1, <2>4, <2>5, <2>6 DEF Asks, Asked, Answer, Resting
  <1>26. ASSUME NEW w \in Workers, WorkerEntered(w) PROVE Asks(w)'
    <2>1. /\ 1 \in DOMAIN inbox[w] /\ inbox[w][1] = "written"
          /\ \A i \in DOMAIN inbox'[w] :
               i \in Nat \ {0} /\ i + 1 \in DOMAIN inbox[w] /\ inbox'[w][i] = inbox[w][i + 1]
      BY <1>26, <1>c, ReadsFrom DEF WorkerEntered
    <2>2. QED
      BY <1>26, <1>t, <1>c, <1>k, <1>z, <1>f, <2>1
      DEF WorkerEntered, At, Goto, recordVars, lockVars, Asks, Asked, Answer,
          Running, Resting
  <1>27. ASSUME NEW w \in Workers, Submitted(w) PROVE Asks(w)'
    <2>1. CASE Errs(w)
      BY <1>27, <2>1, <1>e, <1>q DEF Submitted, At, Errs
    <2>2. CASE Goto(w, "loop") /\ UNCHANGED <<pipe, inbox, events>>
      <3>1. pc[w] = "entered" /\ pc'[w] = "loop" /\ UNCHANGED <<waiting, pipe, inbox>>
        BY <1>27, <2>2, <1>t DEF Submitted, At, Goto
      <3>2. QED
        BY <3>1, <1>k DEF Asks, Asked, Answer, Resting, Running
    <2>3. QED
      BY <1>27, <2>1, <2>2 DEF Submitted, Saves
  <1>28. ASSUME NEW w \in Workers, WorkerSubmitFails(w) PROVE Asks(w)'
    BY <1>28, <1>e, <1>q
    DEF WorkerSubmitFails, Errs
  <1>29. ASSUME NEW w \in Workers, LoopEnds(w) PROVE Asks(w)'
    BY <1>29, <1>e, <1>q DEF LoopEnds
  <1>30. ASSUME NEW w \in Workers, NoticeLost(w) PROVE Asks(w)'
    BY <1>30, <1>e, <1>q
    DEF NoticeLost, At, Errs
  <1>31. ASSUME NEW w \in Workers, AgentChanged(w) PROVE Asks(w)'
    <2>1. CASE Errs(w)
      BY <1>31, <2>1, <1>e, <1>q DEF AgentChanged, At, Errs
    <2>2. CASE At(w, "recover") /\ Goto(w, "failing") /\ UNCHANGED <<copy, events, pipe, inbox>>
      BY <2>2, <1>31, <1>t, <1>c, <1>k, <1>z, <1>f
      DEF AgentChanged, At, Fresh, Goto, Hosted, Live, Owns, Stopped, recordVars,
          lockVars, Asks, Asked, Answer, Running, Resting
    <2>3. QED
      BY <1>31, <2>1, <2>2 DEF AgentChanged
  <1>32. ASSUME NEW w \in Workers, GateStep(w) \/ WorkerStep(w) \/ AgentChanged(w)
        PROVE  AskInv'
    <2>1. Asks(w)'
      BY <1>32, <1>5, <1>6, <1>7, <1>8, <1>9, <1>10, <1>11, <1>12, <1>13, <1>14, <1>15,
           <1>16, <1>17, <1>18, <1>19, <1>20, <1>21, <1>22, <1>23, <1>24, <1>25, <1>26,
           <1>27, <1>28, <1>29, <1>30, <1>31 DEF GateStep, WorkerStep
    <2>2. ASSUME NEW v \in Workers, v # w PROVE Asks(v)'
      BY <1>32, <1>o, <1>k, <1>c, <2>2 DEF Local, Asks
    <2>3. QED
      BY <2>1, <2>2 DEF AskInv
  <1>33. ASSUME NEW h \in Hostings, ReviewEnds(h) PROVE AskInv'
    BY <1>33, <1>k DEF ReviewEnds, daemonVars, AskInv, Asks
  <1>34. ASSUME TurnEnds PROVE AskInv'
    BY <1>34, <1>k DEF TurnEnds, daemonVars, AskInv, Asks
  <1>35. ASSUME Crash PROVE AskInv'
    <2>1. /\ waiting' = waiting
          /\ \A v \in Workers : pc'[v] \in {"off", "recover"} /\ inbox'[v] = <<>>
      BY <1>35, <1>c DEF Crash
    <2>2. ASSUME NEW v \in Workers PROVE \A i \in DOMAIN pipe'[v] : pipe'[v][i].op # "claim"
      <3>1. pipe'[v] = pipe[v] \/ pipe'[v] = Append(pipe[v], Frame("close"))
        BY <1>35, <1>c DEF Crash
      <3>2. QED
        BY <3>1, <1>f, <1>k, <1>z DEF Asks
    <2>3. QED
      BY <2>1, <2>2, <1>k DEF AskInv, Asks, Resting, Running
  <1>36. CASE UNCHANGED vars
    BY <1>36, <1>k DEF vars, daemonVars, workVars, AskInv, Asks
  <1> QED
    BY <1>1, <1>2, <1>3, <1>4, <1>32, <1>33, <1>34, <1>35, <1>36, <1>c DEF Next

-----------------------------------------------------------------------------
(* Turns *)

\* Only a turn that ends takes a prompt, and whoever is subscribed then hears of it.
LEMMA TurnStep == TypeOK /\ BootInv /\ CopyInv /\ AskInv /\ TurnInv /\ [Next]_vars => TurnInv'
  <1> SUFFICES ASSUME TypeOK, BootInv, CopyInv, AskInv, TurnInv, [Next]_vars PROVE TurnInv'
    OBVIOUS
  <1>c. /\ Browsers \subseteq Clients /\ Submitters \subseteq Clients /\ Workers \subseteq Clients
        /\ Submissions \subseteq Submitters /\ Creation \in Submitters /\ Creation \notin
             Submissions
        /\ \A b \in Browsers : b \notin Submitters /\ b \notin Workers
        /\ \A s \in Submitters : s \notin Workers
        /\ \A c \in Clients : c # None
    BY HostingAssumption DEF Clients, Submitters
  <1>t. /\ pc \in [Workers \cup Submitters -> Labels] /\ copy \in [Workers -> Records]
        /\ events \in [Workers -> Nat] /\ pipe \in Pipes /\ inbox \in Boxes
        /\ \A w \in Workers : copy[w].id = w[1]
        /\ hosting = None \/ hosting \in Records
    BY DEF TypeOK, WorkType, DaemonType, RecordType
  <1>h. ASSUME NEW h \in Hostings
        PROVE  /\ Worker(h) \in Workers /\ Worker(h)[1] = h /\ Worker(h)[2] = boot
               /\ Fresh(h).id = h /\ Fresh(h) # None
    BY FreshType DEF Worker, Workers, TypeOK, RecordType
  <1>l. {"off", "failing", "unsaved"} \subseteq Labels
    BY DEF Labels
  <1>e. ASSUME NEW w \in Workers, NEW l \in {"off", "failing", "unsaved"}, Returns(w, l)
        PROVE  Quits(w, l)
    BY <1>e, <1>l, Quitting
  <1>o. ASSUME NEW w \in Workers, GateStep(w) \/ WorkerStep(w) \/ AgentChanged(w)
        PROVE  Local(w) /\ ForcedClaim(w)
    BY <1>o, Locality
  <1>p. ASSUME NEW s \in Submitters, (s \in Submissions /\ SubmitBegin(s)) \/ SubmitStep(s)
        PROVE  Local(s) /\ ForcedClaim(s)
    BY <1>p, Locality
  <1>g. ASSUME NEW h \in Hostings, Enable(h)
        PROVE  Local(Worker(h)) /\ ForcedClaim(Worker(h))
    BY <1>g, Locality
  <1>k. \A v \in Workers : Turning(v)
    BY DEF TurnInv
  <1>v. \A v \in Workers : Asks(v)
    BY DEF AskInv
  <1>y. \A v \in Workers : Copied(v)
    BY DEF CopyInv
  <1>u. prompts \in Nat /\ \A v \in Workers : events[v] \in Nat
    BY HostingAssumption DEF TypeOK, WorkType
  <1>q. ASSUME NEW w \in Workers, NEW l \in {"off", "failing", "unsaved"}, Quits(w, l)
        PROVE  Turning(w)'
    BY <1>q DEF Quits, Turning
  <1>1. ASSUME NEW c \in Clients, DaemonStep(c) PROVE TurnInv'
    <2>1. ASSUME NEW v \in Workers PROVE Turning(v)'
      <3>1. UNCHANGED <<boot, pc, copy, events>>
        BY <1>1, DaemonFrame DEF recordVars, workVars
      <3>2. prompts' >= prompts /\ Answered(v)
        BY <1>1, <1>v, DaemonNews DEF Asks
      <3>3. prompts' \in Nat
        BY <1>1, <1>v, DaemonNews DEF Asks
      <3>4. ASSUME pc[v] = "entering", NEW i \in DOMAIN inbox'[v], inbox'[v][i] = "written"
            PROVE  prompts' > 0 \/ \E j \in DOMAIN inbox[v] : inbox[v][j] = "written"
        <4>1. 1 \in DOMAIN pipe[v] => pipe[v][1].op = "enter"
          BY <3>4, <1>v DEF Asks, Asked, Running
        <4>2. pipe[v] \in Seq(Frames)
          BY <1>c, <1>t DEF Pipes
        <4>3. pipe[v] # <<>> => Head(pipe[v]).op = "enter"
          BY <4>1, <4>2
        <4>4. QED
          BY <3>2, <3>4, <4>3 DEF Answered
      <3>5. QED
        BY <3>1, <3>2, <3>3, <3>4, <1>k, <1>u DEF Turning
    <2>2. QED
      BY <2>1 DEF TurnInv
  <1>2. ASSUME NEW b \in Browsers, BrowserStep(b) PROVE TurnInv'
    BY <1>2, <1>k, BrowserFrame, <1>c DEF workVars, TurnInv, Turning
  <1>3. ASSUME NEW s \in Submitters, (s \in Submissions /\ SubmitBegin(s)) \/ SubmitStep(s)
        PROVE  TurnInv'
    <2>1. Local(s) /\ s \notin Workers
      BY <1>3, <1>p, <1>c
    <2>2. QED
      BY <2>1, <1>k, <1>c DEF Local, TurnInv, Turning
  <1>4. ASSUME NEW h \in Hostings, Enable(h) PROVE TurnInv'
    <2>1. PICK w \in Workers : w = Worker(h)
      BY <1>h
    <2>2. pc'[w] = "enabling"
      BY <1>4, <1>t, <2>1 DEF Enable, Goto
    <2>3. Turning(w)'
      BY <2>2 DEF Turning
    <2>4. ASSUME NEW v \in Workers, v # w PROVE Turning(v)'
      BY <1>4, <1>g, <1>k, <1>c, <2>1, <2>4 DEF Local, Turning
    <2>5. QED
      BY <2>3, <2>4 DEF TurnInv
  <1>5. ASSUME NEW w \in Workers, RecoverSkips(w) PROVE Turning(w)'
    BY <1>5, <1>t, <1>c, <1>k, <1>u
    DEF RecoverSkips, At, Goto, Hosted, Live, Owns, Stopped, recordVars, lockVars,
        daemonVars, Turning
  <1>6. ASSUME NEW w \in Workers, RecoverRefuses(w) PROVE Turning(w)'
    BY <1>6, <1>t, <1>c, <1>k, <1>u
    DEF RecoverRefuses, At, Goto, Hosted, Live, Owns, Stopped, recordVars, lockVars,
        daemonVars, Turning
  <1>7. ASSUME NEW w \in Workers, Recovers(w) PROVE Turning(w)'
    BY <1>7, <1>t, <1>c, <1>k, <1>u
    DEF Recovers, At, Goto, Hosted, Owns, Stopped, recordVars, Turning
  <1>8. ASSUME NEW w \in Workers, CollectAbandoned(w) PROVE Turning(w)'
    <2>1. copy[w].phase = "Collecting" /\ copy' = copy /\ pc'[w] = "loop"
      BY <1>8, <1>t, <1>y DEF CollectAbandoned, Collects, At, Goto, Copied, Stands
    <2>2. QED
      BY <2>1 DEF Turning
  <1>9. ASSUME NEW w \in Workers, CollectEnds(w) PROVE Turning(w)'
    <2>1. CASE Errs(w)
      BY <1>9, <2>1, <1>e, <1>q DEF CollectEnds, At, Collects, Errs
    <2>2. CASE copy' = [copy EXCEPT ![w] = [copy[w] EXCEPT !.phase = Outcome(w)]]
               /\ Goto(w, "loop")
      <3>1. copy'[w] = [copy[w] EXCEPT !.phase = Outcome(w)]
        BY <2>2, <1>t
      <3>2. copy'[w].phase = Outcome(w) /\ Outcome(w) # "Waiting"
        BY <3>1, <1>t DEF Records, Outcome
      <3>3. pc'[w] \in {"dispatching", "loop"}
        BY <2>2, <1>t DEF Goto
      <3>4. QED
        BY <3>2, <3>3 DEF Turning
    <2>3. QED
      BY <1>9, <2>1, <2>2 DEF CollectEnds, Saves
  <1>10. ASSUME NEW w \in Workers, CollectUnusable(w) PROVE Turning(w)'
    BY <1>10, <1>e, <1>q
    DEF CollectUnusable, At, Collects, Errs
  <1>11. ASSUME NEW w \in Workers, SubmitConclusion(w) PROVE Turning(w)'
    <2>1. CASE Errs(w)
      BY <1>11, <2>1, <1>e, <1>q DEF SubmitConclusion, Collects, At, Errs
    <2>2. CASE Goto(w, "pasting")
      BY <2>2, <1>t DEF Goto, Turning
    <2>3. QED
      BY <1>11, <2>1, <2>2 DEF SubmitConclusion
  <1>12. ASSUME NEW w \in Workers, Fail(w) PROVE Turning(w)'
    BY <1>12, <1>t, <1>c, <1>k, <1>u
    DEF Fail, At, Goto, Hosted, Live, Owns, Stopped, lockVars, daemonVars, Turning
  <1>13. ASSUME NEW w \in Workers, Enabled(w) PROVE Turning(w)'
    <2>1. pc[w] = "enabling" /\ pc'[w] \in {"first", "loop"} /\ copy' = copy
      BY <1>13, <1>t DEF Enabled, At, Goto
    <2>2. copy[w].count = 0
      <3>1. pc[w] \in Resting \cup {"enabling"}
        BY <2>1
      <3>2. copy[w] = Fresh(w[1])
        BY <3>1, <1>y DEF Copied
      <3>3. QED
        BY <3>2 DEF Fresh
    <2>3. QED
      BY <2>1, <2>2 DEF Turning
  <1>14. ASSUME NEW w \in Workers, EnableFails(w) PROVE Turning(w)'
    BY <1>14, <1>e, <1>q DEF EnableFails, At
  <1>15. ASSUME NEW w \in Workers, Recovered(w) PROVE Turning(w)'
    <2>1. boot # 0 /\ boot' = boot
      BY <1>15 DEF Recovered, At, BootInv, Boot, recordVars
    <2>2. QED
      BY <2>1 DEF Turning
  <1>16. ASSUME NEW w \in Workers, RestoreFails(w) PROVE Turning(w)'
    BY <1>16, <1>e, <1>q
    DEF RestoreFails, At, Errs
  <1>17. ASSUME NEW w \in Workers, FirstReview(w) PROVE Turning(w)'
    BY <1>17, <1>t, <1>c, <1>k, <1>u
    DEF FirstReview, At, Goto, Hosted, Owns, recordVars, lockVars, daemonVars,
        Turning
  <1>18. ASSUME NEW w \in Workers, TakeEvent(w) PROVE Turning(w)'
    <2>1. pc[w] = "loop" /\ UNCHANGED copy
          /\ (pc'[w] = "starting" \/ (copy[w].phase # "Waiting" /\ pc'[w] = "loop"))
      BY <1>18, <1>t DEF TakeEvent, At, Goto
    <2>2. QED
      BY <2>1 DEF Turning
  <1>19. ASSUME NEW w \in Workers, StartReview(w) PROVE Turning(w)'
    <2>1. CASE Errs(w)
      BY <1>19, <2>1, <1>e, <1>q DEF StartReview, At, Errs
    <2>2. CASE copy' = [copy EXCEPT ![w] = [copy[w] EXCEPT !.phase = "Reviewing", !.run = @ + 1]]
               /\ Goto(w, "dispatching")
      <3>1. copy'[w] = [copy[w] EXCEPT !.phase = "Reviewing", !.run = @ + 1]
        BY <2>2, <1>t
      <3>2. copy'[w].phase = "Reviewing" /\ "Reviewing" # "Waiting"
        BY <3>1, <1>t DEF Records
      <3>3. pc'[w] \in {"dispatching", "loop"}
        BY <2>2, <1>t DEF Goto
      <3>4. QED
        BY <3>2, <3>3 DEF Turning
    <2>3. QED
      BY <1>19, <2>1, <2>2 DEF StartReview, Saves
  <1>20. ASSUME NEW w \in Workers, Dispatched(w) PROVE Turning(w)'
    <2>1. copy[w].phase = "Reviewing" /\ copy' = copy /\ pc'[w] = "loop"
      BY <1>20, <1>t, <1>y DEF Dispatched, At, Goto, Copied, Stands
    <2>2. QED
      BY <2>1 DEF Turning
  <1>21. ASSUME NEW w \in Workers, DispatchFails(w) PROVE Turning(w)'
    BY <1>21, <1>e, <1>q
    DEF DispatchFails, At, Errs
  <1>22. ASSUME NEW w \in Workers, ReviewDone(w) PROVE Turning(w)'
    <2>1. CASE Errs(w)
      BY <1>22, <2>1, <1>e, <1>q DEF ReviewDone, At, Errs
    <2>2. CASE copy' = [copy EXCEPT ![w] = [copy[w] EXCEPT !.phase = "Collecting"]]
               /\ Goto(w, "loop")
      <3>1. copy'[w] = [copy[w] EXCEPT !.phase = "Collecting"]
        BY <2>2, <1>t
      <3>2. copy'[w].phase = "Collecting" /\ "Collecting" # "Waiting"
        BY <3>1, <1>t DEF Records
      <3>3. pc'[w] \in {"dispatching", "loop"}
        BY <2>2, <1>t DEF Goto
      <3>4. QED
        BY <3>2, <3>3 DEF Turning
    <2>3. QED
      BY <1>22, <2>1, <2>2 DEF ReviewDone, Saves
  <1>23. ASSUME NEW w \in Workers, ReviewFails(w) PROVE Turning(w)'
    BY <1>23, <1>e, <1>q
    DEF ReviewFails, At, Errs
  <1>24. ASSUME NEW w \in Workers, CollectBegin(w) PROVE Turning(w)'
    BY <1>24, <1>t, <1>c, <1>k, <1>u
    DEF CollectBegin, At, Goto, recordVars, lockVars, daemonVars, Turning
  <1>25. ASSUME NEW w \in Workers, Pasted(w) PROVE Turning(w)'
    <2>1. pc[w] = "pasting" /\ pc'[w] = "entering" /\ Reads(w, "written")
      BY <1>25, <1>t DEF Pasted, At, Goto
    <2>2. /\ 1 \in DOMAIN inbox[w] /\ inbox[w][1] = "written"
          /\ \A i \in DOMAIN inbox'[w] :
               i \in Nat \ {0} /\ i + 1 \in DOMAIN inbox[w] /\ inbox'[w][i] = inbox[w][i + 1]
      BY <2>1, <1>c, ReadsFrom
    <2>3. \A i, j \in DOMAIN inbox[w] : inbox[w][i] = "written" /\ inbox[w][j] = "written" => i = j
      BY <2>1, <1>v DEF Asks, Running
    <2>4. \A i \in DOMAIN inbox'[w] : inbox'[w][i] # "written"
      BY <2>2, <2>3
    <2>5. QED
      BY <2>1, <2>4 DEF Turning
  <1>26. ASSUME NEW w \in Workers, WorkerEntered(w) PROVE Turning(w)'
    <2>1. /\ pc[w] = "entering" /\ pc'[w] = "entered" /\ Reads(w, "written")
          /\ UNCHANGED <<boot, events, prompts>>
      BY <1>26, <1>t DEF WorkerEntered, At, Goto, recordVars
    <2>2. 1 \in DOMAIN inbox[w] /\ inbox[w][1] = "written"
      BY <2>1, <1>c, ReadsFrom
    <2>3. QED
      BY <2>1, <2>2, <1>k DEF Turning
  <1>27. ASSUME NEW w \in Workers, Submitted(w) PROVE Turning(w)'
    <2>1. CASE Errs(w)
      BY <1>27, <2>1, <1>e, <1>q DEF Submitted, At, Errs
    <2>2. CASE Goto(w, "loop") /\ UNCHANGED <<pipe, inbox, events>>
      <3>1. pc[w] = "entered" /\ pc'[w] = "loop" /\ UNCHANGED <<boot, events, prompts>>
        BY <1>27, <2>2, <1>t DEF Submitted, At, Goto
      <3>2. QED
        BY <3>1, <1>k DEF Turning
    <2>3. QED
      BY <1>27, <2>1, <2>2 DEF Submitted, Saves
  <1>28. ASSUME NEW w \in Workers, WorkerSubmitFails(w) PROVE Turning(w)'
    BY <1>28, <1>e, <1>q
    DEF WorkerSubmitFails, Errs
  <1>29. ASSUME NEW w \in Workers, LoopEnds(w) PROVE Turning(w)'
    BY <1>29, <1>e, <1>q DEF LoopEnds
  <1>30. ASSUME NEW w \in Workers, NoticeLost(w) PROVE Turning(w)'
    BY <1>30, <1>e, <1>q
    DEF NoticeLost, At, Errs
  <1>31. ASSUME NEW w \in Workers, AgentChanged(w) PROVE Turning(w)'
    <2>1. CASE Errs(w)
      BY <1>31, <2>1, <1>e, <1>q DEF AgentChanged, At, Errs
    <2>2. CASE At(w, "recover") /\ Goto(w, "failing") /\ UNCHANGED <<copy, events, pipe, inbox>>
      BY <2>2, <1>31, <1>t, <1>c, <1>k, <1>u
      DEF AgentChanged, At, Fresh, Goto, Hosted, Live, Owns, Stopped, recordVars,
          lockVars, Turning
    <2>3. QED
      BY <1>31, <2>1, <2>2 DEF AgentChanged
  <1>32. ASSUME NEW w \in Workers, GateStep(w) \/ WorkerStep(w) \/ AgentChanged(w)
        PROVE  TurnInv'
    <2>1. Turning(w)'
      BY <1>32, <1>5, <1>6, <1>7, <1>8, <1>9, <1>10, <1>11, <1>12, <1>13, <1>14, <1>15,
           <1>16, <1>17, <1>18, <1>19, <1>20, <1>21, <1>22, <1>23, <1>24, <1>25, <1>26,
           <1>27, <1>28, <1>29, <1>30, <1>31 DEF GateStep, WorkerStep
    <2>2. ASSUME NEW v \in Workers, v # w PROVE Turning(v)'
      BY <1>32, <1>o, <1>k, <1>c, <2>2 DEF Local, Turning
    <2>3. QED
      BY <2>1, <2>2 DEF TurnInv
  <1>33. ASSUME NEW h \in Hostings, ReviewEnds(h) PROVE TurnInv'
    BY <1>33, <1>k DEF ReviewEnds, recordVars, daemonVars, TurnInv, Turning
  <1>34. ASSUME TurnEnds PROVE TurnInv'
    <2>1. ASSUME NEW v \in Workers PROVE Turning(v)'
      <3>1. UNCHANGED <<boot, pc, copy, inbox>> /\ prompts > 0 /\ prompts' = prompts - 1
        BY <1>34 DEF TurnEnds, recordVars, daemonVars
      <3>2. events'[v] = IF Subscribed(v) THEN events[v] + 1 ELSE events[v]
        BY <1>34 DEF TurnEnds
      <3>3. pc[v] \in {"entering", "entered", "loop"} => events'[v] = events[v] + 1
        BY <3>2 DEF Subscribed
      <3>4. QED
        BY <3>1, <3>3, <1>u DEF Turning
    <2>2. QED
      BY <2>1 DEF TurnInv
  <1>35. ASSUME Crash PROVE TurnInv'
    <2>1. boot' # 0
      BY <1>35 DEF Crash, TypeOK, RecordType, Boots
    <2>2. QED
      BY <2>1 DEF TurnInv, Turning
  <1>36. CASE UNCHANGED vars
    BY <1>36, <1>k DEF vars, recordVars, daemonVars, workVars, TurnInv, Turning
  <1> QED
    BY <1>1, <1>2, <1>3, <1>4, <1>32, <1>33, <1>34, <1>35, <1>36, <1>c DEF Next

-----------------------------------------------------------------------------
(* Conclusions *)

\* A conclusion that is spent stays spent: runs are counted up, and ids given once.
LEMMA SpentKept ==
    ASSUME TypeOK, BootInv, CopyInv, [Next]_vars, NEW t, Spent(t)
    PROVE  Spent(t)'
  <1>k. \A v \in Workers : Copied(v)
    BY DEF CopyInv
  <1>r. \A w \in Workers : copy[w].run \in Nat /\ copy[w].count \in Nat /\ copy[w] \in Records
    BY HostingAssumption DEF TypeOK, WorkType, Records
  <1>t. hosting = None \/ (hosting \in Records /\ hosting.run \in Nat)
    BY DEF TypeOK, RecordType, Records
  <1>s. /\ t \in used \X (1..MaxInputs) /\ t[1] \in used /\ t[2] \in 1..MaxInputs
        /\ Hosted /\ hosting.id = t[1] =>
             /\ t[2] <= hosting.run
             /\ hosting.phase \in {"Reviewing", "Collecting"} => t[2] < hosting.run
    BY DEF Spent
  <1>u. ASSUME used \subseteq used', hosting' = hosting \/ hosting' = None PROVE Spent(t)'
    BY <1>u, <1>s DEF Spent, Hosted
  <1>v. ASSUME used \subseteq used', Hosted, hosting'.id = hosting.id,
               hosting'.run \in Nat, hosting'.run >= hosting.run,
               \/ hosting'.phase \notin {"Reviewing", "Collecting"}
               \/ hosting.phase \in {"Reviewing", "Collecting"}
               \/ hosting'.run > hosting.run
        PROVE  Spent(t)'
    <2>1. t \in used' \X (1..MaxInputs)
      BY <1>v, <1>s
    <2>2. ASSUME hosting.id = t[1]
          PROVE  /\ t[2] <= hosting'.run
                 /\ hosting'.phase \in {"Reviewing", "Collecting"} => t[2] < hosting'.run
      BY <1>v, <1>s, <1>t, <2>2, HostingAssumption DEF Hosted
    <2>3. QED
      BY <1>v, <2>1, <2>2 DEF Spent
  <1>1. ASSUME NEW h \in Hostings, Enable(h) PROVE Spent(t)'
    <2>1. hosting'.id # t[1] /\ used \subseteq used'
      BY <1>1, <1>s DEF Enable, Fresh
    <2>2. QED
      BY <2>1, <1>s DEF Spent
  <1>2. ASSUME NEW w \in Workers, CollectEnds(w) PROVE Spent(t)'
    <2>1. used' = used
      BY <1>2 DEF CollectEnds
    <2>2. hosting' = hosting \/ (Owns(w) /\ hosting' = [copy[w] EXCEPT !.phase = Outcome(w)])
      BY <1>2 DEF CollectEnds, Saves
    <2>3. CASE Owns(w) /\ hosting' = [copy[w] EXCEPT !.phase = Outcome(w)]
      <3>1. pc[w] = "collecting"
        BY <1>2 DEF CollectEnds, Collects, At
      <3>2. copy[w] = hosting
        BY <2>3, <3>1, <1>k DEF Copied, Running
      <3>3. hosting'.id = copy[w].id /\ hosting'.run = copy[w].run /\ hosting'.phase = Outcome(w)
        BY <2>3, <1>r DEF Records
      <3>4. hosting'.phase \notin {"Reviewing", "Collecting"}
        BY <3>1, <3>2, <3>3, <1>r DEF Outcome
      <3>5. hosting'.run \in Nat /\ hosting'.run >= hosting.run
        BY <3>2, <3>3, <1>r
      <3>6. QED
        BY <2>1, <2>3, <3>2, <3>3, <3>4, <3>5, <1>v DEF Owns
    <2>4. QED
      BY <2>1, <2>2, <2>3, <1>u
  <1>3. ASSUME NEW w \in Workers, SubmitConclusion(w) PROVE Spent(t)'
    <2>1. used' = used
      BY <1>3 DEF SubmitConclusion
    <2>2. hosting' = hosting \/ (Owns(w) /\ hosting' = [copy[w] EXCEPT !.phase = "Submitting"])
      BY <1>3 DEF SubmitConclusion
    <2>3. CASE Owns(w) /\ hosting' = [copy[w] EXCEPT !.phase = "Submitting"]
      <3>1. pc[w] = "collecting"
        BY <1>3 DEF SubmitConclusion, Collects, At
      <3>2. copy[w] = hosting
        BY <2>3, <3>1, <1>k DEF Copied, Running
      <3>3. hosting'.id = copy[w].id /\ hosting'.run = copy[w].run /\ hosting'.phase = "Submitting"
        BY <2>3, <1>r DEF Records
      <3>4. hosting'.phase \notin {"Reviewing", "Collecting"}
        BY <3>1, <3>2, <3>3, <1>r
      <3>5. hosting'.run \in Nat /\ hosting'.run >= hosting.run
        BY <3>2, <3>3, <1>r
      <3>6. QED
        BY <2>1, <2>3, <3>2, <3>3, <3>4, <3>5, <1>v DEF Owns
    <2>4. QED
      BY <2>1, <2>2, <2>3, <1>u
  <1>4. ASSUME NEW w \in Workers, Fail(w) PROVE Spent(t)'
    <2>1. used' = used
      BY <1>4 DEF Fail
    <2>2. hosting' = hosting \/ (hosting' = [hosting EXCEPT !.phase = "Failed"] /\ Hosted)
      BY <1>4 DEF Fail, Live, Owns
    <2>3. CASE hosting' = [hosting EXCEPT !.phase = "Failed"] /\ Hosted
      <3>1. /\ hosting'.id = hosting.id /\ hosting'.run = hosting.run
            /\ hosting'.phase = "Failed"
        BY <2>3, <1>t DEF Hosted, Records
      <3>2. QED
        BY <2>1, <2>3, <3>1, <1>t, <1>v DEF Hosted
    <2>4. QED
      BY <2>1, <2>2, <2>3, <1>u
  <1>5. ASSUME NEW w \in Workers, EnableFails(w) PROVE Spent(t)'
    <2>1. used' = used
      BY <1>5 DEF EnableFails
    <2>2. hosting' = hosting \/ (hosting' = [hosting EXCEPT !.phase = "Failed"] /\ Hosted)
      BY <1>5 DEF EnableFails, Live, Owns
    <2>3. CASE hosting' = [hosting EXCEPT !.phase = "Failed"] /\ Hosted
      <3>1. /\ hosting'.id = hosting.id /\ hosting'.run = hosting.run
            /\ hosting'.phase = "Failed"
        BY <2>3, <1>t DEF Hosted, Records
      <3>2. QED
        BY <2>1, <2>3, <3>1, <1>t, <1>v DEF Hosted
    <2>4. QED
      BY <2>1, <2>2, <2>3, <1>u
  <1>6. ASSUME NEW w \in Workers, StartReview(w) PROVE Spent(t)'
    <2>1. used' = used
      BY <1>6 DEF StartReview
    <2>2. hosting' = hosting \/ (Owns(w) /\ hosting' = [copy[w] EXCEPT !.phase =
         "Reviewing", !.run = @ + 1])
      BY <1>6 DEF StartReview, Saves
    <2>3. CASE Owns(w) /\ hosting' = [copy[w] EXCEPT !.phase = "Reviewing", !.run = @ + 1]
      <3>1. pc[w] = "starting"
        BY <1>6 DEF StartReview, At
      <3>2. copy[w] = hosting
        BY <2>3, <3>1, <1>k DEF Copied, Running
      <3>3. hosting'.id = copy[w].id /\ hosting'.run = copy[w].run + 1 /\ hosting'.phase =
           "Reviewing"
        BY <2>3, <1>r DEF Records
      <3>4. hosting'.run > hosting.run
        BY <3>1, <3>2, <3>3, <1>r
      <3>5. hosting'.run \in Nat /\ hosting'.run >= hosting.run
        BY <3>2, <3>3, <1>r
      <3>6. QED
        BY <2>1, <2>3, <3>2, <3>3, <3>4, <3>5, <1>v DEF Owns
    <2>4. QED
      BY <2>1, <2>2, <2>3, <1>u
  <1>7. ASSUME NEW w \in Workers, ReviewDone(w) PROVE Spent(t)'
    <2>1. used' = used
      BY <1>7 DEF ReviewDone
    <2>2. hosting' = hosting \/ (Owns(w) /\ hosting' = [copy[w] EXCEPT !.phase = "Collecting"])
      BY <1>7 DEF ReviewDone, Saves
    <2>3. CASE Owns(w) /\ hosting' = [copy[w] EXCEPT !.phase = "Collecting"]
      <3>1. pc[w] = "loop" /\ copy[w].phase = "Reviewing"
        BY <1>7 DEF ReviewDone, At
      <3>2. copy[w] = hosting
        BY <2>3, <3>1, <1>k DEF Copied, Running
      <3>3. hosting'.id = copy[w].id /\ hosting'.run = copy[w].run /\ hosting'.phase = "Collecting"
        BY <2>3, <1>r DEF Records
      <3>4. hosting.phase = "Reviewing"
        BY <3>1, <3>2, <3>3, <1>r
      <3>5. hosting'.run \in Nat /\ hosting'.run >= hosting.run
        BY <3>2, <3>3, <1>r
      <3>6. QED
        BY <2>1, <2>3, <3>2, <3>3, <3>4, <3>5, <1>v DEF Owns
    <2>4. QED
      BY <2>1, <2>2, <2>3, <1>u
  <1>8. ASSUME NEW w \in Workers, Submitted(w) PROVE Spent(t)'
    <2>1. used' = used
      BY <1>8 DEF Submitted
    <2>2. hosting' = hosting \/ (Owns(w) /\ hosting' = [copy[w] EXCEPT !.phase =
         "Waiting", !.count = @ + 1])
      BY <1>8 DEF Submitted, Saves
    <2>3. CASE Owns(w) /\ hosting' = [copy[w] EXCEPT !.phase = "Waiting", !.count = @ + 1]
      <3>1. pc[w] = "entered"
        BY <1>8 DEF Submitted, At
      <3>2. copy[w] = hosting
        BY <2>3, <3>1, <1>k DEF Copied, Running
      <3>3. hosting'.id = copy[w].id /\ hosting'.run = copy[w].run /\ hosting'.phase = "Waiting"
        BY <2>3, <1>r DEF Records
      <3>4. hosting'.phase \notin {"Reviewing", "Collecting"}
        BY <3>1, <3>2, <3>3, <1>r
      <3>5. hosting'.run \in Nat /\ hosting'.run >= hosting.run
        BY <3>2, <3>3, <1>r
      <3>6. QED
        BY <2>1, <2>3, <3>2, <3>3, <3>4, <3>5, <1>v DEF Owns
    <2>4. QED
      BY <2>1, <2>2, <2>3, <1>u
  <1>9. ASSUME NEW b \in Browsers, BrowserStep(b) PROVE Spent(t)'
    BY <1>9, <1>u, BrowserFrame
  <1>10. ASSUME NEW c \in Clients, DaemonStep(c) PROVE Spent(t)'
    BY <1>10, <1>u, DaemonFrame DEF recordVars
  <1>11. ASSUME NEW s \in Submitters, (s \in Submissions /\ SubmitBegin(s)) \/ SubmitStep(s)
        PROVE  Spent(t)'
    <2>1. s \notin Workers
      BY <1>11, HostingAssumption
    <2>2. QED
      BY <1>11, <1>u, <2>1, Locality DEF Local
  <1>12. ASSUME NEW w \in Workers, RecoverSkips(w) PROVE Spent(t)'
    BY <1>12, <1>u DEF RecoverSkips, recordVars
  <1>13. ASSUME NEW w \in Workers, RecoverRefuses(w) PROVE Spent(t)'
    BY <1>13, <1>u DEF RecoverRefuses, recordVars
  <1>14. ASSUME NEW w \in Workers, Recovers(w) PROVE Spent(t)'
    BY <1>14, <1>u DEF Recovers, recordVars
  <1>15. ASSUME NEW w \in Workers, CollectAbandoned(w) PROVE Spent(t)'
    BY <1>15, <1>u DEF CollectAbandoned, recordVars
  <1>16. ASSUME NEW w \in Workers, CollectUnusable(w) PROVE Spent(t)'
    BY <1>16, <1>u DEF CollectUnusable, recordVars
  <1>17. ASSUME NEW w \in Workers, Enabled(w) PROVE Spent(t)'
    BY <1>17, <1>u DEF Enabled, recordVars
  <1>18. ASSUME NEW w \in Workers, Recovered(w) PROVE Spent(t)'
    BY <1>18, <1>u DEF Recovered, recordVars
  <1>19. ASSUME NEW w \in Workers, RestoreFails(w) PROVE Spent(t)'
    BY <1>19, <1>u DEF RestoreFails, recordVars
  <1>20. ASSUME NEW w \in Workers, FirstReview(w) PROVE Spent(t)'
    BY <1>20, <1>u DEF FirstReview, recordVars
  <1>21. ASSUME NEW w \in Workers, TakeEvent(w) PROVE Spent(t)'
    BY <1>21, <1>u DEF TakeEvent, recordVars
  <1>22. ASSUME NEW w \in Workers, Dispatched(w) PROVE Spent(t)'
    BY <1>22, <1>u DEF Dispatched, recordVars
  <1>23. ASSUME NEW w \in Workers, DispatchFails(w) PROVE Spent(t)'
    BY <1>23, <1>u DEF DispatchFails, recordVars
  <1>24. ASSUME NEW w \in Workers, ReviewFails(w) PROVE Spent(t)'
    BY <1>24, <1>u DEF ReviewFails, recordVars
  <1>25. ASSUME NEW w \in Workers, CollectBegin(w) PROVE Spent(t)'
    BY <1>25, <1>u DEF CollectBegin, recordVars
  <1>26. ASSUME NEW w \in Workers, Pasted(w) PROVE Spent(t)'
    BY <1>26, <1>u DEF Pasted, recordVars
  <1>27. ASSUME NEW w \in Workers, WorkerEntered(w) PROVE Spent(t)'
    BY <1>27, <1>u DEF WorkerEntered, recordVars
  <1>28. ASSUME NEW w \in Workers, WorkerSubmitFails(w) PROVE Spent(t)'
    BY <1>28, <1>u DEF WorkerSubmitFails, recordVars
  <1>29. ASSUME NEW w \in Workers, LoopEnds(w) PROVE Spent(t)'
    BY <1>29, <1>u DEF LoopEnds, recordVars
  <1>30. ASSUME NEW w \in Workers, NoticeLost(w) PROVE Spent(t)'
    BY <1>30, <1>u DEF NoticeLost, recordVars
  <1>31. ASSUME NEW w \in Workers, AgentChanged(w) PROVE Spent(t)'
    BY <1>31, <1>u DEF AgentChanged, recordVars
  <1>32. CASE UNCHANGED vars
    BY <1>32, <1>u DEF vars, recordVars
  <1>33. ASSUME (\E h \in Hostings : ReviewEnds(h)) \/ TurnEnds \/ Crash PROVE Spent(t)'
    BY <1>33, <1>u DEF ReviewEnds, TurnEnds, Crash, recordVars
  <1> QED
    BY <1>1, <1>2, <1>3, <1>4, <1>5, <1>6, <1>7, <1>8, <1>12, <1>13, <1>14, <1>15,
       <1>16, <1>17, <1>18, <1>19, <1>20, <1>21, <1>22, <1>23, <1>24, <1>25, <1>26,
       <1>27, <1>28, <1>29, <1>30, <1>31, <1>9, <1>10, <1>11, <1>32, <1>33
    DEF Next, GateStep, WorkerStep, Submitters

\* Where no conclusion is added, those in a queue stay different.
LEMMA NoNewPaste ==
    ASSUME PasteInv, pasted' = pasted, \A t : Spent(t) => Spent(t)',
           \A w \in Workers : \A k \in DOMAIN pipe'[w] : pipe'[w][k].op = "paste" =>
             k \in DOMAIN pipe[w] /\ pipe'[w][k] = pipe[w][k]
    PROVE  PasteInv'
  BY DEF PasteInv

\* A worker pastes the conclusion of the review that it has just collected: the latest.
LEMMA NewestPaste ==
    ASSUME TypeOK, BootInv, CopyInv, PasteInv, \A t : Spent(t) => Spent(t)',
           NEW w \in Workers, SubmitConclusion(w), ~Errs(w)
    PROVE  PasteInv'
  <1>0. PICK t : t = <<w[1], copy[w].run>>
    OBVIOUS
  <1> DEFINE f == [op |-> "paste", text |-> t]
  <1>1. /\ pc[w] = "collecting" /\ Owns(w) /\ ~AtLimit(w)
        /\ hosting' = [copy[w] EXCEPT !.phase = "Submitting"] /\ used' = used /\ pasted' = pasted
        /\ Sends(w, f)
    BY <1>0 DEF SubmitConclusion, Collects, At, Outcome
  <1>2. copy[w] \in Records /\ copy[w].run \in Nat /\ copy[w].count \in Nat /\ w \in Clients
    BY HostingAssumption DEF TypeOK, WorkType, Records, Clients
  <1>3. /\ copy[w] = hosting /\ copy[w].phase = "Collecting"
        /\ copy[w].run = copy[w].count + 1 /\ copy[w].count < MaxInputs
    BY <1>1, <1>2, HostingAssumption DEF CopyInv, Copied, Stands, Rounds, Running, AtLimit
  <1>4. Spent(t)'
    <2>1. w[1] \in used
      BY <1>1 DEF BootInv, Boot
    <2>2. t \in used \X (1..MaxInputs)
      BY <1>0, <1>2, <1>3, <2>1, HostingAssumption
    <2>3. hosting'.run = copy[w].run /\ hosting'.phase = "Submitting"
      BY <1>1, <1>2 DEF Records
    <2>4. QED
      BY <1>0, <1>1, <1>2, <2>2, <2>3 DEF Spent
  <1>5. \A s : Spent(s) => s # t
    BY <1>0, <1>1, <1>2, <1>3 DEF Spent, Owns
  <1>6. f \in Frames
    BY <1>0, <1>2 DEF Frames, Ops, Workers
  <1>7. /\ \A v \in Workers : v # w => pipe'[v] = pipe[v]
        /\ \A i \in DOMAIN pipe'[w] :
             \/ i \in DOMAIN pipe[w] /\ pipe'[w][i] = pipe[w][i]
             \/ i = Len(pipe[w]) + 1 /\ pipe'[w][i].op = "paste" /\ pipe'[w][i].text = t
    BY <1>1, <1>2, <1>6, SendsTo DEF Clients
  <1>8. ASSUME NEW v \in Workers, NEW k \in DOMAIN pipe'[v], pipe'[v][k].op = "paste"
        PROVE  \/ k \in DOMAIN pipe[v] /\ pipe'[v][k] = pipe[v][k] /\ pipe'[v][k].text # t
               \/ v = w /\ k = Len(pipe[w]) + 1 /\ pipe'[v][k].text = t
    BY <1>5, <1>7, <1>8 DEF PasteInv
  <1>9. /\ \A i \in DOMAIN pasted' : Spent(pasted[i])' /\ pasted'[i] # t
        /\ \A i, j \in DOMAIN pasted' : pasted'[i] = pasted'[j] => i = j
    BY <1>1, <1>5 DEF PasteInv
  <1>10. ASSUME NEW v \in Workers, NEW k \in DOMAIN pipe'[v], pipe'[v][k].op = "paste"
         PROVE  /\ Spent(pipe[v][k].text)'
                /\ \A i \in DOMAIN pasted' : pasted'[i] # pipe'[v][k].text
    BY <1>1, <1>4, <1>8, <1>9, <1>10 DEF PasteInv
  <1>11. ASSUME NEW v \in Workers, NEW k \in DOMAIN pipe'[v], pipe'[v][k].op = "paste",
                NEW u \in Workers, NEW l \in DOMAIN pipe'[u], pipe'[u][l].op = "paste",
                pipe'[u][l].text = pipe'[v][k].text
         PROVE  u = v /\ l = k
    BY <1>8, <1>11 DEF PasteInv
  <1>12. QED
    BY <1>1, <1>9, <1>10, <1>11 DEF PasteInv

\* terminald takes frames from the front, and writes the conclusion it takes.
LEMMA DaemonPastes ==
    ASSUME TypeOK, PasteInv, \A t : Spent(t) => Spent(t)', NEW c \in Clients, DaemonStep(c)
    PROVE  PasteInv'
  <1>1. ASSUME NEW v \in Workers
        PROVE  \E k \in {0, 1} : \A i \in DOMAIN pipe'[v] :
                 i \in Nat /\ i + k \in DOMAIN pipe[v] /\ pipe'[v][i] = pipe[v][i + k]
    BY DaemonFrame DEF Clients
  <1>2. ASSUME NEW v \in Workers, NEW k \in DOMAIN pipe'[v], pipe'[v][k].op = "paste",
               NEW u \in Workers, NEW l \in DOMAIN pipe'[u], pipe'[u][l].op = "paste",
               pipe'[u][l].text = pipe'[v][k].text
        PROVE  u = v /\ l = k
    <2>1. PICK m \in {0, 1} : \A i \in DOMAIN pipe'[v] :
            i \in Nat /\ i + m \in DOMAIN pipe[v] /\ pipe'[v][i] = pipe[v][i + m]
      BY <1>1
    <2>2. PICK n \in {0, 1} : \A i \in DOMAIN pipe'[u] :
            i \in Nat /\ i + n \in DOMAIN pipe[u] /\ pipe'[u][i] = pipe[u][i + n]
      BY <1>1
    <2>3. u = v /\ l + n = k + m
      BY <1>2, <2>1, <2>2 DEF PasteInv
    <2>4. \A i \in DOMAIN pipe'[v] :
            i \in Nat /\ i + n \in DOMAIN pipe[v] /\ pipe'[v][i] = pipe[v][i + n]
      BY <2>2, <2>3
    <2>5. l + m \in DOMAIN pipe[v] /\ pipe'[v][l] = pipe[v][l + m]
      BY <2>1, <2>3
    <2>6. l + m = k + m
      BY <1>2, <2>1, <2>3, <2>5 DEF PasteInv
    <2>7. QED
      BY <2>1, <2>3, <2>6
  <1>3. ASSUME NEW v \in Workers, NEW k \in DOMAIN pipe'[v], pipe'[v][k].op = "paste"
        PROVE  Spent(pipe[v][k].text)' /\ \A i \in DOMAIN pasted : pasted[i] # pipe'[v][k].text
    BY <1>1, <1>3 DEF PasteInv
  <1>4. CASE pasted' = pasted
    <2>1. /\ \A i \in DOMAIN pasted' : Spent(pasted[i])'
          /\ \A i, j \in DOMAIN pasted' : pasted'[i] = pasted'[j] => i = j
      BY <1>4 DEF PasteInv
    <2>2. QED
      BY <1>2, <1>3, <1>4, <2>1 DEF PasteInv
  <1>5. CASE pasted' # pasted
    <2>1. /\ pipe[c] # <<>> /\ Head(pipe[c]).op = "paste" /\ c \in Workers
          /\ pasted' = Append(pasted, Head(pipe[c]).text) /\ pipe' = [pipe EXCEPT ![c] = Tail(@)]
      BY <1>5 DEF DaemonStep, DaemonClaims, DaemonRefuses, DaemonUnchanged, DaemonVacancy,
          DaemonReleases, DaemonWrites, Is
    <2>2. /\ pipe \in Pipes /\ pipe[c] \in Seq(Frames) /\ pasted \in Seq(Hostings \X Nat)
      BY DEF TypeOK, DaemonType, Pipes
    <2>3. /\ 1 \in DOMAIN pipe[c] /\ Head(pipe[c]) = pipe[c][1]
          /\ pipe'[c] = Tail(pipe[c]) /\ \A d \in Clients : d # c => pipe'[d] = pipe[d]
      BY <2>1, <2>2 DEF Pipes
    <2>4. \A i \in DOMAIN pipe'[c] :
            i \in Nat \ {0} /\ i + 1 \in DOMAIN pipe[c] /\ pipe'[c][i] = pipe[c][i + 1]
      <3>1. pipe'[c] = Tail(pipe[c]) /\ pipe[c] # <<>> /\ pipe[c] \in Seq(Frames)
        BY <2>1, <2>2, <2>3
      <3>2. \A i \in 1..Len(Tail(pipe[c])) :
              i \in Nat \ {0} /\ i + 1 \in 1..Len(pipe[c]) /\ Tail(pipe[c])[i] = pipe[c][i + 1]
        BY <3>1
      <3>3. DOMAIN Tail(pipe[c]) = 1..Len(Tail(pipe[c])) /\ DOMAIN pipe[c] = 1..Len(pipe[c])
        BY <3>1
      <3>4. QED
        BY <3>1, <3>2, <3>3
    <2>t. PICK t : t = pipe[c][1].text
      OBVIOUS
    <2>5. Spent(t) /\ \A i \in DOMAIN pasted : pasted[i] # t
      BY <2>t, <2>1, <2>3 DEF PasteInv
    <2>6. \A i \in DOMAIN pasted' :
            \/ i \in DOMAIN pasted /\ pasted'[i] = pasted[i]
            \/ i = Len(pasted) + 1 /\ pasted'[i] = t
      BY <2>t, <2>1, <2>2, <2>3
    <2>7. \A i \in DOMAIN pasted' : Spent(pasted[i])'
      BY <2>5, <2>6 DEF PasteInv
    <2>8. \A i, j \in DOMAIN pasted' : pasted'[i] = pasted'[j] => i = j
      BY <2>5, <2>6 DEF PasteInv
    <2>9. ASSUME NEW v \in Workers, NEW k \in DOMAIN pipe'[v], pipe'[v][k].op = "paste"
          PROVE  pipe'[v][k].text # t
      <3>1. CASE v = c
        <4>1. k + 1 # 1 /\ k + 1 \in DOMAIN pipe[c] /\ pipe'[v][k] = pipe[c][k + 1]
          BY <2>4, <2>9, <3>1
        <4>2. QED
          BY <2>t, <2>1, <2>3, <2>9, <4>1 DEF PasteInv
      <3>2. CASE v # c
        <4>1. pipe'[v] = pipe[v]
          BY <2>3, <3>2 DEF Clients
        <4>2. QED
          BY <2>t, <2>1, <2>3, <2>9, <3>2, <4>1 DEF PasteInv
      <3>3. QED
        BY <3>1, <3>2
    <2>10. ASSUME NEW v \in Workers, NEW k \in DOMAIN pipe'[v], pipe'[v][k].op = "paste"
           PROVE  \A i \in DOMAIN pasted' : pasted'[i] # pipe'[v][k].text
      BY <1>3, <2>6, <2>9, <2>10
    <2>11. QED
      BY <1>2, <1>3, <2>7, <2>8, <2>10 DEF PasteInv
  <1>6. QED
    BY <1>4, <1>5

\* A conclusion is pasted by the worker that submits it, and by nobody else.
LEMMA PasteStep == TypeOK /\ BootInv /\ CopyInv /\ PasteInv /\ [Next]_vars => PasteInv'
  <1> SUFFICES ASSUME TypeOK, BootInv, CopyInv, PasteInv, [Next]_vars PROVE PasteInv'
    OBVIOUS
  <1>c. /\ Browsers \subseteq Clients /\ Submitters \subseteq Clients /\ Workers \subseteq Clients
        /\ Submissions \subseteq Submitters /\ Creation \in Submitters /\ Creation \notin
             Submissions
        /\ \A b \in Browsers : b \notin Submitters /\ b \notin Workers
        /\ \A s \in Submitters : s \notin Workers
        /\ \A c \in Clients : c # None
    BY HostingAssumption DEF Clients, Submitters
  <1>f. \A op \in {"claim", "force", "paste", "enter", "close"} :
          Frame(op) \in Frames /\ Frame(op).op = op
    BY FrameType DEF Ops, Frame
  <1>t. /\ pc \in [Workers \cup Submitters -> Labels] /\ copy \in [Workers -> Records]
        /\ events \in [Workers -> Nat] /\ pipe \in Pipes /\ inbox \in Boxes
        /\ \A w \in Workers : copy[w].id = w[1]
        /\ hosting = None \/ hosting \in Records
    BY DEF TypeOK, WorkType, DaemonType, RecordType
  <1>h. ASSUME NEW h \in Hostings
        PROVE  /\ Worker(h) \in Workers /\ Worker(h)[1] = h /\ Worker(h)[2] = boot
               /\ Fresh(h).id = h /\ Fresh(h) # None
    BY FreshType DEF Worker, Workers, TypeOK, RecordType
  <1>l. {"off", "failing", "unsaved"} \subseteq Labels
    BY DEF Labels
  <1>e. ASSUME NEW w \in Workers, NEW l \in {"off", "failing", "unsaved"}, Returns(w, l)
        PROVE  Quits(w, l)
    BY <1>e, <1>l, Quitting
  <1>p. ASSUME NEW s \in Submitters, (s \in Submissions /\ SubmitBegin(s)) \/ SubmitStep(s)
        PROVE  Local(s) /\ ForcedClaim(s)
    BY <1>p, Locality
  <1>s. \A t : Spent(t) => Spent(t)'
    BY SpentKept
  <1>u. ASSUME UNCHANGED <<pipe, pasted>> PROVE PasteInv'
    BY <1>u, <1>s, NoNewPaste
  <1>x. ASSUME NEW w \in Workers, UNCHANGED <<pipe, pasted>> PROVE PasteInv'
    BY <1>x, <1>u
  <1>y. ASSUME NEW w \in Workers, pasted' = pasted,
               \A d \in Workers : d # w => pipe'[d] = pipe[d],
               \A i \in DOMAIN pipe'[w] : pipe'[w][i].op = "paste" =>
                 i \in DOMAIN pipe[w] /\ pipe'[w][i] = pipe[w][i]
        PROVE  PasteInv'
    BY <1>y, <1>s, NoNewPaste
  <1>z. ASSUME pasted' = pasted, \A d \in Workers : pipe'[d] = pipe[d] PROVE PasteInv'
    BY <1>z, <1>s, NoNewPaste
  <1>q. ASSUME NEW w \in Workers, NEW l, Quits(w, l), pasted' = pasted PROVE PasteInv'
    BY <1>q, <1>y, <1>c, <1>f DEF Quits
  <1>r. ASSUME NEW w \in Workers, Errs(w), pasted' = pasted PROVE PasteInv'
    BY <1>r, <1>e, <1>q DEF Errs
  <1>1. ASSUME NEW c \in Clients, DaemonStep(c) PROVE PasteInv'
    BY <1>1, <1>s, DaemonPastes
  <1>2. ASSUME NEW b \in Browsers, BrowserStep(b) PROVE PasteInv'
    BY <1>2, <1>c, <1>z, BrowserFrame
  <1>3. ASSUME NEW s \in Submitters, (s \in Submissions /\ SubmitBegin(s)) \/ SubmitStep(s)
        PROVE  PasteInv'
    BY <1>3, <1>p, <1>c, <1>z DEF Local
  <1>4. ASSUME NEW h \in Hostings, Enable(h) PROVE PasteInv'
    <2>1. PICK w \in Workers : w = Worker(h)
      BY <1>h
    <2>2. Attaches(w, "force") /\ pasted' = pasted
      BY <1>4, <2>1 DEF Enable
    <2>3. QED
      BY <2>2, <1>c, <1>f, <1>y, Attaching DEF TypeOK, Ops
  <1>5. ASSUME NEW w \in Workers, RecoverSkips(w) PROVE PasteInv'
    BY <1>5, <1>x DEF RecoverSkips, daemonVars
  <1>6. ASSUME NEW w \in Workers, RecoverRefuses(w) PROVE PasteInv'
    BY <1>6, <1>x DEF RecoverRefuses, daemonVars
  <1>7. ASSUME NEW w \in Workers, Recovers(w) PROVE PasteInv'
    <2>1. Attaches(w, "force") /\ pasted' = pasted
      BY <1>7 DEF Recovers
    <2>2. QED
      BY <2>1, <1>c, <1>f, <1>y, Attaching DEF TypeOK, Ops
  <1>8. ASSUME NEW w \in Workers, CollectAbandoned(w) PROVE PasteInv'
    BY <1>8, <1>x DEF CollectAbandoned, daemonVars
  <1>9. ASSUME NEW w \in Workers, CollectEnds(w) PROVE PasteInv'
    BY <1>9, <1>r, <1>x DEF CollectEnds, Saves
  <1>10. ASSUME NEW w \in Workers, CollectUnusable(w) PROVE PasteInv'
    BY <1>10, <1>r DEF CollectUnusable
  <1>11. ASSUME NEW w \in Workers, SubmitConclusion(w) PROVE PasteInv'
    BY <1>11, <1>s, <1>r, NewestPaste DEF SubmitConclusion
  <1>12. ASSUME NEW w \in Workers, Fail(w) PROVE PasteInv'
    BY <1>12, <1>x DEF Fail, daemonVars
  <1>13. ASSUME NEW w \in Workers, Enabled(w) PROVE PasteInv'
    BY <1>13, <1>x DEF Enabled
  <1>14. ASSUME NEW w \in Workers, EnableFails(w) PROVE PasteInv'
    BY <1>14, <1>e, <1>q DEF EnableFails
  <1>15. ASSUME NEW w \in Workers, Recovered(w) PROVE PasteInv'
    BY <1>15, <1>x DEF Recovered
  <1>16. ASSUME NEW w \in Workers, RestoreFails(w) PROVE PasteInv'
    BY <1>16, <1>r DEF RestoreFails
  <1>17. ASSUME NEW w \in Workers, FirstReview(w) PROVE PasteInv'
    BY <1>17, <1>x DEF FirstReview, daemonVars
  <1>18. ASSUME NEW w \in Workers, TakeEvent(w) PROVE PasteInv'
    BY <1>18, <1>x DEF TakeEvent, daemonVars
  <1>19. ASSUME NEW w \in Workers, StartReview(w) PROVE PasteInv'
    BY <1>19, <1>r, <1>x DEF StartReview, Saves
  <1>20. ASSUME NEW w \in Workers, Dispatched(w) PROVE PasteInv'
    BY <1>20, <1>x DEF Dispatched, daemonVars
  <1>21. ASSUME NEW w \in Workers, DispatchFails(w) PROVE PasteInv'
    BY <1>21, <1>r DEF DispatchFails
  <1>22. ASSUME NEW w \in Workers, ReviewDone(w) PROVE PasteInv'
    BY <1>22, <1>r, <1>x DEF ReviewDone, Saves
  <1>23. ASSUME NEW w \in Workers, ReviewFails(w) PROVE PasteInv'
    BY <1>23, <1>r DEF ReviewFails
  <1>24. ASSUME NEW w \in Workers, CollectBegin(w) PROVE PasteInv'
    BY <1>24, <1>x DEF CollectBegin, daemonVars
  <1>25. ASSUME NEW w \in Workers, Pasted(w) PROVE PasteInv'
    <2>1. Sends(w, Frame("enter")) /\ pasted' = pasted
      BY <1>25 DEF Pasted
    <2>2. QED
      BY <2>1, <1>c, <1>f, <1>y, SendsTo
  <1>26. ASSUME NEW w \in Workers, WorkerEntered(w) PROVE PasteInv'
    BY <1>26, <1>x DEF WorkerEntered
  <1>27. ASSUME NEW w \in Workers, Submitted(w) PROVE PasteInv'
    BY <1>27, <1>r, <1>x DEF Submitted, Saves
  <1>28. ASSUME NEW w \in Workers, WorkerSubmitFails(w) PROVE PasteInv'
    BY <1>28, <1>r DEF WorkerSubmitFails
  <1>29. ASSUME NEW w \in Workers, LoopEnds(w) PROVE PasteInv'
    BY <1>29, <1>e, <1>q DEF LoopEnds
  <1>30. ASSUME NEW w \in Workers, NoticeLost(w) PROVE PasteInv'
    BY <1>30, <1>r DEF NoticeLost
  <1>31. ASSUME NEW w \in Workers, AgentChanged(w) PROVE PasteInv'
    BY <1>31, <1>r, <1>x DEF AgentChanged
  <1>32. ASSUME (\E h \in Hostings : ReviewEnds(h)) \/ TurnEnds \/ UNCHANGED vars PROVE PasteInv'
    BY <1>32, <1>u DEF ReviewEnds, TurnEnds, vars, daemonVars
  <1>33. ASSUME Crash PROVE PasteInv'
    <2>1. ASSUME NEW w \in Workers, NEW i \in DOMAIN pipe'[w], pipe'[w][i].op = "paste"
          PROVE  i \in DOMAIN pipe[w] /\ pipe'[w][i] = pipe[w][i]
      <3>1. pipe'[w] = pipe[w] \/ pipe'[w] = Append(pipe[w], Frame("close"))
        BY <1>33, <1>c DEF Crash
      <3>2. pipe[w] \in Seq(Frames)
        BY <1>t, <1>c DEF Pipes
      <3>3. QED
        BY <2>1, <3>1, <3>2, <1>f
    <2>2. pasted' = pasted
      BY <1>33 DEF Crash
    <2>3. QED
      BY <2>1, <2>2, <1>s, NoNewPaste
  <1> QED
    BY <1>1, <1>2, <1>3, <1>4, <1>5, <1>6, <1>7, <1>8, <1>9, <1>10, <1>11, <1>12,
       <1>13, <1>14, <1>15, <1>16, <1>17, <1>18, <1>19, <1>20, <1>21, <1>22, <1>23,
       <1>24, <1>25, <1>26, <1>27, <1>28, <1>29, <1>30, <1>31, <1>32, <1>33
    DEF Next, GateStep, WorkerStep, Submitters

-----------------------------------------------------------------------------
(* The invariant *)

\* Before anything happens.
LEMMA InitInv == Init => IInv
  <1> SUFFICES ASSUME Init PROVE IInv
    OBVIOUS
  <1>1. TypeOK
    BY InitType
  <1>2. BootInv
    <2>1. \A w \in Workers : pc[w] = "off"
      BY HostingAssumption DEF Init, Submitters
    <2>2. QED
      BY <2>1 DEF BootInv, Boot
  <1>3. LockInv
    BY HostingAssumption DEF Init, LockInv, SubmitLock, WorkerLock, Submitting, Submitters
  <1>4. CopyInv
    <2>1. \A w \in Workers : pc[w] = "off" /\ copy[w] = Fresh(w[1])
      BY HostingAssumption DEF Init, Submitters
    <2>2. \A w \in Workers : Copied(w)
      <3>a. \A h : Fresh(h).phase = "Waiting" /\ Fresh(h).run = 0 /\ Fresh(h).count = 0
        BY DEF Fresh
      <3>1. \A w \in Workers :
              copy[w].phase = "Waiting" /\ copy[w].run = 0 /\ copy[w].count = 0
        BY <2>1, <3>a
      <3>2. \A w \in Workers : Rounds(copy[w]) /\ Stands(pc[w], copy[w].phase)
        BY <2>1, <3>1 DEF Rounds, Stands
      <3>3. QED
        BY <2>1, <3>2 DEF Copied, Running
    <2>3. QED
      BY <2>2 DEF Init, CopyInv, Hosted
  <1>5. KeepInv
    <2>1. \A c \in Workers \cup Submitters : pipe[c] = <<>>
      BY DEF Init, Clients
    <2>2. QED
      BY <2>1 DEF KeepInv, Keeps
  <1>6. QuietInv
    BY DEF Init, QuietInv, Quiet, ForceUnread, Hosted, Owns
  <1>7. AskInv
    <2>1. \A w \in Workers : pc[w] = "off" /\ pipe[w] = <<>> /\ inbox[w] = <<>> /\ w \notin waiting
      BY HostingAssumption DEF Init, Submitters, Clients
    <2>2. QED
      BY <2>1 DEF AskInv, Asks, Running, Resting
  <1>8. PasteInv
    <2>1. pasted = <<>> /\ \A w \in Workers : pipe[w] = <<>>
      BY DEF Init, Clients
    <2>2. QED
      BY <2>1 DEF PasteInv
  <1>9. TurnInv
    <2>1. \A w \in Workers : pc[w] = "off"
      BY HostingAssumption DEF Init, Submitters
    <2>2. QED
      BY <2>1 DEF TurnInv, Turning
  <1>10. QED
    BY <1>1, <1>2, <1>3, <1>4, <1>5, <1>6, <1>7, <1>8, <1>9 DEF IInv

\* Every step.
LEMMA StepInv == IInv /\ [Next]_vars => IInv'
  BY TypeStep, BootStep, LockStep, CopyInvStep, KeepStep, QuietStep, AskStep, PasteStep, TurnStep
  DEF IInv

\* The invariant of every behaviour.
LEMMA Invariance == Spec => []IInv
  BY InitInv, StepInv, PTL DEF Spec

-----------------------------------------------------------------------------
(* The theorems *)

\* Every record that is saved, every frame, answer and copy has its type, whatever is lost, taken
\* over or restarted.
THEOREM TypeCorrect == Spec => []TypeOK
  BY Invariance, PTL DEF IInv

\* Conclusions are bounded by the limit: each has its own run, and no run is above it.
LEMMA WithinLimit ==
    ASSUME TypeOK, PasteInv, NEW h \in Hostings
    PROVE  Cardinality({i \in DOMAIN pasted : pasted[i][1] = h}) <= MaxInputs
  <1> DEFINE I == {i \in DOMAIN pasted : pasted[i][1] = h}
             f == [i \in I |-> pasted[i][2]]
  <1>1. \A i \in I : pasted[i] \in used \X (1..MaxInputs)
    BY DEF PasteInv, Spent
  <1>2. \A i \in I : pasted[i][2] \in 1..MaxInputs /\ pasted[i] = <<h, pasted[i][2]>>
    BY <1>1
  <1>3. \A i, j \in I : pasted[i][2] = pasted[j][2] => i = j
    BY <1>2 DEF PasteInv
  <1>4. f \in Injection(I, 1..MaxInputs)
    BY <1>2, <1>3 DEF Injection, IsInjective
  <1>5. IsFiniteSet(1..MaxInputs) /\ Cardinality(1..MaxInputs) = MaxInputs
    BY HostingAssumption, FS_Interval
  <1>6. QED
    BY <1>4, <1>5, FS_Injection

\* PastedOnce: no conclusion reaches the agent twice, nor more of one hosting than max_inputs,
\* whenever the server restarts between the record saved by set_submitting and the answers of
\* terminald.
THEOREM PastesOnce == Spec => []PastedOnce
  <1>1. IInv => PastedOnce
    BY WithinLimit DEF IInv, PasteInv, PastedOnce
  <1>2. QED
    BY <1>1, Invariance, PTL

\* NoTurnForgotten: the completion that a waiting hosting needs is still to come, or waits in
\* its worker's subscription; the completions dropped at the submission are of earlier turns.
THEOREM TurnsAreKept == Spec => []NoTurnForgotten
  <1>1. ASSUME IInv, NEW h \in Hostings, boot = 0, Owns(Worker(h)), hosting.phase = "Waiting",
               hosting.count > 0, At(Worker(h), "loop")
        PROVE  prompts + events[Worker(h)] > 0
    <2>1. PICK w \in Workers : w = Worker(h)
      BY <1>1 DEF Worker, Workers, IInv, TypeOK, RecordType
    <2>2. copy[w] = hosting
      BY <1>1, <2>1 DEF IInv, CopyInv, Copied, Running, At
    <2>3. QED
      BY <1>1, <2>1, <2>2 DEF IInv, TurnInv, Turning, At
  <1>2. IInv => NoTurnForgotten
    BY <1>1 DEF NoTurnForgotten
  <1>3. QED
    BY <1>2, Invariance, PTL

\* A worker saves to the hosting that it finds to be its own.
LEMMA WorkerSaves ==
    ASSUME TypeOK, NEW w \in Workers, GateStep(w) \/ WorkerStep(w) \/ AgentChanged(w)
    PROVE  hosting' = hosting \/ (Owns(w) /\ hosting'.id = w[1])
  <1>t. /\ copy[w] \in Records /\ copy[w].id = w[1]
        /\ hosting = None \/ hosting \in Records
    BY DEF TypeOK, WorkType, RecordType
  <1>1. ASSUME CollectEnds(w) PROVE hosting' = hosting \/ (Owns(w) /\ hosting'.id = w[1])
    <2>1. hosting' = hosting \/ (Owns(w) /\ hosting' = [copy[w] EXCEPT !.phase = Outcome(w)])
      BY <1>1 DEF CollectEnds, Saves
    <2>2. QED
      BY <2>1, <1>t DEF Records
  <1>2. ASSUME SubmitConclusion(w) PROVE hosting' = hosting \/ (Owns(w) /\ hosting'.id = w[1])
    <2>1. hosting' = hosting \/ (Owns(w) /\ hosting' = [copy[w] EXCEPT !.phase = "Submitting"])
      BY <1>2 DEF SubmitConclusion
    <2>2. QED
      BY <2>1, <1>t DEF Records
  <1>3. ASSUME Fail(w) PROVE hosting' = hosting \/ (Owns(w) /\ hosting'.id = w[1])
    <2>1. hosting' = hosting \/ (Owns(w) /\ hosting' = [hosting EXCEPT !.phase = "Failed"])
      BY <1>3 DEF Fail, Live
    <2>2. QED
      BY <2>1, <1>t DEF Owns, Hosted, Records
  <1>4. ASSUME EnableFails(w) PROVE hosting' = hosting \/ (Owns(w) /\ hosting'.id = w[1])
    <2>1. hosting' = hosting \/ (Owns(w) /\ hosting' = [hosting EXCEPT !.phase = "Failed"])
      BY <1>4 DEF EnableFails
    <2>2. QED
      BY <2>1, <1>t DEF Owns, Hosted, Records
  <1>5. ASSUME StartReview(w) PROVE hosting' = hosting \/ (Owns(w) /\ hosting'.id = w[1])
    <2>1. hosting' = hosting \/ (Owns(w) /\ hosting' = [copy[w] EXCEPT !.phase =
         "Reviewing", !.run = @ + 1])
      BY <1>5 DEF StartReview, Saves
    <2>2. QED
      BY <2>1, <1>t DEF Records
  <1>6. ASSUME ReviewDone(w) PROVE hosting' = hosting \/ (Owns(w) /\ hosting'.id = w[1])
    <2>1. hosting' = hosting \/ (Owns(w) /\ hosting' = [copy[w] EXCEPT !.phase = "Collecting"])
      BY <1>6 DEF ReviewDone, Saves
    <2>2. QED
      BY <2>1, <1>t DEF Records
  <1>7. ASSUME Submitted(w) PROVE hosting' = hosting \/ (Owns(w) /\ hosting'.id = w[1])
    <2>1. hosting' = hosting \/ (Owns(w) /\ hosting' = [copy[w] EXCEPT !.phase =
         "Waiting", !.count = @ + 1])
      BY <1>7 DEF Submitted, Saves
    <2>2. QED
      BY <2>1, <1>t DEF Records
  <1>8. ASSUME RecoverSkips(w) \/ RecoverRefuses(w) \/ Recovers(w) \/ CollectAbandoned(w)
       \/ CollectUnusable(w) \/ Enabled(w) \/ Recovered(w) \/ RestoreFails(w) \/
       FirstReview(w) \/ TakeEvent(w) \/ Dispatched(w) \/ DispatchFails(w) \/
       ReviewFails(w) \/ CollectBegin(w) \/ Pasted(w) \/ WorkerEntered(w) \/
       WorkerSubmitFails(w) \/ LoopEnds(w) \/ NoticeLost(w) \/ AgentChanged(w)
        PROVE hosting' = hosting
    BY <1>8
    DEF RecoverSkips, RecoverRefuses, Recovers, CollectAbandoned, CollectUnusable,
        Enabled, Recovered, RestoreFails, FirstReview, TakeEvent, Dispatched,
        DispatchFails, ReviewFails, CollectBegin, Pasted, WorkerEntered,
        WorkerSubmitFails, LoopEnds, NoticeLost, AgentChanged, recordVars
  <1> QED
    BY <1>1, <1>2, <1>3, <1>4, <1>5, <1>6, <1>7, <1>8
    DEF GateStep, WorkerStep

\* RemovedStaysRemoved: only enable brings a hosting, of an id that no hosting had; a save of a
\* review, a conclusion or a failure is of the hosting that it finds.
THEOREM RemovalsAreFinal == Spec => RemovedStaysRemoved
  <1>1. ASSUME IInv, [Next]_vars, hosting' # None, ~Hosted \/ hosting.id # hosting'.id
        PROVE  hosting'.id \notin used
    <2>t. TypeOK /\ BootInv /\ CopyInv /\ hosting' # hosting
      BY <1>1 DEF IInv, Hosted
    <2>n. \A s \in Submitters : s \notin Workers
      BY HostingAssumption
    <2>1. ASSUME NEW h \in Hostings, Enable(h) PROVE hosting'.id \notin used
      BY <2>1 DEF Enable, Fresh
    <2>2. ASSUME NEW w \in Workers, GateStep(w) \/ WorkerStep(w) \/ AgentChanged(w)
          PROVE  FALSE
      <3>1. hosting' = hosting \/ (Owns(w) /\ hosting'.id = w[1])
        BY <2>2, <2>t, WorkerSaves
      <3>2. QED
        BY <3>1, <2>t, <1>1 DEF Owns
    <2>3. ASSUME NEW s \in Submitters, (s \in Submissions /\ SubmitBegin(s)) \/ SubmitStep(s)
          PROVE  FALSE
      BY <2>3, <2>t, <2>n, Locality DEF Local
    <2>4. ASSUME NEW b \in Browsers, BrowserStep(b) PROVE FALSE
      BY <2>4, <2>t, <1>1, BrowserFrame
    <2>5. ASSUME NEW c \in Clients, DaemonStep(c) PROVE FALSE
      BY <2>5, <2>t, DaemonFrame DEF recordVars
    <2>6. ~((\E h \in Hostings : ReviewEnds(h)) \/ TurnEnds \/ Crash \/ UNCHANGED vars)
      BY <2>t DEF ReviewEnds, TurnEnds, Crash, vars, recordVars
    <2>7. QED
      BY <1>1, <2>1, <2>2, <2>3, <2>4, <2>5, <2>6 DEF Next, Submitters
  <1>2. IInv /\ [Next]_vars =>
          [hosting' # None /\ (~Hosted \/ hosting.id # hosting'.id) => hosting'.id \notin used]_vars
    BY <1>1
  <1>3. QED
    BY <1>2, Invariance, PTL DEF Spec, RemovedStaysRemoved

\* SubmissionKeepsControl: from the paste to the acknowledged Enter of AgentConnection::submit, a
\* takeover, a vacancy or another's claim waits, but for forced claims that were on their way before.
THEOREM SubmissionsKeepControl == Spec => SubmissionKeepsControl
  <1>1. ASSUME IInv, [Next]_vars
        PROVE  \A c \in Workers \cup Submitters :
                 pc[c] \in {"pasting", "entering"} /\ owner = c =>
                   owner' = c \/ <<c, owner'>> \in late
    BY <1>1, ControlKept DEF IInv
  <1>2. IInv /\ [Next]_vars =>
          [\A c \in Workers \cup Submitters :
             pc[c] \in {"pasting", "entering"} /\ owner = c =>
               owner' = c \/ <<c, owner'>> \in late]_vars
    BY <1>1
  <1>3. QED
    BY <1>2, Invariance, PTL DEF Spec, SubmissionKeepsControl

=============================================================================
