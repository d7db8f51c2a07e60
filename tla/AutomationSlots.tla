--------------------------- MODULE AutomationSlots ---------------------------
(* The runs of one automation task: processes that share nothing but files.   *)
(* A dispatcher (the server, or the timer's trigger) probes for a free slot,  *)
(* saves a manual request and asks the system manager to launch a runner. The *)
(* runner takes the request, locks a slot, opens the run's journal, runs      *)
(* commands in process groups of their own, and closes the journal. Any of    *)
(* them may die at any step; retention removes the journals nobody writes.    *)
(*                                                                            *)
(* A slot is a lock file. Its flock belongs to an open file description, which *)
(* a forked child shares until exec; the child appends its process group to    *)
(* the file before exec, so a slot is free only when nobody holds the lock and *)
(* no registered group is alive.                                               *)
EXTENDS Naturals, FiniteSets

CONSTANTS
    Runs,        \* run ids, each dispatched once
    Max,         \* max_concurrent_runs
    Commands,    \* commands of a run: worktree, agent, and last the cleanup
    Scheduled,   \* the runs that a timer dispatches
    Hosted,      \* the manual runs dispatched for a hosting round
    Faulty,      \* the runs whose processes may crash or meet I/O errors
    Faults,      \* among "launch", "crash", "io" and "torn"
    None

Statuses == {"Skipped", "Failed", "Done"}

ASSUME SlotsAssumption ==
    /\ Max \in Nat \ {0} /\ Commands \in Nat \ {0}
    /\ Scheduled \cup Hosted \subseteq Runs /\ Scheduled \cap Hosted = {}
    /\ None \notin Runs \cup {"dispatch", "runner"} \cup Statuses

VARIABLES
    dispatch,    \* dispatch[r]: the dispatcher's step
    runner,      \* runner[r]: the runner's step
    next,        \* next[a]: the slot actor a tries, or the one it has
    held,        \* held[s]: the processes that share the locked description
    owner,       \* owner[s]: the run whose begin wrote the owner line
    groups,      \* groups[s]: the groups whose registration can be parsed
    torn,        \* torn[s]: the file ends in a partial registration
    alive,       \* living process groups
    killed,      \* groups that were sent SIGKILL
    child,       \* child[r]: step of the command being spawned
    todo,        \* todo[r]: the next command of r
    request,     \* request[r]: the manual request is on disk
    hosted,      \* hosted[r]: the runner read that it is hosted
    journal,     \* journal[r]: the published journal
    lock,        \* lock[r]: the processes that share the journal's lock
    failed       \* failed[r]: the writer's failure latch

dispatchVars == <<dispatch, request>>
slotVars == <<next, held>>
fileVars == <<owner, groups, torn>>
groupVars == <<alive, killed, child, todo>>
journalVars == <<journal, lock, failed>>
vars == <<dispatchVars, runner, slotVars, fileVars, groupVars, hosted, journalVars>>

Slots == 1..Max
Groups == Runs \X (1..Commands)
D(r) == <<"dispatch", r>>
R(r) == <<"runner", r>>
C(r) == <<"child", r>>
Actors == {"dispatch", "runner"} \X Runs
Slot(r) == next[R(r)]
Fault(r, f) == r \in Faulty /\ f \in Faults
NewJournal(author) == [by |-> author, end |-> None, tail |-> "whole"]
NoJournal == NewJournal(None)

Init ==
    /\ dispatch = [r \in Runs |-> "idle"] /\ runner = [r \in Runs |-> "none"]
    /\ next = [a \in Actors |-> 1] /\ held = [s \in Slots |-> {}]
    /\ owner = [s \in Slots |-> None] /\ groups = [s \in Slots |-> {}]
    /\ torn = [s \in Slots |-> FALSE]
    /\ alive = {} /\ killed = {}
    /\ child = [r \in Runs |-> "none"] /\ todo = [r \in Runs |-> 1]
    /\ request = [r \in Runs |-> FALSE] /\ hosted = [r \in Runs |-> FALSE]
    /\ journal = [r \in Runs |-> NoJournal] /\ lock = [r \in Runs |-> {}]
    /\ failed = [r \in Runs |-> FALSE]

-----------------------------------------------------------------------------
(* Slots and journals, as any process finds them. *)

\* Mutant: the registrations are not looked at, only the lock.
BusyLockOnly(s) == held[s] # {}

\* try_task_lock: flock, then every registration that can be parsed.
Busy(s) == held[s] # {} \/ groups[s] \cap alive # {}

Pass(a) == next' = [next EXCEPT ![a] = @ + 1] /\ UNCHANGED held
Take(a) == held' = [held EXCEPT ![next[a]] = {a}] /\ UNCHANGED next

\* A closed description is unlocked when no forked child still shares it.
Leave(a) == IF next[a] \in Slots
            THEN [held EXCEPT ![next[a]] = @ \ {a}] ELSE held

\* Mutant: the rename replaces an existing record.
CreateRunOverwriting(r, author) ==
    /\ journal' = [journal EXCEPT ![r] = NewJournal(author)]
    /\ lock' = [lock EXCEPT ![r] = {author}]
    /\ failed' = [failed EXCEPT ![r] = FALSE]

\* create_run publishes a locked journal by a rename that replaces nothing.
CreateRun(r, author) ==
    /\ journal[r].by = None
    /\ journal' = [journal EXCEPT ![r] = NewJournal(author)]
    /\ lock' = [lock EXCEPT ![r] = {author}]
    /\ failed' = [failed EXCEPT ![r] = FALSE]

\* An existing record refuses it; an I/O error may strike before the rename, or between
\* the rename and the link, with the writer dropped.
CreateRunFails(r, author) ==
    /\ \/ journal[r].by # None /\ UNCHANGED journal
       \/ /\ Fault(r, "io")
          /\ journal' \in {journal} \cup (IF journal[r].by # None THEN {} ELSE
                             {[journal EXCEPT ![r] = NewJournal(author)]})
    /\ UNCHANGED <<lock, failed>>

\* What a complete line does to a journal, torn or not.
Line(j, status) ==
    IF j.tail = "whole" THEN [j EXCEPT !.end = status] ELSE [j EXCEPT !.tail = "joined"]

\* What is left of a line that could not be written whole.
Torn(j) == [j EXCEPT !.tail = "torn"]

\* RunWriter::append: refused behind a failure. A write that fails may leave a part of
\* its line, and a sync that fails all of it: that tells when the line ends the journal.
Append(r, status) ==
    /\ ~failed[r]
    /\ journal' = [journal EXCEPT ![r] = Line(@, status)]
    /\ UNCHANGED failed
AppendFails(r, status) ==
    /\ Fault(r, "io") \/ failed[r]
    /\ failed' = [failed EXCEPT ![r] = TRUE]
    /\ \/ failed[r] /\ UNCHANGED journal
       \/ ~failed[r] /\ journal' = [journal EXCEPT ![r] = Torn(@)]
       \/ ~failed[r] /\ status # None /\ journal' = [journal EXCEPT ![r] = Line(@, status)]

\* What read_run_detail makes of a journal.
View(r) ==
    IF journal[r].by = None THEN "none"
    ELSE IF journal[r].tail = "joined" THEN "unreadable"
    ELSE IF journal[r].end # None THEN journal[r].end
    ELSE IF lock[r] # {} THEN "open" ELSE "Interrupted"

\* Mutant: only the journals are looked at.
IsRunningByJournal == \E r \in Runs : lock[r] # {}

\* has_active_runs or has_occupied_concurrency_slot.
IsRunning ==
    \/ \E r \in Runs : lock[r] # {}
    \/ \E s \in Slots : /\ owner[s] # None
                        /\ journal[owner[s]].by = None \/ journal[owner[s]].end = None
                        /\ groups[s] \cap alive # {}

-----------------------------------------------------------------------------
(* The dispatcher. *)

runnerSide == <<runner, fileVars, groupVars, hosted>>

DispatchTo(r, from, to) ==
    dispatch[r] = from /\ dispatch' = [dispatch EXCEPT ![r] = to]

Dispatch(r) ==
    /\ DispatchTo(r, "idle", "probe")
    /\ UNCHANGED <<request, slotVars, runnerSide, journalVars>>

ProbeBusy(r) ==
    /\ dispatch[r] = "probe" /\ next[D(r)] \in Slots /\ Busy(next[D(r)])
    /\ Pass(D(r))
    /\ UNCHANGED <<dispatchVars, runnerSide, journalVars>>

ProbeTake(r) ==
    /\ next[D(r)] \in Slots /\ ~Busy(next[D(r)])
    /\ DispatchTo(r, "probe", "probed")
    /\ Take(D(r))
    /\ UNCHANGED <<request, runnerSide, journalVars>>

\* Only a hosted dispatch records that every slot was occupied.
ProbeFull(r) ==
    /\ next[D(r)] \notin Slots
    /\ DispatchTo(r, "probe", IF r \in Hosted THEN "withdraw" ELSE "declined")
    /\ UNCHANGED <<request, slotVars, runnerSide, journalVars>>

ProbeDrop(r) ==
    /\ DispatchTo(r, "probed", IF r \in Scheduled THEN "launch" ELSE "save")
    /\ held' = Leave(D(r))
    /\ UNCHANGED <<next, request, runnerSide, journalVars>>

SaveRequest(r) ==
    /\ DispatchTo(r, "save", "launch")
    /\ request' = [request EXCEPT ![r] = TRUE]
    /\ UNCHANGED <<slotVars, runnerSide, journalVars>>

\* The error leaves dispatch_with_variables at once, and dispatch_hosted through its cleanup.
SaveFails(r) ==
    /\ Fault(r, "io")
    /\ DispatchTo(r, "save", IF r \in Hosted THEN "withdraw" ELSE "declined")
    /\ UNCHANGED <<request, slotVars, runnerSide, journalVars>>

LaunchOk(r) ==
    /\ DispatchTo(r, "launch", "launched")
    /\ runner' = [runner EXCEPT ![r] = "queued"]
    /\ UNCHANGED <<request, slotVars, fileVars, groupVars, hosted, journalVars>>

AfterLaunchError(r) == IF r \in Scheduled THEN "record" ELSE "withdraw"

LaunchFails(r) ==
    /\ DispatchTo(r, "launch", AfterLaunchError(r))
    /\ UNCHANGED <<request, slotVars, runnerSide, journalVars>>

\* The manager did not answer within its timeout, and launches the runner all the same.
LaunchTimesOut(r) ==
    /\ "launch" \in Faults
    /\ DispatchTo(r, "launch", AfterLaunchError(r))
    /\ runner' = [runner EXCEPT ![r] = "queued"]
    /\ UNCHANGED <<request, slotVars, fileVars, groupVars, hosted, journalVars>>

\* take_manual_request, with its errors ignored: the request is gone either way.
Withdraw(r) ==
    /\ DispatchTo(r, "withdraw", "record")
    /\ request' = [request EXCEPT ![r] = FALSE]
    /\ UNCHANGED <<slotVars, runnerSide, journalVars>>

RecordFailure(r) ==
    /\ DispatchTo(r, "record", "close")
    /\ CreateRun(r, "dispatch")
    /\ UNCHANGED <<request, slotVars, runnerSide>>

RecordFails(r) ==
    /\ DispatchTo(r, "record", "failed")
    /\ CreateRunFails(r, "dispatch")
    /\ UNCHANGED <<request, slotVars, runnerSide>>

\* The writer is dropped in the same call.
CloseFailure(r) ==
    /\ DispatchTo(r, "close", "failed")
    /\ Append(r, "Failed") \/ AppendFails(r, "Failed")
    /\ lock' = [lock EXCEPT ![r] = {}]
    /\ UNCHANGED <<request, slotVars, runnerSide>>

DispatcherDies(r) ==
    /\ Fault(r, "crash")
    /\ dispatch[r] \notin {"idle", "declined", "launched", "failed", "dead"}
    /\ dispatch' = [dispatch EXCEPT ![r] = "dead"]
    /\ held' = Leave(D(r))
    /\ lock' = [lock EXCEPT ![r] = @ \ {"dispatch"}]
    /\ UNCHANGED <<next, request, runnerSide, journal, failed>>

-----------------------------------------------------------------------------
(* The runner. *)

RunTo(r, from, to) == runner[r] = from /\ runner' = [runner EXCEPT ![r] = to]

\* The process is gone: its descriptions are closed. A forked child keeps its own.
Exits(r) ==
    /\ held' = Leave(R(r))
    /\ lock' = [lock EXCEPT ![r] = @ \ {"runner"}]

\* get_task may fail. take_manual_request reads the request and removes it later.
RunnerStart(r) ==
    /\ \/ RunTo(r, "queued", IF request[r] THEN "take" ELSE "try")
       \/ Fault(r, "io") /\ RunTo(r, "queued", "ended")
    /\ UNCHANGED <<dispatch, request, slotVars, fileVars, groupVars, hosted, journalVars>>

\* A request removed by someone else since it was read is an error.
RequestTake(r) ==
    /\ RunTo(r, "take", IF request[r] THEN "try" ELSE "ended")
    /\ request' = [request EXCEPT ![r] = FALSE]
    /\ hosted' = [hosted EXCEPT ![r] = r \in Hosted]
    /\ UNCHANGED <<dispatch, slotVars, fileVars, groupVars, journalVars>>

SlotBusy(r) ==
    /\ runner[r] = "try" /\ Slot(r) \in Slots /\ Busy(Slot(r))
    /\ Pass(R(r))
    /\ UNCHANGED <<dispatch, request, runner, fileVars, groupVars, hosted, journalVars>>

SlotTake(r) ==
    /\ Slot(r) \in Slots /\ ~Busy(Slot(r))
    /\ RunTo(r, "try", "begin")
    /\ Take(R(r))
    /\ UNCHANGED <<dispatch, request, fileVars, groupVars, hosted, journalVars>>

\* Only a run that read that it is hosted leaves a record of being skipped.
SlotsFull(r) ==
    /\ Slot(r) \notin Slots
    /\ RunTo(r, "try", IF hosted[r] THEN "skip" ELSE "ended")
    /\ UNCHANGED <<dispatch, request, slotVars, fileVars, groupVars, hosted, journalVars>>

RecordSkip(r) ==
    /\ RunTo(r, "skip", "skipped")
    /\ CreateRun(r, "runner")
    /\ UNCHANGED <<dispatch, request, slotVars, fileVars, groupVars, hosted>>

CloseSkip(r) ==
    /\ RunTo(r, "skipped", "ended")
    /\ Append(r, "Skipped") \/ AppendFails(r, "Skipped")
    /\ lock' = [lock EXCEPT ![r] = {}]
    /\ UNCHANGED <<dispatch, request, slotVars, fileVars, groupVars, hosted>>

\* TaskLock::begin truncates the file and writes the owner.
Begin(r) ==
    /\ RunTo(r, "begin", "create")
    /\ owner' = [owner EXCEPT ![Slot(r)] = r]
    /\ groups' = [groups EXCEPT ![Slot(r)] = {}]
    /\ torn' = [torn EXCEPT ![Slot(r)] = FALSE]
    /\ UNCHANGED <<dispatch, request, slotVars, groupVars, hosted, journalVars>>

BeginFails(r) ==
    /\ Fault(r, "io")
    /\ RunTo(r, "begin", "ended")
    /\ owner' = [owner EXCEPT ![Slot(r)] = None]
    /\ groups' = [groups EXCEPT ![Slot(r)] = {}]
    /\ torn' = [torn EXCEPT ![Slot(r)] = TRUE]
    /\ held' = Leave(R(r))
    /\ UNCHANGED <<dispatch, next, request, groupVars, hosted, journalVars>>

\* A task that was paused or deleted goes straight to its cleanup command.
Open(r) ==
    /\ RunTo(r, "create", "work")
    /\ CreateRun(r, "runner")
    /\ \E stopped \in BOOLEAN : todo' = [todo EXCEPT ![r] = IF stopped THEN Commands ELSE @]
    /\ UNCHANGED <<dispatch, request, slotVars, fileVars, alive, killed, child, hosted>>

\* The run has a record already, or the journal cannot be created.
OpenFails(r) ==
    /\ runner[r] \in {"create", "skip"}
    /\ CreateRunFails(r, "runner")
    /\ runner' = [runner EXCEPT ![r] = "ended"]
    /\ held' = Leave(R(r))
    /\ UNCHANGED <<dispatch, next, request, fileVars, groupVars, hosted>>

\* The child shares both descriptions, and the runner waits for its exec.
Fork(r) ==
    /\ todo[r] <= Commands
    /\ RunTo(r, "work", "spawn")
    /\ child' = [child EXCEPT ![r] = "forked"]
    /\ held' = [held EXCEPT ![Slot(r)] = @ \cup {C(r)}]
    /\ lock' = [lock EXCEPT ![r] = @ \cup {"child"}]
    /\ UNCHANGED <<dispatch, next, request, fileVars, alive, killed, todo, hosted, journal, failed>>

\* pre_exec: a line behind a partial one is joined to it and parses as nothing.
Register(r) ==
    /\ child[r] = "forked"
    /\ child' = [child EXCEPT ![r] = "registered"]
    /\ groups' = IF torn[Slot(r)] THEN groups
                 ELSE [groups EXCEPT ![Slot(r)] = @ \cup {<<r, todo[r]>>}]
    /\ torn' = [torn EXCEPT ![Slot(r)] = FALSE]
    /\ UNCHANGED <<dispatch, runner, request, slotVars, owner, alive, killed, todo, hosted, journalVars>>

\* Mutant: the journal's description is not CLOEXEC.
ChildGoneKeepsJournal(r) ==
    /\ child' = [child EXCEPT ![r] = "none"]
    /\ held' = [held EXCEPT ![Slot(r)] = @ \ {C(r)}]
    /\ UNCHANGED lock

ChildGone(r) ==
    /\ child' = [child EXCEPT ![r] = "none"]
    /\ held' = [held EXCEPT ![Slot(r)] = @ \ {C(r)}]
    /\ lock' = [lock EXCEPT ![r] = @ \ {"child"}]

\* Whether the registration or exec failed, the runner goes on to its cleanup.
SpawnFails(r) ==
    /\ Fault(r, "io") /\ child[r] # "none"
    /\ ChildGone(r)
    /\ torn' \in {torn} \cup (IF Fault(r, "torn") /\ child[r] = "forked"
                              THEN {[torn EXCEPT ![Slot(r)] = TRUE]} ELSE {})
    /\ runner' = [runner EXCEPT ![r] = IF @ = "spawn" THEN "work" ELSE @]
    /\ todo' = [todo EXCEPT ![r] = IF @ < Commands THEN Commands ELSE Commands + 1]
    /\ UNCHANGED <<dispatch, next, request, owner, groups, alive, killed, hosted, journal, failed>>

\* The descriptions are CLOEXEC: from here on only the registration holds the slot.
Exec(r) ==
    /\ child[r] = "registered"
    /\ ChildGone(r)
    /\ alive' = alive \cup {<<r, todo[r]>>}
    /\ runner' = [runner EXCEPT ![r] = IF @ # "spawn" THEN @
                                       ELSE IF todo[r] < Commands THEN "report" ELSE "wait"]
    /\ UNCHANGED <<dispatch, next, request, fileVars, killed, todo, hosted, journal, failed>>

\* The ProcessGroup guard kills what the command leaves, however the command ended.
EndCommand(r, following) ==
    /\ killed' = killed \cup {<<r, todo[r]>>}
    /\ todo' = [todo EXCEPT ![r] = following]

\* AgentStarted is appended for the commands of the run, not for its cleanup.
Report(r) ==
    /\ \/ /\ RunTo(r, "report", "wait")
          /\ Append(r, None)
          /\ UNCHANGED <<killed, todo>>
       \/ /\ RunTo(r, "report", "work")
          /\ AppendFails(r, None)
          /\ EndCommand(r, Commands)
    /\ UNCHANGED <<dispatch, request, slotVars, fileVars, alive, child, hosted, lock>>

\* The command exited, timed out, or the runner received a stop signal.
CommandEnds(r) ==
    /\ RunTo(r, "wait", "work")
    /\ \E following \in {todo[r] + 1, Commands} \ {todo[r]} : EndCommand(r, following)
    /\ UNCHANGED <<dispatch, request, slotVars, fileVars, alive, child, hosted, journalVars>>

Finish(r) ==
    /\ RunTo(r, "work", "finished")
    /\ Append(r, "Done") \/ AppendFails(r, "Done")
    /\ UNCHANGED <<dispatch, request, slotVars, fileVars, groupVars, hosted, lock>>

\* The writer is dropped, then the slot; the process ends.
Release(r) ==
    /\ RunTo(r, "finished", "ended")
    /\ Exits(r)
    /\ UNCHANGED <<dispatch, next, request, fileVars, groupVars, hosted, journal, failed>>

RunnerDies(r) ==
    /\ Fault(r, "crash")
    /\ runner[r] \notin {"none", "queued", "ended", "dead"}
    /\ runner' = [runner EXCEPT ![r] = "dead"]
    /\ Exits(r)
    /\ UNCHANGED <<dispatch, next, request, fileVars, groupVars, hosted, journal, failed>>

-----------------------------------------------------------------------------
(* The commands, and retention. *)

GroupDies(g) ==
    /\ g \in alive
    /\ alive' = alive \ {g}
    /\ UNCHANGED <<dispatch, request, runner, slotVars, fileVars, killed, child, todo, hosted, journalVars>>

\* Mutant: retention does not try the journal's lock.
PruneUnlocked(r) ==
    /\ dispatch[r] \in {"launched", "failed", "dead"}
    /\ journal[r].by # None
    /\ journal' = [journal EXCEPT ![r] = NoJournal]
    /\ UNCHANGED <<dispatch, request, runner, slotVars, fileVars, groupVars, hosted, lock, failed>>

\* prune_task_run_history holds the journal's lock while it removes. A run still being
\* dispatched is among the newest, which are kept.
Prune(r) ==
    /\ dispatch[r] \in {"launched", "failed", "dead"}
    /\ journal[r].by # None /\ lock[r] = {}
    /\ journal' = [journal EXCEPT ![r] = NoJournal]
    /\ UNCHANGED <<dispatch, request, runner, slotVars, fileVars, groupVars, hosted, lock, failed>>

DispatcherStep(r) ==
    \/ ProbeBusy(r) \/ ProbeTake(r) \/ ProbeFull(r) \/ ProbeDrop(r)
    \/ SaveRequest(r) \/ SaveFails(r) \/ LaunchOk(r) \/ LaunchFails(r) \/ LaunchTimesOut(r)
    \/ Withdraw(r)
    \/ RecordFailure(r) \/ RecordFails(r) \/ CloseFailure(r)

RunnerStep(r) ==
    \/ RunnerStart(r) \/ RequestTake(r)
    \/ SlotBusy(r) \/ SlotTake(r) \/ SlotsFull(r) \/ RecordSkip(r) \/ CloseSkip(r)
    \/ Begin(r) \/ BeginFails(r) \/ Open(r) \/ OpenFails(r)
    \/ Fork(r) \/ Report(r) \/ Finish(r) \/ Release(r)

ChildStep(r) == Register(r) \/ SpawnFails(r) \/ Exec(r)

Next ==
    \/ \E r \in Runs : \/ Dispatch(r) \/ DispatcherStep(r) \/ DispatcherDies(r)
                       \/ RunnerStep(r) \/ CommandEnds(r) \/ RunnerDies(r)
                       \/ ChildStep(r) \/ Prune(r)
    \/ \E g \in Groups : GroupDies(g)

\* Processes run on; commands may never end, and nobody need dispatch or prune.
Spec ==
    /\ Init /\ [][Next]_vars
    /\ \A r \in Runs : /\ WF_vars(DispatcherStep(r)) /\ WF_vars(RunnerStep(r))
                       /\ WF_vars(ChildStep(r))

-----------------------------------------------------------------------------
(* Properties. *)

DispatchSteps == {"idle", "probe", "probed", "save", "launch", "withdraw", "record",
                  "close", "declined", "launched", "failed", "dead"}
RunnerSteps == {"none", "queued", "take", "try", "begin", "create", "skip", "skipped",
                "work", "spawn", "report", "wait", "finished", "ended", "dead"}
Journals == [by : {None, "dispatch", "runner"}, end : Statuses \cup {None},
             tail : {"whole", "torn", "joined"}]

ProcessType ==
    /\ dispatch \in [Runs -> DispatchSteps] /\ runner \in [Runs -> RunnerSteps]
    /\ request \in [Runs -> BOOLEAN] /\ hosted \in [Runs -> BOOLEAN]

SlotType ==
    /\ next \in [Actors -> 1..(Max + 1)]
    /\ held \in [Slots -> SUBSET ({"dispatch", "runner", "child"} \X Runs)]
    /\ owner \in [Slots -> Runs \cup {None}]
    /\ groups \in [Slots -> SUBSET Groups] /\ torn \in [Slots -> BOOLEAN]

CommandType ==
    /\ alive \subseteq Groups /\ killed \subseteq Groups
    /\ child \in [Runs -> {"none", "forked", "registered"}]
    /\ todo \in [Runs -> 1..(Commands + 1)]

JournalType ==
    /\ journal \in [Runs -> Journals]
    /\ lock \in [Runs -> SUBSET {"dispatch", "runner", "child"}]
    /\ failed \in [Runs -> BOOLEAN]

\* The type of the state.
TypeOK == ProcessType /\ SlotType /\ CommandType /\ JournalType

Executing == {g[1] : g \in alive}

\* ConcurrencySlot's promise: two runs with living commands have two slots, also
\* when their runners are dead.
OneRunPerSlot ==
    \A r, q \in Executing : r # q => Slot(r) # Slot(q)

\* A run that history shows as failed to start has no living command: create_run
\* never overwrites, whoever comes first.
FailedToStartNeverRuns ==
    \A r \in Executing : journal[r].by # "dispatch"

\* is_running sees every command that was not sent a kill, orphans included.
RunningIsSeen == alive \subseteq killed \/ IsRunning

\* A dead runner's journal does not stay open: the locks its children share end with their exec.
DeathIsSeen ==
    \A r \in Runs \cap Faulty : (runner[r] = "dead") ~> (View(r) # "open")

\* A dispatcher's open record is not one that commands may start under.
Record(r) ==
    IF View(r) = "open" /\ journal[r].by = "dispatch" THEN "dispatching" ELSE View(r)

\* The history and the commands, as RunBoard promises them.
Board == INSTANCE RunBoard WITH
    record <- [r \in Runs |-> Record(r)],
    executing <- Executing
BoardSpec == Board!Spec

\* The comment at dispatch.rs:36-37: the runner's own attempt is authoritative and
\* race-free, so it finds every slot busy only when runs occupy them all.
SkippedOnlyWhenFull ==
    [][\A r \in Runs : (runner[r] = "try" /\ next'[R(r)] # next[R(r)])
            => \E q \in Runs : R(q) \in held[Slot(r)] \/ C(q) \in held[Slot(r)]
                                \/ q \in Executing]_vars

=============================================================================
