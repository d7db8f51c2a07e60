------------------------ MODULE AutomationSlotsProofs ------------------------
(* Proofs about AutomationSlots, for any set of runs, any limit and any number *)
(* of commands. A registration that is torn by an I/O error is left out: what  *)
(* is joined to it holds no slot, and OneRunPerSlot is then lost.              *)
EXTENDS AutomationSlots, FiniteSetTheorems, TLAPS

-----------------------------------------------------------------------------
(* The inductive invariant *)

\* Where a runner has its slot, where it has written its own owner line, and where it
\* may have registered groups.
Holding == {"begin", "create", "work", "spawn", "report", "wait", "finished"}
Working == Holding \ {"begin"}
Past == {"work", "spawn", "report", "wait", "finished", "ended", "dead"}

\* A command that is being spawned, or may be killed, is numbered.
TodoInv ==
    \A r \in Runs :
        (runner[r] \in {"spawn", "report", "wait"} \/ child[r] # "none") => todo[r] <= Commands

\* A runner is launched once. A slot's lock is shared by processes of one run only, and the runner and the forked
\* child of a run share the lock of the run's slot.
LockInv ==
    /\ \A r \in Runs : dispatch[r] \in {"idle", "probe", "probed", "save", "launch"} =>
                       runner[r] = "none"
    /\ \A s \in Slots : \A x, y \in held[s] : x[2] = y[2]
    /\ \A r \in Runs :
        /\ runner[r] \in Holding => Slot(r) \in Slots /\ R(r) \in held[Slot(r)]
        /\ child[r] # "none" => /\ Slot(r) \in Slots /\ C(r) \in held[Slot(r)]
                                /\ runner[r] \in {"spawn", "dead"}

\* A slot's registrations are those of the run in its owner line, every living group is
\* registered in the slot of its run, and a slot is truncated only when none is left.
GroupInv ==
    /\ \A s \in Slots : \A r \in Runs : \A n \in 1..Commands :
         <<r, n>> \in groups[s] => s = Slot(r) /\ owner[s] = r /\ runner[r] \in Past
    /\ \A r \in Runs : \A n \in 1..Commands :
         <<r, n>> \in alive => Slot(r) \in Slots /\ <<r, n>> \in groups[Slot(r)]
    /\ \A r \in Runs :
        /\ runner[r] = "begin" => groups[Slot(r)] \cap alive = {}
        /\ (runner[r] \in Working \/ child[r] # "none") =>
             ~torn[Slot(r)] /\ owner[Slot(r)] = r
        /\ child[r] = "registered" => <<r, todo[r]>> \in groups[Slot(r)]

\* Whoever writes a journal has its lock, and the journal is open; a run with living
\* commands has a runner's journal or, once its dispatch is over, none.
JournalInv ==
    \A r \in Runs :
        /\ journal[r].tail # "joined" /\ (journal[r].tail = "torn" => failed[r])
        /\ dispatch[r] = "close" =>
             journal[r].by = "dispatch" /\ journal[r].end = None /\ "dispatch" \in lock[r]
        /\ runner[r] \in {"skipped", "work", "spawn", "report", "wait"} =>
             journal[r].by = "runner" /\ journal[r].end = None /\ "runner" \in lock[r]
        /\ runner[r] = "finished" => journal[r].by = "runner" /\ "runner" \in lock[r]
        /\ child[r] # "none" =>
             journal[r].by = "runner" /\ journal[r].end = None /\ "child" \in lock[r]
        /\ (\E n \in 1..Commands : <<r, n>> \in alive) =>
             \/ journal[r].by = "runner"
             \/ journal[r].by = None /\ dispatch[r] \in {"launched", "failed", "dead"}

\* The runner kills a command before it goes on, unless it dies, and then the journal
\* has no end.
KillInv ==
    \A r \in Runs : \A n \in 1..Commands :
        <<r, n>> \in alive \ killed =>
            /\ journal[r].end = None
            /\ \/ runner[r] \in {"report", "wait"} /\ n = todo[r]
               \/ runner[r] = "dead"

IInv == TypeOK /\ TodoInv /\ LockInv /\ GroupInv /\ JournalInv /\ KillInv


-----------------------------------------------------------------------------
(* Journals *)

\* A line that is written, torn or joined leaves a journal, of the same author.
LEMMA JournalLines ==
    ASSUME NEW j \in Journals, NEW status \in Statuses \cup {None}
    PROVE  /\ Line(j, status) \in Journals /\ Line(j, status).by = j.by
           /\ j.tail = "whole" => Line(j, status).end = status /\ Line(j, status).tail = "whole"
           /\ Torn(j) \in Journals /\ Torn(j).by = j.by /\ Torn(j).end = j.end
           /\ Torn(j).tail = "torn"
  <1>1. /\ Torn(j) \in Journals /\ Torn(j).by = j.by /\ Torn(j).end = j.end
        /\ Torn(j).tail = "torn"
    BY DEF Torn, Journals
  <1>2. CASE j.tail = "whole"
    BY <1>1, <1>2 DEF Line, Journals
  <1>3. CASE j.tail # "whole"
    BY <1>1, <1>3 DEF Line, Journals
  <1>4. QED
    BY <1>2, <1>3

LEMMA FreshJournal ==
    ASSUME NEW author \in {None, "dispatch", "runner"}
    PROVE  /\ NewJournal(author) \in Journals /\ NewJournal(author).by = author
           /\ NewJournal(author).end = None /\ NewJournal(author).tail = "whole"
  BY DEF NewJournal, Journals

\* RunWriter::append: no whole line is ever joined to a torn one, and a line that is
\* not whole closes nothing.
LEMMA Appended ==
    ASSUME JournalType, NEW r \in Runs, NEW status \in Statuses \cup {None},
           Append(r, status) \/ AppendFails(r, status)
    PROVE  /\ journal' \in [Runs -> Journals] /\ failed' \in [Runs -> BOOLEAN]
           /\ \A q \in Runs : q # r => journal'[q] = journal[q] /\ failed'[q] = failed[q]
           /\ journal'[r].by = journal[r].by
           /\ (journal[r].tail # "joined" /\ (journal[r].tail = "torn" => failed[r])) =>
                /\ journal'[r].end \in {journal[r].end, status}
                /\ journal'[r].tail # "joined" /\ (journal'[r].tail = "torn" => failed'[r])
  <1> DEFINE j == journal[r]
  <1>1. j \in Journals /\ j.tail \in {"whole", "torn", "joined"}
    BY DEF JournalType, Journals
  <1>2. /\ Line(j, status) \in Journals /\ Line(j, status).by = j.by
        /\ j.tail = "whole" => Line(j, status).end = status /\ Line(j, status).tail = "whole"
        /\ Torn(j) \in Journals /\ Torn(j).by = j.by /\ Torn(j).end = j.end
        /\ Torn(j).tail = "torn"
    BY <1>1, JournalLines
  <1>3. CASE Append(r, status)
    BY <1>1, <1>2, <1>3 DEF JournalType, Append
  <1>4. CASE AppendFails(r, status)
    BY <1>1, <1>2, <1>4 DEF JournalType, AppendFails
  <1>5. QED
    BY <1>3, <1>4

-----------------------------------------------------------------------------
(* Type correctness *)

LEMMA InitType == Init => TypeOK /\ TodoInv
  <1>1. NoJournal \in Journals
    BY FreshJournal DEF NoJournal
  <1>2. QED
    BY <1>1, SlotsAssumption
    DEF Init, TypeOK, ProcessType, SlotType, CommandType, JournalType, TodoInv,
        DispatchSteps, RunnerSteps, Actors, Slots, Groups

\* Every process keeps to its steps.
LEMMA ProcessStep == TypeOK /\ [Next]_vars => ProcessType'
  <1> SUFFICES ASSUME TypeOK, [Next]_vars PROVE ProcessType'
    OBVIOUS
  <1>1. ASSUME NEW r \in Runs, Dispatch(r) PROVE ProcessType'
    BY <1>1, SlotsAssumption
    DEF dispatchVars, slotVars, fileVars, groupVars, journalVars, vars, runnerSide,
        DispatchTo, Dispatch, DispatchSteps, RunnerSteps, ProcessType, TypeOK
  <1>2. ASSUME NEW r \in Runs, ProbeBusy(r) PROVE ProcessType'
    BY <1>2, SlotsAssumption
    DEF dispatchVars, slotVars, fileVars, groupVars, journalVars, vars, Slots, D, Pass,
        runnerSide, ProbeBusy, DispatchSteps, RunnerSteps, ProcessType, TypeOK
  <1>3. ASSUME NEW r \in Runs, ProbeTake(r) PROVE ProcessType'
    BY <1>3, SlotsAssumption
    DEF dispatchVars, slotVars, fileVars, groupVars, journalVars, vars, Slots, D, Take,
        runnerSide, DispatchTo, ProbeTake, DispatchSteps, RunnerSteps, ProcessType, TypeOK
  <1>4. ASSUME NEW r \in Runs, ProbeFull(r) PROVE ProcessType'
    BY <1>4, SlotsAssumption
    DEF dispatchVars, slotVars, fileVars, groupVars, journalVars, vars, Slots, D,
        runnerSide, DispatchTo, ProbeFull, DispatchSteps, RunnerSteps, ProcessType, TypeOK
  <1>5. ASSUME NEW r \in Runs, ProbeDrop(r) PROVE ProcessType'
    BY <1>5, SlotsAssumption
    DEF dispatchVars, slotVars, fileVars, groupVars, journalVars, vars, Slots, D, Leave,
        runnerSide, DispatchTo, ProbeDrop, DispatchSteps, RunnerSteps, ProcessType, TypeOK
  <1>6. ASSUME NEW r \in Runs, SaveRequest(r) PROVE ProcessType'
    BY <1>6, SlotsAssumption
    DEF dispatchVars, slotVars, fileVars, groupVars, journalVars, vars, runnerSide,
        DispatchTo, SaveRequest, DispatchSteps, RunnerSteps, ProcessType, TypeOK
  <1>7. ASSUME NEW r \in Runs, SaveFails(r) PROVE ProcessType'
    BY <1>7, SlotsAssumption
    DEF dispatchVars, slotVars, fileVars, groupVars, journalVars, vars, runnerSide,
        DispatchTo, SaveFails, DispatchSteps, RunnerSteps, ProcessType, TypeOK
  <1>8. ASSUME NEW r \in Runs, LaunchOk(r) PROVE ProcessType'
    BY <1>8, SlotsAssumption
    DEF dispatchVars, slotVars, fileVars, groupVars, journalVars, vars, DispatchTo,
        LaunchOk, DispatchSteps, RunnerSteps, ProcessType, TypeOK
  <1>9. ASSUME NEW r \in Runs, LaunchFails(r) PROVE ProcessType'
    BY <1>9, SlotsAssumption
    DEF dispatchVars, slotVars, fileVars, groupVars, journalVars, vars, runnerSide,
        DispatchTo, AfterLaunchError, LaunchFails, DispatchSteps, RunnerSteps,
        ProcessType, TypeOK
  <1>10. ASSUME NEW r \in Runs, LaunchTimesOut(r) PROVE ProcessType'
    BY <1>10, SlotsAssumption
    DEF dispatchVars, slotVars, fileVars, groupVars, journalVars, vars, DispatchTo,
        AfterLaunchError, LaunchTimesOut, DispatchSteps, RunnerSteps, ProcessType, TypeOK
  <1>11. ASSUME NEW r \in Runs, Withdraw(r) PROVE ProcessType'
    BY <1>11, SlotsAssumption
    DEF dispatchVars, slotVars, fileVars, groupVars, journalVars, vars, runnerSide,
        DispatchTo, Withdraw, DispatchSteps, RunnerSteps, ProcessType, TypeOK
  <1>12. ASSUME NEW r \in Runs, RecordFailure(r) PROVE ProcessType'
    BY <1>12, SlotsAssumption
    DEF dispatchVars, slotVars, fileVars, groupVars, journalVars, vars, runnerSide,
        DispatchTo, RecordFailure, DispatchSteps, RunnerSteps, ProcessType, TypeOK
  <1>13. ASSUME NEW r \in Runs, RecordFails(r) PROVE ProcessType'
    BY <1>13, SlotsAssumption
    DEF dispatchVars, slotVars, fileVars, groupVars, journalVars, vars, runnerSide,
        DispatchTo, RecordFails, DispatchSteps, RunnerSteps, ProcessType, TypeOK
  <1>14. ASSUME NEW r \in Runs, CloseFailure(r) PROVE ProcessType'
    BY <1>14, SlotsAssumption
    DEF dispatchVars, slotVars, fileVars, groupVars, journalVars, vars, runnerSide,
        DispatchTo, CloseFailure, DispatchSteps, RunnerSteps, ProcessType, TypeOK
  <1>15. ASSUME NEW r \in Runs, DispatcherDies(r) PROVE ProcessType'
    BY <1>15, SlotsAssumption
    DEF dispatchVars, slotVars, fileVars, groupVars, journalVars, vars, Slots, D, Leave,
        runnerSide, DispatcherDies, DispatchSteps, RunnerSteps, ProcessType, TypeOK
  <1>16. ASSUME NEW r \in Runs, RunnerStart(r) PROVE ProcessType'
    BY <1>16, SlotsAssumption
    DEF dispatchVars, slotVars, fileVars, groupVars, journalVars, vars, RunTo,
        RunnerStart, DispatchSteps, RunnerSteps, ProcessType, TypeOK
  <1>17. ASSUME NEW r \in Runs, RequestTake(r) PROVE ProcessType'
    BY <1>17, SlotsAssumption
    DEF dispatchVars, slotVars, fileVars, groupVars, journalVars, vars, RunTo,
        RequestTake, DispatchSteps, RunnerSteps, ProcessType, TypeOK
  <1>18. ASSUME NEW r \in Runs, SlotBusy(r) PROVE ProcessType'
    BY <1>18, SlotsAssumption
    DEF dispatchVars, slotVars, fileVars, groupVars, journalVars, vars, Slots, R, Slot,
        Pass, SlotBusy, DispatchSteps, RunnerSteps, ProcessType, TypeOK
  <1>19. ASSUME NEW r \in Runs, SlotTake(r) PROVE ProcessType'
    BY <1>19, SlotsAssumption
    DEF dispatchVars, slotVars, fileVars, groupVars, journalVars, vars, Slots, R, Slot,
        Take, RunTo, SlotTake, DispatchSteps, RunnerSteps, ProcessType, TypeOK
  <1>20. ASSUME NEW r \in Runs, SlotsFull(r) PROVE ProcessType'
    BY <1>20, SlotsAssumption
    DEF dispatchVars, slotVars, fileVars, groupVars, journalVars, vars, Slots, R, Slot,
        RunTo, SlotsFull, DispatchSteps, RunnerSteps, ProcessType, TypeOK
  <1>21. ASSUME NEW r \in Runs, RecordSkip(r) PROVE ProcessType'
    BY <1>21, SlotsAssumption
    DEF dispatchVars, slotVars, fileVars, groupVars, journalVars, vars, RunTo, RecordSkip,
        DispatchSteps, RunnerSteps, ProcessType, TypeOK
  <1>22. ASSUME NEW r \in Runs, CloseSkip(r) PROVE ProcessType'
    BY <1>22, SlotsAssumption
    DEF dispatchVars, slotVars, fileVars, groupVars, journalVars, vars, RunTo, CloseSkip,
        DispatchSteps, RunnerSteps, ProcessType, TypeOK
  <1>23. ASSUME NEW r \in Runs, Begin(r) PROVE ProcessType'
    BY <1>23, SlotsAssumption
    DEF dispatchVars, slotVars, fileVars, groupVars, journalVars, vars, R, Slot, RunTo,
        Begin, DispatchSteps, RunnerSteps, ProcessType, TypeOK
  <1>24. ASSUME NEW r \in Runs, BeginFails(r) PROVE ProcessType'
    BY <1>24, SlotsAssumption
    DEF dispatchVars, slotVars, fileVars, groupVars, journalVars, vars, Slots, R, Slot,
        Leave, RunTo, BeginFails, DispatchSteps, RunnerSteps, ProcessType, TypeOK
  <1>25. ASSUME NEW r \in Runs, Open(r) PROVE ProcessType'
    BY <1>25, SlotsAssumption
    DEF dispatchVars, slotVars, fileVars, groupVars, journalVars, vars, RunTo, Open,
        DispatchSteps, RunnerSteps, ProcessType, TypeOK
  <1>26. ASSUME NEW r \in Runs, OpenFails(r) PROVE ProcessType'
    BY <1>26, SlotsAssumption
    DEF dispatchVars, slotVars, fileVars, groupVars, journalVars, vars, Slots, R, Leave,
        OpenFails, DispatchSteps, RunnerSteps, ProcessType, TypeOK
  <1>27. ASSUME NEW r \in Runs, Fork(r) PROVE ProcessType'
    BY <1>27, SlotsAssumption
    DEF dispatchVars, slotVars, fileVars, groupVars, journalVars, vars, R, C, Slot, RunTo,
        Fork, DispatchSteps, RunnerSteps, ProcessType, TypeOK
  <1>28. ASSUME NEW r \in Runs, Report(r) PROVE ProcessType'
    BY <1>28, SlotsAssumption
    DEF dispatchVars, slotVars, fileVars, groupVars, journalVars, vars, RunTo, EndCommand,
        Report, DispatchSteps, RunnerSteps, ProcessType, TypeOK
  <1>29. ASSUME NEW r \in Runs, Finish(r) PROVE ProcessType'
    BY <1>29, SlotsAssumption
    DEF dispatchVars, slotVars, fileVars, groupVars, journalVars, vars, RunTo, Finish,
        DispatchSteps, RunnerSteps, ProcessType, TypeOK
  <1>30. ASSUME NEW r \in Runs, Release(r) PROVE ProcessType'
    BY <1>30, SlotsAssumption
    DEF dispatchVars, slotVars, fileVars, groupVars, journalVars, vars, Slots, R, Leave,
        RunTo, Exits, Release, DispatchSteps, RunnerSteps, ProcessType, TypeOK
  <1>31. ASSUME NEW r \in Runs, CommandEnds(r) PROVE ProcessType'
    BY <1>31, SlotsAssumption
    DEF dispatchVars, slotVars, fileVars, groupVars, journalVars, vars, RunTo, EndCommand,
        CommandEnds, DispatchSteps, RunnerSteps, ProcessType, TypeOK
  <1>32. ASSUME NEW r \in Runs, RunnerDies(r) PROVE ProcessType'
    BY <1>32, SlotsAssumption
    DEF dispatchVars, slotVars, fileVars, groupVars, journalVars, vars, Slots, R, Leave,
        Exits, RunnerDies, DispatchSteps, RunnerSteps, ProcessType, TypeOK
  <1>33. ASSUME NEW r \in Runs, Register(r) PROVE ProcessType'
    BY <1>33, SlotsAssumption
    DEF dispatchVars, slotVars, fileVars, groupVars, journalVars, vars, R, Slot, Register,
        DispatchSteps, RunnerSteps, ProcessType, TypeOK
  <1>34. ASSUME NEW r \in Runs, SpawnFails(r) PROVE ProcessType'
    BY <1>34, SlotsAssumption
    DEF dispatchVars, slotVars, fileVars, groupVars, journalVars, vars, R, C, Slot,
        ChildGone, SpawnFails, DispatchSteps, RunnerSteps, ProcessType, TypeOK
  <1>35. ASSUME NEW r \in Runs, Exec(r) PROVE ProcessType'
    BY <1>35, SlotsAssumption
    DEF dispatchVars, slotVars, fileVars, groupVars, journalVars, vars, R, C, Slot,
        ChildGone, Exec, DispatchSteps, RunnerSteps, ProcessType, TypeOK
  <1>36. ASSUME NEW r \in Runs, Prune(r) PROVE ProcessType'
    BY <1>36, SlotsAssumption
    DEF dispatchVars, slotVars, fileVars, groupVars, journalVars, vars, NoJournal, Prune,
        DispatchSteps, RunnerSteps, ProcessType, TypeOK
  <1>37. ASSUME NEW g \in Groups, GroupDies(g) PROVE ProcessType'
    BY <1>37, SlotsAssumption
    DEF dispatchVars, slotVars, fileVars, groupVars, journalVars, vars, GroupDies,
        DispatchSteps, RunnerSteps, ProcessType, TypeOK
  <1>38. CASE UNCHANGED vars
    BY <1>38
    DEF dispatchVars, slotVars, fileVars, groupVars, journalVars, vars, DispatchSteps,
        RunnerSteps, ProcessType, TypeOK
  <1>39. QED
    BY <1>1, <1>2, <1>3, <1>4, <1>5, <1>6, <1>7, <1>8, <1>9, <1>10, <1>11, <1>12, <1>13,
       <1>14, <1>15, <1>16, <1>17, <1>18, <1>19, <1>20, <1>21, <1>22, <1>23, <1>24, <1>25,
       <1>26, <1>27, <1>28, <1>29, <1>30, <1>31, <1>32, <1>33, <1>34, <1>35, <1>36, <1>37,
       <1>38
    DEF Next, DispatcherStep, RunnerStep, ChildStep

\* Slots and their files keep their types.
LEMMA SlotStep == TypeOK /\ TodoInv /\ [Next]_vars => SlotType'
  <1> SUFFICES ASSUME TypeOK, TodoInv, [Next]_vars PROVE SlotType'
    OBVIOUS
  <1>1. ASSUME NEW r \in Runs, Dispatch(r) PROVE SlotType'
    BY <1>1, SlotsAssumption
    DEF dispatchVars, slotVars, fileVars, groupVars, journalVars, vars, Slots, Groups,
        Actors, runnerSide, DispatchTo, Dispatch, SlotType, CommandType, TypeOK, TodoInv
  <1>2. ASSUME NEW r \in Runs, ProbeBusy(r) PROVE SlotType'
    BY <1>2, SlotsAssumption
    DEF dispatchVars, slotVars, fileVars, groupVars, journalVars, vars, Slots, Groups, D,
        Actors, Pass, runnerSide, ProbeBusy, SlotType, CommandType, TypeOK, TodoInv
  <1>3. ASSUME NEW r \in Runs, ProbeTake(r) PROVE SlotType'
    BY <1>3, SlotsAssumption
    DEF dispatchVars, slotVars, fileVars, groupVars, journalVars, vars, Slots, Groups, D,
        Actors, Take, runnerSide, DispatchTo, ProbeTake, SlotType, CommandType, TypeOK,
        TodoInv
  <1>4. ASSUME NEW r \in Runs, ProbeFull(r) PROVE SlotType'
    BY <1>4, SlotsAssumption
    DEF dispatchVars, slotVars, fileVars, groupVars, journalVars, vars, Slots, Groups, D,
        Actors, runnerSide, DispatchTo, ProbeFull, SlotType, CommandType, TypeOK, TodoInv
  <1>5. ASSUME NEW r \in Runs, ProbeDrop(r) PROVE SlotType'
    BY <1>5, SlotsAssumption
    DEF dispatchVars, slotVars, fileVars, groupVars, journalVars, vars, Slots, Groups, D,
        Actors, Leave, runnerSide, DispatchTo, ProbeDrop, SlotType, CommandType, TypeOK,
        TodoInv
  <1>6. ASSUME NEW r \in Runs, SaveRequest(r) PROVE SlotType'
    BY <1>6, SlotsAssumption
    DEF dispatchVars, slotVars, fileVars, groupVars, journalVars, vars, Slots, Groups,
        Actors, runnerSide, DispatchTo, SaveRequest, SlotType, CommandType, TypeOK,
        TodoInv
  <1>7. ASSUME NEW r \in Runs, SaveFails(r) PROVE SlotType'
    BY <1>7, SlotsAssumption
    DEF dispatchVars, slotVars, fileVars, groupVars, journalVars, vars, Slots, Groups,
        Actors, runnerSide, DispatchTo, SaveFails, SlotType, CommandType, TypeOK, TodoInv
  <1>8. ASSUME NEW r \in Runs, LaunchOk(r) PROVE SlotType'
    BY <1>8, SlotsAssumption
    DEF dispatchVars, slotVars, fileVars, groupVars, journalVars, vars, Slots, Groups,
        Actors, DispatchTo, LaunchOk, SlotType, CommandType, TypeOK, TodoInv
  <1>9. ASSUME NEW r \in Runs, LaunchFails(r) PROVE SlotType'
    BY <1>9, SlotsAssumption
    DEF dispatchVars, slotVars, fileVars, groupVars, journalVars, vars, Slots, Groups,
        Actors, runnerSide, DispatchTo, AfterLaunchError, LaunchFails, SlotType,
        CommandType, TypeOK, TodoInv
  <1>10. ASSUME NEW r \in Runs, LaunchTimesOut(r) PROVE SlotType'
    BY <1>10, SlotsAssumption
    DEF dispatchVars, slotVars, fileVars, groupVars, journalVars, vars, Slots, Groups,
        Actors, DispatchTo, AfterLaunchError, LaunchTimesOut, SlotType, CommandType,
        TypeOK, TodoInv
  <1>11. ASSUME NEW r \in Runs, Withdraw(r) PROVE SlotType'
    BY <1>11, SlotsAssumption
    DEF dispatchVars, slotVars, fileVars, groupVars, journalVars, vars, Slots, Groups,
        Actors, runnerSide, DispatchTo, Withdraw, SlotType, CommandType, TypeOK, TodoInv
  <1>12. ASSUME NEW r \in Runs, RecordFailure(r) PROVE SlotType'
    BY <1>12, SlotsAssumption
    DEF dispatchVars, slotVars, fileVars, groupVars, journalVars, vars, Slots, Groups,
        Actors, runnerSide, DispatchTo, RecordFailure, SlotType, CommandType, TypeOK,
        TodoInv
  <1>13. ASSUME NEW r \in Runs, RecordFails(r) PROVE SlotType'
    BY <1>13, SlotsAssumption
    DEF dispatchVars, slotVars, fileVars, groupVars, journalVars, vars, Slots, Groups,
        Actors, runnerSide, DispatchTo, RecordFails, SlotType, CommandType, TypeOK,
        TodoInv
  <1>14. ASSUME NEW r \in Runs, CloseFailure(r) PROVE SlotType'
    BY <1>14, SlotsAssumption
    DEF dispatchVars, slotVars, fileVars, groupVars, journalVars, vars, Slots, Groups,
        Actors, runnerSide, DispatchTo, CloseFailure, SlotType, CommandType, TypeOK,
        TodoInv
  <1>15. ASSUME NEW r \in Runs, DispatcherDies(r) PROVE SlotType'
    BY <1>15, SlotsAssumption
    DEF dispatchVars, slotVars, fileVars, groupVars, journalVars, vars, Slots, Groups, D,
        Actors, Leave, runnerSide, DispatcherDies, SlotType, CommandType, TypeOK, TodoInv
  <1>16. ASSUME NEW r \in Runs, RunnerStart(r) PROVE SlotType'
    BY <1>16, SlotsAssumption
    DEF dispatchVars, slotVars, fileVars, groupVars, journalVars, vars, Slots, Groups,
        Actors, RunTo, RunnerStart, SlotType, CommandType, TypeOK, TodoInv
  <1>17. ASSUME NEW r \in Runs, RequestTake(r) PROVE SlotType'
    BY <1>17, SlotsAssumption
    DEF dispatchVars, slotVars, fileVars, groupVars, journalVars, vars, Slots, Groups,
        Actors, RunTo, RequestTake, SlotType, CommandType, TypeOK, TodoInv
  <1>18. ASSUME NEW r \in Runs, SlotBusy(r) PROVE SlotType'
    BY <1>18, SlotsAssumption
    DEF dispatchVars, slotVars, fileVars, groupVars, journalVars, vars, Slots, Groups, R,
        Actors, Slot, Pass, SlotBusy, SlotType, CommandType, TypeOK, TodoInv
  <1>19. ASSUME NEW r \in Runs, SlotTake(r) PROVE SlotType'
    BY <1>19, SlotsAssumption
    DEF dispatchVars, slotVars, fileVars, groupVars, journalVars, vars, Slots, Groups, R,
        Actors, Slot, Take, RunTo, SlotTake, SlotType, CommandType, TypeOK, TodoInv
  <1>20. ASSUME NEW r \in Runs, SlotsFull(r) PROVE SlotType'
    BY <1>20, SlotsAssumption
    DEF dispatchVars, slotVars, fileVars, groupVars, journalVars, vars, Slots, Groups, R,
        Actors, Slot, RunTo, SlotsFull, SlotType, CommandType, TypeOK, TodoInv
  <1>21. ASSUME NEW r \in Runs, RecordSkip(r) PROVE SlotType'
    BY <1>21, SlotsAssumption
    DEF dispatchVars, slotVars, fileVars, groupVars, journalVars, vars, Slots, Groups,
        Actors, RunTo, RecordSkip, SlotType, CommandType, TypeOK, TodoInv
  <1>22. ASSUME NEW r \in Runs, CloseSkip(r) PROVE SlotType'
    BY <1>22, SlotsAssumption
    DEF dispatchVars, slotVars, fileVars, groupVars, journalVars, vars, Slots, Groups,
        Actors, RunTo, CloseSkip, SlotType, CommandType, TypeOK, TodoInv
  <1>23. ASSUME NEW r \in Runs, Begin(r) PROVE SlotType'
    BY <1>23, SlotsAssumption
    DEF dispatchVars, slotVars, fileVars, groupVars, journalVars, vars, Slots, Groups, R,
        Actors, Slot, RunTo, Begin, SlotType, CommandType, TypeOK, TodoInv
  <1>24. ASSUME NEW r \in Runs, BeginFails(r) PROVE SlotType'
    BY <1>24, SlotsAssumption
    DEF dispatchVars, slotVars, fileVars, groupVars, journalVars, vars, Slots, Groups, R,
        Actors, Slot, Leave, RunTo, BeginFails, SlotType, CommandType, TypeOK, TodoInv
  <1>25. ASSUME NEW r \in Runs, Open(r) PROVE SlotType'
    BY <1>25, SlotsAssumption
    DEF dispatchVars, slotVars, fileVars, groupVars, journalVars, vars, Slots, Groups,
        Actors, RunTo, Open, SlotType, CommandType, TypeOK, TodoInv
  <1>26. ASSUME NEW r \in Runs, OpenFails(r) PROVE SlotType'
    BY <1>26, SlotsAssumption
    DEF dispatchVars, slotVars, fileVars, groupVars, journalVars, vars, Slots, Groups, R,
        Actors, Leave, OpenFails, SlotType, CommandType, TypeOK, TodoInv
  <1>27. ASSUME NEW r \in Runs, Fork(r) PROVE SlotType'
    <2>1. {C(r)} \subseteq {"dispatch", "runner", "child"} \X Runs
      BY DEF C
    <2>2. QED
      BY <1>27, <2>1 DEF Fork, TypeOK, SlotType, fileVars
  <1>28. ASSUME NEW r \in Runs, Report(r) PROVE SlotType'
    BY <1>28, SlotsAssumption
    DEF dispatchVars, slotVars, fileVars, groupVars, journalVars, vars, Slots, Groups,
        Actors, RunTo, EndCommand, Report, SlotType, CommandType, TypeOK, TodoInv
  <1>29. ASSUME NEW r \in Runs, Finish(r) PROVE SlotType'
    BY <1>29, SlotsAssumption
    DEF dispatchVars, slotVars, fileVars, groupVars, journalVars, vars, Slots, Groups,
        Actors, RunTo, Finish, SlotType, CommandType, TypeOK, TodoInv
  <1>30. ASSUME NEW r \in Runs, Release(r) PROVE SlotType'
    BY <1>30, SlotsAssumption
    DEF dispatchVars, slotVars, fileVars, groupVars, journalVars, vars, Slots, Groups, R,
        Actors, Leave, RunTo, Exits, Release, SlotType, CommandType, TypeOK, TodoInv
  <1>31. ASSUME NEW r \in Runs, CommandEnds(r) PROVE SlotType'
    BY <1>31, SlotsAssumption
    DEF dispatchVars, slotVars, fileVars, groupVars, journalVars, vars, Slots, Groups,
        Actors, RunTo, EndCommand, CommandEnds, SlotType, CommandType, TypeOK, TodoInv
  <1>32. ASSUME NEW r \in Runs, RunnerDies(r) PROVE SlotType'
    BY <1>32, SlotsAssumption
    DEF dispatchVars, slotVars, fileVars, groupVars, journalVars, vars, Slots, Groups, R,
        Actors, Leave, Exits, RunnerDies, SlotType, CommandType, TypeOK, TodoInv
  <1>33. ASSUME NEW r \in Runs, Register(r) PROVE SlotType'
    <2>1. <<r, todo[r]>> \in Groups
      BY <1>33, SlotsAssumption DEF Register, TypeOK, CommandType, TodoInv, Groups
    <2>2. QED
      BY <1>33, <2>1 DEF Register, TypeOK, SlotType, slotVars
  <1>34. ASSUME NEW r \in Runs, SpawnFails(r) PROVE SlotType'
    <2>1. UNCHANGED <<next, owner, groups>>
      BY <1>34 DEF SpawnFails
    <2>2. held' = [held EXCEPT ![Slot(r)] = @ \ {C(r)}]
      BY <1>34 DEF SpawnFails, ChildGone
    <2>3. torn' \in {torn, [torn EXCEPT ![Slot(r)] = TRUE]}
      BY <1>34 DEF SpawnFails
    <2>4. QED
      BY <2>1, <2>2, <2>3 DEF TypeOK, SlotType
  <1>35. ASSUME NEW r \in Runs, Exec(r) PROVE SlotType'
    <2>1. UNCHANGED <<next, owner, groups, torn>>
      BY <1>35 DEF Exec, fileVars
    <2>2. held' = [held EXCEPT ![Slot(r)] = @ \ {C(r)}]
      BY <1>35 DEF Exec, ChildGone
    <2>3. QED
      BY <2>1, <2>2 DEF TypeOK, SlotType
  <1>36. ASSUME NEW r \in Runs, Prune(r) PROVE SlotType'
    BY <1>36, SlotsAssumption
    DEF dispatchVars, slotVars, fileVars, groupVars, journalVars, vars, Slots, Groups,
        Actors, NoJournal, Prune, SlotType, CommandType, TypeOK, TodoInv
  <1>37. ASSUME NEW g \in Groups, GroupDies(g) PROVE SlotType'
    BY <1>37, SlotsAssumption
    DEF dispatchVars, slotVars, fileVars, groupVars, journalVars, vars, Slots, Groups,
        Actors, GroupDies, SlotType, CommandType, TypeOK, TodoInv
  <1>38. CASE UNCHANGED vars
    BY <1>38
    DEF dispatchVars, slotVars, fileVars, groupVars, journalVars, vars, Slots, Groups,
        Actors, SlotType, CommandType, TypeOK, TodoInv
  <1>39. QED
    BY <1>1, <1>2, <1>3, <1>4, <1>5, <1>6, <1>7, <1>8, <1>9, <1>10, <1>11, <1>12, <1>13,
       <1>14, <1>15, <1>16, <1>17, <1>18, <1>19, <1>20, <1>21, <1>22, <1>23, <1>24, <1>25,
       <1>26, <1>27, <1>28, <1>29, <1>30, <1>31, <1>32, <1>33, <1>34, <1>35, <1>36, <1>37,
       <1>38
    DEF Next, DispatcherStep, RunnerStep, ChildStep

\* Commands keep their types, and those that are run are numbered.
LEMMA CommandStep == TypeOK /\ TodoInv /\ LockInv /\ [Next]_vars => (CommandType /\ TodoInv)'
  <1> SUFFICES ASSUME TypeOK, TodoInv, LockInv, [Next]_vars PROVE (CommandType /\ TodoInv)'
    OBVIOUS
  <1>1. ASSUME NEW r \in Runs, Dispatch(r) PROVE (CommandType /\ TodoInv)'
    BY <1>1, SlotsAssumption
    DEF dispatchVars, slotVars, fileVars, groupVars, journalVars, vars, Groups,
        runnerSide, DispatchTo, Dispatch, DispatchSteps, RunnerSteps, ProcessType,
        CommandType, TypeOK, TodoInv
  <1>2. ASSUME NEW r \in Runs, ProbeBusy(r) PROVE (CommandType /\ TodoInv)'
    BY <1>2, SlotsAssumption
    DEF dispatchVars, slotVars, fileVars, groupVars, journalVars, vars, Slots, Groups, D,
        Pass, runnerSide, ProbeBusy, DispatchSteps, RunnerSteps, ProcessType, CommandType,
        TypeOK, TodoInv
  <1>3. ASSUME NEW r \in Runs, ProbeTake(r) PROVE (CommandType /\ TodoInv)'
    BY <1>3, SlotsAssumption
    DEF dispatchVars, slotVars, fileVars, groupVars, journalVars, vars, Slots, Groups, D,
        Take, runnerSide, DispatchTo, ProbeTake, DispatchSteps, RunnerSteps, ProcessType,
        CommandType, TypeOK, TodoInv
  <1>4. ASSUME NEW r \in Runs, ProbeFull(r) PROVE (CommandType /\ TodoInv)'
    BY <1>4, SlotsAssumption
    DEF dispatchVars, slotVars, fileVars, groupVars, journalVars, vars, Slots, Groups, D,
        runnerSide, DispatchTo, ProbeFull, DispatchSteps, RunnerSteps, ProcessType,
        CommandType, TypeOK, TodoInv
  <1>5. ASSUME NEW r \in Runs, ProbeDrop(r) PROVE (CommandType /\ TodoInv)'
    BY <1>5, SlotsAssumption
    DEF dispatchVars, slotVars, fileVars, groupVars, journalVars, vars, Slots, Groups, D,
        Leave, runnerSide, DispatchTo, ProbeDrop, DispatchSteps, RunnerSteps, ProcessType,
        CommandType, TypeOK, TodoInv
  <1>6. ASSUME NEW r \in Runs, SaveRequest(r) PROVE (CommandType /\ TodoInv)'
    BY <1>6, SlotsAssumption
    DEF dispatchVars, slotVars, fileVars, groupVars, journalVars, vars, Groups,
        runnerSide, DispatchTo, SaveRequest, DispatchSteps, RunnerSteps, ProcessType,
        CommandType, TypeOK, TodoInv
  <1>7. ASSUME NEW r \in Runs, SaveFails(r) PROVE (CommandType /\ TodoInv)'
    BY <1>7, SlotsAssumption
    DEF dispatchVars, slotVars, fileVars, groupVars, journalVars, vars, Groups,
        runnerSide, DispatchTo, SaveFails, DispatchSteps, RunnerSteps, ProcessType,
        CommandType, TypeOK, TodoInv
  <1>8. ASSUME NEW r \in Runs, LaunchOk(r) PROVE (CommandType /\ TodoInv)'
    BY <1>8, SlotsAssumption
    DEF dispatchVars, slotVars, fileVars, groupVars, journalVars, vars, Groups,
        DispatchTo, LaunchOk, DispatchSteps, RunnerSteps, ProcessType, CommandType,
        TypeOK, TodoInv
  <1>9. ASSUME NEW r \in Runs, LaunchFails(r) PROVE (CommandType /\ TodoInv)'
    BY <1>9, SlotsAssumption
    DEF dispatchVars, slotVars, fileVars, groupVars, journalVars, vars, Groups,
        runnerSide, DispatchTo, AfterLaunchError, LaunchFails, DispatchSteps, RunnerSteps,
        ProcessType, CommandType, TypeOK, TodoInv
  <1>10. ASSUME NEW r \in Runs, LaunchTimesOut(r) PROVE (CommandType /\ TodoInv)'
    BY <1>10, SlotsAssumption
    DEF dispatchVars, slotVars, fileVars, groupVars, journalVars, vars, Groups,
        DispatchTo, AfterLaunchError, LaunchTimesOut, DispatchSteps, RunnerSteps,
        ProcessType, CommandType, TypeOK, TodoInv
  <1>11. ASSUME NEW r \in Runs, Withdraw(r) PROVE (CommandType /\ TodoInv)'
    BY <1>11, SlotsAssumption
    DEF dispatchVars, slotVars, fileVars, groupVars, journalVars, vars, Groups,
        runnerSide, DispatchTo, Withdraw, DispatchSteps, RunnerSteps, ProcessType,
        CommandType, TypeOK, TodoInv
  <1>12. ASSUME NEW r \in Runs, RecordFailure(r) PROVE (CommandType /\ TodoInv)'
    BY <1>12, SlotsAssumption
    DEF dispatchVars, slotVars, fileVars, groupVars, journalVars, vars, Groups,
        runnerSide, DispatchTo, RecordFailure, DispatchSteps, RunnerSteps, ProcessType,
        CommandType, TypeOK, TodoInv
  <1>13. ASSUME NEW r \in Runs, RecordFails(r) PROVE (CommandType /\ TodoInv)'
    BY <1>13, SlotsAssumption
    DEF dispatchVars, slotVars, fileVars, groupVars, journalVars, vars, Groups,
        runnerSide, DispatchTo, RecordFails, DispatchSteps, RunnerSteps, ProcessType,
        CommandType, TypeOK, TodoInv
  <1>14. ASSUME NEW r \in Runs, CloseFailure(r) PROVE (CommandType /\ TodoInv)'
    BY <1>14, SlotsAssumption
    DEF dispatchVars, slotVars, fileVars, groupVars, journalVars, vars, Groups, Append,
        AppendFails, runnerSide, DispatchTo, CloseFailure, DispatchSteps, RunnerSteps,
        ProcessType, CommandType, TypeOK, TodoInv
  <1>15. ASSUME NEW r \in Runs, DispatcherDies(r) PROVE (CommandType /\ TodoInv)'
    BY <1>15, SlotsAssumption
    DEF dispatchVars, slotVars, fileVars, groupVars, journalVars, vars, Slots, Groups, D,
        Leave, runnerSide, DispatcherDies, DispatchSteps, RunnerSteps, ProcessType,
        CommandType, TypeOK, TodoInv
  <1>16. ASSUME NEW r \in Runs, RunnerStart(r) PROVE (CommandType /\ TodoInv)'
    BY <1>16, SlotsAssumption
    DEF dispatchVars, slotVars, fileVars, groupVars, journalVars, vars, Groups, RunTo,
        RunnerStart, DispatchSteps, RunnerSteps, ProcessType, CommandType, TypeOK, TodoInv
  <1>17. ASSUME NEW r \in Runs, RequestTake(r) PROVE (CommandType /\ TodoInv)'
    BY <1>17, SlotsAssumption
    DEF dispatchVars, slotVars, fileVars, groupVars, journalVars, vars, Groups, RunTo,
        RequestTake, DispatchSteps, RunnerSteps, ProcessType, CommandType, TypeOK, TodoInv
  <1>18. ASSUME NEW r \in Runs, SlotBusy(r) PROVE (CommandType /\ TodoInv)'
    BY <1>18, SlotsAssumption
    DEF dispatchVars, slotVars, fileVars, groupVars, journalVars, vars, Slots, Groups, R,
        Slot, Pass, SlotBusy, DispatchSteps, RunnerSteps, ProcessType, CommandType,
        TypeOK, TodoInv
  <1>19. ASSUME NEW r \in Runs, SlotTake(r) PROVE (CommandType /\ TodoInv)'
    BY <1>19, SlotsAssumption
    DEF dispatchVars, slotVars, fileVars, groupVars, journalVars, vars, Slots, Groups, R,
        Slot, Take, RunTo, SlotTake, DispatchSteps, RunnerSteps, ProcessType, CommandType,
        TypeOK, TodoInv
  <1>20. ASSUME NEW r \in Runs, SlotsFull(r) PROVE (CommandType /\ TodoInv)'
    BY <1>20, SlotsAssumption
    DEF dispatchVars, slotVars, fileVars, groupVars, journalVars, vars, Slots, Groups, R,
        Slot, RunTo, SlotsFull, DispatchSteps, RunnerSteps, ProcessType, CommandType,
        TypeOK, TodoInv
  <1>21. ASSUME NEW r \in Runs, RecordSkip(r) PROVE (CommandType /\ TodoInv)'
    BY <1>21, SlotsAssumption
    DEF dispatchVars, slotVars, fileVars, groupVars, journalVars, vars, Groups, RunTo,
        RecordSkip, DispatchSteps, RunnerSteps, ProcessType, CommandType, TypeOK, TodoInv
  <1>22. ASSUME NEW r \in Runs, CloseSkip(r) PROVE (CommandType /\ TodoInv)'
    BY <1>22, SlotsAssumption
    DEF dispatchVars, slotVars, fileVars, groupVars, journalVars, vars, Groups, Append,
        AppendFails, RunTo, CloseSkip, DispatchSteps, RunnerSteps, ProcessType,
        CommandType, TypeOK, TodoInv
  <1>23. ASSUME NEW r \in Runs, Begin(r) PROVE (CommandType /\ TodoInv)'
    BY <1>23, SlotsAssumption
    DEF dispatchVars, slotVars, fileVars, groupVars, journalVars, vars, Groups, R, Slot,
        RunTo, Begin, DispatchSteps, RunnerSteps, ProcessType, CommandType, TypeOK,
        TodoInv
  <1>24. ASSUME NEW r \in Runs, BeginFails(r) PROVE (CommandType /\ TodoInv)'
    BY <1>24, SlotsAssumption
    DEF dispatchVars, slotVars, fileVars, groupVars, journalVars, vars, Slots, Groups, R,
        Slot, Leave, RunTo, BeginFails, DispatchSteps, RunnerSteps, ProcessType,
        CommandType, TypeOK, TodoInv
  <1>25. ASSUME NEW r \in Runs, Open(r) PROVE (CommandType /\ TodoInv)'
    BY <1>25, SlotsAssumption
    DEF dispatchVars, slotVars, fileVars, groupVars, journalVars, vars, Groups, RunTo,
        Open, DispatchSteps, RunnerSteps, ProcessType, CommandType, TypeOK, TodoInv
  <1>26. ASSUME NEW r \in Runs, OpenFails(r) PROVE (CommandType /\ TodoInv)'
    BY <1>26, SlotsAssumption
    DEF dispatchVars, slotVars, fileVars, groupVars, journalVars, vars, Slots, Groups, R,
        Leave, OpenFails, DispatchSteps, RunnerSteps, ProcessType, CommandType, TypeOK,
        TodoInv
  <1>27. ASSUME NEW r \in Runs, Fork(r) PROVE (CommandType /\ TodoInv)'
    BY <1>27, SlotsAssumption
    DEF dispatchVars, slotVars, fileVars, groupVars, journalVars, vars, Groups, R, C,
        Slot, RunTo, Fork, DispatchSteps, RunnerSteps, ProcessType, CommandType, TypeOK,
        TodoInv
  <1>28. ASSUME NEW r \in Runs, Report(r) PROVE (CommandType /\ TodoInv)'
    BY <1>28, SlotsAssumption
    DEF dispatchVars, slotVars, fileVars, groupVars, journalVars, vars, Groups, Append,
        AppendFails, RunTo, EndCommand, Report, DispatchSteps, RunnerSteps, ProcessType,
        CommandType, TypeOK, TodoInv
  <1>29. ASSUME NEW r \in Runs, Finish(r) PROVE (CommandType /\ TodoInv)'
    BY <1>29, SlotsAssumption
    DEF dispatchVars, slotVars, fileVars, groupVars, journalVars, vars, Groups, Append,
        AppendFails, RunTo, Finish, DispatchSteps, RunnerSteps, ProcessType, CommandType,
        TypeOK, TodoInv
  <1>30. ASSUME NEW r \in Runs, Release(r) PROVE (CommandType /\ TodoInv)'
    BY <1>30, SlotsAssumption
    DEF dispatchVars, slotVars, fileVars, groupVars, journalVars, vars, Slots, Groups, R,
        Leave, RunTo, Exits, Release, DispatchSteps, RunnerSteps, ProcessType,
        CommandType, TypeOK, TodoInv
  <1>31. ASSUME NEW r \in Runs, CommandEnds(r) PROVE (CommandType /\ TodoInv)'
    <2>1. <<r, todo[r]>> \in Groups /\ todo[r] \in 1..Commands
      BY <1>31, SlotsAssumption DEF CommandEnds, RunTo, TypeOK, CommandType, TodoInv, Groups
    <2>2. PICK following \in {todo[r] + 1, Commands} \ {todo[r]} : EndCommand(r, following)
      BY <1>31 DEF CommandEnds
    <2>3. following \in 1..(Commands + 1)
      BY <2>1, <2>2, SlotsAssumption
    <2>4. CommandType'
      BY <1>31, <2>1, <2>2, <2>3 DEF CommandEnds, EndCommand, TypeOK, CommandType
    <2>5. TodoInv'
      BY <1>31, <2>1, <2>2, <2>3
      DEF CommandEnds, EndCommand, RunTo, TypeOK, CommandType, ProcessType, TodoInv, LockInv
    <2>6. QED
      BY <2>4, <2>5
  <1>32. ASSUME NEW r \in Runs, RunnerDies(r) PROVE (CommandType /\ TodoInv)'
    BY <1>32, SlotsAssumption
    DEF dispatchVars, slotVars, fileVars, groupVars, journalVars, vars, Slots, Groups, R,
        Leave, Exits, RunnerDies, DispatchSteps, RunnerSteps, ProcessType, CommandType,
        TypeOK, TodoInv
  <1>33. ASSUME NEW r \in Runs, Register(r) PROVE (CommandType /\ TodoInv)'
    BY <1>33, SlotsAssumption
    DEF dispatchVars, slotVars, fileVars, groupVars, journalVars, vars, Groups, R, Slot,
        Register, DispatchSteps, RunnerSteps, ProcessType, CommandType, TypeOK, TodoInv
  <1>34. ASSUME NEW r \in Runs, SpawnFails(r) PROVE (CommandType /\ TodoInv)'
    <2>1. todo' \in [Runs -> 1..(Commands + 1)]
      BY <1>34, SlotsAssumption DEF SpawnFails, TypeOK, CommandType
    <2>2. CommandType'
      BY <1>34, <2>1 DEF SpawnFails, ChildGone, TypeOK, CommandType
    <2>3. runner'[r] \notin {"spawn", "report", "wait"} /\ child'[r] = "none"
      BY <1>34 DEF SpawnFails, ChildGone, TypeOK, CommandType, ProcessType, LockInv
    <2>4. TodoInv'
      BY <1>34, <2>3 DEF SpawnFails, ChildGone, TypeOK, CommandType, ProcessType, TodoInv
    <2>5. QED
      BY <2>2, <2>4
  <1>35. ASSUME NEW r \in Runs, Exec(r) PROVE (CommandType /\ TodoInv)'
    BY <1>35, SlotsAssumption
    DEF dispatchVars, slotVars, fileVars, groupVars, journalVars, vars, Groups, R, C,
        Slot, ChildGone, Exec, DispatchSteps, RunnerSteps, ProcessType, CommandType,
        TypeOK, TodoInv
  <1>36. ASSUME NEW r \in Runs, Prune(r) PROVE (CommandType /\ TodoInv)'
    BY <1>36, SlotsAssumption
    DEF dispatchVars, slotVars, fileVars, groupVars, journalVars, vars, Groups, NoJournal,
        Prune, DispatchSteps, RunnerSteps, ProcessType, CommandType, TypeOK, TodoInv
  <1>37. ASSUME NEW g \in Groups, GroupDies(g) PROVE (CommandType /\ TodoInv)'
    BY <1>37, SlotsAssumption
    DEF dispatchVars, slotVars, fileVars, groupVars, journalVars, vars, Groups, GroupDies,
        DispatchSteps, RunnerSteps, ProcessType, CommandType, TypeOK, TodoInv
  <1>38. CASE UNCHANGED vars
    BY <1>38
    DEF dispatchVars, slotVars, fileVars, groupVars, journalVars, vars, Groups,
        DispatchSteps, RunnerSteps, ProcessType, CommandType, TypeOK, TodoInv
  <1>39. QED
    BY <1>1, <1>2, <1>3, <1>4, <1>5, <1>6, <1>7, <1>8, <1>9, <1>10, <1>11, <1>12, <1>13,
       <1>14, <1>15, <1>16, <1>17, <1>18, <1>19, <1>20, <1>21, <1>22, <1>23, <1>24, <1>25,
       <1>26, <1>27, <1>28, <1>29, <1>30, <1>31, <1>32, <1>33, <1>34, <1>35, <1>36, <1>37,
       <1>38
    DEF Next, DispatcherStep, RunnerStep, ChildStep

\* Journals keep their types.
LEMMA JournalStep == TypeOK /\ [Next]_vars => JournalType'
  <1> SUFFICES ASSUME TypeOK, [Next]_vars PROVE JournalType'
    OBVIOUS
  <1>1. ASSUME NEW r \in Runs, Dispatch(r) PROVE JournalType'
    BY <1>1, SlotsAssumption, FreshJournal
    DEF dispatchVars, slotVars, fileVars, groupVars, journalVars, vars, runnerSide,
        DispatchTo, Dispatch, JournalType, TypeOK
  <1>2. ASSUME NEW r \in Runs, ProbeBusy(r) PROVE JournalType'
    BY <1>2, SlotsAssumption, FreshJournal
    DEF dispatchVars, slotVars, fileVars, groupVars, journalVars, vars, Slots, D, Pass,
        runnerSide, ProbeBusy, JournalType, TypeOK
  <1>3. ASSUME NEW r \in Runs, ProbeTake(r) PROVE JournalType'
    BY <1>3, SlotsAssumption, FreshJournal
    DEF dispatchVars, slotVars, fileVars, groupVars, journalVars, vars, Slots, D, Take,
        runnerSide, DispatchTo, ProbeTake, JournalType, TypeOK
  <1>4. ASSUME NEW r \in Runs, ProbeFull(r) PROVE JournalType'
    BY <1>4, SlotsAssumption, FreshJournal
    DEF dispatchVars, slotVars, fileVars, groupVars, journalVars, vars, Slots, D,
        runnerSide, DispatchTo, ProbeFull, JournalType, TypeOK
  <1>5. ASSUME NEW r \in Runs, ProbeDrop(r) PROVE JournalType'
    BY <1>5, SlotsAssumption, FreshJournal
    DEF dispatchVars, slotVars, fileVars, groupVars, journalVars, vars, Slots, D, Leave,
        runnerSide, DispatchTo, ProbeDrop, JournalType, TypeOK
  <1>6. ASSUME NEW r \in Runs, SaveRequest(r) PROVE JournalType'
    BY <1>6, SlotsAssumption, FreshJournal, SMTT(30)
    DEF dispatchVars, slotVars, fileVars, groupVars, journalVars, vars, runnerSide,
        DispatchTo, SaveRequest, JournalType, TypeOK
  <1>7. ASSUME NEW r \in Runs, SaveFails(r) PROVE JournalType'
    BY <1>7, SlotsAssumption, FreshJournal
    DEF dispatchVars, slotVars, fileVars, groupVars, journalVars, vars, runnerSide,
        DispatchTo, SaveFails, JournalType, TypeOK
  <1>8. ASSUME NEW r \in Runs, LaunchOk(r) PROVE JournalType'
    BY <1>8, SlotsAssumption, FreshJournal
    DEF dispatchVars, slotVars, fileVars, groupVars, journalVars, vars, DispatchTo,
        LaunchOk, JournalType, TypeOK
  <1>9. ASSUME NEW r \in Runs, LaunchFails(r) PROVE JournalType'
    BY <1>9, SlotsAssumption, FreshJournal
    DEF dispatchVars, slotVars, fileVars, groupVars, journalVars, vars, runnerSide,
        DispatchTo, AfterLaunchError, LaunchFails, JournalType, TypeOK
  <1>10. ASSUME NEW r \in Runs, LaunchTimesOut(r) PROVE JournalType'
    BY <1>10, SlotsAssumption, FreshJournal
    DEF dispatchVars, slotVars, fileVars, groupVars, journalVars, vars, DispatchTo,
        AfterLaunchError, LaunchTimesOut, JournalType, TypeOK
  <1>11. ASSUME NEW r \in Runs, Withdraw(r) PROVE JournalType'
    BY <1>11, SlotsAssumption, FreshJournal
    DEF dispatchVars, slotVars, fileVars, groupVars, journalVars, vars, runnerSide,
        DispatchTo, Withdraw, JournalType, TypeOK
  <1>12. ASSUME NEW r \in Runs, RecordFailure(r) PROVE JournalType'
    BY <1>12, SlotsAssumption, FreshJournal
    DEF dispatchVars, slotVars, fileVars, groupVars, journalVars, vars, CreateRun,
        runnerSide, DispatchTo, RecordFailure, JournalType, TypeOK
  <1>13. ASSUME NEW r \in Runs, RecordFails(r) PROVE JournalType'
    BY <1>13, SlotsAssumption, FreshJournal
    DEF dispatchVars, slotVars, fileVars, groupVars, journalVars, vars, CreateRunFails,
        runnerSide, DispatchTo, RecordFails, JournalType, TypeOK
  <1>14. ASSUME NEW r \in Runs, CloseFailure(r) PROVE JournalType'
    <2>1. Append(r, "Failed") \/ AppendFails(r, "Failed")
      BY <1>14 DEF CloseFailure
    <2>2. journal' \in [Runs -> Journals] /\ failed' \in [Runs -> BOOLEAN]
      BY <2>1, Appended DEF TypeOK, Statuses
    <2>3. QED
      BY <1>14, <2>2 DEF CloseFailure, TypeOK, JournalType
  <1>15. ASSUME NEW r \in Runs, DispatcherDies(r) PROVE JournalType'
    BY <1>15, SlotsAssumption, FreshJournal
    DEF dispatchVars, slotVars, fileVars, groupVars, journalVars, vars, Slots, D, Leave,
        runnerSide, DispatcherDies, JournalType, TypeOK
  <1>16. ASSUME NEW r \in Runs, RunnerStart(r) PROVE JournalType'
    BY <1>16, SlotsAssumption, FreshJournal
    DEF dispatchVars, slotVars, fileVars, groupVars, journalVars, vars, RunTo,
        RunnerStart, JournalType, TypeOK
  <1>17. ASSUME NEW r \in Runs, RequestTake(r) PROVE JournalType'
    BY <1>17, SlotsAssumption, FreshJournal
    DEF dispatchVars, slotVars, fileVars, groupVars, journalVars, vars, RunTo,
        RequestTake, JournalType, TypeOK
  <1>18. ASSUME NEW r \in Runs, SlotBusy(r) PROVE JournalType'
    BY <1>18, SlotsAssumption, FreshJournal
    DEF dispatchVars, slotVars, fileVars, groupVars, journalVars, vars, Slots, R, Slot,
        Pass, SlotBusy, JournalType, TypeOK
  <1>19. ASSUME NEW r \in Runs, SlotTake(r) PROVE JournalType'
    BY <1>19, SlotsAssumption, FreshJournal
    DEF dispatchVars, slotVars, fileVars, groupVars, journalVars, vars, Slots, R, Slot,
        Take, RunTo, SlotTake, JournalType, TypeOK
  <1>20. ASSUME NEW r \in Runs, SlotsFull(r) PROVE JournalType'
    BY <1>20, SlotsAssumption, FreshJournal
    DEF dispatchVars, slotVars, fileVars, groupVars, journalVars, vars, Slots, R, Slot,
        RunTo, SlotsFull, JournalType, TypeOK
  <1>21. ASSUME NEW r \in Runs, RecordSkip(r) PROVE JournalType'
    BY <1>21, SlotsAssumption, FreshJournal
    DEF dispatchVars, slotVars, fileVars, groupVars, journalVars, vars, CreateRun, RunTo,
        RecordSkip, JournalType, TypeOK
  <1>22. ASSUME NEW r \in Runs, CloseSkip(r) PROVE JournalType'
    <2>1. Append(r, "Skipped") \/ AppendFails(r, "Skipped")
      BY <1>22 DEF CloseSkip
    <2>2. journal' \in [Runs -> Journals] /\ failed' \in [Runs -> BOOLEAN]
      BY <2>1, Appended DEF TypeOK, Statuses
    <2>3. QED
      BY <1>22, <2>2 DEF CloseSkip, TypeOK, JournalType
  <1>23. ASSUME NEW r \in Runs, Begin(r) PROVE JournalType'
    BY <1>23, SlotsAssumption, FreshJournal
    DEF dispatchVars, slotVars, fileVars, groupVars, journalVars, vars, R, Slot, RunTo,
        Begin, JournalType, TypeOK
  <1>24. ASSUME NEW r \in Runs, BeginFails(r) PROVE JournalType'
    BY <1>24, SlotsAssumption, FreshJournal
    DEF dispatchVars, slotVars, fileVars, groupVars, journalVars, vars, Slots, R, Slot,
        Leave, RunTo, BeginFails, JournalType, TypeOK
  <1>25. ASSUME NEW r \in Runs, Open(r) PROVE JournalType'
    BY <1>25, SlotsAssumption, FreshJournal
    DEF dispatchVars, slotVars, fileVars, groupVars, journalVars, vars, CreateRun, RunTo,
        Open, JournalType, TypeOK
  <1>26. ASSUME NEW r \in Runs, OpenFails(r) PROVE JournalType'
    BY <1>26, SlotsAssumption, FreshJournal
    DEF dispatchVars, slotVars, fileVars, groupVars, journalVars, vars, Slots, R, Leave,
        CreateRunFails, OpenFails, JournalType, TypeOK
  <1>27. ASSUME NEW r \in Runs, Fork(r) PROVE JournalType'
    BY <1>27, SlotsAssumption, FreshJournal
    DEF dispatchVars, slotVars, fileVars, groupVars, journalVars, vars, R, C, Slot, RunTo,
        Fork, JournalType, TypeOK
  <1>28. ASSUME NEW r \in Runs, Report(r) PROVE JournalType'
    <2>1. Append(r, None) \/ AppendFails(r, None)
      BY <1>28 DEF Report
    <2>2. journal' \in [Runs -> Journals] /\ failed' \in [Runs -> BOOLEAN]
      BY <2>1, Appended DEF TypeOK, Statuses
    <2>3. QED
      BY <1>28, <2>2 DEF Report, TypeOK, JournalType
  <1>29. ASSUME NEW r \in Runs, Finish(r) PROVE JournalType'
    <2>1. Append(r, "Done") \/ AppendFails(r, "Done")
      BY <1>29 DEF Finish
    <2>2. journal' \in [Runs -> Journals] /\ failed' \in [Runs -> BOOLEAN]
      BY <2>1, Appended DEF TypeOK, Statuses
    <2>3. QED
      BY <1>29, <2>2 DEF Finish, TypeOK, JournalType
  <1>30. ASSUME NEW r \in Runs, Release(r) PROVE JournalType'
    BY <1>30, SlotsAssumption, FreshJournal
    DEF dispatchVars, slotVars, fileVars, groupVars, journalVars, vars, Slots, R, Leave,
        RunTo, Exits, Release, JournalType, TypeOK
  <1>31. ASSUME NEW r \in Runs, CommandEnds(r) PROVE JournalType'
    BY <1>31, SlotsAssumption, FreshJournal
    DEF dispatchVars, slotVars, fileVars, groupVars, journalVars, vars, RunTo, EndCommand,
        CommandEnds, JournalType, TypeOK
  <1>32. ASSUME NEW r \in Runs, RunnerDies(r) PROVE JournalType'
    BY <1>32, SlotsAssumption, FreshJournal
    DEF dispatchVars, slotVars, fileVars, groupVars, journalVars, vars, Slots, R, Leave,
        Exits, RunnerDies, JournalType, TypeOK
  <1>33. ASSUME NEW r \in Runs, Register(r) PROVE JournalType'
    BY <1>33, SlotsAssumption, FreshJournal
    DEF dispatchVars, slotVars, fileVars, groupVars, journalVars, vars, R, Slot, Register,
        JournalType, TypeOK
  <1>34. ASSUME NEW r \in Runs, SpawnFails(r) PROVE JournalType'
    BY <1>34, SlotsAssumption, FreshJournal
    DEF dispatchVars, slotVars, fileVars, groupVars, journalVars, vars, R, C, Slot,
        ChildGone, SpawnFails, JournalType, TypeOK
  <1>35. ASSUME NEW r \in Runs, Exec(r) PROVE JournalType'
    BY <1>35, SlotsAssumption, FreshJournal
    DEF dispatchVars, slotVars, fileVars, groupVars, journalVars, vars, R, C, Slot,
        ChildGone, Exec, JournalType, TypeOK
  <1>36. ASSUME NEW r \in Runs, Prune(r) PROVE JournalType'
    BY <1>36, SlotsAssumption, FreshJournal
    DEF dispatchVars, slotVars, fileVars, groupVars, journalVars, vars, NoJournal, Prune,
        JournalType, TypeOK
  <1>37. ASSUME NEW g \in Groups, GroupDies(g) PROVE JournalType'
    BY <1>37, SlotsAssumption, FreshJournal
    DEF dispatchVars, slotVars, fileVars, groupVars, journalVars, vars, GroupDies,
        JournalType, TypeOK
  <1>38. CASE UNCHANGED vars
    BY <1>38
    DEF dispatchVars, slotVars, fileVars, groupVars, journalVars, vars, JournalType,
        TypeOK
  <1>39. QED
    BY <1>1, <1>2, <1>3, <1>4, <1>5, <1>6, <1>7, <1>8, <1>9, <1>10, <1>11, <1>12, <1>13,
       <1>14, <1>15, <1>16, <1>17, <1>18, <1>19, <1>20, <1>21, <1>22, <1>23, <1>24, <1>25,
       <1>26, <1>27, <1>28, <1>29, <1>30, <1>31, <1>32, <1>33, <1>34, <1>35, <1>36, <1>37,
       <1>38
    DEF Next, DispatcherStep, RunnerStep, ChildStep

-----------------------------------------------------------------------------
(* Slots *)

LEMMA ActorsDiffer ==
    ASSUME NEW r \in Runs, NEW q \in Runs
    PROVE  /\ D(r) \in Actors /\ R(r) \in Actors
           /\ R(r) # D(q) /\ C(r) # D(q) /\ R(r) # C(q)
           /\ (R(r) = R(q) => r = q) /\ (C(r) = C(q) => r = q) /\ (D(r) = D(q) => r = q)
           /\ R(r)[2] = r /\ C(r)[2] = r /\ D(r)[2] = r
  BY DEF D, R, C, Actors

\* A lock is taken when nobody shares it, and left by the process that had it.
LEMMA LockStep == TypeOK /\ LockInv /\ [Next]_vars => LockInv'
  <1> SUFFICES ASSUME TypeOK, LockInv, [Next]_vars PROVE LockInv'
    OBVIOUS
  <1>1. ASSUME NEW r \in Runs, Dispatch(r) PROVE LockInv'
    BY <1>1, SlotsAssumption, ActorsDiffer
    DEF dispatchVars, slotVars, fileVars, groupVars, journalVars, vars, Slots, Slot,
        runnerSide, DispatchTo, Dispatch, ProcessType, SlotType, CommandType, TypeOK,
        Holding, LockInv
  <1>2. ASSUME NEW r \in Runs, ProbeBusy(r) PROVE LockInv'
    BY <1>2, SlotsAssumption, ActorsDiffer
    DEF dispatchVars, slotVars, fileVars, groupVars, journalVars, vars, Slots, Slot, Busy,
        Pass, runnerSide, ProbeBusy, ProcessType, SlotType, CommandType, TypeOK, Holding,
        LockInv
  <1>3. ASSUME NEW r \in Runs, ProbeTake(r) PROVE LockInv'
    BY <1>3, SlotsAssumption, ActorsDiffer
    DEF dispatchVars, slotVars, fileVars, groupVars, journalVars, vars, Slots, Slot, Busy,
        Take, runnerSide, DispatchTo, ProbeTake, ProcessType, SlotType, CommandType,
        TypeOK, Holding, LockInv
  <1>4. ASSUME NEW r \in Runs, ProbeFull(r) PROVE LockInv'
    BY <1>4, SlotsAssumption, ActorsDiffer
    DEF dispatchVars, slotVars, fileVars, groupVars, journalVars, vars, Slots, Slot,
        runnerSide, DispatchTo, ProbeFull, ProcessType, SlotType, CommandType, TypeOK,
        Holding, LockInv
  <1>5. ASSUME NEW r \in Runs, ProbeDrop(r) PROVE LockInv'
    BY <1>5, SlotsAssumption, ActorsDiffer
    DEF dispatchVars, slotVars, fileVars, groupVars, journalVars, vars, Slots, Slot,
        Leave, runnerSide, DispatchTo, ProbeDrop, ProcessType, SlotType, CommandType,
        TypeOK, Holding, LockInv
  <1>6. ASSUME NEW r \in Runs, SaveRequest(r) PROVE LockInv'
    BY <1>6, SlotsAssumption, ActorsDiffer
    DEF dispatchVars, slotVars, fileVars, groupVars, journalVars, vars, Slots, Slot,
        runnerSide, DispatchTo, SaveRequest, ProcessType, SlotType, CommandType, TypeOK,
        Holding, LockInv
  <1>7. ASSUME NEW r \in Runs, SaveFails(r) PROVE LockInv'
    BY <1>7, SlotsAssumption, ActorsDiffer
    DEF dispatchVars, slotVars, fileVars, groupVars, journalVars, vars, Slots, Slot,
        runnerSide, DispatchTo, SaveFails, ProcessType, SlotType, CommandType, TypeOK,
        Holding, LockInv
  <1>8. ASSUME NEW r \in Runs, LaunchOk(r) PROVE LockInv'
    BY <1>8, SlotsAssumption, ActorsDiffer
    DEF dispatchVars, slotVars, fileVars, groupVars, journalVars, vars, Slots, Slot,
        DispatchTo, LaunchOk, ProcessType, SlotType, CommandType, TypeOK, Holding, LockInv
  <1>9. ASSUME NEW r \in Runs, LaunchFails(r) PROVE LockInv'
    BY <1>9, SlotsAssumption, ActorsDiffer
    DEF dispatchVars, slotVars, fileVars, groupVars, journalVars, vars, Slots, Slot,
        runnerSide, DispatchTo, AfterLaunchError, LaunchFails, ProcessType, SlotType,
        CommandType, TypeOK, Holding, LockInv
  <1>10. ASSUME NEW r \in Runs, LaunchTimesOut(r) PROVE LockInv'
    BY <1>10, SlotsAssumption, ActorsDiffer
    DEF dispatchVars, slotVars, fileVars, groupVars, journalVars, vars, Slots, Slot,
        DispatchTo, AfterLaunchError, LaunchTimesOut, ProcessType, SlotType, CommandType,
        TypeOK, Holding, LockInv
  <1>11. ASSUME NEW r \in Runs, Withdraw(r) PROVE LockInv'
    BY <1>11, SlotsAssumption, ActorsDiffer
    DEF dispatchVars, slotVars, fileVars, groupVars, journalVars, vars, Slots, Slot,
        runnerSide, DispatchTo, Withdraw, ProcessType, SlotType, CommandType, TypeOK,
        Holding, LockInv
  <1>12. ASSUME NEW r \in Runs, RecordFailure(r) PROVE LockInv'
    BY <1>12, SlotsAssumption, ActorsDiffer
    DEF dispatchVars, slotVars, fileVars, groupVars, journalVars, vars, Slots, Slot,
        runnerSide, DispatchTo, RecordFailure, ProcessType, SlotType, CommandType, TypeOK,
        Holding, LockInv
  <1>13. ASSUME NEW r \in Runs, RecordFails(r) PROVE LockInv'
    BY <1>13, SlotsAssumption, ActorsDiffer
    DEF dispatchVars, slotVars, fileVars, groupVars, journalVars, vars, Slots, Slot,
        runnerSide, DispatchTo, RecordFails, ProcessType, SlotType, CommandType, TypeOK,
        Holding, LockInv
  <1>14. ASSUME NEW r \in Runs, CloseFailure(r) PROVE LockInv'
    BY <1>14, SlotsAssumption, ActorsDiffer
    DEF dispatchVars, slotVars, fileVars, groupVars, journalVars, vars, Slots, Slot,
        runnerSide, DispatchTo, CloseFailure, ProcessType, SlotType, CommandType, TypeOK,
        Holding, LockInv
  <1>15. ASSUME NEW r \in Runs, DispatcherDies(r) PROVE LockInv'
    BY <1>15, SlotsAssumption, ActorsDiffer
    DEF dispatchVars, slotVars, fileVars, groupVars, journalVars, vars, Slots, Slot,
        Leave, runnerSide, DispatcherDies, ProcessType, SlotType, CommandType, TypeOK,
        Holding, LockInv
  <1>16. ASSUME NEW r \in Runs, RunnerStart(r) PROVE LockInv'
    BY <1>16, SlotsAssumption, ActorsDiffer
    DEF dispatchVars, slotVars, fileVars, groupVars, journalVars, vars, Slots, Slot,
        RunTo, RunnerStart, ProcessType, SlotType, CommandType, TypeOK, Holding, LockInv
  <1>17. ASSUME NEW r \in Runs, RequestTake(r) PROVE LockInv'
    BY <1>17, SlotsAssumption, ActorsDiffer
    DEF dispatchVars, slotVars, fileVars, groupVars, journalVars, vars, Slots, Slot,
        RunTo, RequestTake, ProcessType, SlotType, CommandType, TypeOK, Holding, LockInv
  <1>18. ASSUME NEW r \in Runs, SlotBusy(r) PROVE LockInv'
    BY <1>18, SlotsAssumption, ActorsDiffer
    DEF dispatchVars, slotVars, fileVars, groupVars, journalVars, vars, Slots, Slot, Busy,
        Pass, SlotBusy, ProcessType, SlotType, CommandType, TypeOK, Holding, LockInv
  <1>19. ASSUME NEW r \in Runs, SlotTake(r) PROVE LockInv'
    BY <1>19, SlotsAssumption, ActorsDiffer
    DEF dispatchVars, slotVars, fileVars, groupVars, journalVars, vars, Slots, Slot, Busy,
        Take, RunTo, SlotTake, ProcessType, SlotType, CommandType, TypeOK, Holding,
        LockInv
  <1>20. ASSUME NEW r \in Runs, SlotsFull(r) PROVE LockInv'
    BY <1>20, SlotsAssumption, ActorsDiffer
    DEF dispatchVars, slotVars, fileVars, groupVars, journalVars, vars, Slots, Slot,
        RunTo, SlotsFull, ProcessType, SlotType, CommandType, TypeOK, Holding, LockInv
  <1>21. ASSUME NEW r \in Runs, RecordSkip(r) PROVE LockInv'
    BY <1>21, SlotsAssumption, ActorsDiffer
    DEF dispatchVars, slotVars, fileVars, groupVars, journalVars, vars, Slots, Slot,
        RunTo, RecordSkip, ProcessType, SlotType, CommandType, TypeOK, Holding, LockInv
  <1>22. ASSUME NEW r \in Runs, CloseSkip(r) PROVE LockInv'
    BY <1>22, SlotsAssumption, ActorsDiffer
    DEF dispatchVars, slotVars, fileVars, groupVars, journalVars, vars, Slots, Slot,
        RunTo, CloseSkip, ProcessType, SlotType, CommandType, TypeOK, Holding, LockInv
  <1>23. ASSUME NEW r \in Runs, Begin(r) PROVE LockInv'
    BY <1>23, SlotsAssumption, ActorsDiffer
    DEF dispatchVars, slotVars, fileVars, groupVars, journalVars, vars, Slots, Slot,
        RunTo, Begin, ProcessType, SlotType, CommandType, TypeOK, Holding, LockInv
  <1>24. ASSUME NEW r \in Runs, BeginFails(r) PROVE LockInv'
    BY <1>24, SlotsAssumption, ActorsDiffer
    DEF dispatchVars, slotVars, fileVars, groupVars, journalVars, vars, Slots, Slot,
        Leave, RunTo, BeginFails, ProcessType, SlotType, CommandType, TypeOK, Holding,
        LockInv
  <1>25. ASSUME NEW r \in Runs, Open(r) PROVE LockInv'
    BY <1>25, SlotsAssumption, ActorsDiffer
    DEF dispatchVars, slotVars, fileVars, groupVars, journalVars, vars, Slots, Slot,
        RunTo, Open, ProcessType, SlotType, CommandType, TypeOK, Holding, LockInv
  <1>26. ASSUME NEW r \in Runs, OpenFails(r) PROVE LockInv'
    BY <1>26, SlotsAssumption, ActorsDiffer
    DEF dispatchVars, slotVars, fileVars, groupVars, journalVars, vars, Slots, Slot,
        Leave, OpenFails, ProcessType, SlotType, CommandType, TypeOK, Holding, LockInv
  <1>27. ASSUME NEW r \in Runs, Fork(r) PROVE LockInv'
    BY <1>27, SlotsAssumption, ActorsDiffer
    DEF dispatchVars, slotVars, fileVars, groupVars, journalVars, vars, Slots, Slot,
        RunTo, Fork, ProcessType, SlotType, CommandType, TypeOK, Holding, LockInv
  <1>28. ASSUME NEW r \in Runs, Report(r) PROVE LockInv'
    BY <1>28, SlotsAssumption, ActorsDiffer
    DEF dispatchVars, slotVars, fileVars, groupVars, journalVars, vars, Slots, Slot,
        RunTo, EndCommand, Report, ProcessType, SlotType, CommandType, TypeOK, Holding,
        LockInv
  <1>29. ASSUME NEW r \in Runs, Finish(r) PROVE LockInv'
    BY <1>29, SlotsAssumption, ActorsDiffer
    DEF dispatchVars, slotVars, fileVars, groupVars, journalVars, vars, Slots, Slot,
        RunTo, Finish, ProcessType, SlotType, CommandType, TypeOK, Holding, LockInv
  <1>30. ASSUME NEW r \in Runs, Release(r) PROVE LockInv'
    BY <1>30, SlotsAssumption, ActorsDiffer
    DEF dispatchVars, slotVars, fileVars, groupVars, journalVars, vars, Slots, Slot,
        Leave, RunTo, Exits, Release, ProcessType, SlotType, CommandType, TypeOK, Holding,
        LockInv
  <1>31. ASSUME NEW r \in Runs, CommandEnds(r) PROVE LockInv'
    BY <1>31, SlotsAssumption, ActorsDiffer
    DEF dispatchVars, slotVars, fileVars, groupVars, journalVars, vars, Slots, Slot,
        RunTo, EndCommand, CommandEnds, ProcessType, SlotType, CommandType, TypeOK,
        Holding, LockInv
  <1>32. ASSUME NEW r \in Runs, RunnerDies(r) PROVE LockInv'
    BY <1>32, SlotsAssumption, ActorsDiffer
    DEF dispatchVars, slotVars, fileVars, groupVars, journalVars, vars, Slots, Slot,
        Leave, Exits, RunnerDies, ProcessType, SlotType, CommandType, TypeOK, Holding,
        LockInv
  <1>33. ASSUME NEW r \in Runs, Register(r) PROVE LockInv'
    BY <1>33, SlotsAssumption, ActorsDiffer
    DEF dispatchVars, slotVars, fileVars, groupVars, journalVars, vars, Slots, Slot,
        Register, ProcessType, SlotType, CommandType, TypeOK, Holding, LockInv
  <1>34. ASSUME NEW r \in Runs, SpawnFails(r) PROVE LockInv'
    BY <1>34, SlotsAssumption, ActorsDiffer
    DEF dispatchVars, slotVars, fileVars, groupVars, journalVars, vars, Slots, Slot,
        ChildGone, SpawnFails, ProcessType, SlotType, CommandType, TypeOK, Holding,
        LockInv
  <1>35. ASSUME NEW r \in Runs, Exec(r) PROVE LockInv'
    BY <1>35, SlotsAssumption, ActorsDiffer
    DEF dispatchVars, slotVars, fileVars, groupVars, journalVars, vars, Slots, Slot,
        ChildGone, Exec, ProcessType, SlotType, CommandType, TypeOK, Holding, LockInv
  <1>36. ASSUME NEW r \in Runs, Prune(r) PROVE LockInv'
    BY <1>36, SlotsAssumption, ActorsDiffer
    DEF dispatchVars, slotVars, fileVars, groupVars, journalVars, vars, Slots, Slot,
        NoJournal, Prune, ProcessType, SlotType, CommandType, TypeOK, Holding, LockInv
  <1>37. ASSUME NEW g \in Groups, GroupDies(g) PROVE LockInv'
    BY <1>37, SlotsAssumption, ActorsDiffer
    DEF dispatchVars, slotVars, fileVars, groupVars, journalVars, vars, Slots, Slot,
        GroupDies, ProcessType, SlotType, CommandType, TypeOK, Holding, LockInv
  <1>38. CASE UNCHANGED vars
    BY <1>38
    DEF dispatchVars, slotVars, fileVars, groupVars, journalVars, vars, Slots, Slot,
        ProcessType, SlotType, CommandType, TypeOK, Holding, LockInv
  <1>39. QED
    BY <1>1, <1>2, <1>3, <1>4, <1>5, <1>6, <1>7, <1>8, <1>9, <1>10, <1>11, <1>12, <1>13,
       <1>14, <1>15, <1>16, <1>17, <1>18, <1>19, <1>20, <1>21, <1>22, <1>23, <1>24, <1>25,
       <1>26, <1>27, <1>28, <1>29, <1>30, <1>31, <1>32, <1>33, <1>34, <1>35, <1>36, <1>37,
       <1>38
    DEF Next, DispatcherStep, RunnerStep, ChildStep

\* Only the holder of a slot's lock truncates its file, and a lock with living groups is not taken.
LEMMA GroupStep == TypeOK /\ TodoInv /\ LockInv /\ GroupInv /\ "torn" \notin Faults /\ [Next]_vars => GroupInv'
  <1> SUFFICES ASSUME TypeOK, TodoInv, LockInv, GroupInv, "torn" \notin Faults, [Next]_vars PROVE GroupInv'
    OBVIOUS
  <1>1. ASSUME NEW r \in Runs, Dispatch(r) PROVE GroupInv'
    BY <1>1, SlotsAssumption, ActorsDiffer
    DEF dispatchVars, slotVars, fileVars, groupVars, journalVars, vars, Slots, Groups,
        Slot, runnerSide, DispatchTo, Dispatch, ProcessType, SlotType, CommandType,
        TypeOK, Holding, Working, Past, TodoInv, LockInv, GroupInv
  <1>2. ASSUME NEW r \in Runs, ProbeBusy(r) PROVE GroupInv'
    BY <1>2, SlotsAssumption, ActorsDiffer
    DEF dispatchVars, slotVars, fileVars, groupVars, journalVars, vars, Slots, Groups,
        Slot, Busy, Pass, runnerSide, ProbeBusy, ProcessType, SlotType, CommandType,
        TypeOK, Holding, Working, Past, TodoInv, LockInv, GroupInv
  <1>3. ASSUME NEW r \in Runs, ProbeTake(r) PROVE GroupInv'
    BY <1>3, SlotsAssumption, ActorsDiffer
    DEF dispatchVars, slotVars, fileVars, groupVars, journalVars, vars, Slots, Groups,
        Slot, Busy, Take, runnerSide, DispatchTo, ProbeTake, ProcessType, SlotType,
        CommandType, TypeOK, Holding, Working, Past, TodoInv, LockInv, GroupInv
  <1>4. ASSUME NEW r \in Runs, ProbeFull(r) PROVE GroupInv'
    BY <1>4, SlotsAssumption, ActorsDiffer
    DEF dispatchVars, slotVars, fileVars, groupVars, journalVars, vars, Slots, Groups,
        Slot, runnerSide, DispatchTo, ProbeFull, ProcessType, SlotType, CommandType,
        TypeOK, Holding, Working, Past, TodoInv, LockInv, GroupInv
  <1>5. ASSUME NEW r \in Runs, ProbeDrop(r) PROVE GroupInv'
    BY <1>5, SlotsAssumption, ActorsDiffer
    DEF dispatchVars, slotVars, fileVars, groupVars, journalVars, vars, Slots, Groups,
        Slot, Leave, runnerSide, DispatchTo, ProbeDrop, ProcessType, SlotType,
        CommandType, TypeOK, Holding, Working, Past, TodoInv, LockInv, GroupInv
  <1>6. ASSUME NEW r \in Runs, SaveRequest(r) PROVE GroupInv'
    BY <1>6, SlotsAssumption, ActorsDiffer
    DEF dispatchVars, slotVars, fileVars, groupVars, journalVars, vars, Slots, Groups,
        Slot, runnerSide, DispatchTo, SaveRequest, ProcessType, SlotType, CommandType,
        TypeOK, Holding, Working, Past, TodoInv, LockInv, GroupInv
  <1>7. ASSUME NEW r \in Runs, SaveFails(r) PROVE GroupInv'
    BY <1>7, SlotsAssumption, ActorsDiffer
    DEF dispatchVars, slotVars, fileVars, groupVars, journalVars, vars, Slots, Groups,
        Slot, Fault, runnerSide, DispatchTo, SaveFails, ProcessType, SlotType,
        CommandType, TypeOK, Holding, Working, Past, TodoInv, LockInv, GroupInv
  <1>8. ASSUME NEW r \in Runs, LaunchOk(r) PROVE GroupInv'
    BY <1>8, SlotsAssumption, ActorsDiffer
    DEF dispatchVars, slotVars, fileVars, groupVars, journalVars, vars, Slots, Groups,
        Slot, DispatchTo, LaunchOk, ProcessType, SlotType, CommandType, TypeOK, Holding,
        Working, Past, TodoInv, LockInv, GroupInv
  <1>9. ASSUME NEW r \in Runs, LaunchFails(r) PROVE GroupInv'
    BY <1>9, SlotsAssumption, ActorsDiffer
    DEF dispatchVars, slotVars, fileVars, groupVars, journalVars, vars, Slots, Groups,
        Slot, runnerSide, DispatchTo, AfterLaunchError, LaunchFails, ProcessType,
        SlotType, CommandType, TypeOK, Holding, Working, Past, TodoInv, LockInv, GroupInv
  <1>10. ASSUME NEW r \in Runs, LaunchTimesOut(r) PROVE GroupInv'
    BY <1>10, SlotsAssumption, ActorsDiffer
    DEF dispatchVars, slotVars, fileVars, groupVars, journalVars, vars, Slots, Groups,
        Slot, DispatchTo, AfterLaunchError, LaunchTimesOut, ProcessType, SlotType,
        CommandType, TypeOK, Holding, Working, Past, TodoInv, LockInv, GroupInv
  <1>11. ASSUME NEW r \in Runs, Withdraw(r) PROVE GroupInv'
    BY <1>11, SlotsAssumption, ActorsDiffer
    DEF dispatchVars, slotVars, fileVars, groupVars, journalVars, vars, Slots, Groups,
        Slot, runnerSide, DispatchTo, Withdraw, ProcessType, SlotType, CommandType,
        TypeOK, Holding, Working, Past, TodoInv, LockInv, GroupInv
  <1>12. ASSUME NEW r \in Runs, RecordFailure(r) PROVE GroupInv'
    BY <1>12, SlotsAssumption, ActorsDiffer
    DEF dispatchVars, slotVars, fileVars, groupVars, journalVars, vars, Slots, Groups,
        Slot, runnerSide, DispatchTo, RecordFailure, ProcessType, SlotType, CommandType,
        TypeOK, Holding, Working, Past, TodoInv, LockInv, GroupInv
  <1>13. ASSUME NEW r \in Runs, RecordFails(r) PROVE GroupInv'
    BY <1>13, SlotsAssumption, ActorsDiffer
    DEF dispatchVars, slotVars, fileVars, groupVars, journalVars, vars, Slots, Groups,
        Slot, runnerSide, DispatchTo, RecordFails, ProcessType, SlotType, CommandType,
        TypeOK, Holding, Working, Past, TodoInv, LockInv, GroupInv
  <1>14. ASSUME NEW r \in Runs, CloseFailure(r) PROVE GroupInv'
    BY <1>14, SlotsAssumption, ActorsDiffer
    DEF dispatchVars, slotVars, fileVars, groupVars, journalVars, vars, Slots, Groups,
        Slot, runnerSide, DispatchTo, CloseFailure, ProcessType, SlotType, CommandType,
        TypeOK, Holding, Working, Past, TodoInv, LockInv, GroupInv
  <1>15. ASSUME NEW r \in Runs, DispatcherDies(r) PROVE GroupInv'
    BY <1>15, SlotsAssumption, ActorsDiffer
    DEF dispatchVars, slotVars, fileVars, groupVars, journalVars, vars, Slots, Groups,
        Slot, Fault, Leave, runnerSide, DispatcherDies, ProcessType, SlotType,
        CommandType, TypeOK, Holding, Working, Past, TodoInv, LockInv, GroupInv
  <1>16. ASSUME NEW r \in Runs, RunnerStart(r) PROVE GroupInv'
    <2>1. /\ runner[r] = "queued" /\ runner' = [runner EXCEPT ![r] = runner'[r]]
          /\ runner'[r] \in {"take", "try", "ended"}
      BY <1>16 DEF RunnerStart, RunTo, TypeOK, ProcessType
    <2>2. UNCHANGED <<next, owner, groups, torn, alive, child, todo>>
      BY <1>16 DEF RunnerStart, slotVars, fileVars, groupVars
    <2>3. QED
      BY <2>1, <2>2 DEF GroupInv, Slot, Past, Working, Holding, TypeOK, ProcessType
  <1>17. ASSUME NEW r \in Runs, RequestTake(r) PROVE GroupInv'
    BY <1>17, SlotsAssumption, ActorsDiffer, SMTT(30)
    DEF dispatchVars, slotVars, fileVars, groupVars, journalVars, vars, Slots, Groups,
        Slot, RunTo, RequestTake, ProcessType, SlotType, CommandType, TypeOK, Holding,
        Working, Past, TodoInv, LockInv, GroupInv
  <1>18. ASSUME NEW r \in Runs, SlotBusy(r) PROVE GroupInv'
    <2>1. runner[r] = "try" /\ UNCHANGED <<runner, owner, groups, torn, alive, child, todo>>
      BY <1>18 DEF SlotBusy, fileVars, groupVars
    <2>2. \A q \in Runs : q # r => Slot(q)' = Slot(q)
      BY <1>18, ActorsDiffer DEF SlotBusy, Pass, Slot, TypeOK, SlotType
    <2>3. child[r] = "none"
      BY <2>1 DEF LockInv
    <2>4. QED
      BY <2>1, <2>2, <2>3 DEF GroupInv, Past, Working, Holding
  <1>19. ASSUME NEW r \in Runs, SlotTake(r) PROVE GroupInv'
    BY <1>19, SlotsAssumption, ActorsDiffer, SMTT(30)
    DEF dispatchVars, slotVars, fileVars, groupVars, journalVars, vars, Slots, Groups,
        Slot, Busy, Take, RunTo, SlotTake, ProcessType, SlotType, CommandType, TypeOK,
        Holding, Working, Past, TodoInv, LockInv, GroupInv
  <1>20. ASSUME NEW r \in Runs, SlotsFull(r) PROVE GroupInv'
    BY <1>20, SlotsAssumption, ActorsDiffer
    DEF dispatchVars, slotVars, fileVars, groupVars, journalVars, vars, Slots, Groups,
        Slot, RunTo, SlotsFull, ProcessType, SlotType, CommandType, TypeOK, Holding,
        Working, Past, TodoInv, LockInv, GroupInv
  <1>21. ASSUME NEW r \in Runs, RecordSkip(r) PROVE GroupInv'
    BY <1>21, SlotsAssumption, ActorsDiffer, SMTT(30)
    DEF dispatchVars, slotVars, fileVars, groupVars, journalVars, vars, Slots, Groups,
        Slot, RunTo, RecordSkip, ProcessType, SlotType, CommandType, TypeOK, Holding,
        Working, Past, TodoInv, LockInv, GroupInv
  <1>22. ASSUME NEW r \in Runs, CloseSkip(r) PROVE GroupInv'
    BY <1>22, SlotsAssumption, ActorsDiffer
    DEF dispatchVars, slotVars, fileVars, groupVars, journalVars, vars, Slots, Groups,
        Slot, RunTo, CloseSkip, ProcessType, SlotType, CommandType, TypeOK, Holding,
        Working, Past, TodoInv, LockInv, GroupInv
  <1>23. ASSUME NEW r \in Runs, Begin(r) PROVE GroupInv'
    <2> DEFINE s == Slot(r)
    <2>1. /\ s \in Slots /\ runner[r] = "begin" /\ child[r] = "none"
          /\ \A q \in Runs : (runner[q] \in Holding \/ child[q] # "none") /\ q # r => Slot(q) # s
      BY <1>23, ActorsDiffer DEF Begin, RunTo, LockInv, Holding
    <2>2. /\ \A q \in Runs : Slot(q)' = Slot(q) /\ (q # r => runner'[q] = runner[q])
          /\ UNCHANGED <<alive, child, todo>>
          /\ runner'[r] \in {"create", "ended"}
          /\ runner'[r] = "create" => owner'[s] = r /\ ~torn'[s]
          /\ groups'[s] = {}
          /\ \A t \in Slots : t # s => owner'[t] = owner[t] /\ groups'[t] = groups[t] /\ torn'[t] = torn[t]
      BY <1>23, <2>1 DEF Begin, RunTo, TypeOK, ProcessType, SlotType, slotVars, groupVars, Slot
    <2>3. \A q \in Runs : \A n \in 1..Commands : <<q, n>> \in alive => Slot(q) # s
      BY <2>1 DEF GroupInv
    <2>4. \A q \in Runs : child[q] # "none" => Slot(q) \in Slots
      BY DEF LockInv
    <2>5. \A q \in Runs : runner[q] \in Holding => Slot(q) \in Slots
      BY DEF LockInv
    <2> HIDE DEF s
    <2>6. \A t \in Slots : \A q \in Runs : \A n \in 1..Commands :
            <<q, n>> \in groups'[t] => t = Slot(q)' /\ owner'[t] = q /\ runner'[q] \in Past
      BY <2>1, <2>2 DEF GroupInv, Past
    <2>7. \A q \in Runs : \A n \in 1..Commands :
            <<q, n>> \in alive' => Slot(q)' \in Slots /\ <<q, n>> \in groups'[Slot(q)']
      BY <2>2, <2>3 DEF GroupInv
    <2>8. ASSUME NEW q \in Runs
          PROVE  /\ runner'[q] = "begin" => groups'[Slot(q)'] \cap alive' = {}
                 /\ (runner'[q] \in Working \/ child'[q] # "none") =>
                      ~torn'[Slot(q)'] /\ owner'[Slot(q)'] = q
                 /\ child'[q] = "registered" => <<q, todo'[q]>> \in groups'[Slot(q)']
      <3>1. CASE q = r
        BY <2>1, <2>2, <3>1 DEF Working, Holding, s
      <3>2. CASE q # r
        BY <2>1, <2>2, <2>4, <2>5, <3>2 DEF GroupInv, Working, Holding
      <3>3. QED
        BY <3>1, <3>2
    <2>9. QED
      BY <2>6, <2>7, <2>8 DEF GroupInv
  <1>24. ASSUME NEW r \in Runs, BeginFails(r) PROVE GroupInv'
    <2> DEFINE s == Slot(r)
    <2>1. /\ s \in Slots /\ runner[r] = "begin" /\ child[r] = "none"
          /\ \A q \in Runs : (runner[q] \in Holding \/ child[q] # "none") /\ q # r => Slot(q) # s
      BY <1>24, ActorsDiffer DEF BeginFails, RunTo, LockInv, Holding
    <2>2. /\ \A q \in Runs : Slot(q)' = Slot(q) /\ (q # r => runner'[q] = runner[q])
          /\ UNCHANGED <<alive, child, todo>>
          /\ runner'[r] \in {"create", "ended"}
          /\ runner'[r] = "create" => owner'[s] = r /\ ~torn'[s]
          /\ groups'[s] = {}
          /\ \A t \in Slots : t # s => owner'[t] = owner[t] /\ groups'[t] = groups[t] /\ torn'[t] = torn[t]
      BY <1>24, <2>1 DEF BeginFails, RunTo, TypeOK, ProcessType, SlotType, slotVars, groupVars, Slot
    <2>3. \A q \in Runs : \A n \in 1..Commands : <<q, n>> \in alive => Slot(q) # s
      BY <2>1 DEF GroupInv
    <2>4. \A q \in Runs : child[q] # "none" => Slot(q) \in Slots
      BY DEF LockInv
    <2>5. \A q \in Runs : runner[q] \in Holding => Slot(q) \in Slots
      BY DEF LockInv
    <2> HIDE DEF s
    <2>6. \A t \in Slots : \A q \in Runs : \A n \in 1..Commands :
            <<q, n>> \in groups'[t] => t = Slot(q)' /\ owner'[t] = q /\ runner'[q] \in Past
      BY <2>1, <2>2 DEF GroupInv, Past
    <2>7. \A q \in Runs : \A n \in 1..Commands :
            <<q, n>> \in alive' => Slot(q)' \in Slots /\ <<q, n>> \in groups'[Slot(q)']
      BY <2>2, <2>3 DEF GroupInv
    <2>8. ASSUME NEW q \in Runs
          PROVE  /\ runner'[q] = "begin" => groups'[Slot(q)'] \cap alive' = {}
                 /\ (runner'[q] \in Working \/ child'[q] # "none") =>
                      ~torn'[Slot(q)'] /\ owner'[Slot(q)'] = q
                 /\ child'[q] = "registered" => <<q, todo'[q]>> \in groups'[Slot(q)']
      <3>1. CASE q = r
        BY <2>1, <2>2, <3>1 DEF Working, Holding, s
      <3>2. CASE q # r
        BY <2>1, <2>2, <2>4, <2>5, <3>2 DEF GroupInv, Working, Holding
      <3>3. QED
        BY <3>1, <3>2
    <2>9. QED
      BY <2>6, <2>7, <2>8 DEF GroupInv
  <1>25. ASSUME NEW r \in Runs, Open(r) PROVE GroupInv'
    <2>1. /\ runner[r] = "create" /\ runner'[r] \in {"work"} /\ child[r] = "none"
          /\ \A q \in Runs : q # r => runner'[q] = runner[q]
      BY <1>25 DEF Open, RunTo, TypeOK, ProcessType, LockInv
    <2>2. /\ UNCHANGED <<next, owner, groups, torn, alive, child>>
          /\ \A q \in Runs : q # r => todo'[q] = todo[q]
      BY <1>25 DEF Open, TypeOK, CommandType, slotVars, groupVars, fileVars
    <2>3. ASSUME NEW q \in Runs
          PROVE  /\ Slot(q)' = Slot(q)
                 /\ runner'[q] = "begin" => runner[q] = "begin"
                 /\ runner[q] \in Past => runner'[q] \in Past
                 /\ runner'[q] \in Working => runner[q] \in Working
      <3>1. CASE q = r
        BY <2>1, <2>2, <3>1 DEF Slot, Past, Working, Holding
      <3>2. CASE q # r
        BY <2>1, <2>2, <3>2 DEF Slot
      <3>3. QED
        BY <3>1, <3>2
    <2>4. \A t \in Slots : \A q \in Runs : \A n \in 1..Commands :
            <<q, n>> \in groups'[t] => t = Slot(q)' /\ owner'[t] = q /\ runner'[q] \in Past
      BY <2>2, <2>3 DEF GroupInv
    <2>5. \A q \in Runs : \A n \in 1..Commands :
            <<q, n>> \in alive' => Slot(q)' \in Slots /\ <<q, n>> \in groups'[Slot(q)']
      BY <2>2, <2>3 DEF GroupInv
    <2>6. ASSUME NEW q \in Runs
          PROVE  /\ runner'[q] = "begin" => groups'[Slot(q)'] \cap alive' = {}
                 /\ (runner'[q] \in Working \/ child'[q] # "none") =>
                      ~torn'[Slot(q)'] /\ owner'[Slot(q)'] = q
                 /\ child'[q] = "registered" => <<q, todo'[q]>> \in groups'[Slot(q)']
      BY <2>1, <2>2, <2>3 DEF GroupInv
    <2>7. QED
      BY <2>4, <2>5, <2>6 DEF GroupInv
  <1>26. ASSUME NEW r \in Runs, OpenFails(r) PROVE GroupInv'
    BY <1>26, SlotsAssumption, ActorsDiffer
    DEF dispatchVars, slotVars, fileVars, groupVars, journalVars, vars, Slots, Groups,
        Slot, Leave, OpenFails, ProcessType, SlotType, CommandType, TypeOK, Holding,
        Working, Past, TodoInv, LockInv, GroupInv
  <1>27. ASSUME NEW r \in Runs, Fork(r) PROVE GroupInv'
    BY <1>27, SlotsAssumption, ActorsDiffer
    DEF dispatchVars, slotVars, fileVars, groupVars, journalVars, vars, Slots, Groups,
        Slot, RunTo, Fork, ProcessType, SlotType, CommandType, TypeOK, Holding, Working,
        Past, TodoInv, LockInv, GroupInv
  <1>28. ASSUME NEW r \in Runs, Report(r) PROVE GroupInv'
    <2>1. /\ runner[r] = "report" /\ runner'[r] \in {"wait", "work"} /\ child[r] = "none"
          /\ \A q \in Runs : q # r => runner'[q] = runner[q]
      BY <1>28 DEF Report, RunTo, TypeOK, ProcessType, LockInv
    <2>2. /\ UNCHANGED <<next, owner, groups, torn, alive, child>>
          /\ \A q \in Runs : q # r => todo'[q] = todo[q]
      BY <1>28 DEF Report, EndCommand, TypeOK, CommandType, slotVars, groupVars, fileVars
    <2>3. ASSUME NEW q \in Runs
          PROVE  /\ Slot(q)' = Slot(q)
                 /\ runner'[q] = "begin" => runner[q] = "begin"
                 /\ runner[q] \in Past => runner'[q] \in Past
                 /\ runner'[q] \in Working => runner[q] \in Working
      <3>1. CASE q = r
        BY <2>1, <2>2, <3>1 DEF Slot, Past, Working, Holding
      <3>2. CASE q # r
        BY <2>1, <2>2, <3>2 DEF Slot
      <3>3. QED
        BY <3>1, <3>2
    <2>4. \A t \in Slots : \A q \in Runs : \A n \in 1..Commands :
            <<q, n>> \in groups'[t] => t = Slot(q)' /\ owner'[t] = q /\ runner'[q] \in Past
      BY <2>2, <2>3 DEF GroupInv
    <2>5. \A q \in Runs : \A n \in 1..Commands :
            <<q, n>> \in alive' => Slot(q)' \in Slots /\ <<q, n>> \in groups'[Slot(q)']
      BY <2>2, <2>3 DEF GroupInv
    <2>6. ASSUME NEW q \in Runs
          PROVE  /\ runner'[q] = "begin" => groups'[Slot(q)'] \cap alive' = {}
                 /\ (runner'[q] \in Working \/ child'[q] # "none") =>
                      ~torn'[Slot(q)'] /\ owner'[Slot(q)'] = q
                 /\ child'[q] = "registered" => <<q, todo'[q]>> \in groups'[Slot(q)']
      BY <2>1, <2>2, <2>3 DEF GroupInv
    <2>7. QED
      BY <2>4, <2>5, <2>6 DEF GroupInv
  <1>29. ASSUME NEW r \in Runs, Finish(r) PROVE GroupInv'
    BY <1>29, SlotsAssumption, ActorsDiffer
    DEF dispatchVars, slotVars, fileVars, groupVars, journalVars, vars, Slots, Groups,
        Slot, RunTo, Finish, ProcessType, SlotType, CommandType, TypeOK, Holding, Working,
        Past, TodoInv, LockInv, GroupInv
  <1>30. ASSUME NEW r \in Runs, Release(r) PROVE GroupInv'
    BY <1>30, SlotsAssumption, ActorsDiffer
    DEF dispatchVars, slotVars, fileVars, groupVars, journalVars, vars, Slots, Groups,
        Slot, Leave, RunTo, Exits, Release, ProcessType, SlotType, CommandType, TypeOK,
        Holding, Working, Past, TodoInv, LockInv, GroupInv
  <1>31. ASSUME NEW r \in Runs, CommandEnds(r) PROVE GroupInv'
    <2>1. /\ runner[r] = "wait" /\ runner'[r] \in {"work"} /\ child[r] = "none"
          /\ \A q \in Runs : q # r => runner'[q] = runner[q]
      BY <1>31 DEF CommandEnds, RunTo, TypeOK, ProcessType, LockInv
    <2>2. /\ UNCHANGED <<next, owner, groups, torn, alive, child>>
          /\ \A q \in Runs : q # r => todo'[q] = todo[q]
      BY <1>31 DEF CommandEnds, EndCommand, TypeOK, CommandType, slotVars, groupVars, fileVars
    <2>3. ASSUME NEW q \in Runs
          PROVE  /\ Slot(q)' = Slot(q)
                 /\ runner'[q] = "begin" => runner[q] = "begin"
                 /\ runner[q] \in Past => runner'[q] \in Past
                 /\ runner'[q] \in Working => runner[q] \in Working
      <3>1. CASE q = r
        BY <2>1, <2>2, <3>1 DEF Slot, Past, Working, Holding
      <3>2. CASE q # r
        BY <2>1, <2>2, <3>2 DEF Slot
      <3>3. QED
        BY <3>1, <3>2
    <2>4. \A t \in Slots : \A q \in Runs : \A n \in 1..Commands :
            <<q, n>> \in groups'[t] => t = Slot(q)' /\ owner'[t] = q /\ runner'[q] \in Past
      BY <2>2, <2>3 DEF GroupInv
    <2>5. \A q \in Runs : \A n \in 1..Commands :
            <<q, n>> \in alive' => Slot(q)' \in Slots /\ <<q, n>> \in groups'[Slot(q)']
      BY <2>2, <2>3 DEF GroupInv
    <2>6. ASSUME NEW q \in Runs
          PROVE  /\ runner'[q] = "begin" => groups'[Slot(q)'] \cap alive' = {}
                 /\ (runner'[q] \in Working \/ child'[q] # "none") =>
                      ~torn'[Slot(q)'] /\ owner'[Slot(q)'] = q
                 /\ child'[q] = "registered" => <<q, todo'[q]>> \in groups'[Slot(q)']
      BY <2>1, <2>2, <2>3 DEF GroupInv
    <2>7. QED
      BY <2>4, <2>5, <2>6 DEF GroupInv
  <1>32. ASSUME NEW r \in Runs, RunnerDies(r) PROVE GroupInv'
    BY <1>32, SlotsAssumption, ActorsDiffer
    DEF dispatchVars, slotVars, fileVars, groupVars, journalVars, vars, Slots, Groups,
        Slot, Fault, Leave, Exits, RunnerDies, ProcessType, SlotType, CommandType, TypeOK,
        Holding, Working, Past, TodoInv, LockInv, GroupInv
  <1>33. ASSUME NEW r \in Runs, Register(r) PROVE GroupInv'
    BY <1>33, SlotsAssumption, ActorsDiffer, SMTT(30)
    DEF dispatchVars, slotVars, fileVars, groupVars, journalVars, vars, Slots, Groups,
        Slot, Register, ProcessType, SlotType, CommandType, TypeOK, Holding, Working,
        Past, TodoInv, LockInv, GroupInv
  <1>34. ASSUME NEW r \in Runs, SpawnFails(r) PROVE GroupInv'
    BY <1>34, SlotsAssumption, ActorsDiffer, SMTT(30)
    DEF dispatchVars, slotVars, fileVars, groupVars, journalVars, vars, Slots, Groups,
        Slot, Fault, ChildGone, SpawnFails, ProcessType, SlotType, CommandType, TypeOK,
        Holding, Working, Past, TodoInv, LockInv, GroupInv
  <1>35. ASSUME NEW r \in Runs, Exec(r) PROVE GroupInv'
    BY <1>35, SlotsAssumption, ActorsDiffer
    DEF dispatchVars, slotVars, fileVars, groupVars, journalVars, vars, Slots, Groups,
        Slot, ChildGone, Exec, ProcessType, SlotType, CommandType, TypeOK, Holding,
        Working, Past, TodoInv, LockInv, GroupInv
  <1>36. ASSUME NEW r \in Runs, Prune(r) PROVE GroupInv'
    BY <1>36, SlotsAssumption, ActorsDiffer
    DEF dispatchVars, slotVars, fileVars, groupVars, journalVars, vars, Slots, Groups,
        Slot, NoJournal, Prune, ProcessType, SlotType, CommandType, TypeOK, Holding,
        Working, Past, TodoInv, LockInv, GroupInv
  <1>37. ASSUME NEW g \in Groups, GroupDies(g) PROVE GroupInv'
    BY <1>37, SlotsAssumption, ActorsDiffer
    DEF dispatchVars, slotVars, fileVars, groupVars, journalVars, vars, Slots, Groups,
        Slot, GroupDies, ProcessType, SlotType, CommandType, TypeOK, Holding, Working,
        Past, TodoInv, LockInv, GroupInv
  <1>38. CASE UNCHANGED vars
    BY <1>38
    DEF dispatchVars, slotVars, fileVars, groupVars, journalVars, vars, Slots, Groups,
        Slot, ProcessType, SlotType, CommandType, TypeOK, Holding, Working, Past, TodoInv,
        LockInv, GroupInv
  <1>39. QED
    BY <1>1, <1>2, <1>3, <1>4, <1>5, <1>6, <1>7, <1>8, <1>9, <1>10, <1>11, <1>12, <1>13,
       <1>14, <1>15, <1>16, <1>17, <1>18, <1>19, <1>20, <1>21, <1>22, <1>23, <1>24, <1>25,
       <1>26, <1>27, <1>28, <1>29, <1>30, <1>31, <1>32, <1>33, <1>34, <1>35, <1>36, <1>37,
       <1>38
    DEF Next, DispatcherStep, RunnerStep, ChildStep

-----------------------------------------------------------------------------
(* Journals and commands *)

\* A journal is created once, and only its author writes it.
LEMMA JournalInvStep == TypeOK /\ TodoInv /\ LockInv /\ GroupInv /\ JournalInv /\ [Next]_vars => JournalInv'
  <1> SUFFICES ASSUME TypeOK, TodoInv, LockInv, GroupInv, JournalInv, [Next]_vars PROVE JournalInv'
    OBVIOUS
  <1>1. ASSUME NEW r \in Runs, Dispatch(r) PROVE JournalInv'
    BY <1>1, SlotsAssumption, FreshJournal
    DEF dispatchVars, slotVars, fileVars, groupVars, journalVars, vars, Slots, Slot,
        runnerSide, DispatchTo, Dispatch, ProcessType, CommandType, JournalType, TypeOK,
        Past, TodoInv, LockInv, GroupInv, JournalInv
  <1>2. ASSUME NEW r \in Runs, ProbeBusy(r) PROVE JournalInv'
    BY <1>2, SlotsAssumption, FreshJournal
    DEF dispatchVars, slotVars, fileVars, groupVars, journalVars, vars, Slots, Slot, Pass,
        runnerSide, ProbeBusy, ProcessType, CommandType, JournalType, TypeOK, Past,
        TodoInv, LockInv, GroupInv, JournalInv
  <1>3. ASSUME NEW r \in Runs, ProbeTake(r) PROVE JournalInv'
    BY <1>3, SlotsAssumption, FreshJournal
    DEF dispatchVars, slotVars, fileVars, groupVars, journalVars, vars, Slots, Slot, Take,
        runnerSide, DispatchTo, ProbeTake, ProcessType, CommandType, JournalType, TypeOK,
        Past, TodoInv, LockInv, GroupInv, JournalInv
  <1>4. ASSUME NEW r \in Runs, ProbeFull(r) PROVE JournalInv'
    BY <1>4, SlotsAssumption, FreshJournal
    DEF dispatchVars, slotVars, fileVars, groupVars, journalVars, vars, Slots, Slot,
        runnerSide, DispatchTo, ProbeFull, ProcessType, CommandType, JournalType, TypeOK,
        Past, TodoInv, LockInv, GroupInv, JournalInv
  <1>5. ASSUME NEW r \in Runs, ProbeDrop(r) PROVE JournalInv'
    BY <1>5, SlotsAssumption, FreshJournal
    DEF dispatchVars, slotVars, fileVars, groupVars, journalVars, vars, Slots, Slot,
        Leave, runnerSide, DispatchTo, ProbeDrop, ProcessType, CommandType, JournalType,
        TypeOK, Past, TodoInv, LockInv, GroupInv, JournalInv
  <1>6. ASSUME NEW r \in Runs, SaveRequest(r) PROVE JournalInv'
    BY <1>6, SlotsAssumption, FreshJournal, SMTT(30)
    DEF dispatchVars, slotVars, fileVars, groupVars, journalVars, vars, Slots, Slot,
        runnerSide, DispatchTo, SaveRequest, ProcessType, CommandType, JournalType,
        TypeOK, Past, TodoInv, LockInv, GroupInv, JournalInv
  <1>7. ASSUME NEW r \in Runs, SaveFails(r) PROVE JournalInv'
    BY <1>7, SlotsAssumption, FreshJournal
    DEF dispatchVars, slotVars, fileVars, groupVars, journalVars, vars, Slots, Slot,
        runnerSide, DispatchTo, SaveFails, ProcessType, CommandType, JournalType, TypeOK,
        Past, TodoInv, LockInv, GroupInv, JournalInv
  <1>8. ASSUME NEW r \in Runs, LaunchOk(r) PROVE JournalInv'
    BY <1>8, SlotsAssumption, FreshJournal
    DEF dispatchVars, slotVars, fileVars, groupVars, journalVars, vars, Slots, Slot,
        DispatchTo, LaunchOk, ProcessType, CommandType, JournalType, TypeOK, Past,
        TodoInv, LockInv, GroupInv, JournalInv
  <1>9. ASSUME NEW r \in Runs, LaunchFails(r) PROVE JournalInv'
    BY <1>9, SlotsAssumption, FreshJournal
    DEF dispatchVars, slotVars, fileVars, groupVars, journalVars, vars, Slots, Slot,
        runnerSide, DispatchTo, AfterLaunchError, LaunchFails, ProcessType, CommandType,
        JournalType, TypeOK, Past, TodoInv, LockInv, GroupInv, JournalInv
  <1>10. ASSUME NEW r \in Runs, LaunchTimesOut(r) PROVE JournalInv'
    BY <1>10, SlotsAssumption, FreshJournal
    DEF dispatchVars, slotVars, fileVars, groupVars, journalVars, vars, Slots, Slot,
        DispatchTo, AfterLaunchError, LaunchTimesOut, ProcessType, CommandType,
        JournalType, TypeOK, Past, TodoInv, LockInv, GroupInv, JournalInv
  <1>11. ASSUME NEW r \in Runs, Withdraw(r) PROVE JournalInv'
    BY <1>11, SlotsAssumption, FreshJournal
    DEF dispatchVars, slotVars, fileVars, groupVars, journalVars, vars, Slots, Slot,
        runnerSide, DispatchTo, Withdraw, ProcessType, CommandType, JournalType, TypeOK,
        Past, TodoInv, LockInv, GroupInv, JournalInv
  <1>12. ASSUME NEW r \in Runs, RecordFailure(r) PROVE JournalInv'
    BY <1>12, SlotsAssumption, FreshJournal
    DEF dispatchVars, slotVars, fileVars, groupVars, journalVars, vars, Slots, Slot,
        CreateRun, runnerSide, DispatchTo, RecordFailure, ProcessType, CommandType,
        JournalType, TypeOK, Past, TodoInv, LockInv, GroupInv, JournalInv
  <1>13. ASSUME NEW r \in Runs, RecordFails(r) PROVE JournalInv'
    BY <1>13, SlotsAssumption, FreshJournal
    DEF dispatchVars, slotVars, fileVars, groupVars, journalVars, vars, Slots, Slot,
        CreateRunFails, runnerSide, DispatchTo, RecordFails, ProcessType, CommandType,
        JournalType, TypeOK, Past, TodoInv, LockInv, GroupInv, JournalInv
  <1>14. ASSUME NEW r \in Runs, CloseFailure(r) PROVE JournalInv'
    <2>1. Append(r, "Failed") \/ AppendFails(r, "Failed")
      BY <1>14 DEF CloseFailure
    <2>2. /\ \A q \in Runs : q # r => journal'[q] = journal[q] /\ failed'[q] = failed[q]
          /\ journal'[r].by = journal[r].by
          /\ journal'[r].end \in {journal[r].end, "Failed"}
          /\ journal'[r].tail # "joined" /\ (journal'[r].tail = "torn" => failed'[r])
      BY <2>1, Appended DEF TypeOK, Statuses, JournalInv
    <2>3. QED
      BY <1>14, <2>2, SlotsAssumption
      DEF CloseFailure, RunTo, DispatchTo, EndCommand, TypeOK, ProcessType, JournalType, CommandType,
          LockInv, GroupInv, JournalInv, Past, Slot, runnerSide, slotVars, fileVars, groupVars
  <1>15. ASSUME NEW r \in Runs, DispatcherDies(r) PROVE JournalInv'
    BY <1>15, SlotsAssumption, FreshJournal
    DEF dispatchVars, slotVars, fileVars, groupVars, journalVars, vars, Slots, Slot,
        Leave, runnerSide, DispatcherDies, ProcessType, CommandType, JournalType, TypeOK,
        Past, TodoInv, LockInv, GroupInv, JournalInv
  <1>16. ASSUME NEW r \in Runs, RunnerStart(r) PROVE JournalInv'
    BY <1>16, SlotsAssumption, FreshJournal
    DEF dispatchVars, slotVars, fileVars, groupVars, journalVars, vars, Slots, Slot,
        RunTo, RunnerStart, ProcessType, CommandType, JournalType, TypeOK, Past, TodoInv,
        LockInv, GroupInv, JournalInv
  <1>17. ASSUME NEW r \in Runs, RequestTake(r) PROVE JournalInv'
    BY <1>17, SlotsAssumption, FreshJournal
    DEF dispatchVars, slotVars, fileVars, groupVars, journalVars, vars, Slots, Slot,
        RunTo, RequestTake, ProcessType, CommandType, JournalType, TypeOK, Past, TodoInv,
        LockInv, GroupInv, JournalInv
  <1>18. ASSUME NEW r \in Runs, SlotBusy(r) PROVE JournalInv'
    BY <1>18, SlotsAssumption, FreshJournal
    DEF dispatchVars, slotVars, fileVars, groupVars, journalVars, vars, Slots, Slot, Pass,
        SlotBusy, ProcessType, CommandType, JournalType, TypeOK, Past, TodoInv, LockInv,
        GroupInv, JournalInv
  <1>19. ASSUME NEW r \in Runs, SlotTake(r) PROVE JournalInv'
    BY <1>19, SlotsAssumption, FreshJournal
    DEF dispatchVars, slotVars, fileVars, groupVars, journalVars, vars, Slots, Slot, Take,
        RunTo, SlotTake, ProcessType, CommandType, JournalType, TypeOK, Past, TodoInv,
        LockInv, GroupInv, JournalInv
  <1>20. ASSUME NEW r \in Runs, SlotsFull(r) PROVE JournalInv'
    BY <1>20, SlotsAssumption, FreshJournal
    DEF dispatchVars, slotVars, fileVars, groupVars, journalVars, vars, Slots, Slot,
        RunTo, SlotsFull, ProcessType, CommandType, JournalType, TypeOK, Past, TodoInv,
        LockInv, GroupInv, JournalInv
  <1>21. ASSUME NEW r \in Runs, RecordSkip(r) PROVE JournalInv'
    BY <1>21, SlotsAssumption, FreshJournal
    DEF dispatchVars, slotVars, fileVars, groupVars, journalVars, vars, Slots, Slot,
        CreateRun, RunTo, RecordSkip, ProcessType, CommandType, JournalType, TypeOK, Past,
        TodoInv, LockInv, GroupInv, JournalInv
  <1>22. ASSUME NEW r \in Runs, CloseSkip(r) PROVE JournalInv'
    <2>1. Append(r, "Skipped") \/ AppendFails(r, "Skipped")
      BY <1>22 DEF CloseSkip
    <2>2. /\ \A q \in Runs : q # r => journal'[q] = journal[q] /\ failed'[q] = failed[q]
          /\ journal'[r].by = journal[r].by
          /\ journal'[r].end \in {journal[r].end, "Skipped"}
          /\ journal'[r].tail # "joined" /\ (journal'[r].tail = "torn" => failed'[r])
      BY <2>1, Appended DEF TypeOK, Statuses, JournalInv
    <2>3. /\ runner[r] = "skipped" /\ runner' = [runner EXCEPT ![r] = "ended"]
          /\ lock' = [lock EXCEPT ![r] = {}] /\ UNCHANGED <<dispatch, alive, child>>
      BY <1>22 DEF CloseSkip, RunTo, groupVars
    <2>4. child[r] = "none" /\ dispatch[r] # "close"
      BY <2>3 DEF LockInv, JournalInv
    <2>5. QED
      BY <2>2, <2>3, <2>4 DEF TypeOK, ProcessType, JournalType, JournalInv
  <1>23. ASSUME NEW r \in Runs, Begin(r) PROVE JournalInv'
    BY <1>23, SlotsAssumption, FreshJournal
    DEF dispatchVars, slotVars, fileVars, groupVars, journalVars, vars, Slots, Slot,
        RunTo, Begin, ProcessType, CommandType, JournalType, TypeOK, Past, TodoInv,
        LockInv, GroupInv, JournalInv
  <1>24. ASSUME NEW r \in Runs, BeginFails(r) PROVE JournalInv'
    BY <1>24, SlotsAssumption, FreshJournal
    DEF dispatchVars, slotVars, fileVars, groupVars, journalVars, vars, Slots, Slot,
        Leave, RunTo, BeginFails, ProcessType, CommandType, JournalType, TypeOK, Past,
        TodoInv, LockInv, GroupInv, JournalInv
  <1>25. ASSUME NEW r \in Runs, Open(r) PROVE JournalInv'
    BY <1>25, SlotsAssumption, FreshJournal
    DEF dispatchVars, slotVars, fileVars, groupVars, journalVars, vars, Slots, Slot,
        CreateRun, RunTo, Open, ProcessType, CommandType, JournalType, TypeOK, Past,
        TodoInv, LockInv, GroupInv, JournalInv
  <1>26. ASSUME NEW r \in Runs, OpenFails(r) PROVE JournalInv'
    BY <1>26, SlotsAssumption, FreshJournal
    DEF dispatchVars, slotVars, fileVars, groupVars, journalVars, vars, Slots, Slot,
        Leave, CreateRunFails, OpenFails, ProcessType, CommandType, JournalType, TypeOK,
        Past, TodoInv, LockInv, GroupInv, JournalInv
  <1>27. ASSUME NEW r \in Runs, Fork(r) PROVE JournalInv'
    BY <1>27, SlotsAssumption, FreshJournal
    DEF dispatchVars, slotVars, fileVars, groupVars, journalVars, vars, Slots, Slot,
        RunTo, Fork, ProcessType, CommandType, JournalType, TypeOK, Past, TodoInv,
        LockInv, GroupInv, JournalInv
  <1>28. ASSUME NEW r \in Runs, Report(r) PROVE JournalInv'
    <2>1. Append(r, None) \/ AppendFails(r, None)
      BY <1>28 DEF Report
    <2>2. /\ \A q \in Runs : q # r => journal'[q] = journal[q] /\ failed'[q] = failed[q]
          /\ journal'[r].by = journal[r].by
          /\ journal'[r].end \in {journal[r].end, None}
          /\ journal'[r].tail # "joined" /\ (journal'[r].tail = "torn" => failed'[r])
      BY <2>1, Appended DEF TypeOK, Statuses, JournalInv
    <2>3. /\ runner[r] = "report" /\ UNCHANGED <<dispatch, alive, child, lock>>
          /\ \/ runner' = [runner EXCEPT ![r] = "wait"]
             \/ runner' = [runner EXCEPT ![r] = "work"]
      BY <1>28 DEF Report, RunTo
    <2>4. dispatch[r] # "close"
      BY <2>3 DEF JournalInv
    <2>5. QED
      BY <2>2, <2>3, <2>4 DEF TypeOK, ProcessType, JournalType, JournalInv
  <1>29. ASSUME NEW r \in Runs, Finish(r) PROVE JournalInv'
    <2>1. Append(r, "Done") \/ AppendFails(r, "Done")
      BY <1>29 DEF Finish
    <2>2. /\ \A q \in Runs : q # r => journal'[q] = journal[q] /\ failed'[q] = failed[q]
          /\ journal'[r].by = journal[r].by
          /\ journal'[r].end \in {journal[r].end, "Done"}
          /\ journal'[r].tail # "joined" /\ (journal'[r].tail = "torn" => failed'[r])
      BY <2>1, Appended DEF TypeOK, Statuses, JournalInv
    <2>3. /\ runner[r] = "work" /\ runner' = [runner EXCEPT ![r] = "finished"]
          /\ UNCHANGED <<dispatch, alive, child, lock>>
      BY <1>29 DEF Finish, RunTo, groupVars
    <2>4. child[r] = "none" /\ dispatch[r] # "close"
      BY <2>3 DEF LockInv, JournalInv
    <2>5. QED
      BY <2>2, <2>3, <2>4 DEF TypeOK, ProcessType, JournalType, JournalInv
  <1>30. ASSUME NEW r \in Runs, Release(r) PROVE JournalInv'
    BY <1>30, SlotsAssumption, FreshJournal
    DEF dispatchVars, slotVars, fileVars, groupVars, journalVars, vars, Slots, Slot,
        Leave, RunTo, Exits, Release, ProcessType, CommandType, JournalType, TypeOK, Past,
        TodoInv, LockInv, GroupInv, JournalInv
  <1>31. ASSUME NEW r \in Runs, CommandEnds(r) PROVE JournalInv'
    BY <1>31, SlotsAssumption, FreshJournal
    DEF dispatchVars, slotVars, fileVars, groupVars, journalVars, vars, Slots, Slot,
        RunTo, EndCommand, CommandEnds, ProcessType, CommandType, JournalType, TypeOK,
        Past, TodoInv, LockInv, GroupInv, JournalInv
  <1>32. ASSUME NEW r \in Runs, RunnerDies(r) PROVE JournalInv'
    BY <1>32, SlotsAssumption, FreshJournal
    DEF dispatchVars, slotVars, fileVars, groupVars, journalVars, vars, Slots, Slot,
        Leave, Exits, RunnerDies, ProcessType, CommandType, JournalType, TypeOK, Past,
        TodoInv, LockInv, GroupInv, JournalInv
  <1>33. ASSUME NEW r \in Runs, Register(r) PROVE JournalInv'
    BY <1>33, SlotsAssumption, FreshJournal
    DEF dispatchVars, slotVars, fileVars, groupVars, journalVars, vars, Slots, Slot,
        Register, ProcessType, CommandType, JournalType, TypeOK, Past, TodoInv, LockInv,
        GroupInv, JournalInv
  <1>34. ASSUME NEW r \in Runs, SpawnFails(r) PROVE JournalInv'
    BY <1>34, SlotsAssumption, FreshJournal
    DEF dispatchVars, slotVars, fileVars, groupVars, journalVars, vars, Slots, Slot,
        ChildGone, SpawnFails, ProcessType, CommandType, JournalType, TypeOK, Past,
        TodoInv, LockInv, GroupInv, JournalInv
  <1>35. ASSUME NEW r \in Runs, Exec(r) PROVE JournalInv'
    BY <1>35, SlotsAssumption, FreshJournal
    DEF dispatchVars, slotVars, fileVars, groupVars, journalVars, vars, Slots, Slot,
        ChildGone, Exec, ProcessType, CommandType, JournalType, TypeOK, Past, TodoInv,
        LockInv, GroupInv, JournalInv
  <1>36. ASSUME NEW r \in Runs, Prune(r) PROVE JournalInv'
    BY <1>36, SlotsAssumption, FreshJournal
    DEF dispatchVars, slotVars, fileVars, groupVars, journalVars, vars, Slots, Slot,
        NoJournal, Prune, ProcessType, CommandType, JournalType, TypeOK, Past, TodoInv,
        LockInv, GroupInv, JournalInv
  <1>37. ASSUME NEW g \in Groups, GroupDies(g) PROVE JournalInv'
    BY <1>37, SlotsAssumption, FreshJournal
    DEF dispatchVars, slotVars, fileVars, groupVars, journalVars, vars, Slots, Slot,
        GroupDies, ProcessType, CommandType, JournalType, TypeOK, Past, TodoInv, LockInv,
        GroupInv, JournalInv
  <1>38. CASE UNCHANGED vars
    BY <1>38
    DEF dispatchVars, slotVars, fileVars, groupVars, journalVars, vars, Slots, Slot,
        ProcessType, CommandType, JournalType, TypeOK, Past, TodoInv, LockInv, GroupInv,
        JournalInv
  <1>39. QED
    BY <1>1, <1>2, <1>3, <1>4, <1>5, <1>6, <1>7, <1>8, <1>9, <1>10, <1>11, <1>12, <1>13,
       <1>14, <1>15, <1>16, <1>17, <1>18, <1>19, <1>20, <1>21, <1>22, <1>23, <1>24, <1>25,
       <1>26, <1>27, <1>28, <1>29, <1>30, <1>31, <1>32, <1>33, <1>34, <1>35, <1>36, <1>37,
       <1>38
    DEF Next, DispatcherStep, RunnerStep, ChildStep

\* A runner goes on when it has killed what its command left.
LEMMA KillStep == TypeOK /\ TodoInv /\ LockInv /\ GroupInv /\ JournalInv /\ KillInv /\ [Next]_vars => KillInv'
  <1> SUFFICES ASSUME TypeOK, TodoInv, LockInv, GroupInv, JournalInv, KillInv, [Next]_vars PROVE KillInv'
    OBVIOUS
  <1>1. ASSUME NEW r \in Runs, Dispatch(r) PROVE KillInv'
    BY <1>1, SlotsAssumption, FreshJournal
    DEF dispatchVars, slotVars, fileVars, groupVars, journalVars, vars, Slots, Slot,
        runnerSide, DispatchTo, Dispatch, ProcessType, CommandType, JournalType, TypeOK,
        Past, TodoInv, LockInv, GroupInv, JournalInv, KillInv
  <1>2. ASSUME NEW r \in Runs, ProbeBusy(r) PROVE KillInv'
    BY <1>2, SlotsAssumption, FreshJournal
    DEF dispatchVars, slotVars, fileVars, groupVars, journalVars, vars, Slots, Slot, Pass,
        runnerSide, ProbeBusy, ProcessType, CommandType, JournalType, TypeOK, Past,
        TodoInv, LockInv, GroupInv, JournalInv, KillInv
  <1>3. ASSUME NEW r \in Runs, ProbeTake(r) PROVE KillInv'
    BY <1>3, SlotsAssumption, FreshJournal
    DEF dispatchVars, slotVars, fileVars, groupVars, journalVars, vars, Slots, Slot, Take,
        runnerSide, DispatchTo, ProbeTake, ProcessType, CommandType, JournalType, TypeOK,
        Past, TodoInv, LockInv, GroupInv, JournalInv, KillInv
  <1>4. ASSUME NEW r \in Runs, ProbeFull(r) PROVE KillInv'
    BY <1>4, SlotsAssumption, FreshJournal
    DEF dispatchVars, slotVars, fileVars, groupVars, journalVars, vars, Slots, Slot,
        runnerSide, DispatchTo, ProbeFull, ProcessType, CommandType, JournalType, TypeOK,
        Past, TodoInv, LockInv, GroupInv, JournalInv, KillInv
  <1>5. ASSUME NEW r \in Runs, ProbeDrop(r) PROVE KillInv'
    BY <1>5, SlotsAssumption, FreshJournal
    DEF dispatchVars, slotVars, fileVars, groupVars, journalVars, vars, Slots, Slot,
        Leave, runnerSide, DispatchTo, ProbeDrop, ProcessType, CommandType, JournalType,
        TypeOK, Past, TodoInv, LockInv, GroupInv, JournalInv, KillInv
  <1>6. ASSUME NEW r \in Runs, SaveRequest(r) PROVE KillInv'
    BY <1>6, SlotsAssumption, FreshJournal, SMTT(30)
    DEF dispatchVars, slotVars, fileVars, groupVars, journalVars, vars, Slots, Slot,
        runnerSide, DispatchTo, SaveRequest, ProcessType, CommandType, JournalType,
        TypeOK, Past, TodoInv, LockInv, GroupInv, JournalInv, KillInv
  <1>7. ASSUME NEW r \in Runs, SaveFails(r) PROVE KillInv'
    BY <1>7, SlotsAssumption, FreshJournal
    DEF dispatchVars, slotVars, fileVars, groupVars, journalVars, vars, Slots, Slot,
        runnerSide, DispatchTo, SaveFails, ProcessType, CommandType, JournalType, TypeOK,
        Past, TodoInv, LockInv, GroupInv, JournalInv, KillInv
  <1>8. ASSUME NEW r \in Runs, LaunchOk(r) PROVE KillInv'
    BY <1>8, SlotsAssumption, FreshJournal
    DEF dispatchVars, slotVars, fileVars, groupVars, journalVars, vars, Slots, Slot,
        DispatchTo, LaunchOk, ProcessType, CommandType, JournalType, TypeOK, Past,
        TodoInv, LockInv, GroupInv, JournalInv, KillInv
  <1>9. ASSUME NEW r \in Runs, LaunchFails(r) PROVE KillInv'
    BY <1>9, SlotsAssumption, FreshJournal
    DEF dispatchVars, slotVars, fileVars, groupVars, journalVars, vars, Slots, Slot,
        runnerSide, DispatchTo, AfterLaunchError, LaunchFails, ProcessType, CommandType,
        JournalType, TypeOK, Past, TodoInv, LockInv, GroupInv, JournalInv, KillInv
  <1>10. ASSUME NEW r \in Runs, LaunchTimesOut(r) PROVE KillInv'
    BY <1>10, SlotsAssumption, FreshJournal
    DEF dispatchVars, slotVars, fileVars, groupVars, journalVars, vars, Slots, Slot,
        DispatchTo, AfterLaunchError, LaunchTimesOut, ProcessType, CommandType,
        JournalType, TypeOK, Past, TodoInv, LockInv, GroupInv, JournalInv, KillInv
  <1>11. ASSUME NEW r \in Runs, Withdraw(r) PROVE KillInv'
    BY <1>11, SlotsAssumption, FreshJournal
    DEF dispatchVars, slotVars, fileVars, groupVars, journalVars, vars, Slots, Slot,
        runnerSide, DispatchTo, Withdraw, ProcessType, CommandType, JournalType, TypeOK,
        Past, TodoInv, LockInv, GroupInv, JournalInv, KillInv
  <1>12. ASSUME NEW r \in Runs, RecordFailure(r) PROVE KillInv'
    BY <1>12, SlotsAssumption, FreshJournal
    DEF dispatchVars, slotVars, fileVars, groupVars, journalVars, vars, Slots, Slot,
        CreateRun, runnerSide, DispatchTo, RecordFailure, ProcessType, CommandType,
        JournalType, TypeOK, Past, TodoInv, LockInv, GroupInv, JournalInv, KillInv
  <1>13. ASSUME NEW r \in Runs, RecordFails(r) PROVE KillInv'
    BY <1>13, SlotsAssumption, FreshJournal
    DEF dispatchVars, slotVars, fileVars, groupVars, journalVars, vars, Slots, Slot,
        CreateRunFails, runnerSide, DispatchTo, RecordFails, ProcessType, CommandType,
        JournalType, TypeOK, Past, TodoInv, LockInv, GroupInv, JournalInv, KillInv
  <1>14. ASSUME NEW r \in Runs, CloseFailure(r) PROVE KillInv'
    <2>1. Append(r, "Failed") \/ AppendFails(r, "Failed")
      BY <1>14 DEF CloseFailure
    <2>2. \A q \in Runs : q # r => journal'[q] = journal[q]
      BY <2>1, Appended DEF TypeOK, Statuses
    <2>3. dispatch[r] = "close" /\ UNCHANGED <<alive, killed, runner, todo>>
      BY <1>14 DEF CloseFailure, DispatchTo, runnerSide, groupVars
    <2>4. \A n \in 1..Commands : <<r, n>> \notin alive
      BY <2>3, SlotsAssumption DEF JournalInv
    <2>5. QED
      BY <2>2, <2>3, <2>4 DEF KillInv
  <1>15. ASSUME NEW r \in Runs, DispatcherDies(r) PROVE KillInv'
    BY <1>15, SlotsAssumption, FreshJournal
    DEF dispatchVars, slotVars, fileVars, groupVars, journalVars, vars, Slots, Slot,
        Leave, runnerSide, DispatcherDies, ProcessType, CommandType, JournalType, TypeOK,
        Past, TodoInv, LockInv, GroupInv, JournalInv, KillInv
  <1>16. ASSUME NEW r \in Runs, RunnerStart(r) PROVE KillInv'
    BY <1>16, SlotsAssumption, FreshJournal
    DEF dispatchVars, slotVars, fileVars, groupVars, journalVars, vars, Slots, Slot,
        RunTo, RunnerStart, ProcessType, CommandType, JournalType, TypeOK, Past, TodoInv,
        LockInv, GroupInv, JournalInv, KillInv
  <1>17. ASSUME NEW r \in Runs, RequestTake(r) PROVE KillInv'
    BY <1>17, SlotsAssumption, FreshJournal
    DEF dispatchVars, slotVars, fileVars, groupVars, journalVars, vars, Slots, Slot,
        RunTo, RequestTake, ProcessType, CommandType, JournalType, TypeOK, Past, TodoInv,
        LockInv, GroupInv, JournalInv, KillInv
  <1>18. ASSUME NEW r \in Runs, SlotBusy(r) PROVE KillInv'
    BY <1>18, SlotsAssumption, FreshJournal
    DEF dispatchVars, slotVars, fileVars, groupVars, journalVars, vars, Slots, Slot, Pass,
        SlotBusy, ProcessType, CommandType, JournalType, TypeOK, Past, TodoInv, LockInv,
        GroupInv, JournalInv, KillInv
  <1>19. ASSUME NEW r \in Runs, SlotTake(r) PROVE KillInv'
    BY <1>19, SlotsAssumption, FreshJournal
    DEF dispatchVars, slotVars, fileVars, groupVars, journalVars, vars, Slots, Slot, Take,
        RunTo, SlotTake, ProcessType, CommandType, JournalType, TypeOK, Past, TodoInv,
        LockInv, GroupInv, JournalInv, KillInv
  <1>20. ASSUME NEW r \in Runs, SlotsFull(r) PROVE KillInv'
    BY <1>20, SlotsAssumption, FreshJournal
    DEF dispatchVars, slotVars, fileVars, groupVars, journalVars, vars, Slots, Slot,
        RunTo, SlotsFull, ProcessType, CommandType, JournalType, TypeOK, Past, TodoInv,
        LockInv, GroupInv, JournalInv, KillInv
  <1>21. ASSUME NEW r \in Runs, RecordSkip(r) PROVE KillInv'
    BY <1>21, SlotsAssumption, FreshJournal
    DEF dispatchVars, slotVars, fileVars, groupVars, journalVars, vars, Slots, Slot,
        CreateRun, RunTo, RecordSkip, ProcessType, CommandType, JournalType, TypeOK, Past,
        TodoInv, LockInv, GroupInv, JournalInv, KillInv
  <1>22. ASSUME NEW r \in Runs, CloseSkip(r) PROVE KillInv'
    <2>1. Append(r, "Skipped") \/ AppendFails(r, "Skipped")
      BY <1>22 DEF CloseSkip
    <2>2. /\ \A q \in Runs : q # r => journal'[q] = journal[q]
          /\ journal'[r].end \in {journal[r].end, "Skipped"}
      BY <2>1, Appended DEF TypeOK, Statuses, JournalInv
    <2>3. QED
      BY <1>22, <2>2, SlotsAssumption
      DEF CloseSkip, RunTo, DispatchTo, EndCommand, TypeOK, ProcessType, CommandType,
          LockInv, GroupInv, JournalInv, KillInv, Past, Slot, runnerSide, slotVars, fileVars, groupVars
  <1>23. ASSUME NEW r \in Runs, Begin(r) PROVE KillInv'
    BY <1>23, SlotsAssumption, FreshJournal
    DEF dispatchVars, slotVars, fileVars, groupVars, journalVars, vars, Slots, Slot,
        RunTo, Begin, ProcessType, CommandType, JournalType, TypeOK, Past, TodoInv,
        LockInv, GroupInv, JournalInv, KillInv
  <1>24. ASSUME NEW r \in Runs, BeginFails(r) PROVE KillInv'
    BY <1>24, SlotsAssumption, FreshJournal
    DEF dispatchVars, slotVars, fileVars, groupVars, journalVars, vars, Slots, Slot,
        Leave, RunTo, BeginFails, ProcessType, CommandType, JournalType, TypeOK, Past,
        TodoInv, LockInv, GroupInv, JournalInv, KillInv
  <1>25. ASSUME NEW r \in Runs, Open(r) PROVE KillInv'
    BY <1>25, SlotsAssumption, FreshJournal
    DEF dispatchVars, slotVars, fileVars, groupVars, journalVars, vars, Slots, Slot,
        CreateRun, RunTo, Open, ProcessType, CommandType, JournalType, TypeOK, Past,
        TodoInv, LockInv, GroupInv, JournalInv, KillInv
  <1>26. ASSUME NEW r \in Runs, OpenFails(r) PROVE KillInv'
    BY <1>26, SlotsAssumption, FreshJournal
    DEF dispatchVars, slotVars, fileVars, groupVars, journalVars, vars, Slots, Slot,
        Leave, CreateRunFails, OpenFails, ProcessType, CommandType, JournalType, TypeOK,
        Past, TodoInv, LockInv, GroupInv, JournalInv, KillInv
  <1>27. ASSUME NEW r \in Runs, Fork(r) PROVE KillInv'
    BY <1>27, SlotsAssumption, FreshJournal
    DEF dispatchVars, slotVars, fileVars, groupVars, journalVars, vars, Slots, Slot,
        RunTo, Fork, ProcessType, CommandType, JournalType, TypeOK, Past, TodoInv,
        LockInv, GroupInv, JournalInv, KillInv
  <1>28. ASSUME NEW r \in Runs, Report(r) PROVE KillInv'
    <2>1. Append(r, None) \/ AppendFails(r, None)
      BY <1>28 DEF Report
    <2>2. /\ \A q \in Runs : q # r => journal'[q] = journal[q]
          /\ journal'[r].end \in {journal[r].end, None}
      BY <2>1, Appended DEF TypeOK, Statuses, JournalInv
    <2>3. QED
      BY <1>28, <2>2, SlotsAssumption
      DEF Report, RunTo, DispatchTo, EndCommand, TypeOK, ProcessType, CommandType,
          LockInv, GroupInv, JournalInv, KillInv, Past, Slot, runnerSide, slotVars, fileVars, groupVars
  <1>29. ASSUME NEW r \in Runs, Finish(r) PROVE KillInv'
    <2>1. Append(r, "Done") \/ AppendFails(r, "Done")
      BY <1>29 DEF Finish
    <2>2. /\ \A q \in Runs : q # r => journal'[q] = journal[q]
          /\ journal'[r].end \in {journal[r].end, "Done"}
      BY <2>1, Appended DEF TypeOK, Statuses, JournalInv
    <2>3. QED
      BY <1>29, <2>2, SlotsAssumption
      DEF Finish, RunTo, DispatchTo, EndCommand, TypeOK, ProcessType, CommandType,
          LockInv, GroupInv, JournalInv, KillInv, Past, Slot, runnerSide, slotVars, fileVars, groupVars
  <1>30. ASSUME NEW r \in Runs, Release(r) PROVE KillInv'
    BY <1>30, SlotsAssumption, FreshJournal
    DEF dispatchVars, slotVars, fileVars, groupVars, journalVars, vars, Slots, Slot,
        Leave, RunTo, Exits, Release, ProcessType, CommandType, JournalType, TypeOK, Past,
        TodoInv, LockInv, GroupInv, JournalInv, KillInv
  <1>31. ASSUME NEW r \in Runs, CommandEnds(r) PROVE KillInv'
    BY <1>31, SlotsAssumption, FreshJournal
    DEF dispatchVars, slotVars, fileVars, groupVars, journalVars, vars, Slots, Slot,
        RunTo, EndCommand, CommandEnds, ProcessType, CommandType, JournalType, TypeOK,
        Past, TodoInv, LockInv, GroupInv, JournalInv, KillInv
  <1>32. ASSUME NEW r \in Runs, RunnerDies(r) PROVE KillInv'
    BY <1>32, SlotsAssumption, FreshJournal
    DEF dispatchVars, slotVars, fileVars, groupVars, journalVars, vars, Slots, Slot,
        Leave, Exits, RunnerDies, ProcessType, CommandType, JournalType, TypeOK, Past,
        TodoInv, LockInv, GroupInv, JournalInv, KillInv
  <1>33. ASSUME NEW r \in Runs, Register(r) PROVE KillInv'
    BY <1>33, SlotsAssumption, FreshJournal
    DEF dispatchVars, slotVars, fileVars, groupVars, journalVars, vars, Slots, Slot,
        Register, ProcessType, CommandType, JournalType, TypeOK, Past, TodoInv, LockInv,
        GroupInv, JournalInv, KillInv
  <1>34. ASSUME NEW r \in Runs, SpawnFails(r) PROVE KillInv'
    BY <1>34, SlotsAssumption, FreshJournal
    DEF dispatchVars, slotVars, fileVars, groupVars, journalVars, vars, Slots, Slot,
        ChildGone, SpawnFails, ProcessType, CommandType, JournalType, TypeOK, Past,
        TodoInv, LockInv, GroupInv, JournalInv, KillInv
  <1>35. ASSUME NEW r \in Runs, Exec(r) PROVE KillInv'
    BY <1>35, SlotsAssumption, FreshJournal
    DEF dispatchVars, slotVars, fileVars, groupVars, journalVars, vars, Slots, Slot,
        ChildGone, Exec, ProcessType, CommandType, JournalType, TypeOK, Past, TodoInv,
        LockInv, GroupInv, JournalInv, KillInv
  <1>36. ASSUME NEW r \in Runs, Prune(r) PROVE KillInv'
    BY <1>36, SlotsAssumption, FreshJournal
    DEF dispatchVars, slotVars, fileVars, groupVars, journalVars, vars, Slots, Slot,
        NoJournal, Prune, ProcessType, CommandType, JournalType, TypeOK, Past, TodoInv,
        LockInv, GroupInv, JournalInv, KillInv
  <1>37. ASSUME NEW g \in Groups, GroupDies(g) PROVE KillInv'
    BY <1>37, SlotsAssumption, FreshJournal
    DEF dispatchVars, slotVars, fileVars, groupVars, journalVars, vars, Slots, Slot,
        GroupDies, ProcessType, CommandType, JournalType, TypeOK, Past, TodoInv, LockInv,
        GroupInv, JournalInv, KillInv
  <1>38. CASE UNCHANGED vars
    BY <1>38
    DEF dispatchVars, slotVars, fileVars, groupVars, journalVars, vars, Slots, Slot,
        ProcessType, CommandType, JournalType, TypeOK, Past, TodoInv, LockInv, GroupInv,
        JournalInv, KillInv
  <1>39. QED
    BY <1>1, <1>2, <1>3, <1>4, <1>5, <1>6, <1>7, <1>8, <1>9, <1>10, <1>11, <1>12, <1>13,
       <1>14, <1>15, <1>16, <1>17, <1>18, <1>19, <1>20, <1>21, <1>22, <1>23, <1>24, <1>25,
       <1>26, <1>27, <1>28, <1>29, <1>30, <1>31, <1>32, <1>33, <1>34, <1>35, <1>36, <1>37,
       <1>38
    DEF Next, DispatcherStep, RunnerStep, ChildStep

LEMMA InitIInv == Init => IInv
  BY InitType, FreshJournal
  DEF Init, IInv, LockInv, GroupInv, JournalInv, KillInv, Slots, Holding, Working, NoJournal

LEMMA IInvStep == IInv /\ "torn" \notin Faults /\ [Next]_vars => IInv'
  <1> SUFFICES ASSUME IInv, "torn" \notin Faults, [Next]_vars PROVE IInv'
    OBVIOUS
  <1>1. ProcessType' /\ SlotType' /\ (CommandType /\ TodoInv)' /\ JournalType'
    BY ProcessStep, SlotStep, CommandStep, JournalStep DEF IInv
  <1>2. LockInv' /\ GroupInv' /\ JournalInv' /\ KillInv'
    BY LockStep, GroupStep, JournalInvStep, KillStep DEF IInv
  <1>3. QED
    BY <1>1, <1>2 DEF IInv, TypeOK

-----------------------------------------------------------------------------
(* The theorems *)

\* Registrations are whole when no write of theirs is cut short.
LEMMA Invariance == ASSUME "torn" \notin Faults PROVE Spec => []IInv
  BY InitIInv, IInvStep, PTL DEF Spec

LEMMA TypeInvariance == Spec => [](TypeOK /\ TodoInv /\ LockInv)
  <1>1. Init => TypeOK /\ TodoInv /\ LockInv
    BY InitIInv DEF IInv
  <1>2. TypeOK /\ TodoInv /\ LockInv /\ [Next]_vars => (TypeOK /\ TodoInv /\ LockInv)'
    BY ProcessStep, SlotStep, CommandStep, JournalStep, LockStep DEF TypeOK
  <1>3. QED
    BY <1>1, <1>2, PTL DEF Spec

\* Every variable of the dispatchers, runners, slots and journals keeps its type, also
\* when registrations are torn.
THEOREM TypeCorrect == Spec => []TypeOK
  BY TypeInvariance, PTL

\* The run of a living group is a run, and the group is one of its commands.
LEMMA ExecutingRun ==
    ASSUME TypeOK, NEW r \in Executing
    PROVE  r \in Runs /\ \E n \in 1..Commands : <<r, n>> \in alive
  <1>1. PICK g \in alive : g[1] = r
    BY DEF Executing
  <1>2. g \in Runs \X (1..Commands)
    BY DEF TypeOK, CommandType, Groups
  <1>3. g = <<r, g[2]>> /\ r \in Runs /\ g[2] \in 1..Commands
    BY <1>1, <1>2
  <1>4. QED
    BY <1>1, <1>3

LEMMA IInvSlots == ASSUME IInv PROVE OneRunPerSlot
  <1> SUFFICES ASSUME NEW r \in Executing, NEW q \in Executing, Slot(r) = Slot(q)
               PROVE  r = q
    BY DEF OneRunPerSlot
  <1>1. PICK n \in 1..Commands : <<r, n>> \in alive
    BY ExecutingRun DEF IInv
  <1>2. PICK m \in 1..Commands : <<q, m>> \in alive
    BY ExecutingRun DEF IInv
  <1>3. r \in Runs /\ q \in Runs
    BY ExecutingRun DEF IInv
  <1>4. QED
    BY <1>1, <1>2, <1>3 DEF IInv, GroupInv

\* ConcurrencySlot: whatever dies, and whoever probes, commands of two runs never share a
\* slot: its lock or a registration keeps every other runner out from fork to death.
THEOREM SlotsAreExclusive == ASSUME "torn" \notin Faults PROVE Spec => []OneRunPerSlot
  BY Invariance, IInvSlots, PTL

\* create_run replaces nothing: a run recorded as failed to start has no command alive,
\* though the manager may start it after the dispatcher gave up.
THEOREM FailuresAreTrue == ASSUME "torn" \notin Faults PROVE Spec => []FailedToStartNeverRuns
  <1>1. IInv => FailedToStartNeverRuns
    BY ExecutingRun, SlotsAssumption DEF IInv, JournalInv, FailedToStartNeverRuns
  <1>2. QED
    BY <1>1, Invariance, PTL

\* is_running: no living command that was not sent a kill is overlooked, also when its
\* runner is dead and its journal was removed.
THEOREM OrphansAreSeen == ASSUME "torn" \notin Faults PROVE Spec => []RunningIsSeen
  <1>1. ASSUME IInv PROVE RunningIsSeen
    <2> SUFFICES ASSUME NEW g \in alive, g \notin killed PROVE IsRunning
      BY DEF RunningIsSeen
    <2>1. PICK r \in Runs, n \in 1..Commands : g = <<r, n>>
      BY <1>1 DEF IInv, TypeOK, CommandType, Groups
    <2>2. Slot(r) \in Slots /\ owner[Slot(r)] = r /\ <<r, n>> \in groups[Slot(r)]
      BY <1>1, <2>1 DEF IInv, GroupInv
    <2>3. journal[r].end = None
      BY <1>1, <2>1 DEF IInv, KillInv
    <2>4. QED
      BY <2>1, <2>2, <2>3, SlotsAssumption DEF IsRunning
  <1>2. QED
    BY <1>1, Invariance, PTL

-----------------------------------------------------------------------------
(* The board *)

\* No more runs have commands than there are slots.
LEMMA Occupancy == IInv => IsFiniteSet(Executing) /\ Cardinality(Executing) <= Max
  <1> SUFFICES ASSUME IInv PROVE IsFiniteSet(Executing) /\ Cardinality(Executing) <= Max
    OBVIOUS
  <1> DEFINE f == [r \in Executing |-> Slot(r)]
  <1>1. \A r \in Executing : Slot(r) \in 1..Max
    BY ExecutingRun DEF IInv, GroupInv, Slots
  <1>2. f \in Injection(Executing, 1..Max)
    BY <1>1, IInvSlots DEF OneRunPerSlot, Injection, IsInjective
  <1>3. IsFiniteSet(1..Max) /\ Cardinality(1..Max) = Max
    BY FS_Interval, SlotsAssumption
  <1>4. QED
    BY <1>2, <1>3, FS_Injection

LEMMA OccupancyNext == IInv' => (IsFiniteSet(Executing) /\ Cardinality(Executing) <= Max)'
  BY Occupancy, PTL

\* Nothing that history shows is unreadable.
LEMMA UnlockedRecord ==
    ASSUME TypeOK, JournalInv, NEW r \in Runs, journal[r].by # None, lock[r] = {}
    PROVE  Record(r) \in {"Skipped", "Failed", "Done", "Interrupted"}
  <1>1. journal[r].end \in Statuses \cup {None} /\ journal[r].tail # "joined"
    BY DEF TypeOK, JournalType, Journals, JournalInv
  <1>2. QED
    BY <1>1, SlotsAssumption DEF Record, View, Statuses

LEMMA SameRecord ==
    ASSUME NEW r \in Runs, journal'[r] = journal[r], lock'[r] = lock[r]
    PROVE  Record(r)' = Record(r)
  BY DEF Record, View

LEMMA SilentOnBoard ==
    ASSUME journal' = journal, lock' = lock, alive' = alive
    PROVE  UNCHANGED Board!vars
  <1>1. \A r \in Runs : Record(r)' = Record(r)
    BY SameRecord
  <1>2. QED
    BY <1>1 DEF Board!vars, Executing

\* What may become of the record of a run while no command starts or dies.
RecordMove(r) ==
    \/ Record(r)' = Record(r)
    \/ Record(r) = "none" /\ Record(r)' \in {"dispatching", "open", "Interrupted"}
    \/ /\ Record(r) \in {"dispatching", "open"}
       /\ Record(r)' \in {"Skipped", "Failed", "Done", "Interrupted"}
    \/ /\ Record(r) \in {"Skipped", "Failed", "Done", "Interrupted"}
       /\ Record(r)' = "none"

LEMMA MoveOnBoard ==
    ASSUME NEW r \in Runs, RecordMove(r), alive' = alive,
           \A q \in Runs : q # r => journal'[q] = journal[q] /\ lock'[q] = lock[q]
    PROVE  [Board!Next]_(Board!vars)
  <1> DEFINE rec == [q \in Runs |-> Record(q)]
  <1>1. \A q \in Runs : q # r => Record(q)' = Record(q)
    BY SameRecord
  <1>2. rec' = [rec EXCEPT ![r] = Record(r)']
    BY <1>1
  <1>3. Executing' = Executing
    BY DEF Executing
  <1>4. rec[r] = Record(r)
    OBVIOUS
  <1>5. CASE Record(r)' = Record(r)
    BY <1>2, <1>3, <1>4, <1>5 DEF Board!vars
  <1>6. CASE Record(r) = "none" /\ Record(r)' \in {"dispatching", "open", "Interrupted"}
    <2>1. Board!Create(r, Record(r)')
      BY <1>2, <1>3, <1>4, <1>6 DEF Board!Create, Board!Open
    <2>2. QED
      BY <1>6, <2>1 DEF Board!Next, Board!Open
  <1>7. CASE /\ Record(r) \in {"dispatching", "open"}
             /\ Record(r)' \in {"Skipped", "Failed", "Done", "Interrupted"}
    <2>1. Board!Close(r, Record(r)')
      BY <1>2, <1>3, <1>4, <1>7 DEF Board!Close, Board!Open, Board!Closed
    <2>2. QED
      BY <1>7, <2>1 DEF Board!Next, Board!Closed
  <1>8. CASE /\ Record(r) \in {"Skipped", "Failed", "Done", "Interrupted"}
             /\ Record(r)' = "none"
    <2>1. Board!Remove(r)
      BY <1>2, <1>3, <1>4, <1>8 DEF Board!Remove, Board!Closed
    <2>2. QED
      BY <2>1 DEF Board!Next
  <1>9. QED
    BY <1>5, <1>6, <1>7, <1>8 DEF RecordMove

\* A process that is gone shares no lock any more.
LEMMA LockDropped ==
    ASSUME TypeOK, JournalInv, (TypeOK /\ JournalInv)', NEW r \in Runs,
           journal'[r] = journal[r], lock'[r] \subseteq lock[r]
    PROVE  \/ Record(r)' = Record(r)
           \/ Record(r) \in {"dispatching", "open"} /\ Record(r)' = "Interrupted"
  <1>1. CASE lock'[r] = {} /\ lock[r] # {}
    BY <1>1, SlotsAssumption DEF TypeOK, JournalType, Journals, JournalInv, Record, View
  <1>2. CASE ~(lock'[r] = {} /\ lock[r] # {})
    BY <1>2 DEF Record, View
  <1>3. QED
    BY <1>1, <1>2

\* A locked journal without an end goes on or closes.
LEMMA LineWritten ==
    ASSUME TypeOK, JournalInv, TypeOK', JournalInv', NEW r \in Runs,
           NEW status \in Statuses \cup {None},
           Append(r, status) \/ AppendFails(r, status), journal[r].by # None,
           journal[r].end = None, lock[r] # {}, lock'[r] \in {lock[r], {}}
    PROVE  RecordMove(r)
  <1>1. journal'[r].by = journal[r].by /\ journal'[r].end \in {None, status}
    BY Appended DEF TypeOK, JournalInv
  <1>2. journal'[r].tail # "joined" /\ journal[r].tail # "joined"
    BY DEF JournalInv
  <1>3. CASE journal'[r].end = None
    BY <1>1, <1>2, <1>3 DEF RecordMove, Record, View
  <1>4. CASE journal'[r].end # None
    BY <1>1, <1>2, <1>4 DEF RecordMove, Record, View, Statuses
  <1>5. QED
    BY <1>3, <1>4

\* A command starts under an open record of its runner, in a slot of its own.
LEMMA StartOnBoard ==
    ASSUME IInv, IInv', NEW r \in Runs, Exec(r)
    PROVE  [Board!Next]_(Board!vars)
  <1> DEFINE rec == [q \in Runs |-> Record(q)]
  <1>1. /\ child[r] = "registered" /\ todo[r] \in 1..Commands
        /\ alive' = alive \cup {<<r, todo[r]>>}
        /\ journal' = journal /\ lock' = [lock EXCEPT ![r] = @ \ {"child"}]
    BY SlotsAssumption DEF Exec, ChildGone, IInv, TypeOK, CommandType, TodoInv
  <1>2. /\ journal[r].by = "runner" /\ journal[r].end = None /\ "child" \in lock[r]
        /\ journal[r].tail # "joined"
    BY <1>1 DEF IInv, JournalInv
  <1>3. Executing' = Executing \cup {r}
    <2>1. Executing' \subseteq Executing \cup {r}
      BY <1>1 DEF Executing
    <2>2. Executing \subseteq Executing' /\ <<r, todo[r]>> \in alive'
      BY <1>1 DEF Executing
    <2>3. QED
      BY <2>1, <2>2 DEF Executing
  <1>4. Record(r) = "open" /\ Record(r)' \in {"open", "Interrupted"}
    BY <1>1, <1>2, SlotsAssumption DEF Record, View
  <1>5. \A q \in Runs : q # r => Record(q)' = Record(q)
    BY <1>1, SameRecord DEF IInv, TypeOK, JournalType
  <1>6. rec' = [rec EXCEPT ![r] = Record(r)'] /\ rec[r] = "open"
    BY <1>4, <1>5
  <1>7. /\ IsFiniteSet(Executing) /\ Cardinality(Executing) <= Max
        /\ Cardinality(Executing \cup {r}) <= Max
    BY <1>3, Occupancy, OccupancyNext
  <1>8. CASE Record(r)' = "Interrupted"
    <2>1. rec[r] = "open" /\ rec' = [rec EXCEPT ![r] = "Interrupted"]
      BY <1>6, <1>8
    <2>2. Cardinality(Executing \cup {r}) <= Max /\ Executing' = Executing \cup {r}
      BY <1>3, <1>7
    <2>3. Board!StartAndClose(r)
      BY <2>1, <2>2, Zenon DEF Board!StartAndClose, Board!Cardinality, Cardinality
    <2>4. QED
      BY <2>3 DEF Board!Next
  <1>9. CASE Record(r)' = "open" /\ r \in Executing
    <2>1. rec' = rec
      BY <1>6, <1>9
    <2>2. QED
      BY <1>3, <1>9, <2>1 DEF Board!vars
  <1>10. CASE Record(r)' = "open" /\ r \notin Executing
    <2>1. Cardinality(Executing \cup {r}) = Cardinality(Executing) + 1
      BY <1>7, <1>10, FS_AddElement
    <2>2. Cardinality(Executing) < Max
      BY <1>7, <2>1, FS_CardinalityType, SlotsAssumption
    <2>3. rec' = rec
      BY <1>6, <1>10
    <2>4. rec[r] = "open" /\ Executing' = Executing \cup {r} /\ r \notin Executing
      BY <1>3, <1>6, <1>10
    <2>5. Board!Start(r)
      BY <2>2, <2>3, <2>4, Zenon DEF Board!Start, Board!Cardinality, Cardinality
    <2>6. QED
      BY <2>5 DEF Board!Next
  <1>11. QED
    BY <1>4, <1>8, <1>9, <1>10

\* The last group of a run leaves the board with the run.
LEMMA StopOnBoard ==
    ASSUME TypeOK, NEW g \in Groups, GroupDies(g)
    PROVE  [Board!Next]_(Board!vars)
  <1> DEFINE rec == [q \in Runs |-> Record(q)]
  <1>1. PICK r \in Runs, n \in 1..Commands : g = <<r, n>>
    BY DEF Groups
  <1>2. g \in alive /\ alive' = alive \ {g} /\ journal' = journal /\ lock' = lock
    BY DEF GroupDies, journalVars
  <1>3. rec' = rec
    BY <1>2, SameRecord
  <1>4. r \in Executing /\ r = g[1]
    BY <1>1, <1>2 DEF Executing
  <1>5. Executing' \subseteq Executing /\ Executing \ {r} \subseteq Executing'
    BY <1>2, <1>4 DEF Executing
  <1>6. CASE r \in Executing'
    <2>1. Executing' = Executing
      BY <1>5, <1>6
    <2>2. QED
      BY <1>3, <2>1 DEF Board!vars
  <1>7. CASE r \notin Executing'
    <2>1. Executing' = Executing \ {r}
      BY <1>5, <1>7
    <2>2. Board!Stop(r)
      BY <1>3, <1>4, <2>1 DEF Board!Stop
    <2>3. QED
      BY <2>2 DEF Board!Next
  <1>8. QED
    BY <1>6, <1>7


\* Every step of the processes is a step of the board, or none.
LEMMA BoardStep == IInv /\ IInv' /\ [Next]_vars => [Board!Next]_(Board!vars)
  <1> SUFFICES ASSUME IInv, IInv', [Next]_vars PROVE [Board!Next]_(Board!vars)
    OBVIOUS
  <1>0. TypeOK /\ JournalInv /\ LockInv /\ (TypeOK /\ JournalInv)'
    BY DEF IInv
  <1>1. ASSUME NEW r \in Runs, Dispatch(r) PROVE [Board!Next]_(Board!vars)
    BY <1>1, SilentOnBoard
    DEF groupVars, journalVars, runnerSide, DispatchTo, Dispatch
  <1>2. ASSUME NEW r \in Runs, ProbeBusy(r) PROVE [Board!Next]_(Board!vars)
    BY <1>2, SilentOnBoard
    DEF groupVars, journalVars, runnerSide, ProbeBusy
  <1>3. ASSUME NEW r \in Runs, ProbeTake(r) PROVE [Board!Next]_(Board!vars)
    BY <1>3, SilentOnBoard
    DEF groupVars, journalVars, runnerSide, DispatchTo, ProbeTake
  <1>4. ASSUME NEW r \in Runs, ProbeFull(r) PROVE [Board!Next]_(Board!vars)
    BY <1>4, SilentOnBoard
    DEF groupVars, journalVars, runnerSide, DispatchTo, ProbeFull
  <1>5. ASSUME NEW r \in Runs, ProbeDrop(r) PROVE [Board!Next]_(Board!vars)
    BY <1>5, SilentOnBoard
    DEF groupVars, journalVars, runnerSide, DispatchTo, ProbeDrop
  <1>6. ASSUME NEW r \in Runs, SaveRequest(r) PROVE [Board!Next]_(Board!vars)
    BY <1>6, SilentOnBoard
    DEF groupVars, journalVars, runnerSide, DispatchTo, SaveRequest
  <1>7. ASSUME NEW r \in Runs, SaveFails(r) PROVE [Board!Next]_(Board!vars)
    BY <1>7, SilentOnBoard
    DEF groupVars, journalVars, runnerSide, DispatchTo, SaveFails
  <1>8. ASSUME NEW r \in Runs, LaunchOk(r) PROVE [Board!Next]_(Board!vars)
    BY <1>8, SilentOnBoard
    DEF groupVars, journalVars, DispatchTo, LaunchOk
  <1>9. ASSUME NEW r \in Runs, LaunchFails(r) PROVE [Board!Next]_(Board!vars)
    BY <1>9, SilentOnBoard
    DEF groupVars, journalVars, runnerSide, DispatchTo, LaunchFails
  <1>10. ASSUME NEW r \in Runs, LaunchTimesOut(r) PROVE [Board!Next]_(Board!vars)
    BY <1>10, SilentOnBoard
    DEF groupVars, journalVars, DispatchTo, LaunchTimesOut
  <1>11. ASSUME NEW r \in Runs, Withdraw(r) PROVE [Board!Next]_(Board!vars)
    BY <1>11, SilentOnBoard
    DEF groupVars, journalVars, runnerSide, DispatchTo, Withdraw
  <1>12. ASSUME NEW r \in Runs, RecordFailure(r) PROVE [Board!Next]_(Board!vars)
    <2>1. /\ journal[r].by = None /\ journal'[r] = NewJournal("dispatch")
          /\ \A q \in Runs : q # r => journal'[q] = journal[q] /\ lock'[q] = lock[q]
          /\ alive' = alive
      BY <1>12, <1>0 DEF RecordFailure, CreateRun, TypeOK, JournalType, runnerSide, groupVars
    <2>2. RecordMove(r)
      BY <2>1, FreshJournal, SlotsAssumption DEF RecordMove, Record, View
    <2>3. QED
      BY <2>1, <2>2, MoveOnBoard
  <1>13. ASSUME NEW r \in Runs, RecordFails(r) PROVE [Board!Next]_(Board!vars)
    <2>1. /\ \/ journal' = journal
             \/ journal[r].by = None /\ journal' = [journal EXCEPT ![r] = NewJournal("dispatch")]
          /\ lock' = lock /\ alive' = alive
      BY <1>13 DEF RecordFails, CreateRunFails, runnerSide, groupVars
    <2>2. CASE journal' = journal
      BY <2>1, <2>2, SilentOnBoard
    <2>3. CASE journal[r].by = None /\ journal' = [journal EXCEPT ![r] = NewJournal("dispatch")]
      <3>1. RecordMove(r)
        BY <1>0, <2>1, <2>3, FreshJournal, SlotsAssumption
        DEF RecordMove, Record, View, TypeOK, JournalType
      <3>2. QED
        BY <1>0, <2>1, <2>3, <3>1, MoveOnBoard DEF TypeOK, JournalType
    <2>4. QED
      BY <2>1, <2>2, <2>3
  <1>14. ASSUME NEW r \in Runs, CloseFailure(r) PROVE [Board!Next]_(Board!vars)
    <2>1. Append(r, "Failed") \/ AppendFails(r, "Failed")
      BY <1>14 DEF CloseFailure
    <2>2. journal[r].by # None /\ journal[r].end = None /\ lock[r] # {}
      BY <1>14, <1>0, SlotsAssumption DEF CloseFailure, RunTo, DispatchTo, JournalInv
    <2>3. /\ lock'[r] \in {lock[r], {}} /\ alive' = alive
          /\ \A q \in Runs : q # r => lock'[q] = lock[q]
      BY <1>14, <1>0 DEF CloseFailure, TypeOK, JournalType, runnerSide, groupVars
    <2>4. \A q \in Runs : q # r => journal'[q] = journal[q]
      BY <2>1, <1>0, Appended DEF TypeOK, Statuses
    <2>5. RecordMove(r)
      BY <2>1, <2>2, <2>3, <1>0, LineWritten DEF Statuses
    <2>6. QED
      BY <2>3, <2>4, <2>5, MoveOnBoard
  <1>15. ASSUME NEW r \in Runs, DispatcherDies(r) PROVE [Board!Next]_(Board!vars)
    <2>1. /\ journal' = journal /\ lock'[r] \subseteq lock[r] /\ alive' = alive
          /\ \A q \in Runs : q # r => lock'[q] = lock[q]
      BY <1>15, <1>0 DEF DispatcherDies, TypeOK, JournalType, runnerSide, groupVars
    <2>2. RecordMove(r)
      BY <2>1, <1>0, LockDropped DEF RecordMove
    <2>3. QED
      BY <2>1, <2>2, MoveOnBoard
  <1>16. ASSUME NEW r \in Runs, RunnerStart(r) PROVE [Board!Next]_(Board!vars)
    BY <1>16, SilentOnBoard
    DEF groupVars, journalVars, RunTo, RunnerStart
  <1>17. ASSUME NEW r \in Runs, RequestTake(r) PROVE [Board!Next]_(Board!vars)
    BY <1>17, SilentOnBoard
    DEF groupVars, journalVars, RunTo, RequestTake
  <1>18. ASSUME NEW r \in Runs, SlotBusy(r) PROVE [Board!Next]_(Board!vars)
    BY <1>18, SilentOnBoard
    DEF groupVars, journalVars, SlotBusy
  <1>19. ASSUME NEW r \in Runs, SlotTake(r) PROVE [Board!Next]_(Board!vars)
    BY <1>19, SilentOnBoard
    DEF groupVars, journalVars, RunTo, SlotTake
  <1>20. ASSUME NEW r \in Runs, SlotsFull(r) PROVE [Board!Next]_(Board!vars)
    BY <1>20, SilentOnBoard
    DEF groupVars, journalVars, RunTo, SlotsFull
  <1>21. ASSUME NEW r \in Runs, RecordSkip(r) PROVE [Board!Next]_(Board!vars)
    <2>1. /\ journal[r].by = None /\ journal'[r] = NewJournal("runner")
          /\ \A q \in Runs : q # r => journal'[q] = journal[q] /\ lock'[q] = lock[q]
          /\ alive' = alive
      BY <1>21, <1>0 DEF RecordSkip, CreateRun, TypeOK, JournalType, groupVars
    <2>2. RecordMove(r)
      BY <2>1, FreshJournal, SlotsAssumption DEF RecordMove, Record, View
    <2>3. QED
      BY <2>1, <2>2, MoveOnBoard
  <1>22. ASSUME NEW r \in Runs, CloseSkip(r) PROVE [Board!Next]_(Board!vars)
    <2>1. Append(r, "Skipped") \/ AppendFails(r, "Skipped")
      BY <1>22 DEF CloseSkip
    <2>2. journal[r].by # None /\ journal[r].end = None /\ lock[r] # {}
      BY <1>22, <1>0, SlotsAssumption DEF CloseSkip, RunTo, DispatchTo, JournalInv
    <2>3. /\ lock'[r] \in {lock[r], {}} /\ alive' = alive
          /\ \A q \in Runs : q # r => lock'[q] = lock[q]
      BY <1>22, <1>0 DEF CloseSkip, TypeOK, JournalType, groupVars
    <2>4. \A q \in Runs : q # r => journal'[q] = journal[q]
      BY <2>1, <1>0, Appended DEF TypeOK, Statuses
    <2>5. RecordMove(r)
      BY <2>1, <2>2, <2>3, <1>0, LineWritten DEF Statuses
    <2>6. QED
      BY <2>3, <2>4, <2>5, MoveOnBoard
  <1>23. ASSUME NEW r \in Runs, Begin(r) PROVE [Board!Next]_(Board!vars)
    BY <1>23, SilentOnBoard
    DEF groupVars, journalVars, RunTo, Begin
  <1>24. ASSUME NEW r \in Runs, BeginFails(r) PROVE [Board!Next]_(Board!vars)
    BY <1>24, SilentOnBoard
    DEF groupVars, journalVars, RunTo, BeginFails
  <1>25. ASSUME NEW r \in Runs, Open(r) PROVE [Board!Next]_(Board!vars)
    <2>1. /\ journal[r].by = None /\ journal'[r] = NewJournal("runner")
          /\ \A q \in Runs : q # r => journal'[q] = journal[q] /\ lock'[q] = lock[q]
          /\ alive' = alive
      BY <1>25, <1>0 DEF Open, CreateRun, TypeOK, JournalType
    <2>2. RecordMove(r)
      BY <2>1, FreshJournal, SlotsAssumption DEF RecordMove, Record, View
    <2>3. QED
      BY <2>1, <2>2, MoveOnBoard
  <1>26. ASSUME NEW r \in Runs, OpenFails(r) PROVE [Board!Next]_(Board!vars)
    <2>1. /\ \/ journal' = journal
             \/ journal[r].by = None /\ journal' = [journal EXCEPT ![r] = NewJournal("runner")]
          /\ lock' = lock /\ alive' = alive
      BY <1>26 DEF OpenFails, CreateRunFails, groupVars
    <2>2. CASE journal' = journal
      BY <2>1, <2>2, SilentOnBoard
    <2>3. CASE journal[r].by = None /\ journal' = [journal EXCEPT ![r] = NewJournal("runner")]
      <3>1. RecordMove(r)
        BY <1>0, <2>1, <2>3, FreshJournal, SlotsAssumption
        DEF RecordMove, Record, View, TypeOK, JournalType
      <3>2. QED
        BY <1>0, <2>1, <2>3, <3>1, MoveOnBoard DEF TypeOK, JournalType
    <2>4. QED
      BY <2>1, <2>2, <2>3
  <1>27. ASSUME NEW r \in Runs, Fork(r) PROVE [Board!Next]_(Board!vars)
    <2>1. /\ runner[r] = "work" /\ journal' = journal /\ alive' = alive
          /\ lock' = [lock EXCEPT ![r] = @ \cup {"child"}]
      BY <1>27 DEF Fork, RunTo
    <2>2. lock[r] # {} /\ lock'[r] # {}
      BY <2>1, <1>0 DEF JournalInv, TypeOK, JournalType
    <2>3. Record(r)' = Record(r)
      BY <2>1, <2>2 DEF Record, View
    <2>4. QED
      BY <2>1, <2>3, <1>0, MoveOnBoard DEF RecordMove, TypeOK, JournalType
  <1>28. ASSUME NEW r \in Runs, Report(r) PROVE [Board!Next]_(Board!vars)
    <2>1. Append(r, None) \/ AppendFails(r, None)
      BY <1>28 DEF Report
    <2>2. journal[r].by # None /\ journal[r].end = None /\ lock[r] # {}
      BY <1>28, <1>0, SlotsAssumption DEF Report, RunTo, DispatchTo, JournalInv
    <2>3. /\ lock'[r] \in {lock[r], {}} /\ alive' = alive
          /\ \A q \in Runs : q # r => lock'[q] = lock[q]
      BY <1>28, <1>0 DEF Report, TypeOK, JournalType
    <2>4. \A q \in Runs : q # r => journal'[q] = journal[q]
      BY <2>1, <1>0, Appended DEF TypeOK, Statuses
    <2>5. RecordMove(r)
      BY <2>1, <2>2, <2>3, <1>0, LineWritten DEF Statuses
    <2>6. QED
      BY <2>3, <2>4, <2>5, MoveOnBoard
  <1>29. ASSUME NEW r \in Runs, Finish(r) PROVE [Board!Next]_(Board!vars)
    <2>1. Append(r, "Done") \/ AppendFails(r, "Done")
      BY <1>29 DEF Finish
    <2>2. journal[r].by # None /\ journal[r].end = None /\ lock[r] # {}
      BY <1>29, <1>0, SlotsAssumption DEF Finish, RunTo, DispatchTo, JournalInv
    <2>3. /\ lock'[r] \in {lock[r], {}} /\ alive' = alive
          /\ \A q \in Runs : q # r => lock'[q] = lock[q]
      BY <1>29, <1>0 DEF Finish, TypeOK, JournalType, groupVars
    <2>4. \A q \in Runs : q # r => journal'[q] = journal[q]
      BY <2>1, <1>0, Appended DEF TypeOK, Statuses
    <2>5. RecordMove(r)
      BY <2>1, <2>2, <2>3, <1>0, LineWritten DEF Statuses
    <2>6. QED
      BY <2>3, <2>4, <2>5, MoveOnBoard
  <1>30. ASSUME NEW r \in Runs, Release(r) PROVE [Board!Next]_(Board!vars)
    <2>1. /\ journal' = journal /\ lock'[r] \subseteq lock[r] /\ alive' = alive
          /\ \A q \in Runs : q # r => lock'[q] = lock[q]
      BY <1>30, <1>0 DEF Release, TypeOK, JournalType, Exits, groupVars
    <2>2. RecordMove(r)
      BY <2>1, <1>0, LockDropped DEF RecordMove
    <2>3. QED
      BY <2>1, <2>2, MoveOnBoard
  <1>31. ASSUME NEW r \in Runs, CommandEnds(r) PROVE [Board!Next]_(Board!vars)
    BY <1>31, SilentOnBoard
    DEF journalVars, CommandEnds
  <1>32. ASSUME NEW r \in Runs, RunnerDies(r) PROVE [Board!Next]_(Board!vars)
    <2>1. /\ journal' = journal /\ lock'[r] \subseteq lock[r] /\ alive' = alive
          /\ \A q \in Runs : q # r => lock'[q] = lock[q]
      BY <1>32, <1>0 DEF RunnerDies, TypeOK, JournalType, Exits, groupVars
    <2>2. RecordMove(r)
      BY <2>1, <1>0, LockDropped DEF RecordMove
    <2>3. QED
      BY <2>1, <2>2, MoveOnBoard
  <1>33. ASSUME NEW r \in Runs, Register(r) PROVE [Board!Next]_(Board!vars)
    BY <1>33, SilentOnBoard
    DEF journalVars, Register
  <1>34. ASSUME NEW r \in Runs, SpawnFails(r) PROVE [Board!Next]_(Board!vars)
    <2>1. /\ journal' = journal /\ lock'[r] \subseteq lock[r] /\ alive' = alive
          /\ \A q \in Runs : q # r => lock'[q] = lock[q]
      BY <1>34, <1>0 DEF SpawnFails, TypeOK, JournalType, ChildGone
    <2>2. RecordMove(r)
      BY <2>1, <1>0, LockDropped DEF RecordMove
    <2>3. QED
      BY <2>1, <2>2, MoveOnBoard
  <1>35. ASSUME NEW r \in Runs, Exec(r) PROVE [Board!Next]_(Board!vars)
    BY <1>35, StartOnBoard
  <1>36. ASSUME NEW r \in Runs, Prune(r) PROVE [Board!Next]_(Board!vars)
    <2>1. /\ journal[r].by # None /\ lock[r] = {}
          /\ journal' = [journal EXCEPT ![r] = NoJournal] /\ lock' = lock /\ alive' = alive
      BY <1>36 DEF Prune, groupVars
    <2>2. /\ journal'[r].by = None
          /\ \A q \in Runs : q # r => journal'[q] = journal[q]
      BY <2>1, <1>0, FreshJournal DEF TypeOK, JournalType, NoJournal
    <2>3. Record(r)' = "none"
      BY <2>2 DEF Record, View
    <2>4. Record(r) \in {"Skipped", "Failed", "Done", "Interrupted"}
      BY <2>1, <1>0, UnlockedRecord
    <2>5. QED
      BY <2>1, <2>2, <2>3, <2>4, MoveOnBoard DEF RecordMove
  <1>37. ASSUME NEW g \in Groups, GroupDies(g) PROVE [Board!Next]_(Board!vars)
    BY <1>37, <1>0, StopOnBoard
  <1>38. CASE UNCHANGED vars
    BY <1>38, SilentOnBoard DEF vars, journalVars, groupVars
  <1>39. QED
    BY <1>1, <1>2, <1>3, <1>4, <1>5, <1>6, <1>7, <1>8, <1>9, <1>10, <1>11, <1>12, <1>13,
       <1>14, <1>15, <1>16, <1>17, <1>18, <1>19, <1>20, <1>21, <1>22, <1>23, <1>24, <1>25,
       <1>26, <1>27, <1>28, <1>29, <1>30, <1>31, <1>32, <1>33, <1>34, <1>35, <1>36, <1>37,
       <1>38
    DEF Next, DispatcherStep, RunnerStep, ChildStep

LEMMA BoardInit == Init => Board!Init
  BY FreshJournal, SlotsAssumption DEF Init, NoJournal, Board!Init, Record, View, Executing

\* The automations crate keeps its promise: whatever its processes do to each other, a run
\* has one record, which closes once, and no more than Max runs have commands alive.
THEOREM BoardImplemented == ASSUME "torn" \notin Faults PROVE Spec => BoardSpec
  BY BoardInit, BoardStep, Invariance, PTL DEF Spec, BoardSpec, Board!Spec

=============================================================================
