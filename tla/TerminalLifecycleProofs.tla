---------------------- MODULE TerminalLifecycleProofs ----------------------
(***************************************************************************)
(* Proofs about TerminalLifecycle, for any sets of requests, ids, specs    *)
(* and deletes.                                                            *)
(***************************************************************************)
EXTENDS TerminalLifecycle, TLAPS

-----------------------------------------------------------------------------
(* The inductive invariant *)

\* Where a request that owns its SpawnPermit stands.
Spawning == {"validating", "spawning", "detached", "spawned", "committed", "started"}

\* A permit is held from registration until the wait thread runs, or until the
\* detached thread of a dropped shell has marked it reaped.
PermitInv ==
    \A r \in Requests :
        /\ pc[r] \in Spawning => r \in permits
        /\ r \in dropped => /\ thread[r] # "none"
                            /\ thread[r] # "done" => r \in permits

\* A shell exists only once its request is past the spawn, and a thread that is
\* through has marked it reaped.
ShellInv ==
    \A r \in Requests :
        /\ pc[r] \in {"idle", "entered", "validating", "spawning", "detached"}
             => proc[r] = "none" /\ r \notin dropped
        /\ pc[r] \in Spawning \cup {"spawned"} => r \notin dropped
        /\ thread[r] = "marked" => r \in dropped
        /\ thread[r] \in {"marked", "done"} => reaped[r]

\* A live shell that was neither dropped nor still belongs to its request can be
\* found by DELETE or by shutdown.
OwnerInv ==
    \A r \in Requests :
        (Live(r) /\ r \notin dropped /\ pc[r] # "spawned") => r \in Registered \cup drained

\* A delete task removes what it has seen reaped.
RemoveInv ==
    \A a \in Actors :
        /\ at[a] = "remove" => reaped[target[a]] /\ deleted[target[a]]
        /\ a \in Deletes /\ at[a] \in {"check", "signal", "await"} => deleted[target[a]]

\* The gate and the drain are one step: behind the gate the map is empty.
GateInv ==
    /\ at[Daemon] = "idle" <=> ~shuttingDown
    /\ ~shuttingDown => drained = {} /\ todo = {} /\ pass = "kill"
    /\ shuttingDown => \A i \in Ids : runtimes[i] = None
    /\ at[Daemon] = "done" => permits = {}

\* The second loop of shutdown_all leaves a runtime it is through with reaped, or
\* records the error.
ReapInv ==
    /\ at[Daemon] \in {"count", "parked", "done"} => pass = "reap" /\ todo = {}
    /\ outcome[Daemon] # None <=> at[Daemon] = "done"
    /\ outcome[Daemon] = "Ok" => ~firstError
    /\ (pass = "reap" /\ ~firstError) =>
         \A r \in drained : \/ r \in todo
                            \/ reaped[r]
                            \/ r = target[Daemon] /\ at[Daemon] \in {"check", "signal", "await"}

\* The entry under an id is the runtime of a request for that id, and shutdown_all
\* drains at most one runtime per id.
PlaceInv ==
    /\ \A i \in Ids : runtimes[i] # None => want[runtimes[i]].id = i
    /\ \A r, s \in drained : want[r].id = want[s].id => r = s

\* A request answers once, and Created never for a shell that was dropped.
AnswerInv ==
    \A r \in Requests :
        /\ answer[r] # None => pc[r] = "done"
        /\ answer[r] = "Created" => r \notin dropped

\* No thread owns the child of a request that still works on it, so what is
\* committed to the map has not been reaped.
UnbornInv ==
    \A r \in Requests :
        pc[r] \in {"idle", "entered", "validating", "spawning", "detached", "spawned",
                   "committed"}
          => thread[r] = "none" /\ ~reaped[r]

\* A delete task has a target only once it has found one, and returns once.
GoneInv ==
    /\ \A d \in Deletes : at[d] = "idle" => target[d] = None
    /\ \A d \in Deletes : outcome[d] # None => at[d] = "done"
    /\ DeleteMeansGone

\* mark_reaped publishes before it sets the flag, and only what the wait returned.
StatusInv ==
    /\ \A r \in Requests :
         /\ thread[r] = "collected" => proc[r] = "free"
         /\ thread[r] = "publish" => status[r] # "Running"
         /\ thread[r] = "silent" => deleted[r]
    /\ StatusTruthful

IInv ==
    /\ TypeOK /\ PermitInv /\ ShellInv /\ OwnerInv /\ RemoveInv /\ GateInv /\ ReapInv
    /\ PlaceInv /\ AnswerInv /\ UnbornInv /\ GoneInv /\ StatusInv

-----------------------------------------------------------------------------
(* Type correctness *)

LEMMA InitType == Init => TypeOK
  <1> SUFFICES ASSUME Init PROVE TypeOK
    OBVIOUS
  <1>1. /\ at \in [Actors -> DeleteSteps \cup ShutdownSteps]
        /\ \A d \in Deletes : at[d] \in DeleteSteps
        /\ at[Daemon] \in ShutdownSteps
        /\ \A a \in Actors : at[a] \in WorkSteps => target[a] \in Requests
    BY DEF Init, Actors, WorkSteps, DeleteSteps, ShutdownSteps
  <1>2. QED
    BY <1>1 DEF Init, TypeOK

\* Every step of a request, a thread, a delete task or the shutdown keeps the types.
LEMMA TypeStep == TypeOK /\ [Next]_vars => TypeOK'
  <1> SUFFICES ASSUME TypeOK, [Next]_vars PROVE TypeOK'
    OBVIOUS
  <1>1. ASSUME NEW r \in Requests, CreateEnter(r) PROVE TypeOK'
    BY <1>1, LifecycleAssumption
    DEF CreateEnter, KeepPermits, TypeOK, WorkSteps, DeleteSteps, ShutdownSteps, Actors,
        requestVars, osVars, runtimeVars, actorVars, shutdownVars
  <1>2. ASSUME NEW r \in Requests, RegisterRefused(r) PROVE TypeOK'
    BY <1>2, LifecycleAssumption
    DEF RegisterRefused, Finish, KeepPermits, TypeOK, WorkSteps, DeleteSteps,
        ShutdownSteps, Actors, requestVars, osVars, runtimeVars, actorVars, shutdownVars
  <1>3. ASSUME NEW r \in Requests, RegisterExisting(r) PROVE TypeOK'
    BY <1>3, LifecycleAssumption
    DEF RegisterExisting, Finish, Compared, KeepPermits, TypeOK, WorkSteps, DeleteSteps,
        ShutdownSteps, Actors, requestVars, osVars, runtimeVars, actorVars, shutdownVars
  <1>4. ASSUME NEW r \in Requests, RegisterSpawn(r) PROVE TypeOK'
    BY <1>4, LifecycleAssumption
    DEF RegisterSpawn, TypeOK, WorkSteps, DeleteSteps, ShutdownSteps, Actors,
        requestVars, osVars, runtimeVars, actorVars, shutdownVars
  <1>5. ASSUME NEW r \in Requests, ValidateOk(r) PROVE TypeOK'
    BY <1>5, LifecycleAssumption
    DEF ValidateOk, KeepPermits, TypeOK, WorkSteps, DeleteSteps, ShutdownSteps, Actors,
        requestVars, osVars, runtimeVars, actorVars, shutdownVars
  <1>6. ASSUME NEW r \in Requests, ValidateFail(r) PROVE TypeOK'
    BY <1>6, LifecycleAssumption
    DEF ValidateFail, Finish, DropPermit, TypeOK, WorkSteps, DeleteSteps, ShutdownSteps,
        Actors, requestVars, osVars, runtimeVars, actorVars, shutdownVars
  <1>7. ASSUME NEW r \in Requests, CancelSpawning(r) PROVE TypeOK'
    BY <1>7, LifecycleAssumption
    DEF CancelSpawning, KeepPermits, TypeOK, WorkSteps, DeleteSteps, ShutdownSteps,
        Actors, requestVars, osVars, runtimeVars, actorVars, shutdownVars
  <1>8. ASSUME NEW r \in Requests, SpawnOk(r) PROVE TypeOK'
    BY <1>8, LifecycleAssumption
    DEF SpawnOk, KeepPermits, TypeOK, WorkSteps, DeleteSteps, ShutdownSteps, Actors,
        requestVars, osVars, runtimeVars, actorVars, shutdownVars
  <1>9. ASSUME NEW r \in Requests, SpawnAbandoned(r) PROVE TypeOK'
    BY <1>9, LifecycleAssumption
    DEF SpawnAbandoned, Finish, DropSpawned, KeepPermits, TypeOK, WorkSteps,
        DeleteSteps, ShutdownSteps, Actors, requestVars, osVars, runtimeVars, actorVars,
        shutdownVars
  <1>10. ASSUME NEW r \in Requests, SpawnFail(r) PROVE TypeOK'
    BY <1>10, LifecycleAssumption
    DEF SpawnFail, Finish, DropPermit, TypeOK, WorkSteps, DeleteSteps, ShutdownSteps,
        Actors, requestVars, osVars, runtimeVars, actorVars, shutdownVars
  <1>11. ASSUME NEW r \in Requests, CancelSpawned(r) PROVE TypeOK'
    BY <1>11, LifecycleAssumption
    DEF CancelSpawned, Finish, DropSpawned, KeepPermits, TypeOK, WorkSteps, DeleteSteps,
        ShutdownSteps, Actors, requestVars, osVars, runtimeVars, actorVars, shutdownVars
  <1>12. ASSUME NEW r \in Requests, CommitRefused(r) PROVE TypeOK'
    BY <1>12, LifecycleAssumption
    DEF CommitRefused, Finish, DropSpawned, KeepPermits, TypeOK, WorkSteps, DeleteSteps,
        ShutdownSteps, Actors, requestVars, osVars, runtimeVars, actorVars, shutdownVars
  <1>13. ASSUME NEW r \in Requests, CommitLost(r) PROVE TypeOK'
    BY <1>13, LifecycleAssumption
    DEF CommitLost, Taken, DropSpawned, KeepPermits, TypeOK, WorkSteps, DeleteSteps,
        ShutdownSteps, Actors, requestVars, osVars, runtimeVars, actorVars, shutdownVars
  <1>14. ASSUME NEW r \in Requests, CommitInsert(r) PROVE TypeOK'
    BY <1>14, LifecycleAssumption
    DEF CommitInsert, KeepPermits, TypeOK, WorkSteps, DeleteSteps, ShutdownSteps,
        Actors, requestVars, osVars, runtimeVars, actorVars, shutdownVars
  <1>15. ASSUME NEW r \in Requests, CompareWinner(r) PROVE TypeOK'
    BY <1>15, LifecycleAssumption
    DEF CompareWinner, Finish, Compared, KeepPermits, TypeOK, WorkSteps, DeleteSteps,
        ShutdownSteps, Actors, requestVars, osVars, runtimeVars, actorVars, shutdownVars
  <1>16. ASSUME NEW r \in Requests, StartWorkers(r) PROVE TypeOK'
    BY <1>16, LifecycleAssumption
    DEF StartWorkers, KeepPermits, TypeOK, WorkSteps, DeleteSteps, ShutdownSteps,
        Actors, requestVars, osVars, runtimeVars, actorVars, shutdownVars
  <1>17. ASSUME NEW r \in Requests, FinishCreate(r) PROVE TypeOK'
    BY <1>17, LifecycleAssumption
    DEF FinishCreate, Finish, DropPermit, TypeOK, WorkSteps, DeleteSteps, ShutdownSteps,
        Actors, requestVars, osVars, runtimeVars, actorVars, shutdownVars
  <1>18. ASSUME NEW r \in Requests, ShellExit(r) PROVE TypeOK'
    BY <1>18, LifecycleAssumption
    DEF ShellExit, KeepPermits, TypeOK, WorkSteps, DeleteSteps, ShutdownSteps, Actors,
        requestVars, osVars, runtimeVars, actorVars, shutdownVars
  <1>19. ASSUME NEW r \in Requests, WaitReturns(r) PROVE TypeOK'
    BY <1>19, LifecycleAssumption
    DEF WaitReturns, KeepPermits, TypeOK, WorkSteps, DeleteSteps, ShutdownSteps, Actors,
        requestVars, osVars, runtimeVars, actorVars, shutdownVars
  <1>20. ASSUME NEW r \in Requests, WaitFails(r) PROVE TypeOK'
    BY <1>20, LifecycleAssumption
    DEF WaitFails, KeepPermits, TypeOK, WorkSteps, DeleteSteps, ShutdownSteps, Actors,
        requestVars, osVars, runtimeVars, actorVars, shutdownVars
  <1>21. ASSUME NEW r \in Requests, MarkBegin(r) PROVE TypeOK'
    BY <1>21, LifecycleAssumption
    DEF MarkBegin, EndStatus, KeepPermits, TypeOK, WorkSteps, DeleteSteps,
        ShutdownSteps, Actors, requestVars, osVars, runtimeVars, actorVars, shutdownVars
  <1>22. ASSUME NEW r \in Requests, MarkEnd(r) PROVE TypeOK'
    BY <1>22, LifecycleAssumption
    DEF MarkEnd, Mark, KeepPermits, TypeOK, WorkSteps, DeleteSteps, ShutdownSteps,
        Actors, requestVars, osVars, runtimeVars, actorVars, shutdownVars
  <1>23. ASSUME NEW r \in Requests, ReaperDone(r) PROVE TypeOK'
    BY <1>23, LifecycleAssumption
    DEF ReaperDone, DropPermit, TypeOK, WorkSteps, DeleteSteps, ShutdownSteps, Actors,
        requestVars, osVars, runtimeVars, actorVars, shutdownVars
  <1>24. ASSUME NEW a \in Actors, KillCheck(a) PROVE TypeOK'
    BY <1>24, LifecycleAssumption
    DEF KillCheck, AfterKill, KeepPermits, TypeOK, WorkSteps, DeleteSteps,
        ShutdownSteps, Actors, requestVars, osVars, runtimeVars, actorVars, shutdownVars
  <1>25. ASSUME NEW a \in Actors, KillSignal(a) PROVE TypeOK'
    BY <1>25, LifecycleAssumption
    DEF KillSignal, AfterKill, KeepPermits, TypeOK, WorkSteps, DeleteSteps,
        ShutdownSteps, Actors, requestVars, osVars, runtimeVars, actorVars, shutdownVars
  <1>26. ASSUME NEW a \in Actors, ReapSeen(a) PROVE TypeOK'
    BY <1>26, LifecycleAssumption
    DEF ReapSeen, KeepPermits, TypeOK, WorkSteps, DeleteSteps, ShutdownSteps, Actors,
        requestVars, osVars, runtimeVars, actorVars, shutdownVars
  <1>27. ASSUME NEW d \in Deletes, DeleteNothing(d) PROVE TypeOK'
    BY <1>27, LifecycleAssumption
    DEF DeleteNothing, Return, KeepPermits, TypeOK, WorkSteps, DeleteSteps,
        ShutdownSteps, Actors, requestVars, osVars, runtimeVars, actorVars, shutdownVars
  <1>28. ASSUME NEW d \in Deletes, DeleteFound(d) PROVE TypeOK'
    BY <1>28, LifecycleAssumption
    DEF DeleteFound, Registered, KeepPermits, TypeOK, WorkSteps, DeleteSteps,
        ShutdownSteps, Actors, requestVars, osVars, runtimeVars, actorVars, shutdownVars
  <1>29. ASSUME NEW d \in Deletes, DeleteNotify(d) PROVE TypeOK'
    BY <1>29, LifecycleAssumption
    DEF DeleteNotify, NotifyDeleted, KeepPermits, TypeOK, WorkSteps, DeleteSteps,
        ShutdownSteps, Actors, requestVars, osVars, runtimeVars, actorVars, shutdownVars
  <1>30. ASSUME NEW d \in Deletes, DeleteRemove(d) PROVE TypeOK'
    BY <1>30, LifecycleAssumption
    DEF DeleteRemove, Return, Without, KeepPermits, TypeOK, WorkSteps, DeleteSteps,
        ShutdownSteps, Actors, requestVars, osVars, runtimeVars, actorVars, shutdownVars
  <1>31. ASSUME NEW d \in Deletes, DeleteTimeout(d) PROVE TypeOK'
    BY <1>31, LifecycleAssumption
    DEF DeleteTimeout, TimedOut, Return, KeepPermits, TypeOK, WorkSteps, DeleteSteps,
        ShutdownSteps, Actors, requestVars, osVars, runtimeVars, actorVars, shutdownVars
  <1>32. ASSUME ShutdownGate PROVE TypeOK'
    BY <1>32, LifecycleAssumption
    DEF ShutdownGate, Registered, KeepPermits, TypeOK, WorkSteps, DeleteSteps,
        ShutdownSteps, Actors, requestVars, osVars, runtimeVars, actorVars, shutdownVars
  <1>33. ASSUME ShutdownTimeout PROVE TypeOK'
    BY <1>33, LifecycleAssumption
    DEF ShutdownTimeout, TimedOut, KeepPermits, TypeOK, WorkSteps, DeleteSteps,
        ShutdownSteps, Actors, requestVars, osVars, runtimeVars, actorVars, shutdownVars
  <1>34. ASSUME ShutdownNext PROVE TypeOK'
    BY <1>34, LifecycleAssumption
    DEF ShutdownNext, NotifyDeleted, KeepPermits, TypeOK, WorkSteps, DeleteSteps,
        ShutdownSteps, Actors, requestVars, osVars, runtimeVars, actorVars, shutdownVars
  <1>35. ASSUME ShutdownReap PROVE TypeOK'
    BY <1>35, LifecycleAssumption
    DEF ShutdownReap, KeepPermits, TypeOK, WorkSteps, DeleteSteps, ShutdownSteps,
        Actors, requestVars, osVars, runtimeVars, actorVars, shutdownVars
  <1>36. ASSUME ShutdownWaitZero PROVE TypeOK'
    BY <1>36, LifecycleAssumption
    DEF ShutdownWaitZero, KeepPermits, TypeOK, WorkSteps, DeleteSteps, ShutdownSteps,
        Actors, requestVars, osVars, runtimeVars, actorVars, shutdownVars
  <1>37. ASSUME ShutdownCount PROVE TypeOK'
    <2>1. CASE NoneInFlight
      BY <1>37, <2>1, LifecycleAssumption
      DEF ShutdownCount, NoneInFlight, Return, KeepPermits, TypeOK, WorkSteps,
          DeleteSteps, ShutdownSteps, Actors, requestVars, osVars, runtimeVars,
          actorVars, shutdownVars
    <2>2. CASE ~NoneInFlight
      BY <1>37, <2>2, LifecycleAssumption
      DEF ShutdownCount, NoneInFlight, Return, KeepPermits, TypeOK, WorkSteps,
          DeleteSteps, ShutdownSteps, Actors, requestVars, osVars, runtimeVars,
          actorVars, shutdownVars
    <2> QED
      BY <2>1, <2>2
  <1>38. ASSUME ShutdownWake PROVE TypeOK'
    BY <1>38, LifecycleAssumption
    DEF ShutdownWake, TypeOK, WorkSteps, DeleteSteps, ShutdownSteps, Actors,
        requestVars, osVars, runtimeVars, actorVars, shutdownVars
  <1>39. CASE UNCHANGED vars
    BY <1>39, LifecycleAssumption
    DEF vars, TypeOK, WorkSteps, DeleteSteps, ShutdownSteps, Actors, requestVars,
        osVars, runtimeVars, actorVars, shutdownVars
  <1> QED
    BY <1>1, <1>2, <1>3, <1>4, <1>5, <1>6, <1>7, <1>8, <1>9, <1>10, <1>11, <1>12, <1>13,
       <1>14, <1>15, <1>16, <1>17, <1>18, <1>19, <1>20, <1>21, <1>22, <1>23, <1>24,
       <1>25, <1>26, <1>27, <1>28, <1>29, <1>30, <1>31, <1>32, <1>33, <1>34, <1>35,
       <1>36, <1>37, <1>38, <1>39
    DEF Next, ClientActs, RequestRuns, ThreadRuns, ActorRuns, DeleteRuns, ShutdownRuns

\* Every variable keeps its type in every behaviour of the daemon.
THEOREM TypeCorrect == Spec => []TypeOK
  BY InitType, TypeStep, PTL DEF Spec

-----------------------------------------------------------------------------
(* The steps preserve each part of the invariant *)

LEMMA InitIInv == Init => IInv
  <1> SUFFICES ASSUME Init PROVE IInv
    OBVIOUS
  <1>1. TypeOK
    BY InitType
  <1>2. PermitInv /\ ShellInv /\ OwnerInv
    BY DEF Init, PermitInv, ShellInv, OwnerInv, Spawning, Live
  <1>3. RemoveInv
    BY DEF Init, RemoveInv
  <1>4. GateInv /\ ReapInv
    BY DEF Init, GateInv, ReapInv, Actors
  <1>5. PlaceInv /\ AnswerInv /\ UnbornInv
    BY LifecycleAssumption DEF Init, PlaceInv, AnswerInv, UnbornInv
  <1>6. GoneInv
    BY DEF Init, GoneInv, DeleteMeansGone, Actors
  <1>7. StatusInv
    BY DEF Init, StatusInv, StatusTruthful
  <1>8. QED
    BY <1>1, <1>2, <1>3, <1>4, <1>5, <1>6, <1>7 DEF IInv

LEMMA PermitStep == TypeOK /\ PermitInv /\ ShellInv /\ [Next]_vars => PermitInv'
  <1> SUFFICES ASSUME TypeOK, PermitInv, ShellInv, [Next]_vars PROVE PermitInv'
    OBVIOUS
  <1>1. ASSUME NEW r \in Requests, CreateEnter(r) PROVE PermitInv'
    BY <1>1
    DEF CreateEnter, KeepPermits, TypeOK, PermitInv, ShellInv, Spawning, requestVars,
        osVars, runtimeVars, actorVars, shutdownVars
  <1>2. ASSUME NEW r \in Requests, RegisterRefused(r) PROVE PermitInv'
    BY <1>2
    DEF RegisterRefused, Finish, KeepPermits, TypeOK, PermitInv, ShellInv, Spawning,
        requestVars, osVars, runtimeVars, actorVars, shutdownVars
  <1>3. ASSUME NEW r \in Requests, RegisterExisting(r) PROVE PermitInv'
    BY <1>3
    DEF RegisterExisting, Finish, Compared, KeepPermits, TypeOK, PermitInv, ShellInv,
        Spawning, requestVars, osVars, runtimeVars, actorVars, shutdownVars
  <1>4. ASSUME NEW r \in Requests, RegisterSpawn(r) PROVE PermitInv'
    BY <1>4
    DEF RegisterSpawn, TypeOK, PermitInv, ShellInv, Spawning, requestVars, osVars,
        runtimeVars, actorVars, shutdownVars
  <1>5. ASSUME NEW r \in Requests, ValidateOk(r) PROVE PermitInv'
    BY <1>5
    DEF ValidateOk, KeepPermits, TypeOK, PermitInv, ShellInv, Spawning, requestVars,
        osVars, runtimeVars, actorVars, shutdownVars
  <1>6. ASSUME NEW r \in Requests, ValidateFail(r) PROVE PermitInv'
    BY <1>6
    DEF ValidateFail, Finish, DropPermit, TypeOK, PermitInv, ShellInv, Spawning,
        requestVars, osVars, runtimeVars, actorVars, shutdownVars
  <1>7. ASSUME NEW r \in Requests, CancelSpawning(r) PROVE PermitInv'
    BY <1>7
    DEF CancelSpawning, KeepPermits, TypeOK, PermitInv, ShellInv, Spawning, requestVars,
        osVars, runtimeVars, actorVars, shutdownVars
  <1>8. ASSUME NEW r \in Requests, SpawnOk(r) PROVE PermitInv'
    BY <1>8
    DEF SpawnOk, KeepPermits, TypeOK, PermitInv, ShellInv, Spawning, requestVars,
        osVars, runtimeVars, actorVars, shutdownVars
  <1>9. ASSUME NEW r \in Requests, SpawnAbandoned(r) PROVE PermitInv'
    BY <1>9
    DEF SpawnAbandoned, Finish, DropSpawned, KeepPermits, TypeOK, PermitInv, ShellInv,
        Spawning, requestVars, osVars, runtimeVars, actorVars, shutdownVars
  <1>10. ASSUME NEW r \in Requests, SpawnFail(r) PROVE PermitInv'
    BY <1>10
    DEF SpawnFail, Finish, DropPermit, TypeOK, PermitInv, ShellInv, Spawning,
        requestVars, osVars, runtimeVars, actorVars, shutdownVars
  <1>11. ASSUME NEW r \in Requests, CancelSpawned(r) PROVE PermitInv'
    BY <1>11
    DEF CancelSpawned, Finish, DropSpawned, KeepPermits, TypeOK, PermitInv, ShellInv,
        Spawning, requestVars, osVars, runtimeVars, actorVars, shutdownVars
  <1>12. ASSUME NEW r \in Requests, CommitRefused(r) PROVE PermitInv'
    BY <1>12
    DEF CommitRefused, Finish, DropSpawned, KeepPermits, TypeOK, PermitInv, ShellInv,
        Spawning, requestVars, osVars, runtimeVars, actorVars, shutdownVars
  <1>13. ASSUME NEW r \in Requests, CommitLost(r) PROVE PermitInv'
    BY <1>13
    DEF CommitLost, Taken, DropSpawned, KeepPermits, TypeOK, PermitInv, ShellInv,
        Spawning, requestVars, osVars, runtimeVars, actorVars, shutdownVars
  <1>14. ASSUME NEW r \in Requests, CommitInsert(r) PROVE PermitInv'
    BY <1>14
    DEF CommitInsert, KeepPermits, TypeOK, PermitInv, ShellInv, Spawning, requestVars,
        osVars, runtimeVars, actorVars, shutdownVars
  <1>15. ASSUME NEW r \in Requests, CompareWinner(r) PROVE PermitInv'
    BY <1>15
    DEF CompareWinner, Finish, Compared, KeepPermits, TypeOK, PermitInv, ShellInv,
        Spawning, requestVars, osVars, runtimeVars, actorVars, shutdownVars
  <1>16. ASSUME NEW r \in Requests, StartWorkers(r) PROVE PermitInv'
    BY <1>16
    DEF StartWorkers, KeepPermits, TypeOK, PermitInv, ShellInv, Spawning, requestVars,
        osVars, runtimeVars, actorVars, shutdownVars
  <1>17. ASSUME NEW r \in Requests, FinishCreate(r) PROVE PermitInv'
    BY <1>17
    DEF FinishCreate, Finish, DropPermit, TypeOK, PermitInv, ShellInv, Spawning,
        requestVars, osVars, runtimeVars, actorVars, shutdownVars
  <1>18. ASSUME NEW r \in Requests, ShellExit(r) PROVE PermitInv'
    BY <1>18
    DEF ShellExit, KeepPermits, TypeOK, PermitInv, ShellInv, Spawning, requestVars,
        osVars, runtimeVars, actorVars, shutdownVars
  <1>19. ASSUME NEW r \in Requests, WaitReturns(r) PROVE PermitInv'
    BY <1>19
    DEF WaitReturns, KeepPermits, TypeOK, PermitInv, ShellInv, Spawning, requestVars,
        osVars, runtimeVars, actorVars, shutdownVars
  <1>20. ASSUME NEW r \in Requests, WaitFails(r) PROVE PermitInv'
    BY <1>20
    DEF WaitFails, KeepPermits, TypeOK, PermitInv, ShellInv, Spawning, requestVars,
        osVars, runtimeVars, actorVars, shutdownVars
  <1>21. ASSUME NEW r \in Requests, MarkBegin(r) PROVE PermitInv'
    BY <1>21
    DEF MarkBegin, EndStatus, KeepPermits, TypeOK, PermitInv, ShellInv, Spawning,
        requestVars, osVars, runtimeVars, actorVars, shutdownVars
  <1>22. ASSUME NEW r \in Requests, MarkEnd(r) PROVE PermitInv'
    BY <1>22
    DEF MarkEnd, Mark, KeepPermits, Guarded, TypeOK, PermitInv, ShellInv, Spawning,
        requestVars, osVars, runtimeVars, actorVars, shutdownVars
  <1>23. ASSUME NEW r \in Requests, ReaperDone(r) PROVE PermitInv'
    BY <1>23
    DEF ReaperDone, DropPermit, TypeOK, PermitInv, ShellInv, Spawning, requestVars,
        osVars, runtimeVars, actorVars, shutdownVars
  <1>24. ASSUME NEW a \in Actors, KillCheck(a) PROVE PermitInv'
    BY <1>24
    DEF KillCheck, AfterKill, KeepPermits, TypeOK, PermitInv, ShellInv, Spawning,
        requestVars, osVars, runtimeVars, actorVars, shutdownVars
  <1>25. ASSUME NEW a \in Actors, KillSignal(a) PROVE PermitInv'
    BY <1>25
    DEF KillSignal, AfterKill, KeepPermits, TypeOK, PermitInv, ShellInv, Spawning,
        requestVars, osVars, runtimeVars, actorVars, shutdownVars
  <1>26. ASSUME NEW a \in Actors, ReapSeen(a) PROVE PermitInv'
    BY <1>26
    DEF ReapSeen, KeepPermits, TypeOK, PermitInv, ShellInv, Spawning, requestVars,
        osVars, runtimeVars, actorVars, shutdownVars
  <1>27. ASSUME NEW d \in Deletes, DeleteNothing(d) PROVE PermitInv'
    BY <1>27
    DEF DeleteNothing, Return, KeepPermits, TypeOK, PermitInv, ShellInv, Spawning,
        requestVars, osVars, runtimeVars, actorVars, shutdownVars
  <1>28. ASSUME NEW d \in Deletes, DeleteFound(d) PROVE PermitInv'
    BY <1>28
    DEF DeleteFound, Registered, KeepPermits, TypeOK, PermitInv, ShellInv, Spawning,
        requestVars, osVars, runtimeVars, actorVars, shutdownVars
  <1>29. ASSUME NEW d \in Deletes, DeleteNotify(d) PROVE PermitInv'
    BY <1>29
    DEF DeleteNotify, NotifyDeleted, KeepPermits, TypeOK, PermitInv, ShellInv, Spawning,
        requestVars, osVars, runtimeVars, actorVars, shutdownVars
  <1>30. ASSUME NEW d \in Deletes, DeleteRemove(d) PROVE PermitInv'
    BY <1>30
    DEF DeleteRemove, Return, Without, KeepPermits, TypeOK, PermitInv, ShellInv,
        Spawning, requestVars, osVars, runtimeVars, actorVars, shutdownVars
  <1>31. ASSUME NEW d \in Deletes, DeleteTimeout(d) PROVE PermitInv'
    BY <1>31
    DEF DeleteTimeout, TimedOut, Return, KeepPermits, TypeOK, PermitInv, ShellInv,
        Spawning, requestVars, osVars, runtimeVars, actorVars, shutdownVars
  <1>32. ASSUME ShutdownGate PROVE PermitInv'
    BY <1>32
    DEF ShutdownGate, Registered, KeepPermits, TypeOK, PermitInv, ShellInv, Spawning,
        requestVars, osVars, runtimeVars, actorVars, shutdownVars
  <1>33. ASSUME ShutdownTimeout PROVE PermitInv'
    BY <1>33
    DEF ShutdownTimeout, TimedOut, KeepPermits, TypeOK, PermitInv, ShellInv, Spawning,
        requestVars, osVars, runtimeVars, actorVars, shutdownVars
  <1>34. ASSUME ShutdownNext PROVE PermitInv'
    BY <1>34
    DEF ShutdownNext, NotifyDeleted, KeepPermits, TypeOK, PermitInv, ShellInv, Spawning,
        requestVars, osVars, runtimeVars, actorVars, shutdownVars
  <1>35. ASSUME ShutdownReap PROVE PermitInv'
    BY <1>35
    DEF ShutdownReap, KeepPermits, TypeOK, PermitInv, ShellInv, Spawning, requestVars,
        osVars, runtimeVars, actorVars, shutdownVars
  <1>36. ASSUME ShutdownWaitZero PROVE PermitInv'
    BY <1>36
    DEF ShutdownWaitZero, KeepPermits, TypeOK, PermitInv, ShellInv, Spawning,
        requestVars, osVars, runtimeVars, actorVars, shutdownVars
  <1>37. ASSUME ShutdownCount PROVE PermitInv'
    <2>1. CASE NoneInFlight
      BY <1>37, <2>1
      DEF ShutdownCount, NoneInFlight, Return, KeepPermits, TypeOK, PermitInv, ShellInv,
          Spawning, requestVars, osVars, runtimeVars, actorVars, shutdownVars
    <2>2. CASE ~NoneInFlight
      BY <1>37, <2>2
      DEF ShutdownCount, NoneInFlight, Return, KeepPermits, TypeOK, PermitInv, ShellInv,
          Spawning, requestVars, osVars, runtimeVars, actorVars, shutdownVars
    <2> QED
      BY <2>1, <2>2
  <1>38. ASSUME ShutdownWake PROVE PermitInv'
    BY <1>38
    DEF ShutdownWake, TypeOK, PermitInv, ShellInv, Spawning, requestVars, osVars,
        runtimeVars, actorVars, shutdownVars
  <1>39. CASE UNCHANGED vars
    BY <1>39
    DEF vars, TypeOK, PermitInv, ShellInv, Spawning, requestVars, osVars, runtimeVars,
        actorVars, shutdownVars
  <1> QED
    BY <1>1, <1>2, <1>3, <1>4, <1>5, <1>6, <1>7, <1>8, <1>9, <1>10, <1>11, <1>12, <1>13,
       <1>14, <1>15, <1>16, <1>17, <1>18, <1>19, <1>20, <1>21, <1>22, <1>23, <1>24,
       <1>25, <1>26, <1>27, <1>28, <1>29, <1>30, <1>31, <1>32, <1>33, <1>34, <1>35,
       <1>36, <1>37, <1>38, <1>39
    DEF Next, ClientActs, RequestRuns, ThreadRuns, ActorRuns, DeleteRuns, ShutdownRuns

LEMMA ShellStep == TypeOK /\ ShellInv /\ [Next]_vars => ShellInv'
  <1> SUFFICES ASSUME TypeOK, ShellInv, [Next]_vars PROVE ShellInv'
    OBVIOUS
  <1>1. ASSUME NEW r \in Requests, CreateEnter(r) PROVE ShellInv'
    BY <1>1
    DEF CreateEnter, KeepPermits, TypeOK, ShellInv, Spawning, requestVars, osVars,
        runtimeVars, actorVars, shutdownVars
  <1>2. ASSUME NEW r \in Requests, RegisterRefused(r) PROVE ShellInv'
    BY <1>2
    DEF RegisterRefused, Finish, KeepPermits, TypeOK, ShellInv, Spawning, requestVars,
        osVars, runtimeVars, actorVars, shutdownVars
  <1>3. ASSUME NEW r \in Requests, RegisterExisting(r) PROVE ShellInv'
    BY <1>3
    DEF RegisterExisting, Finish, Compared, KeepPermits, TypeOK, ShellInv, Spawning,
        requestVars, osVars, runtimeVars, actorVars, shutdownVars
  <1>4. ASSUME NEW r \in Requests, RegisterSpawn(r) PROVE ShellInv'
    BY <1>4
    DEF RegisterSpawn, TypeOK, ShellInv, Spawning, requestVars, osVars, runtimeVars,
        actorVars, shutdownVars
  <1>5. ASSUME NEW r \in Requests, ValidateOk(r) PROVE ShellInv'
    BY <1>5
    DEF ValidateOk, KeepPermits, TypeOK, ShellInv, Spawning, requestVars, osVars,
        runtimeVars, actorVars, shutdownVars
  <1>6. ASSUME NEW r \in Requests, ValidateFail(r) PROVE ShellInv'
    BY <1>6
    DEF ValidateFail, Finish, DropPermit, TypeOK, ShellInv, Spawning, requestVars,
        osVars, runtimeVars, actorVars, shutdownVars
  <1>7. ASSUME NEW r \in Requests, CancelSpawning(r) PROVE ShellInv'
    BY <1>7
    DEF CancelSpawning, KeepPermits, TypeOK, ShellInv, Spawning, requestVars, osVars,
        runtimeVars, actorVars, shutdownVars
  <1>8. ASSUME NEW r \in Requests, SpawnOk(r) PROVE ShellInv'
    BY <1>8
    DEF SpawnOk, KeepPermits, TypeOK, ShellInv, Spawning, requestVars, osVars,
        runtimeVars, actorVars, shutdownVars
  <1>9. ASSUME NEW r \in Requests, SpawnAbandoned(r) PROVE ShellInv'
    BY <1>9
    DEF SpawnAbandoned, Finish, DropSpawned, KeepPermits, TypeOK, ShellInv, Spawning,
        requestVars, osVars, runtimeVars, actorVars, shutdownVars
  <1>10. ASSUME NEW r \in Requests, SpawnFail(r) PROVE ShellInv'
    BY <1>10
    DEF SpawnFail, Finish, DropPermit, TypeOK, ShellInv, Spawning, requestVars, osVars,
        runtimeVars, actorVars, shutdownVars
  <1>11. ASSUME NEW r \in Requests, CancelSpawned(r) PROVE ShellInv'
    BY <1>11
    DEF CancelSpawned, Finish, DropSpawned, KeepPermits, TypeOK, ShellInv, Spawning,
        requestVars, osVars, runtimeVars, actorVars, shutdownVars
  <1>12. ASSUME NEW r \in Requests, CommitRefused(r) PROVE ShellInv'
    BY <1>12
    DEF CommitRefused, Finish, DropSpawned, KeepPermits, TypeOK, ShellInv, Spawning,
        requestVars, osVars, runtimeVars, actorVars, shutdownVars
  <1>13. ASSUME NEW r \in Requests, CommitLost(r) PROVE ShellInv'
    BY <1>13
    DEF CommitLost, Taken, DropSpawned, KeepPermits, TypeOK, ShellInv, Spawning,
        requestVars, osVars, runtimeVars, actorVars, shutdownVars
  <1>14. ASSUME NEW r \in Requests, CommitInsert(r) PROVE ShellInv'
    BY <1>14
    DEF CommitInsert, KeepPermits, TypeOK, ShellInv, Spawning, requestVars, osVars,
        runtimeVars, actorVars, shutdownVars
  <1>15. ASSUME NEW r \in Requests, CompareWinner(r) PROVE ShellInv'
    BY <1>15
    DEF CompareWinner, Finish, Compared, KeepPermits, TypeOK, ShellInv, Spawning,
        requestVars, osVars, runtimeVars, actorVars, shutdownVars
  <1>16. ASSUME NEW r \in Requests, StartWorkers(r) PROVE ShellInv'
    BY <1>16
    DEF StartWorkers, KeepPermits, TypeOK, ShellInv, Spawning, requestVars, osVars,
        runtimeVars, actorVars, shutdownVars
  <1>17. ASSUME NEW r \in Requests, FinishCreate(r) PROVE ShellInv'
    BY <1>17
    DEF FinishCreate, Finish, DropPermit, TypeOK, ShellInv, Spawning, requestVars,
        osVars, runtimeVars, actorVars, shutdownVars
  <1>18. ASSUME NEW r \in Requests, ShellExit(r) PROVE ShellInv'
    BY <1>18
    DEF ShellExit, KeepPermits, TypeOK, ShellInv, Spawning, requestVars, osVars,
        runtimeVars, actorVars, shutdownVars
  <1>19. ASSUME NEW r \in Requests, WaitReturns(r) PROVE ShellInv'
    BY <1>19
    DEF WaitReturns, KeepPermits, TypeOK, ShellInv, Spawning, requestVars, osVars,
        runtimeVars, actorVars, shutdownVars
  <1>20. ASSUME NEW r \in Requests, WaitFails(r) PROVE ShellInv'
    BY <1>20
    DEF WaitFails, KeepPermits, TypeOK, ShellInv, Spawning, requestVars, osVars,
        runtimeVars, actorVars, shutdownVars
  <1>21. ASSUME NEW r \in Requests, MarkBegin(r) PROVE ShellInv'
    BY <1>21
    DEF MarkBegin, EndStatus, KeepPermits, TypeOK, ShellInv, Spawning, requestVars,
        osVars, runtimeVars, actorVars, shutdownVars
  <1>22. ASSUME NEW r \in Requests, MarkEnd(r) PROVE ShellInv'
    BY <1>22
    DEF MarkEnd, Mark, KeepPermits, Guarded, TypeOK, ShellInv, Spawning, requestVars,
        osVars, runtimeVars, actorVars, shutdownVars
  <1>23. ASSUME NEW r \in Requests, ReaperDone(r) PROVE ShellInv'
    BY <1>23
    DEF ReaperDone, DropPermit, TypeOK, ShellInv, Spawning, requestVars, osVars,
        runtimeVars, actorVars, shutdownVars
  <1>24. ASSUME NEW a \in Actors, KillCheck(a) PROVE ShellInv'
    BY <1>24
    DEF KillCheck, AfterKill, KeepPermits, TypeOK, ShellInv, Spawning, requestVars,
        osVars, runtimeVars, actorVars, shutdownVars
  <1>25. ASSUME NEW a \in Actors, KillSignal(a) PROVE ShellInv'
    BY <1>25
    DEF KillSignal, AfterKill, KeepPermits, TypeOK, ShellInv, Spawning, requestVars,
        osVars, runtimeVars, actorVars, shutdownVars
  <1>26. ASSUME NEW a \in Actors, ReapSeen(a) PROVE ShellInv'
    BY <1>26
    DEF ReapSeen, KeepPermits, TypeOK, ShellInv, Spawning, requestVars, osVars,
        runtimeVars, actorVars, shutdownVars
  <1>27. ASSUME NEW d \in Deletes, DeleteNothing(d) PROVE ShellInv'
    BY <1>27
    DEF DeleteNothing, Return, KeepPermits, TypeOK, ShellInv, Spawning, requestVars,
        osVars, runtimeVars, actorVars, shutdownVars
  <1>28. ASSUME NEW d \in Deletes, DeleteFound(d) PROVE ShellInv'
    BY <1>28
    DEF DeleteFound, Registered, KeepPermits, TypeOK, ShellInv, Spawning, requestVars,
        osVars, runtimeVars, actorVars, shutdownVars
  <1>29. ASSUME NEW d \in Deletes, DeleteNotify(d) PROVE ShellInv'
    BY <1>29
    DEF DeleteNotify, NotifyDeleted, KeepPermits, TypeOK, ShellInv, Spawning,
        requestVars, osVars, runtimeVars, actorVars, shutdownVars
  <1>30. ASSUME NEW d \in Deletes, DeleteRemove(d) PROVE ShellInv'
    BY <1>30
    DEF DeleteRemove, Return, Without, KeepPermits, TypeOK, ShellInv, Spawning,
        requestVars, osVars, runtimeVars, actorVars, shutdownVars
  <1>31. ASSUME NEW d \in Deletes, DeleteTimeout(d) PROVE ShellInv'
    BY <1>31
    DEF DeleteTimeout, TimedOut, Return, KeepPermits, TypeOK, ShellInv, Spawning,
        requestVars, osVars, runtimeVars, actorVars, shutdownVars
  <1>32. ASSUME ShutdownGate PROVE ShellInv'
    BY <1>32
    DEF ShutdownGate, Registered, KeepPermits, TypeOK, ShellInv, Spawning, requestVars,
        osVars, runtimeVars, actorVars, shutdownVars
  <1>33. ASSUME ShutdownTimeout PROVE ShellInv'
    BY <1>33
    DEF ShutdownTimeout, TimedOut, KeepPermits, TypeOK, ShellInv, Spawning, requestVars,
        osVars, runtimeVars, actorVars, shutdownVars
  <1>34. ASSUME ShutdownNext PROVE ShellInv'
    BY <1>34
    DEF ShutdownNext, NotifyDeleted, KeepPermits, TypeOK, ShellInv, Spawning,
        requestVars, osVars, runtimeVars, actorVars, shutdownVars
  <1>35. ASSUME ShutdownReap PROVE ShellInv'
    BY <1>35
    DEF ShutdownReap, KeepPermits, TypeOK, ShellInv, Spawning, requestVars, osVars,
        runtimeVars, actorVars, shutdownVars
  <1>36. ASSUME ShutdownWaitZero PROVE ShellInv'
    BY <1>36
    DEF ShutdownWaitZero, KeepPermits, TypeOK, ShellInv, Spawning, requestVars, osVars,
        runtimeVars, actorVars, shutdownVars
  <1>37. ASSUME ShutdownCount PROVE ShellInv'
    <2>1. CASE NoneInFlight
      BY <1>37, <2>1
      DEF ShutdownCount, NoneInFlight, Return, KeepPermits, TypeOK, ShellInv, Spawning,
          requestVars, osVars, runtimeVars, actorVars, shutdownVars
    <2>2. CASE ~NoneInFlight
      BY <1>37, <2>2
      DEF ShutdownCount, NoneInFlight, Return, KeepPermits, TypeOK, ShellInv, Spawning,
          requestVars, osVars, runtimeVars, actorVars, shutdownVars
    <2> QED
      BY <2>1, <2>2
  <1>38. ASSUME ShutdownWake PROVE ShellInv'
    BY <1>38
    DEF ShutdownWake, TypeOK, ShellInv, Spawning, requestVars, osVars, runtimeVars,
        actorVars, shutdownVars
  <1>39. CASE UNCHANGED vars
    BY <1>39
    DEF vars, TypeOK, ShellInv, Spawning, requestVars, osVars, runtimeVars, actorVars,
        shutdownVars
  <1> QED
    BY <1>1, <1>2, <1>3, <1>4, <1>5, <1>6, <1>7, <1>8, <1>9, <1>10, <1>11, <1>12, <1>13,
       <1>14, <1>15, <1>16, <1>17, <1>18, <1>19, <1>20, <1>21, <1>22, <1>23, <1>24,
       <1>25, <1>26, <1>27, <1>28, <1>29, <1>30, <1>31, <1>32, <1>33, <1>34, <1>35,
       <1>36, <1>37, <1>38, <1>39
    DEF Next, ClientActs, RequestRuns, ThreadRuns, ActorRuns, DeleteRuns, ShutdownRuns

LEMMA OwnerStep == IInv /\ [Next]_vars => OwnerInv'
  <1> SUFFICES ASSUME IInv, [Next]_vars PROVE OwnerInv'
    OBVIOUS
  <1> USE DEF IInv
  <1>1. ASSUME NEW r \in Requests, CreateEnter(r) PROVE OwnerInv'
    BY <1>1, LifecycleAssumption
    DEF CreateEnter, KeepPermits, TypeOK, ShellInv, OwnerInv, RemoveInv, Live,
        Registered, Actors, requestVars, osVars, runtimeVars, actorVars, shutdownVars
  <1>2. ASSUME NEW r \in Requests, RegisterRefused(r) PROVE OwnerInv'
    BY <1>2, LifecycleAssumption
    DEF RegisterRefused, Finish, KeepPermits, TypeOK, ShellInv, OwnerInv, RemoveInv,
        Live, Registered, Actors, requestVars, osVars, runtimeVars, actorVars,
        shutdownVars
  <1>3. ASSUME NEW r \in Requests, RegisterExisting(r) PROVE OwnerInv'
    BY <1>3, LifecycleAssumption
    DEF RegisterExisting, Finish, Compared, KeepPermits, TypeOK, ShellInv, OwnerInv,
        RemoveInv, Live, Registered, Actors, requestVars, osVars, runtimeVars,
        actorVars, shutdownVars
  <1>4. ASSUME NEW r \in Requests, RegisterSpawn(r) PROVE OwnerInv'
    BY <1>4, LifecycleAssumption
    DEF RegisterSpawn, TypeOK, ShellInv, OwnerInv, RemoveInv, Live, Registered, Actors,
        requestVars, osVars, runtimeVars, actorVars, shutdownVars
  <1>5. ASSUME NEW r \in Requests, ValidateOk(r) PROVE OwnerInv'
    BY <1>5, LifecycleAssumption
    DEF ValidateOk, KeepPermits, TypeOK, ShellInv, OwnerInv, RemoveInv, Live,
        Registered, Actors, requestVars, osVars, runtimeVars, actorVars, shutdownVars
  <1>6. ASSUME NEW r \in Requests, ValidateFail(r) PROVE OwnerInv'
    BY <1>6, LifecycleAssumption
    DEF ValidateFail, Finish, DropPermit, TypeOK, ShellInv, OwnerInv, RemoveInv, Live,
        Registered, Actors, requestVars, osVars, runtimeVars, actorVars, shutdownVars
  <1>7. ASSUME NEW r \in Requests, CancelSpawning(r) PROVE OwnerInv'
    BY <1>7, LifecycleAssumption
    DEF CancelSpawning, KeepPermits, TypeOK, ShellInv, OwnerInv, RemoveInv, Live,
        Registered, Actors, requestVars, osVars, runtimeVars, actorVars, shutdownVars
  <1>8. ASSUME NEW r \in Requests, SpawnOk(r) PROVE OwnerInv'
    BY <1>8, LifecycleAssumption
    DEF SpawnOk, KeepPermits, TypeOK, ShellInv, OwnerInv, RemoveInv, Live, Registered,
        Actors, requestVars, osVars, runtimeVars, actorVars, shutdownVars
  <1>9. ASSUME NEW r \in Requests, SpawnAbandoned(r) PROVE OwnerInv'
    BY <1>9, LifecycleAssumption
    DEF SpawnAbandoned, Finish, DropSpawned, KeepPermits, TypeOK, ShellInv, OwnerInv,
        RemoveInv, Live, Registered, Actors, requestVars, osVars, runtimeVars,
        actorVars, shutdownVars
  <1>10. ASSUME NEW r \in Requests, SpawnFail(r) PROVE OwnerInv'
    BY <1>10, LifecycleAssumption
    DEF SpawnFail, Finish, DropPermit, TypeOK, ShellInv, OwnerInv, RemoveInv, Live,
        Registered, Actors, requestVars, osVars, runtimeVars, actorVars, shutdownVars
  <1>11. ASSUME NEW r \in Requests, CancelSpawned(r) PROVE OwnerInv'
    BY <1>11, LifecycleAssumption
    DEF CancelSpawned, Finish, DropSpawned, KeepPermits, TypeOK, ShellInv, OwnerInv,
        RemoveInv, Live, Registered, Actors, requestVars, osVars, runtimeVars,
        actorVars, shutdownVars
  <1>12. ASSUME NEW r \in Requests, CommitRefused(r) PROVE OwnerInv'
    BY <1>12, LifecycleAssumption
    DEF CommitRefused, Finish, DropSpawned, KeepPermits, TypeOK, ShellInv, OwnerInv,
        RemoveInv, Live, Registered, Actors, requestVars, osVars, runtimeVars,
        actorVars, shutdownVars
  <1>13. ASSUME NEW r \in Requests, CommitLost(r) PROVE OwnerInv'
    BY <1>13, LifecycleAssumption
    DEF CommitLost, Taken, DropSpawned, KeepPermits, TypeOK, ShellInv, OwnerInv,
        RemoveInv, Live, Registered, Actors, requestVars, osVars, runtimeVars,
        actorVars, shutdownVars
  <1>14. ASSUME NEW r \in Requests, CommitInsert(r) PROVE OwnerInv'
    BY <1>14, LifecycleAssumption
    DEF CommitInsert, KeepPermits, Taken, TypeOK, ShellInv, OwnerInv, RemoveInv, Live,
        Registered, Actors, requestVars, osVars, runtimeVars, actorVars, shutdownVars
  <1>15. ASSUME NEW r \in Requests, CompareWinner(r) PROVE OwnerInv'
    BY <1>15, LifecycleAssumption
    DEF CompareWinner, Finish, Compared, KeepPermits, TypeOK, ShellInv, OwnerInv,
        RemoveInv, Live, Registered, Actors, requestVars, osVars, runtimeVars,
        actorVars, shutdownVars
  <1>16. ASSUME NEW r \in Requests, StartWorkers(r) PROVE OwnerInv'
    BY <1>16, LifecycleAssumption
    DEF StartWorkers, KeepPermits, TypeOK, ShellInv, OwnerInv, RemoveInv, Live,
        Registered, Actors, requestVars, osVars, runtimeVars, actorVars, shutdownVars
  <1>17. ASSUME NEW r \in Requests, FinishCreate(r) PROVE OwnerInv'
    BY <1>17, LifecycleAssumption
    DEF FinishCreate, Finish, DropPermit, TypeOK, ShellInv, OwnerInv, RemoveInv, Live,
        Registered, Actors, requestVars, osVars, runtimeVars, actorVars, shutdownVars
  <1>18. ASSUME NEW r \in Requests, ShellExit(r) PROVE OwnerInv'
    BY <1>18, LifecycleAssumption
    DEF ShellExit, KeepPermits, TypeOK, ShellInv, OwnerInv, RemoveInv, Live, Registered,
        Actors, requestVars, osVars, runtimeVars, actorVars, shutdownVars
  <1>19. ASSUME NEW r \in Requests, WaitReturns(r) PROVE OwnerInv'
    BY <1>19, LifecycleAssumption
    DEF WaitReturns, KeepPermits, TypeOK, ShellInv, OwnerInv, RemoveInv, Live,
        Registered, Actors, requestVars, osVars, runtimeVars, actorVars, shutdownVars
  <1>20. ASSUME NEW r \in Requests, WaitFails(r) PROVE OwnerInv'
    BY <1>20, LifecycleAssumption
    DEF WaitFails, KeepPermits, TypeOK, ShellInv, OwnerInv, RemoveInv, Live, Registered,
        Actors, requestVars, osVars, runtimeVars, actorVars, shutdownVars
  <1>21. ASSUME NEW r \in Requests, MarkBegin(r) PROVE OwnerInv'
    BY <1>21, LifecycleAssumption
    DEF MarkBegin, EndStatus, KeepPermits, TypeOK, ShellInv, OwnerInv, RemoveInv, Live,
        Registered, Actors, requestVars, osVars, runtimeVars, actorVars, shutdownVars
  <1>22. ASSUME NEW r \in Requests, MarkEnd(r) PROVE OwnerInv'
    BY <1>22, LifecycleAssumption
    DEF MarkEnd, Mark, KeepPermits, TypeOK, ShellInv, OwnerInv, RemoveInv, Live,
        Registered, Actors, requestVars, osVars, runtimeVars, actorVars, shutdownVars
  <1>23. ASSUME NEW r \in Requests, ReaperDone(r) PROVE OwnerInv'
    BY <1>23, LifecycleAssumption
    DEF ReaperDone, DropPermit, TypeOK, ShellInv, OwnerInv, RemoveInv, Live, Registered,
        Actors, requestVars, osVars, runtimeVars, actorVars, shutdownVars
  <1>24. ASSUME NEW a \in Actors, KillCheck(a) PROVE OwnerInv'
    BY <1>24, LifecycleAssumption
    DEF KillCheck, AfterKill, KeepPermits, TypeOK, ShellInv, OwnerInv, RemoveInv, Live,
        Registered, Actors, requestVars, osVars, runtimeVars, actorVars, shutdownVars
  <1>25. ASSUME NEW a \in Actors, KillSignal(a) PROVE OwnerInv'
    BY <1>25, LifecycleAssumption
    DEF KillSignal, AfterKill, KeepPermits, TypeOK, ShellInv, OwnerInv, RemoveInv, Live,
        Registered, Actors, requestVars, osVars, runtimeVars, actorVars, shutdownVars
  <1>26. ASSUME NEW a \in Actors, ReapSeen(a) PROVE OwnerInv'
    BY <1>26, LifecycleAssumption
    DEF ReapSeen, KeepPermits, TypeOK, ShellInv, OwnerInv, RemoveInv, Live, Registered,
        Actors, requestVars, osVars, runtimeVars, actorVars, shutdownVars
  <1>27. ASSUME NEW d \in Deletes, DeleteNothing(d) PROVE OwnerInv'
    BY <1>27, LifecycleAssumption
    DEF DeleteNothing, Return, KeepPermits, TypeOK, ShellInv, OwnerInv, RemoveInv, Live,
        Registered, Actors, requestVars, osVars, runtimeVars, actorVars, shutdownVars
  <1>28. ASSUME NEW d \in Deletes, DeleteFound(d) PROVE OwnerInv'
    BY <1>28, LifecycleAssumption
    DEF DeleteFound, Registered, KeepPermits, TypeOK, ShellInv, OwnerInv, RemoveInv,
        Live, Actors, requestVars, osVars, runtimeVars, actorVars, shutdownVars
  <1>29. ASSUME NEW d \in Deletes, DeleteNotify(d) PROVE OwnerInv'
    BY <1>29, LifecycleAssumption
    DEF DeleteNotify, NotifyDeleted, KeepPermits, TypeOK, ShellInv, OwnerInv, RemoveInv,
        Live, Registered, Actors, requestVars, osVars, runtimeVars, actorVars,
        shutdownVars
  <1>30. ASSUME NEW d \in Deletes, DeleteRemove(d) PROVE OwnerInv'
    BY <1>30, LifecycleAssumption
    DEF DeleteRemove, Return, Without, KeepPermits, TypeOK, ShellInv, OwnerInv,
        RemoveInv, Live, Registered, Actors, requestVars, osVars, runtimeVars,
        actorVars, shutdownVars
  <1>31. ASSUME NEW d \in Deletes, DeleteTimeout(d) PROVE OwnerInv'
    BY <1>31, LifecycleAssumption
    DEF DeleteTimeout, TimedOut, Return, KeepPermits, TypeOK, ShellInv, OwnerInv,
        RemoveInv, Live, Registered, Actors, requestVars, osVars, runtimeVars,
        actorVars, shutdownVars
  <1>32. ASSUME ShutdownGate PROVE OwnerInv'
    BY <1>32, LifecycleAssumption
    DEF ShutdownGate, Registered, KeepPermits, GateInv, TypeOK, ShellInv, OwnerInv,
        RemoveInv, Live, Actors, requestVars, osVars, runtimeVars, actorVars,
        shutdownVars
  <1>33. ASSUME ShutdownTimeout PROVE OwnerInv'
    BY <1>33, LifecycleAssumption
    DEF ShutdownTimeout, TimedOut, KeepPermits, TypeOK, ShellInv, OwnerInv, RemoveInv,
        Live, Registered, Actors, requestVars, osVars, runtimeVars, actorVars,
        shutdownVars
  <1>34. ASSUME ShutdownNext PROVE OwnerInv'
    BY <1>34, LifecycleAssumption
    DEF ShutdownNext, NotifyDeleted, KeepPermits, TypeOK, ShellInv, OwnerInv, RemoveInv,
        Live, Registered, Actors, requestVars, osVars, runtimeVars, actorVars,
        shutdownVars
  <1>35. ASSUME ShutdownReap PROVE OwnerInv'
    BY <1>35, LifecycleAssumption
    DEF ShutdownReap, KeepPermits, TypeOK, ShellInv, OwnerInv, RemoveInv, Live,
        Registered, Actors, requestVars, osVars, runtimeVars, actorVars, shutdownVars
  <1>36. ASSUME ShutdownWaitZero PROVE OwnerInv'
    BY <1>36, LifecycleAssumption
    DEF ShutdownWaitZero, KeepPermits, TypeOK, ShellInv, OwnerInv, RemoveInv, Live,
        Registered, Actors, requestVars, osVars, runtimeVars, actorVars, shutdownVars
  <1>37. ASSUME ShutdownCount PROVE OwnerInv'
    <2>1. CASE NoneInFlight
      BY <1>37, <2>1, LifecycleAssumption
      DEF ShutdownCount, NoneInFlight, Return, KeepPermits, TypeOK, ShellInv, OwnerInv,
          RemoveInv, Live, Registered, Actors, requestVars, osVars, runtimeVars,
          actorVars, shutdownVars
    <2>2. CASE ~NoneInFlight
      BY <1>37, <2>2, LifecycleAssumption
      DEF ShutdownCount, NoneInFlight, Return, KeepPermits, TypeOK, ShellInv, OwnerInv,
          RemoveInv, Live, Registered, Actors, requestVars, osVars, runtimeVars,
          actorVars, shutdownVars
    <2> QED
      BY <2>1, <2>2
  <1>38. ASSUME ShutdownWake PROVE OwnerInv'
    BY <1>38, LifecycleAssumption
    DEF ShutdownWake, TypeOK, ShellInv, OwnerInv, RemoveInv, Live, Registered, Actors,
        requestVars, osVars, runtimeVars, actorVars, shutdownVars
  <1>39. CASE UNCHANGED vars
    BY <1>39, LifecycleAssumption
    DEF vars, TypeOK, ShellInv, OwnerInv, RemoveInv, Live, Registered, Actors,
        requestVars, osVars, runtimeVars, actorVars, shutdownVars
  <1> QED
    BY <1>1, <1>2, <1>3, <1>4, <1>5, <1>6, <1>7, <1>8, <1>9, <1>10, <1>11, <1>12, <1>13,
       <1>14, <1>15, <1>16, <1>17, <1>18, <1>19, <1>20, <1>21, <1>22, <1>23, <1>24,
       <1>25, <1>26, <1>27, <1>28, <1>29, <1>30, <1>31, <1>32, <1>33, <1>34, <1>35,
       <1>36, <1>37, <1>38, <1>39
    DEF Next, ClientActs, RequestRuns, ThreadRuns, ActorRuns, DeleteRuns, ShutdownRuns

LEMMA RemoveStep == TypeOK /\ RemoveInv /\ [Next]_vars => RemoveInv'
  <1> SUFFICES ASSUME TypeOK, RemoveInv, [Next]_vars PROVE RemoveInv'
    OBVIOUS
  <1>1. ASSUME NEW r \in Requests, CreateEnter(r) PROVE RemoveInv'
    BY <1>1, LifecycleAssumption
    DEF CreateEnter, KeepPermits, TypeOK, RemoveInv, WorkSteps, DeleteSteps,
        ShutdownSteps, Actors, requestVars, osVars, runtimeVars, actorVars, shutdownVars
  <1>2. ASSUME NEW r \in Requests, RegisterRefused(r) PROVE RemoveInv'
    BY <1>2, LifecycleAssumption
    DEF RegisterRefused, Finish, KeepPermits, TypeOK, RemoveInv, WorkSteps, DeleteSteps,
        ShutdownSteps, Actors, requestVars, osVars, runtimeVars, actorVars, shutdownVars
  <1>3. ASSUME NEW r \in Requests, RegisterExisting(r) PROVE RemoveInv'
    BY <1>3, LifecycleAssumption
    DEF RegisterExisting, Finish, Compared, KeepPermits, TypeOK, RemoveInv, WorkSteps,
        DeleteSteps, ShutdownSteps, Actors, requestVars, osVars, runtimeVars, actorVars,
        shutdownVars
  <1>4. ASSUME NEW r \in Requests, RegisterSpawn(r) PROVE RemoveInv'
    BY <1>4, LifecycleAssumption
    DEF RegisterSpawn, TypeOK, RemoveInv, WorkSteps, DeleteSteps, ShutdownSteps, Actors,
        requestVars, osVars, runtimeVars, actorVars, shutdownVars
  <1>5. ASSUME NEW r \in Requests, ValidateOk(r) PROVE RemoveInv'
    BY <1>5, LifecycleAssumption
    DEF ValidateOk, KeepPermits, TypeOK, RemoveInv, WorkSteps, DeleteSteps,
        ShutdownSteps, Actors, requestVars, osVars, runtimeVars, actorVars, shutdownVars
  <1>6. ASSUME NEW r \in Requests, ValidateFail(r) PROVE RemoveInv'
    BY <1>6, LifecycleAssumption
    DEF ValidateFail, Finish, DropPermit, TypeOK, RemoveInv, WorkSteps, DeleteSteps,
        ShutdownSteps, Actors, requestVars, osVars, runtimeVars, actorVars, shutdownVars
  <1>7. ASSUME NEW r \in Requests, CancelSpawning(r) PROVE RemoveInv'
    BY <1>7, LifecycleAssumption
    DEF CancelSpawning, KeepPermits, TypeOK, RemoveInv, WorkSteps, DeleteSteps,
        ShutdownSteps, Actors, requestVars, osVars, runtimeVars, actorVars, shutdownVars
  <1>8. ASSUME NEW r \in Requests, SpawnOk(r) PROVE RemoveInv'
    BY <1>8, LifecycleAssumption
    DEF SpawnOk, KeepPermits, TypeOK, RemoveInv, WorkSteps, DeleteSteps, ShutdownSteps,
        Actors, requestVars, osVars, runtimeVars, actorVars, shutdownVars
  <1>9. ASSUME NEW r \in Requests, SpawnAbandoned(r) PROVE RemoveInv'
    BY <1>9, LifecycleAssumption
    DEF SpawnAbandoned, Finish, DropSpawned, KeepPermits, TypeOK, RemoveInv, WorkSteps,
        DeleteSteps, ShutdownSteps, Actors, requestVars, osVars, runtimeVars, actorVars,
        shutdownVars
  <1>10. ASSUME NEW r \in Requests, SpawnFail(r) PROVE RemoveInv'
    BY <1>10, LifecycleAssumption
    DEF SpawnFail, Finish, DropPermit, TypeOK, RemoveInv, WorkSteps, DeleteSteps,
        ShutdownSteps, Actors, requestVars, osVars, runtimeVars, actorVars, shutdownVars
  <1>11. ASSUME NEW r \in Requests, CancelSpawned(r) PROVE RemoveInv'
    BY <1>11, LifecycleAssumption
    DEF CancelSpawned, Finish, DropSpawned, KeepPermits, TypeOK, RemoveInv, WorkSteps,
        DeleteSteps, ShutdownSteps, Actors, requestVars, osVars, runtimeVars, actorVars,
        shutdownVars
  <1>12. ASSUME NEW r \in Requests, CommitRefused(r) PROVE RemoveInv'
    BY <1>12, LifecycleAssumption
    DEF CommitRefused, Finish, DropSpawned, KeepPermits, TypeOK, RemoveInv, WorkSteps,
        DeleteSteps, ShutdownSteps, Actors, requestVars, osVars, runtimeVars, actorVars,
        shutdownVars
  <1>13. ASSUME NEW r \in Requests, CommitLost(r) PROVE RemoveInv'
    BY <1>13, LifecycleAssumption
    DEF CommitLost, Taken, DropSpawned, KeepPermits, TypeOK, RemoveInv, WorkSteps,
        DeleteSteps, ShutdownSteps, Actors, requestVars, osVars, runtimeVars, actorVars,
        shutdownVars
  <1>14. ASSUME NEW r \in Requests, CommitInsert(r) PROVE RemoveInv'
    BY <1>14, LifecycleAssumption
    DEF CommitInsert, KeepPermits, TypeOK, RemoveInv, WorkSteps, DeleteSteps,
        ShutdownSteps, Actors, requestVars, osVars, runtimeVars, actorVars, shutdownVars
  <1>15. ASSUME NEW r \in Requests, CompareWinner(r) PROVE RemoveInv'
    BY <1>15, LifecycleAssumption
    DEF CompareWinner, Finish, Compared, KeepPermits, TypeOK, RemoveInv, WorkSteps,
        DeleteSteps, ShutdownSteps, Actors, requestVars, osVars, runtimeVars, actorVars,
        shutdownVars
  <1>16. ASSUME NEW r \in Requests, StartWorkers(r) PROVE RemoveInv'
    BY <1>16, LifecycleAssumption
    DEF StartWorkers, KeepPermits, TypeOK, RemoveInv, WorkSteps, DeleteSteps,
        ShutdownSteps, Actors, requestVars, osVars, runtimeVars, actorVars, shutdownVars
  <1>17. ASSUME NEW r \in Requests, FinishCreate(r) PROVE RemoveInv'
    BY <1>17, LifecycleAssumption
    DEF FinishCreate, Finish, DropPermit, TypeOK, RemoveInv, WorkSteps, DeleteSteps,
        ShutdownSteps, Actors, requestVars, osVars, runtimeVars, actorVars, shutdownVars
  <1>18. ASSUME NEW r \in Requests, ShellExit(r) PROVE RemoveInv'
    BY <1>18, LifecycleAssumption
    DEF ShellExit, KeepPermits, TypeOK, RemoveInv, WorkSteps, DeleteSteps,
        ShutdownSteps, Actors, requestVars, osVars, runtimeVars, actorVars, shutdownVars
  <1>19. ASSUME NEW r \in Requests, WaitReturns(r) PROVE RemoveInv'
    BY <1>19, LifecycleAssumption
    DEF WaitReturns, KeepPermits, TypeOK, RemoveInv, WorkSteps, DeleteSteps,
        ShutdownSteps, Actors, requestVars, osVars, runtimeVars, actorVars, shutdownVars
  <1>20. ASSUME NEW r \in Requests, WaitFails(r) PROVE RemoveInv'
    BY <1>20, LifecycleAssumption
    DEF WaitFails, KeepPermits, TypeOK, RemoveInv, WorkSteps, DeleteSteps,
        ShutdownSteps, Actors, requestVars, osVars, runtimeVars, actorVars, shutdownVars
  <1>21. ASSUME NEW r \in Requests, MarkBegin(r) PROVE RemoveInv'
    BY <1>21, LifecycleAssumption
    DEF MarkBegin, EndStatus, KeepPermits, TypeOK, RemoveInv, WorkSteps, DeleteSteps,
        ShutdownSteps, Actors, requestVars, osVars, runtimeVars, actorVars, shutdownVars
  <1>22. ASSUME NEW r \in Requests, MarkEnd(r) PROVE RemoveInv'
    BY <1>22, LifecycleAssumption
    DEF MarkEnd, Mark, KeepPermits, TypeOK, RemoveInv, WorkSteps, DeleteSteps,
        ShutdownSteps, Actors, requestVars, osVars, runtimeVars, actorVars, shutdownVars
  <1>23. ASSUME NEW r \in Requests, ReaperDone(r) PROVE RemoveInv'
    BY <1>23, LifecycleAssumption
    DEF ReaperDone, DropPermit, TypeOK, RemoveInv, WorkSteps, DeleteSteps,
        ShutdownSteps, Actors, requestVars, osVars, runtimeVars, actorVars, shutdownVars
  <1>24. ASSUME NEW a \in Actors, KillCheck(a) PROVE RemoveInv'
    BY <1>24, LifecycleAssumption
    DEF KillCheck, AfterKill, KeepPermits, TypeOK, RemoveInv, WorkSteps, DeleteSteps,
        ShutdownSteps, Actors, requestVars, osVars, runtimeVars, actorVars, shutdownVars
  <1>25. ASSUME NEW a \in Actors, KillSignal(a) PROVE RemoveInv'
    BY <1>25, LifecycleAssumption
    DEF KillSignal, AfterKill, KeepPermits, TypeOK, RemoveInv, WorkSteps, DeleteSteps,
        ShutdownSteps, Actors, requestVars, osVars, runtimeVars, actorVars, shutdownVars
  <1>26. ASSUME NEW a \in Actors, ReapSeen(a) PROVE RemoveInv'
    BY <1>26, LifecycleAssumption
    DEF ReapSeen, KeepPermits, TypeOK, RemoveInv, WorkSteps, DeleteSteps, ShutdownSteps,
        Actors, requestVars, osVars, runtimeVars, actorVars, shutdownVars
  <1>27. ASSUME NEW d \in Deletes, DeleteNothing(d) PROVE RemoveInv'
    BY <1>27, LifecycleAssumption
    DEF DeleteNothing, Return, KeepPermits, TypeOK, RemoveInv, WorkSteps, DeleteSteps,
        ShutdownSteps, Actors, requestVars, osVars, runtimeVars, actorVars, shutdownVars
  <1>28. ASSUME NEW d \in Deletes, DeleteFound(d) PROVE RemoveInv'
    BY <1>28, LifecycleAssumption
    DEF DeleteFound, Registered, KeepPermits, TypeOK, RemoveInv, WorkSteps, DeleteSteps,
        ShutdownSteps, Actors, requestVars, osVars, runtimeVars, actorVars, shutdownVars
  <1>29. ASSUME NEW d \in Deletes, DeleteNotify(d) PROVE RemoveInv'
    BY <1>29, LifecycleAssumption
    DEF DeleteNotify, NotifyDeleted, KeepPermits, TypeOK, RemoveInv, WorkSteps,
        DeleteSteps, ShutdownSteps, Actors, requestVars, osVars, runtimeVars, actorVars,
        shutdownVars
  <1>30. ASSUME NEW d \in Deletes, DeleteRemove(d) PROVE RemoveInv'
    BY <1>30, LifecycleAssumption
    DEF DeleteRemove, Return, Without, KeepPermits, TypeOK, RemoveInv, WorkSteps,
        DeleteSteps, ShutdownSteps, Actors, requestVars, osVars, runtimeVars, actorVars,
        shutdownVars
  <1>31. ASSUME NEW d \in Deletes, DeleteTimeout(d) PROVE RemoveInv'
    BY <1>31, LifecycleAssumption
    DEF DeleteTimeout, TimedOut, Return, KeepPermits, TypeOK, RemoveInv, WorkSteps,
        DeleteSteps, ShutdownSteps, Actors, requestVars, osVars, runtimeVars, actorVars,
        shutdownVars
  <1>32. ASSUME ShutdownGate PROVE RemoveInv'
    BY <1>32, LifecycleAssumption
    DEF ShutdownGate, Registered, KeepPermits, TypeOK, RemoveInv, WorkSteps,
        DeleteSteps, ShutdownSteps, Actors, requestVars, osVars, runtimeVars, actorVars,
        shutdownVars
  <1>33. ASSUME ShutdownTimeout PROVE RemoveInv'
    BY <1>33, LifecycleAssumption
    DEF ShutdownTimeout, TimedOut, KeepPermits, TypeOK, RemoveInv, WorkSteps,
        DeleteSteps, ShutdownSteps, Actors, requestVars, osVars, runtimeVars, actorVars,
        shutdownVars
  <1>34. ASSUME ShutdownNext PROVE RemoveInv'
    BY <1>34, LifecycleAssumption
    DEF ShutdownNext, NotifyDeleted, KeepPermits, TypeOK, RemoveInv, WorkSteps,
        DeleteSteps, ShutdownSteps, Actors, requestVars, osVars, runtimeVars, actorVars,
        shutdownVars
  <1>35. ASSUME ShutdownReap PROVE RemoveInv'
    BY <1>35, LifecycleAssumption
    DEF ShutdownReap, KeepPermits, TypeOK, RemoveInv, WorkSteps, DeleteSteps,
        ShutdownSteps, Actors, requestVars, osVars, runtimeVars, actorVars, shutdownVars
  <1>36. ASSUME ShutdownWaitZero PROVE RemoveInv'
    BY <1>36, LifecycleAssumption
    DEF ShutdownWaitZero, KeepPermits, TypeOK, RemoveInv, WorkSteps, DeleteSteps,
        ShutdownSteps, Actors, requestVars, osVars, runtimeVars, actorVars, shutdownVars
  <1>37. ASSUME ShutdownCount PROVE RemoveInv'
    <2>1. CASE NoneInFlight
      BY <1>37, <2>1, LifecycleAssumption
      DEF ShutdownCount, NoneInFlight, Return, KeepPermits, TypeOK, RemoveInv,
          WorkSteps, DeleteSteps, ShutdownSteps, Actors, requestVars, osVars,
          runtimeVars, actorVars, shutdownVars
    <2>2. CASE ~NoneInFlight
      BY <1>37, <2>2, LifecycleAssumption
      DEF ShutdownCount, NoneInFlight, Return, KeepPermits, TypeOK, RemoveInv,
          WorkSteps, DeleteSteps, ShutdownSteps, Actors, requestVars, osVars,
          runtimeVars, actorVars, shutdownVars
    <2> QED
      BY <2>1, <2>2
  <1>38. ASSUME ShutdownWake PROVE RemoveInv'
    BY <1>38, LifecycleAssumption
    DEF ShutdownWake, TypeOK, RemoveInv, WorkSteps, DeleteSteps, ShutdownSteps, Actors,
        requestVars, osVars, runtimeVars, actorVars, shutdownVars
  <1>39. CASE UNCHANGED vars
    BY <1>39, LifecycleAssumption
    DEF vars, TypeOK, RemoveInv, WorkSteps, DeleteSteps, ShutdownSteps, Actors,
        requestVars, osVars, runtimeVars, actorVars, shutdownVars
  <1> QED
    BY <1>1, <1>2, <1>3, <1>4, <1>5, <1>6, <1>7, <1>8, <1>9, <1>10, <1>11, <1>12, <1>13,
       <1>14, <1>15, <1>16, <1>17, <1>18, <1>19, <1>20, <1>21, <1>22, <1>23, <1>24,
       <1>25, <1>26, <1>27, <1>28, <1>29, <1>30, <1>31, <1>32, <1>33, <1>34, <1>35,
       <1>36, <1>37, <1>38, <1>39
    DEF Next, ClientActs, RequestRuns, ThreadRuns, ActorRuns, DeleteRuns, ShutdownRuns

LEMMA GateStep == TypeOK /\ GateInv /\ [Next]_vars => GateInv'
  <1> SUFFICES ASSUME TypeOK, GateInv, [Next]_vars PROVE GateInv'
    OBVIOUS
  <1>1. ASSUME NEW r \in Requests, CreateEnter(r) PROVE GateInv'
    BY <1>1, LifecycleAssumption
    DEF CreateEnter, KeepPermits, TypeOK, GateInv, DeleteSteps, ShutdownSteps, Actors,
        requestVars, osVars, runtimeVars, actorVars, shutdownVars
  <1>2. ASSUME NEW r \in Requests, RegisterRefused(r) PROVE GateInv'
    BY <1>2, LifecycleAssumption
    DEF RegisterRefused, Finish, KeepPermits, TypeOK, GateInv, DeleteSteps,
        ShutdownSteps, Actors, requestVars, osVars, runtimeVars, actorVars, shutdownVars
  <1>3. ASSUME NEW r \in Requests, RegisterExisting(r) PROVE GateInv'
    BY <1>3, LifecycleAssumption
    DEF RegisterExisting, Finish, Compared, KeepPermits, TypeOK, GateInv, DeleteSteps,
        ShutdownSteps, Actors, requestVars, osVars, runtimeVars, actorVars, shutdownVars
  <1>4. ASSUME NEW r \in Requests, RegisterSpawn(r) PROVE GateInv'
    BY <1>4, LifecycleAssumption
    DEF RegisterSpawn, Refused, TypeOK, GateInv, DeleteSteps, ShutdownSteps, Actors,
        requestVars, osVars, runtimeVars, actorVars, shutdownVars
  <1>5. ASSUME NEW r \in Requests, ValidateOk(r) PROVE GateInv'
    BY <1>5, LifecycleAssumption
    DEF ValidateOk, KeepPermits, TypeOK, GateInv, DeleteSteps, ShutdownSteps, Actors,
        requestVars, osVars, runtimeVars, actorVars, shutdownVars
  <1>6. ASSUME NEW r \in Requests, ValidateFail(r) PROVE GateInv'
    BY <1>6, LifecycleAssumption
    DEF ValidateFail, Finish, DropPermit, TypeOK, GateInv, DeleteSteps, ShutdownSteps,
        Actors, requestVars, osVars, runtimeVars, actorVars, shutdownVars
  <1>7. ASSUME NEW r \in Requests, CancelSpawning(r) PROVE GateInv'
    BY <1>7, LifecycleAssumption
    DEF CancelSpawning, KeepPermits, TypeOK, GateInv, DeleteSteps, ShutdownSteps,
        Actors, requestVars, osVars, runtimeVars, actorVars, shutdownVars
  <1>8. ASSUME NEW r \in Requests, SpawnOk(r) PROVE GateInv'
    BY <1>8, LifecycleAssumption
    DEF SpawnOk, KeepPermits, TypeOK, GateInv, DeleteSteps, ShutdownSteps, Actors,
        requestVars, osVars, runtimeVars, actorVars, shutdownVars
  <1>9. ASSUME NEW r \in Requests, SpawnAbandoned(r) PROVE GateInv'
    BY <1>9, LifecycleAssumption
    DEF SpawnAbandoned, Finish, DropSpawned, KeepPermits, TypeOK, GateInv, DeleteSteps,
        ShutdownSteps, Actors, requestVars, osVars, runtimeVars, actorVars, shutdownVars
  <1>10. ASSUME NEW r \in Requests, SpawnFail(r) PROVE GateInv'
    BY <1>10, LifecycleAssumption
    DEF SpawnFail, Finish, DropPermit, TypeOK, GateInv, DeleteSteps, ShutdownSteps,
        Actors, requestVars, osVars, runtimeVars, actorVars, shutdownVars
  <1>11. ASSUME NEW r \in Requests, CancelSpawned(r) PROVE GateInv'
    BY <1>11, LifecycleAssumption
    DEF CancelSpawned, Finish, DropSpawned, KeepPermits, TypeOK, GateInv, DeleteSteps,
        ShutdownSteps, Actors, requestVars, osVars, runtimeVars, actorVars, shutdownVars
  <1>12. ASSUME NEW r \in Requests, CommitRefused(r) PROVE GateInv'
    BY <1>12, LifecycleAssumption
    DEF CommitRefused, Finish, DropSpawned, KeepPermits, TypeOK, GateInv, DeleteSteps,
        ShutdownSteps, Actors, requestVars, osVars, runtimeVars, actorVars, shutdownVars
  <1>13. ASSUME NEW r \in Requests, CommitLost(r) PROVE GateInv'
    BY <1>13, LifecycleAssumption
    DEF CommitLost, Taken, DropSpawned, KeepPermits, TypeOK, GateInv, DeleteSteps,
        ShutdownSteps, Actors, requestVars, osVars, runtimeVars, actorVars, shutdownVars
  <1>14. ASSUME NEW r \in Requests, CommitInsert(r) PROVE GateInv'
    BY <1>14, LifecycleAssumption
    DEF CommitInsert, KeepPermits, Refused, TypeOK, GateInv, DeleteSteps, ShutdownSteps,
        Actors, requestVars, osVars, runtimeVars, actorVars, shutdownVars
  <1>15. ASSUME NEW r \in Requests, CompareWinner(r) PROVE GateInv'
    BY <1>15, LifecycleAssumption
    DEF CompareWinner, Finish, Compared, KeepPermits, TypeOK, GateInv, DeleteSteps,
        ShutdownSteps, Actors, requestVars, osVars, runtimeVars, actorVars, shutdownVars
  <1>16. ASSUME NEW r \in Requests, StartWorkers(r) PROVE GateInv'
    BY <1>16, LifecycleAssumption
    DEF StartWorkers, KeepPermits, TypeOK, GateInv, DeleteSteps, ShutdownSteps, Actors,
        requestVars, osVars, runtimeVars, actorVars, shutdownVars
  <1>17. ASSUME NEW r \in Requests, FinishCreate(r) PROVE GateInv'
    BY <1>17, LifecycleAssumption
    DEF FinishCreate, Finish, DropPermit, TypeOK, GateInv, DeleteSteps, ShutdownSteps,
        Actors, requestVars, osVars, runtimeVars, actorVars, shutdownVars
  <1>18. ASSUME NEW r \in Requests, ShellExit(r) PROVE GateInv'
    BY <1>18, LifecycleAssumption
    DEF ShellExit, KeepPermits, TypeOK, GateInv, DeleteSteps, ShutdownSteps, Actors,
        requestVars, osVars, runtimeVars, actorVars, shutdownVars
  <1>19. ASSUME NEW r \in Requests, WaitReturns(r) PROVE GateInv'
    BY <1>19, LifecycleAssumption
    DEF WaitReturns, KeepPermits, TypeOK, GateInv, DeleteSteps, ShutdownSteps, Actors,
        requestVars, osVars, runtimeVars, actorVars, shutdownVars
  <1>20. ASSUME NEW r \in Requests, WaitFails(r) PROVE GateInv'
    BY <1>20, LifecycleAssumption
    DEF WaitFails, KeepPermits, TypeOK, GateInv, DeleteSteps, ShutdownSteps, Actors,
        requestVars, osVars, runtimeVars, actorVars, shutdownVars
  <1>21. ASSUME NEW r \in Requests, MarkBegin(r) PROVE GateInv'
    BY <1>21, LifecycleAssumption
    DEF MarkBegin, EndStatus, KeepPermits, TypeOK, GateInv, DeleteSteps, ShutdownSteps,
        Actors, requestVars, osVars, runtimeVars, actorVars, shutdownVars
  <1>22. ASSUME NEW r \in Requests, MarkEnd(r) PROVE GateInv'
    BY <1>22, LifecycleAssumption
    DEF MarkEnd, Mark, KeepPermits, TypeOK, GateInv, DeleteSteps, ShutdownSteps, Actors,
        requestVars, osVars, runtimeVars, actorVars, shutdownVars
  <1>23. ASSUME NEW r \in Requests, ReaperDone(r) PROVE GateInv'
    BY <1>23, LifecycleAssumption
    DEF ReaperDone, DropPermit, TypeOK, GateInv, DeleteSteps, ShutdownSteps, Actors,
        requestVars, osVars, runtimeVars, actorVars, shutdownVars
  <1>24. ASSUME NEW a \in Actors, KillCheck(a) PROVE GateInv'
    BY <1>24, LifecycleAssumption
    DEF KillCheck, AfterKill, KeepPermits, TypeOK, GateInv, DeleteSteps, ShutdownSteps,
        Actors, requestVars, osVars, runtimeVars, actorVars, shutdownVars
  <1>25. ASSUME NEW a \in Actors, KillSignal(a) PROVE GateInv'
    BY <1>25, LifecycleAssumption
    DEF KillSignal, AfterKill, KeepPermits, TypeOK, GateInv, DeleteSteps, ShutdownSteps,
        Actors, requestVars, osVars, runtimeVars, actorVars, shutdownVars
  <1>26. ASSUME NEW a \in Actors, ReapSeen(a) PROVE GateInv'
    BY <1>26, LifecycleAssumption
    DEF ReapSeen, KeepPermits, TypeOK, GateInv, DeleteSteps, ShutdownSteps, Actors,
        requestVars, osVars, runtimeVars, actorVars, shutdownVars
  <1>27. ASSUME NEW d \in Deletes, DeleteNothing(d) PROVE GateInv'
    BY <1>27, LifecycleAssumption
    DEF DeleteNothing, Return, KeepPermits, TypeOK, GateInv, DeleteSteps, ShutdownSteps,
        Actors, requestVars, osVars, runtimeVars, actorVars, shutdownVars
  <1>28. ASSUME NEW d \in Deletes, DeleteFound(d) PROVE GateInv'
    BY <1>28, LifecycleAssumption
    DEF DeleteFound, Registered, KeepPermits, TypeOK, GateInv, DeleteSteps,
        ShutdownSteps, Actors, requestVars, osVars, runtimeVars, actorVars, shutdownVars
  <1>29. ASSUME NEW d \in Deletes, DeleteNotify(d) PROVE GateInv'
    BY <1>29, LifecycleAssumption
    DEF DeleteNotify, NotifyDeleted, KeepPermits, TypeOK, GateInv, DeleteSteps,
        ShutdownSteps, Actors, requestVars, osVars, runtimeVars, actorVars, shutdownVars
  <1>30. ASSUME NEW d \in Deletes, DeleteRemove(d) PROVE GateInv'
    BY <1>30, LifecycleAssumption
    DEF DeleteRemove, Return, Without, KeepPermits, TypeOK, GateInv, DeleteSteps,
        ShutdownSteps, Actors, requestVars, osVars, runtimeVars, actorVars, shutdownVars
  <1>31. ASSUME NEW d \in Deletes, DeleteTimeout(d) PROVE GateInv'
    BY <1>31, LifecycleAssumption
    DEF DeleteTimeout, TimedOut, Return, KeepPermits, TypeOK, GateInv, DeleteSteps,
        ShutdownSteps, Actors, requestVars, osVars, runtimeVars, actorVars, shutdownVars
  <1>32. ASSUME ShutdownGate PROVE GateInv'
    BY <1>32, LifecycleAssumption
    DEF ShutdownGate, Registered, KeepPermits, TypeOK, GateInv, DeleteSteps,
        ShutdownSteps, Actors, requestVars, osVars, runtimeVars, actorVars, shutdownVars
  <1>33. ASSUME ShutdownTimeout PROVE GateInv'
    BY <1>33, LifecycleAssumption
    DEF ShutdownTimeout, TimedOut, KeepPermits, TypeOK, GateInv, DeleteSteps,
        ShutdownSteps, Actors, requestVars, osVars, runtimeVars, actorVars, shutdownVars
  <1>34. ASSUME ShutdownNext PROVE GateInv'
    BY <1>34, LifecycleAssumption
    DEF ShutdownNext, NotifyDeleted, KeepPermits, TypeOK, GateInv, DeleteSteps,
        ShutdownSteps, Actors, requestVars, osVars, runtimeVars, actorVars, shutdownVars
  <1>35. ASSUME ShutdownReap PROVE GateInv'
    BY <1>35, LifecycleAssumption
    DEF ShutdownReap, KeepPermits, TypeOK, GateInv, DeleteSteps, ShutdownSteps, Actors,
        requestVars, osVars, runtimeVars, actorVars, shutdownVars
  <1>36. ASSUME ShutdownWaitZero PROVE GateInv'
    BY <1>36, LifecycleAssumption
    DEF ShutdownWaitZero, KeepPermits, TypeOK, GateInv, DeleteSteps, ShutdownSteps,
        Actors, requestVars, osVars, runtimeVars, actorVars, shutdownVars
  <1>37. ASSUME ShutdownCount PROVE GateInv'
    <2>1. CASE NoneInFlight
      BY <1>37, <2>1, LifecycleAssumption
      DEF ShutdownCount, NoneInFlight, Return, KeepPermits, TypeOK, GateInv,
          DeleteSteps, ShutdownSteps, Actors, requestVars, osVars, runtimeVars,
          actorVars, shutdownVars
    <2>2. CASE ~NoneInFlight
      BY <1>37, <2>2, LifecycleAssumption
      DEF ShutdownCount, NoneInFlight, Return, KeepPermits, TypeOK, GateInv,
          DeleteSteps, ShutdownSteps, Actors, requestVars, osVars, runtimeVars,
          actorVars, shutdownVars
    <2> QED
      BY <2>1, <2>2
  <1>38. ASSUME ShutdownWake PROVE GateInv'
    BY <1>38, LifecycleAssumption
    DEF ShutdownWake, TypeOK, GateInv, DeleteSteps, ShutdownSteps, Actors, requestVars,
        osVars, runtimeVars, actorVars, shutdownVars
  <1>39. CASE UNCHANGED vars
    BY <1>39, LifecycleAssumption
    DEF vars, TypeOK, GateInv, DeleteSteps, ShutdownSteps, Actors, requestVars, osVars,
        runtimeVars, actorVars, shutdownVars
  <1> QED
    BY <1>1, <1>2, <1>3, <1>4, <1>5, <1>6, <1>7, <1>8, <1>9, <1>10, <1>11, <1>12, <1>13,
       <1>14, <1>15, <1>16, <1>17, <1>18, <1>19, <1>20, <1>21, <1>22, <1>23, <1>24,
       <1>25, <1>26, <1>27, <1>28, <1>29, <1>30, <1>31, <1>32, <1>33, <1>34, <1>35,
       <1>36, <1>37, <1>38, <1>39
    DEF Next, ClientActs, RequestRuns, ThreadRuns, ActorRuns, DeleteRuns, ShutdownRuns

LEMMA ReapStep == TypeOK /\ GateInv /\ ReapInv /\ [Next]_vars => ReapInv'
  <1> SUFFICES ASSUME TypeOK, GateInv, ReapInv, [Next]_vars PROVE ReapInv'
    OBVIOUS
  <1>1. ASSUME NEW r \in Requests, CreateEnter(r) PROVE ReapInv'
    BY <1>1, LifecycleAssumption
    DEF CreateEnter, KeepPermits, TypeOK, GateInv, ReapInv, DeleteSteps, ShutdownSteps,
        Actors, requestVars, osVars, runtimeVars, actorVars, shutdownVars
  <1>2. ASSUME NEW r \in Requests, RegisterRefused(r) PROVE ReapInv'
    BY <1>2, LifecycleAssumption
    DEF RegisterRefused, Finish, KeepPermits, TypeOK, GateInv, ReapInv, DeleteSteps,
        ShutdownSteps, Actors, requestVars, osVars, runtimeVars, actorVars, shutdownVars
  <1>3. ASSUME NEW r \in Requests, RegisterExisting(r) PROVE ReapInv'
    BY <1>3, LifecycleAssumption
    DEF RegisterExisting, Finish, Compared, KeepPermits, TypeOK, GateInv, ReapInv,
        DeleteSteps, ShutdownSteps, Actors, requestVars, osVars, runtimeVars, actorVars,
        shutdownVars
  <1>4. ASSUME NEW r \in Requests, RegisterSpawn(r) PROVE ReapInv'
    BY <1>4, LifecycleAssumption
    DEF RegisterSpawn, TypeOK, GateInv, ReapInv, DeleteSteps, ShutdownSteps, Actors,
        requestVars, osVars, runtimeVars, actorVars, shutdownVars
  <1>5. ASSUME NEW r \in Requests, ValidateOk(r) PROVE ReapInv'
    BY <1>5, LifecycleAssumption
    DEF ValidateOk, KeepPermits, TypeOK, GateInv, ReapInv, DeleteSteps, ShutdownSteps,
        Actors, requestVars, osVars, runtimeVars, actorVars, shutdownVars
  <1>6. ASSUME NEW r \in Requests, ValidateFail(r) PROVE ReapInv'
    BY <1>6, LifecycleAssumption
    DEF ValidateFail, Finish, DropPermit, TypeOK, GateInv, ReapInv, DeleteSteps,
        ShutdownSteps, Actors, requestVars, osVars, runtimeVars, actorVars, shutdownVars
  <1>7. ASSUME NEW r \in Requests, CancelSpawning(r) PROVE ReapInv'
    BY <1>7, LifecycleAssumption
    DEF CancelSpawning, KeepPermits, TypeOK, GateInv, ReapInv, DeleteSteps,
        ShutdownSteps, Actors, requestVars, osVars, runtimeVars, actorVars, shutdownVars
  <1>8. ASSUME NEW r \in Requests, SpawnOk(r) PROVE ReapInv'
    BY <1>8, LifecycleAssumption
    DEF SpawnOk, KeepPermits, TypeOK, GateInv, ReapInv, DeleteSteps, ShutdownSteps,
        Actors, requestVars, osVars, runtimeVars, actorVars, shutdownVars
  <1>9. ASSUME NEW r \in Requests, SpawnAbandoned(r) PROVE ReapInv'
    BY <1>9, LifecycleAssumption
    DEF SpawnAbandoned, Finish, DropSpawned, KeepPermits, TypeOK, GateInv, ReapInv,
        DeleteSteps, ShutdownSteps, Actors, requestVars, osVars, runtimeVars, actorVars,
        shutdownVars
  <1>10. ASSUME NEW r \in Requests, SpawnFail(r) PROVE ReapInv'
    BY <1>10, LifecycleAssumption
    DEF SpawnFail, Finish, DropPermit, TypeOK, GateInv, ReapInv, DeleteSteps,
        ShutdownSteps, Actors, requestVars, osVars, runtimeVars, actorVars, shutdownVars
  <1>11. ASSUME NEW r \in Requests, CancelSpawned(r) PROVE ReapInv'
    BY <1>11, LifecycleAssumption
    DEF CancelSpawned, Finish, DropSpawned, KeepPermits, TypeOK, GateInv, ReapInv,
        DeleteSteps, ShutdownSteps, Actors, requestVars, osVars, runtimeVars, actorVars,
        shutdownVars
  <1>12. ASSUME NEW r \in Requests, CommitRefused(r) PROVE ReapInv'
    BY <1>12, LifecycleAssumption
    DEF CommitRefused, Finish, DropSpawned, KeepPermits, TypeOK, GateInv, ReapInv,
        DeleteSteps, ShutdownSteps, Actors, requestVars, osVars, runtimeVars, actorVars,
        shutdownVars
  <1>13. ASSUME NEW r \in Requests, CommitLost(r) PROVE ReapInv'
    BY <1>13, LifecycleAssumption
    DEF CommitLost, Taken, DropSpawned, KeepPermits, TypeOK, GateInv, ReapInv,
        DeleteSteps, ShutdownSteps, Actors, requestVars, osVars, runtimeVars, actorVars,
        shutdownVars
  <1>14. ASSUME NEW r \in Requests, CommitInsert(r) PROVE ReapInv'
    BY <1>14, LifecycleAssumption
    DEF CommitInsert, KeepPermits, TypeOK, GateInv, ReapInv, DeleteSteps, ShutdownSteps,
        Actors, requestVars, osVars, runtimeVars, actorVars, shutdownVars
  <1>15. ASSUME NEW r \in Requests, CompareWinner(r) PROVE ReapInv'
    BY <1>15, LifecycleAssumption
    DEF CompareWinner, Finish, Compared, KeepPermits, TypeOK, GateInv, ReapInv,
        DeleteSteps, ShutdownSteps, Actors, requestVars, osVars, runtimeVars, actorVars,
        shutdownVars
  <1>16. ASSUME NEW r \in Requests, StartWorkers(r) PROVE ReapInv'
    BY <1>16, LifecycleAssumption
    DEF StartWorkers, KeepPermits, TypeOK, GateInv, ReapInv, DeleteSteps, ShutdownSteps,
        Actors, requestVars, osVars, runtimeVars, actorVars, shutdownVars
  <1>17. ASSUME NEW r \in Requests, FinishCreate(r) PROVE ReapInv'
    BY <1>17, LifecycleAssumption
    DEF FinishCreate, Finish, DropPermit, TypeOK, GateInv, ReapInv, DeleteSteps,
        ShutdownSteps, Actors, requestVars, osVars, runtimeVars, actorVars, shutdownVars
  <1>18. ASSUME NEW r \in Requests, ShellExit(r) PROVE ReapInv'
    BY <1>18, LifecycleAssumption
    DEF ShellExit, KeepPermits, TypeOK, GateInv, ReapInv, DeleteSteps, ShutdownSteps,
        Actors, requestVars, osVars, runtimeVars, actorVars, shutdownVars
  <1>19. ASSUME NEW r \in Requests, WaitReturns(r) PROVE ReapInv'
    BY <1>19, LifecycleAssumption
    DEF WaitReturns, KeepPermits, TypeOK, GateInv, ReapInv, DeleteSteps, ShutdownSteps,
        Actors, requestVars, osVars, runtimeVars, actorVars, shutdownVars
  <1>20. ASSUME NEW r \in Requests, WaitFails(r) PROVE ReapInv'
    BY <1>20, LifecycleAssumption
    DEF WaitFails, KeepPermits, TypeOK, GateInv, ReapInv, DeleteSteps, ShutdownSteps,
        Actors, requestVars, osVars, runtimeVars, actorVars, shutdownVars
  <1>21. ASSUME NEW r \in Requests, MarkBegin(r) PROVE ReapInv'
    BY <1>21, LifecycleAssumption
    DEF MarkBegin, EndStatus, KeepPermits, TypeOK, GateInv, ReapInv, DeleteSteps,
        ShutdownSteps, Actors, requestVars, osVars, runtimeVars, actorVars, shutdownVars
  <1>22. ASSUME NEW r \in Requests, MarkEnd(r) PROVE ReapInv'
    BY <1>22, LifecycleAssumption
    DEF MarkEnd, Mark, KeepPermits, TypeOK, GateInv, ReapInv, DeleteSteps,
        ShutdownSteps, Actors, requestVars, osVars, runtimeVars, actorVars, shutdownVars
  <1>23. ASSUME NEW r \in Requests, ReaperDone(r) PROVE ReapInv'
    BY <1>23, LifecycleAssumption
    DEF ReaperDone, DropPermit, TypeOK, GateInv, ReapInv, DeleteSteps, ShutdownSteps,
        Actors, requestVars, osVars, runtimeVars, actorVars, shutdownVars
  <1>24. ASSUME NEW a \in Actors, KillCheck(a) PROVE ReapInv'
    BY <1>24, LifecycleAssumption
    DEF KillCheck, AfterKill, KeepPermits, TypeOK, GateInv, ReapInv, DeleteSteps,
        ShutdownSteps, Actors, requestVars, osVars, runtimeVars, actorVars, shutdownVars
  <1>25. ASSUME NEW a \in Actors, KillSignal(a) PROVE ReapInv'
    BY <1>25, LifecycleAssumption
    DEF KillSignal, AfterKill, KeepPermits, TypeOK, GateInv, ReapInv, DeleteSteps,
        ShutdownSteps, Actors, requestVars, osVars, runtimeVars, actorVars, shutdownVars
  <1>26. ASSUME NEW a \in Actors, ReapSeen(a) PROVE ReapInv'
    BY <1>26, LifecycleAssumption
    DEF ReapSeen, KeepPermits, TypeOK, GateInv, ReapInv, DeleteSteps, ShutdownSteps,
        Actors, requestVars, osVars, runtimeVars, actorVars, shutdownVars
  <1>27. ASSUME NEW d \in Deletes, DeleteNothing(d) PROVE ReapInv'
    BY <1>27, LifecycleAssumption
    DEF DeleteNothing, Return, KeepPermits, TypeOK, GateInv, ReapInv, DeleteSteps,
        ShutdownSteps, Actors, requestVars, osVars, runtimeVars, actorVars, shutdownVars
  <1>28. ASSUME NEW d \in Deletes, DeleteFound(d) PROVE ReapInv'
    BY <1>28, LifecycleAssumption
    DEF DeleteFound, Registered, KeepPermits, TypeOK, GateInv, ReapInv, DeleteSteps,
        ShutdownSteps, Actors, requestVars, osVars, runtimeVars, actorVars, shutdownVars
  <1>29. ASSUME NEW d \in Deletes, DeleteNotify(d) PROVE ReapInv'
    BY <1>29, LifecycleAssumption
    DEF DeleteNotify, NotifyDeleted, KeepPermits, TypeOK, GateInv, ReapInv, DeleteSteps,
        ShutdownSteps, Actors, requestVars, osVars, runtimeVars, actorVars, shutdownVars
  <1>30. ASSUME NEW d \in Deletes, DeleteRemove(d) PROVE ReapInv'
    BY <1>30, LifecycleAssumption
    DEF DeleteRemove, Return, Without, KeepPermits, TypeOK, GateInv, ReapInv,
        DeleteSteps, ShutdownSteps, Actors, requestVars, osVars, runtimeVars, actorVars,
        shutdownVars
  <1>31. ASSUME NEW d \in Deletes, DeleteTimeout(d) PROVE ReapInv'
    BY <1>31, LifecycleAssumption
    DEF DeleteTimeout, TimedOut, Return, KeepPermits, TypeOK, GateInv, ReapInv,
        DeleteSteps, ShutdownSteps, Actors, requestVars, osVars, runtimeVars, actorVars,
        shutdownVars
  <1>32. ASSUME ShutdownGate PROVE ReapInv'
    BY <1>32, LifecycleAssumption
    DEF ShutdownGate, Registered, KeepPermits, TypeOK, GateInv, ReapInv, DeleteSteps,
        ShutdownSteps, Actors, requestVars, osVars, runtimeVars, actorVars, shutdownVars
  <1>33. ASSUME ShutdownTimeout PROVE ReapInv'
    BY <1>33, LifecycleAssumption
    DEF ShutdownTimeout, TimedOut, KeepPermits, TypeOK, GateInv, ReapInv, DeleteSteps,
        ShutdownSteps, Actors, requestVars, osVars, runtimeVars, actorVars, shutdownVars
  <1>34. ASSUME ShutdownNext PROVE ReapInv'
    BY <1>34, LifecycleAssumption
    DEF ShutdownNext, NotifyDeleted, KeepPermits, TypeOK, GateInv, ReapInv, DeleteSteps,
        ShutdownSteps, Actors, requestVars, osVars, runtimeVars, actorVars, shutdownVars
  <1>35. ASSUME ShutdownReap PROVE ReapInv'
    BY <1>35, LifecycleAssumption
    DEF ShutdownReap, KeepPermits, TypeOK, GateInv, ReapInv, DeleteSteps, ShutdownSteps,
        Actors, requestVars, osVars, runtimeVars, actorVars, shutdownVars
  <1>36. ASSUME ShutdownWaitZero PROVE ReapInv'
    BY <1>36, LifecycleAssumption
    DEF ShutdownWaitZero, KeepPermits, TypeOK, GateInv, ReapInv, DeleteSteps,
        ShutdownSteps, Actors, requestVars, osVars, runtimeVars, actorVars, shutdownVars
  <1>37. ASSUME ShutdownCount PROVE ReapInv'
    <2>1. CASE NoneInFlight
      BY <1>37, <2>1, LifecycleAssumption
      DEF ShutdownCount, NoneInFlight, Return, KeepPermits, TypeOK, GateInv, ReapInv,
          DeleteSteps, ShutdownSteps, Actors, requestVars, osVars, runtimeVars,
          actorVars, shutdownVars
    <2>2. CASE ~NoneInFlight
      BY <1>37, <2>2, LifecycleAssumption
      DEF ShutdownCount, NoneInFlight, Return, KeepPermits, TypeOK, GateInv, ReapInv,
          DeleteSteps, ShutdownSteps, Actors, requestVars, osVars, runtimeVars,
          actorVars, shutdownVars
    <2> QED
      BY <2>1, <2>2
  <1>38. ASSUME ShutdownWake PROVE ReapInv'
    BY <1>38, LifecycleAssumption
    DEF ShutdownWake, TypeOK, GateInv, ReapInv, DeleteSteps, ShutdownSteps, Actors,
        requestVars, osVars, runtimeVars, actorVars, shutdownVars
  <1>39. CASE UNCHANGED vars
    BY <1>39, LifecycleAssumption
    DEF vars, TypeOK, GateInv, ReapInv, DeleteSteps, ShutdownSteps, Actors, requestVars,
        osVars, runtimeVars, actorVars, shutdownVars
  <1> QED
    BY <1>1, <1>2, <1>3, <1>4, <1>5, <1>6, <1>7, <1>8, <1>9, <1>10, <1>11, <1>12, <1>13,
       <1>14, <1>15, <1>16, <1>17, <1>18, <1>19, <1>20, <1>21, <1>22, <1>23, <1>24,
       <1>25, <1>26, <1>27, <1>28, <1>29, <1>30, <1>31, <1>32, <1>33, <1>34, <1>35,
       <1>36, <1>37, <1>38, <1>39
    DEF Next, ClientActs, RequestRuns, ThreadRuns, ActorRuns, DeleteRuns, ShutdownRuns

\* create inserts under its own id; the drain takes the map as it is.
LEMMA PlaceStep == TypeOK /\ GateInv /\ PlaceInv /\ [Next]_vars => PlaceInv'
  <1> SUFFICES ASSUME TypeOK, GateInv, PlaceInv, [Next]_vars PROVE PlaceInv'
    OBVIOUS
  <1>1. ASSUME NEW r \in Requests, CommitInsert(r) PROVE PlaceInv'
    BY <1>1, LifecycleAssumption
    DEF CommitInsert, Actors, GateInv, KeepPermits, PlaceInv, Refused, Taken,
        TypeOK, requestVars, osVars, runtimeVars, actorVars, shutdownVars
  <1>2. ASSUME NEW d \in Deletes, DeleteRemove(d) PROVE PlaceInv'
    BY <1>2, LifecycleAssumption
    DEF DeleteRemove, Actors, GateInv, KeepPermits, PlaceInv, Return, TypeOK,
        Without, requestVars, osVars, runtimeVars, actorVars, shutdownVars
  <1>3. ASSUME ShutdownGate PROVE PlaceInv'
    BY <1>3, LifecycleAssumption
    DEF ShutdownGate, Actors, GateInv, KeepPermits, PlaceInv, Registered, TypeOK,
        requestVars, osVars, runtimeVars, actorVars, shutdownVars
  <1>4. ASSUME UNCHANGED <<runtimes, want, drained>> PROVE PlaceInv'
    BY <1>4
    DEF PlaceInv
  <1> QED
    BY <1>1, <1>2, <1>3, <1>4
    DEF Next, ClientActs, RequestRuns, ThreadRuns, ActorRuns, DeleteRuns,
        ShutdownRuns, CreateEnter, RegisterRefused, RegisterExisting, RegisterSpawn,
        ValidateOk, ValidateFail, CancelSpawning, SpawnOk, SpawnAbandoned,
        SpawnFail, CancelSpawned, CommitRefused, CommitLost, CompareWinner,
        StartWorkers, FinishCreate, ShellExit, WaitReturns, WaitFails, MarkBegin,
        MarkEnd, ReaperDone, KillCheck, KillSignal, ReapSeen, DeleteNothing,
        DeleteFound, DeleteNotify, DeleteTimeout, ShutdownTimeout, ShutdownNext,
        ShutdownReap, ShutdownWaitZero, ShutdownCount, ShutdownWake, DropPermit,
        DropSpawned, Finish, KeepPermits, Mark, NotifyDeleted, Return, vars,
        requestVars, osVars, runtimeVars, actorVars, shutdownVars

\* The answer is the last step of a request, and only FinishCreate says Created.
LEMMA AnswerStep == TypeOK /\ ShellInv /\ AnswerInv /\ [Next]_vars => AnswerInv'
  <1> SUFFICES ASSUME TypeOK, ShellInv, AnswerInv, [Next]_vars PROVE AnswerInv'
    OBVIOUS
  <1>1. ASSUME NEW r \in Requests, CreateEnter(r) PROVE AnswerInv'
    BY <1>1, LifecycleAssumption
    DEF CreateEnter, Actors, AnswerInv, KeepPermits, ShellInv, Spawning, TypeOK,
        requestVars, osVars, runtimeVars, actorVars, shutdownVars
  <1>2. ASSUME NEW r \in Requests, RegisterRefused(r) PROVE AnswerInv'
    BY <1>2, LifecycleAssumption
    DEF RegisterRefused, Actors, AnswerInv, Finish, KeepPermits, Refused, ShellInv,
        Spawning, TypeOK, requestVars, osVars, runtimeVars, actorVars, shutdownVars
  <1>3. ASSUME NEW r \in Requests, RegisterExisting(r) PROVE AnswerInv'
    BY <1>3, LifecycleAssumption
    DEF RegisterExisting, Actors, AnswerInv, Compared, Finish, KeepPermits, Refused,
        ShellInv, Spawning, Taken, TypeOK, requestVars, osVars, runtimeVars,
        actorVars, shutdownVars
  <1>4. ASSUME NEW r \in Requests, RegisterSpawn(r) PROVE AnswerInv'
    BY <1>4, LifecycleAssumption
    DEF RegisterSpawn, Actors, AnswerInv, Refused, ShellInv, Spawning, Taken,
        TypeOK, requestVars, osVars, runtimeVars, actorVars, shutdownVars
  <1>5. ASSUME NEW r \in Requests, ValidateOk(r) PROVE AnswerInv'
    BY <1>5, LifecycleAssumption
    DEF ValidateOk, Actors, AnswerInv, KeepPermits, ShellInv, Spawning, TypeOK,
        requestVars, osVars, runtimeVars, actorVars, shutdownVars
  <1>6. ASSUME NEW r \in Requests, ValidateFail(r) PROVE AnswerInv'
    BY <1>6, LifecycleAssumption
    DEF ValidateFail, Actors, AnswerInv, DropPermit, Finish, ShellInv, Spawning,
        TypeOK, requestVars, osVars, runtimeVars, actorVars, shutdownVars
  <1>7. ASSUME NEW r \in Requests, CancelSpawning(r) PROVE AnswerInv'
    BY <1>7, LifecycleAssumption
    DEF CancelSpawning, Actors, AnswerInv, KeepPermits, ShellInv, Spawning, TypeOK,
        requestVars, osVars, runtimeVars, actorVars, shutdownVars
  <1>8. ASSUME NEW r \in Requests, SpawnOk(r) PROVE AnswerInv'
    BY <1>8, LifecycleAssumption
    DEF SpawnOk, Actors, AnswerInv, KeepPermits, ShellInv, Spawning, TypeOK,
        requestVars, osVars, runtimeVars, actorVars, shutdownVars
  <1>9. ASSUME NEW r \in Requests, SpawnAbandoned(r) PROVE AnswerInv'
    BY <1>9, LifecycleAssumption
    DEF SpawnAbandoned, Actors, AnswerInv, DropSpawned, Finish, KeepPermits,
        ShellInv, Spawning, TypeOK, requestVars, osVars, runtimeVars, actorVars,
        shutdownVars
  <1>10. ASSUME NEW r \in Requests, SpawnFail(r) PROVE AnswerInv'
    BY <1>10, LifecycleAssumption
    DEF SpawnFail, Actors, AnswerInv, DropPermit, Finish, ShellInv, Spawning,
        TypeOK, requestVars, osVars, runtimeVars, actorVars, shutdownVars
  <1>11. ASSUME NEW r \in Requests, CancelSpawned(r) PROVE AnswerInv'
    BY <1>11, LifecycleAssumption
    DEF CancelSpawned, Actors, AnswerInv, DropSpawned, Finish, KeepPermits,
        ShellInv, Spawning, TypeOK, requestVars, osVars, runtimeVars, actorVars,
        shutdownVars
  <1>12. ASSUME NEW r \in Requests, CommitRefused(r) PROVE AnswerInv'
    BY <1>12, LifecycleAssumption
    DEF CommitRefused, Actors, AnswerInv, DropSpawned, Finish, KeepPermits, Refused,
        ShellInv, Spawning, TypeOK, requestVars, osVars, runtimeVars, actorVars,
        shutdownVars
  <1>13. ASSUME NEW r \in Requests, CommitLost(r) PROVE AnswerInv'
    BY <1>13, LifecycleAssumption
    DEF CommitLost, Actors, AnswerInv, DropSpawned, KeepPermits, Refused, ShellInv,
        Spawning, Taken, TypeOK, requestVars, osVars, runtimeVars, actorVars,
        shutdownVars
  <1>14. ASSUME NEW r \in Requests, CommitInsert(r) PROVE AnswerInv'
    BY <1>14, LifecycleAssumption
    DEF CommitInsert, Actors, AnswerInv, KeepPermits, Refused, ShellInv, Spawning,
        Taken, TypeOK, requestVars, osVars, runtimeVars, actorVars, shutdownVars
  <1>15. ASSUME NEW r \in Requests, CompareWinner(r) PROVE AnswerInv'
    BY <1>15, LifecycleAssumption
    DEF CompareWinner, Actors, AnswerInv, Compared, Finish, KeepPermits, ShellInv,
        Spawning, TypeOK, requestVars, osVars, runtimeVars, actorVars, shutdownVars
  <1>16. ASSUME NEW r \in Requests, StartWorkers(r) PROVE AnswerInv'
    BY <1>16, LifecycleAssumption
    DEF StartWorkers, Actors, AnswerInv, KeepPermits, ShellInv, Spawning, TypeOK,
        requestVars, osVars, runtimeVars, actorVars, shutdownVars
  <1>17. ASSUME NEW r \in Requests, FinishCreate(r) PROVE AnswerInv'
    BY <1>17, LifecycleAssumption
    DEF FinishCreate, Actors, AnswerInv, DropPermit, Finish, ShellInv, Spawning,
        TypeOK, requestVars, osVars, runtimeVars, actorVars, shutdownVars
  <1>18. ASSUME UNCHANGED <<pc, answer, dropped>> PROVE AnswerInv'
    BY <1>18
    DEF AnswerInv
  <1> QED
    BY <1>1, <1>2, <1>3, <1>4, <1>5, <1>6, <1>7, <1>8, <1>9, <1>10, <1>11, <1>12,
       <1>13, <1>14, <1>15, <1>16, <1>17, <1>18
    DEF Next, ClientActs, RequestRuns, ThreadRuns, ActorRuns, DeleteRuns,
        ShutdownRuns, ShellExit, WaitReturns, WaitFails, MarkBegin, MarkEnd,
        ReaperDone, KillCheck, KillSignal, ReapSeen, DeleteNothing, DeleteFound,
        DeleteNotify, DeleteRemove, DeleteTimeout, ShutdownGate, ShutdownTimeout,
        ShutdownNext, ShutdownReap, ShutdownWaitZero, ShutdownCount, ShutdownWake,
        DropPermit, KeepPermits, Mark, NotifyDeleted, Return, vars, requestVars,
        osVars, runtimeVars, actorVars, shutdownVars

\* A thread gets the child when the request lets go of it.
LEMMA UnbornStep == TypeOK /\ UnbornInv /\ [Next]_vars => UnbornInv'
  <1> SUFFICES ASSUME TypeOK, UnbornInv, [Next]_vars PROVE UnbornInv'
    OBVIOUS
  <1>1. ASSUME NEW r \in Requests, CreateEnter(r) PROVE UnbornInv'
    BY <1>1, LifecycleAssumption
    DEF CreateEnter, Actors, KeepPermits, TypeOK, UnbornInv, requestVars, osVars,
        runtimeVars, actorVars, shutdownVars
  <1>2. ASSUME NEW r \in Requests, RegisterRefused(r) PROVE UnbornInv'
    BY <1>2, LifecycleAssumption
    DEF RegisterRefused, Actors, Finish, KeepPermits, Refused, TypeOK, UnbornInv,
        requestVars, osVars, runtimeVars, actorVars, shutdownVars
  <1>3. ASSUME NEW r \in Requests, RegisterExisting(r) PROVE UnbornInv'
    BY <1>3, LifecycleAssumption
    DEF RegisterExisting, Actors, Compared, Finish, KeepPermits, Refused, Taken,
        TypeOK, UnbornInv, requestVars, osVars, runtimeVars, actorVars, shutdownVars
  <1>4. ASSUME NEW r \in Requests, RegisterSpawn(r) PROVE UnbornInv'
    BY <1>4, LifecycleAssumption
    DEF RegisterSpawn, Actors, Refused, Taken, TypeOK, UnbornInv, requestVars,
        osVars, runtimeVars, actorVars, shutdownVars
  <1>5. ASSUME NEW r \in Requests, ValidateOk(r) PROVE UnbornInv'
    BY <1>5, LifecycleAssumption
    DEF ValidateOk, Actors, KeepPermits, TypeOK, UnbornInv, requestVars, osVars,
        runtimeVars, actorVars, shutdownVars
  <1>6. ASSUME NEW r \in Requests, ValidateFail(r) PROVE UnbornInv'
    BY <1>6, LifecycleAssumption
    DEF ValidateFail, Actors, DropPermit, Finish, TypeOK, UnbornInv, requestVars,
        osVars, runtimeVars, actorVars, shutdownVars
  <1>7. ASSUME NEW r \in Requests, CancelSpawning(r) PROVE UnbornInv'
    BY <1>7, LifecycleAssumption
    DEF CancelSpawning, Actors, KeepPermits, TypeOK, UnbornInv, requestVars, osVars,
        runtimeVars, actorVars, shutdownVars
  <1>8. ASSUME NEW r \in Requests, SpawnOk(r) PROVE UnbornInv'
    BY <1>8, LifecycleAssumption
    DEF SpawnOk, Actors, KeepPermits, TypeOK, UnbornInv, requestVars, osVars,
        runtimeVars, actorVars, shutdownVars
  <1>9. ASSUME NEW r \in Requests, SpawnAbandoned(r) PROVE UnbornInv'
    BY <1>9, LifecycleAssumption
    DEF SpawnAbandoned, Actors, DropSpawned, Finish, KeepPermits, TypeOK, UnbornInv,
        requestVars, osVars, runtimeVars, actorVars, shutdownVars
  <1>10. ASSUME NEW r \in Requests, SpawnFail(r) PROVE UnbornInv'
    BY <1>10, LifecycleAssumption
    DEF SpawnFail, Actors, DropPermit, Finish, TypeOK, UnbornInv, requestVars,
        osVars, runtimeVars, actorVars, shutdownVars
  <1>11. ASSUME NEW r \in Requests, CancelSpawned(r) PROVE UnbornInv'
    BY <1>11, LifecycleAssumption
    DEF CancelSpawned, Actors, DropSpawned, Finish, KeepPermits, TypeOK, UnbornInv,
        requestVars, osVars, runtimeVars, actorVars, shutdownVars
  <1>12. ASSUME NEW r \in Requests, CommitRefused(r) PROVE UnbornInv'
    BY <1>12, LifecycleAssumption
    DEF CommitRefused, Actors, DropSpawned, Finish, KeepPermits, Refused, TypeOK,
        UnbornInv, requestVars, osVars, runtimeVars, actorVars, shutdownVars
  <1>13. ASSUME NEW r \in Requests, CommitLost(r) PROVE UnbornInv'
    BY <1>13, LifecycleAssumption
    DEF CommitLost, Actors, DropSpawned, KeepPermits, Refused, Taken, TypeOK,
        UnbornInv, requestVars, osVars, runtimeVars, actorVars, shutdownVars
  <1>14. ASSUME NEW r \in Requests, CommitInsert(r) PROVE UnbornInv'
    BY <1>14, LifecycleAssumption
    DEF CommitInsert, Actors, KeepPermits, Refused, Taken, TypeOK, UnbornInv,
        requestVars, osVars, runtimeVars, actorVars, shutdownVars
  <1>15. ASSUME NEW r \in Requests, CompareWinner(r) PROVE UnbornInv'
    BY <1>15, LifecycleAssumption
    DEF CompareWinner, Actors, Compared, Finish, KeepPermits, TypeOK, UnbornInv,
        requestVars, osVars, runtimeVars, actorVars, shutdownVars
  <1>16. ASSUME NEW r \in Requests, StartWorkers(r) PROVE UnbornInv'
    BY <1>16, LifecycleAssumption
    DEF StartWorkers, Actors, KeepPermits, TypeOK, UnbornInv, requestVars, osVars,
        runtimeVars, actorVars, shutdownVars
  <1>17. ASSUME NEW r \in Requests, FinishCreate(r) PROVE UnbornInv'
    BY <1>17, LifecycleAssumption
    DEF FinishCreate, Actors, DropPermit, Finish, TypeOK, UnbornInv, requestVars,
        osVars, runtimeVars, actorVars, shutdownVars
  <1>18. ASSUME NEW r \in Requests, WaitReturns(r) PROVE UnbornInv'
    BY <1>18, LifecycleAssumption
    DEF WaitReturns, Actors, KeepPermits, TypeOK, UnbornInv, requestVars, osVars,
        runtimeVars, actorVars, shutdownVars
  <1>19. ASSUME NEW r \in Requests, WaitFails(r) PROVE UnbornInv'
    BY <1>19, LifecycleAssumption
    DEF WaitFails, Actors, KeepPermits, TypeOK, UnbornInv, requestVars, osVars,
        runtimeVars, actorVars, shutdownVars
  <1>20. ASSUME NEW r \in Requests, MarkBegin(r) PROVE UnbornInv'
    BY <1>20, LifecycleAssumption
    DEF MarkBegin, Actors, EndStatus, KeepPermits, TypeOK, UnbornInv, requestVars,
        osVars, runtimeVars, actorVars, shutdownVars
  <1>21. ASSUME NEW r \in Requests, MarkEnd(r) PROVE UnbornInv'
    BY <1>21, LifecycleAssumption
    DEF MarkEnd, Actors, Guarded, KeepPermits, Mark, TypeOK, UnbornInv, requestVars,
        osVars, runtimeVars, actorVars, shutdownVars
  <1>22. ASSUME NEW r \in Requests, ReaperDone(r) PROVE UnbornInv'
    BY <1>22, LifecycleAssumption
    DEF ReaperDone, Actors, DropPermit, TypeOK, UnbornInv, requestVars, osVars,
        runtimeVars, actorVars, shutdownVars
  <1>23. ASSUME UNCHANGED <<pc, thread, reaped>> PROVE UnbornInv'
    BY <1>23
    DEF UnbornInv
  <1> QED
    BY <1>1, <1>2, <1>3, <1>4, <1>5, <1>6, <1>7, <1>8, <1>9, <1>10, <1>11, <1>12,
       <1>13, <1>14, <1>15, <1>16, <1>17, <1>18, <1>19, <1>20, <1>21, <1>22, <1>23
    DEF Next, ClientActs, RequestRuns, ThreadRuns, ActorRuns, DeleteRuns,
        ShutdownRuns, ShellExit, KillCheck, KillSignal, ReapSeen, DeleteNothing,
        DeleteFound, DeleteNotify, DeleteRemove, DeleteTimeout, ShutdownGate,
        ShutdownTimeout, ShutdownNext, ShutdownReap, ShutdownWaitZero,
        ShutdownCount, ShutdownWake, KeepPermits, NotifyDeleted, Return, vars,
        requestVars, osVars, runtimeVars, actorVars, shutdownVars

\* What a delete task has removed cannot be inserted again.
LEMMA GoneStep == TypeOK /\ RemoveInv /\ UnbornInv /\ GoneInv /\ [Next]_vars => GoneInv'
  <1> SUFFICES ASSUME TypeOK, RemoveInv, UnbornInv, GoneInv, [Next]_vars PROVE GoneInv'
    OBVIOUS
  <1>1. ASSUME NEW r \in Requests, CommitInsert(r) PROVE GoneInv'
    BY <1>1, LifecycleAssumption
    DEF CommitInsert, Actors, DeleteMeansGone, DeleteSteps, GoneInv, KeepPermits,
        Refused, Registered, RemoveInv, ShutdownSteps, Taken, TypeOK, UnbornInv,
        requestVars, osVars, runtimeVars, actorVars, shutdownVars
  <1>2. ASSUME NEW r \in Requests, MarkEnd(r) PROVE GoneInv'
    BY <1>2, LifecycleAssumption
    DEF MarkEnd, Actors, DeleteMeansGone, DeleteSteps, GoneInv, Guarded,
        KeepPermits, Mark, Registered, RemoveInv, ShutdownSteps, TypeOK, UnbornInv,
        requestVars, osVars, runtimeVars, actorVars, shutdownVars
  <1>3. ASSUME NEW a \in Actors, KillCheck(a) PROVE GoneInv'
    BY <1>3, LifecycleAssumption
    DEF KillCheck, Actors, AfterKill, DeleteMeansGone, DeleteSteps, GoneInv,
        Guarded, KeepPermits, Registered, RemoveInv, ShutdownSteps, TypeOK,
        UnbornInv, requestVars, osVars, runtimeVars, actorVars, shutdownVars
  <1>4. ASSUME NEW a \in Actors, KillSignal(a) PROVE GoneInv'
    BY <1>4, LifecycleAssumption
    DEF KillSignal, Actors, AfterKill, DeleteMeansGone, DeleteSteps, GoneInv,
        KeepPermits, Registered, RemoveInv, ShutdownSteps, TypeOK, UnbornInv,
        requestVars, osVars, runtimeVars, actorVars, shutdownVars
  <1>5. ASSUME NEW a \in Actors, ReapSeen(a) PROVE GoneInv'
    BY <1>5, LifecycleAssumption
    DEF ReapSeen, Actors, DeleteMeansGone, DeleteSteps, GoneInv, Guarded,
        KeepPermits, Registered, RemoveInv, ShutdownSteps, TypeOK, UnbornInv,
        requestVars, osVars, runtimeVars, actorVars, shutdownVars
  <1>6. ASSUME NEW d \in Deletes, DeleteNothing(d) PROVE GoneInv'
    BY <1>6, LifecycleAssumption
    DEF DeleteNothing, Actors, DeleteMeansGone, DeleteSteps, GoneInv, KeepPermits,
        Registered, RemoveInv, Return, ShutdownSteps, TypeOK, UnbornInv,
        requestVars, osVars, runtimeVars, actorVars, shutdownVars
  <1>7. ASSUME NEW d \in Deletes, DeleteFound(d) PROVE GoneInv'
    BY <1>7, LifecycleAssumption
    DEF DeleteFound, Actors, DeleteMeansGone, DeleteSteps, GoneInv, KeepPermits,
        Registered, RemoveInv, ShutdownSteps, TypeOK, UnbornInv, requestVars,
        osVars, runtimeVars, actorVars, shutdownVars
  <1>8. ASSUME NEW d \in Deletes, DeleteNotify(d) PROVE GoneInv'
    BY <1>8, LifecycleAssumption
    DEF DeleteNotify, Actors, DeleteMeansGone, DeleteSteps, GoneInv, KeepPermits,
        NotifyDeleted, Registered, RemoveInv, ShutdownSteps, TypeOK, UnbornInv,
        requestVars, osVars, runtimeVars, actorVars, shutdownVars
  <1>9. ASSUME NEW d \in Deletes, DeleteRemove(d) PROVE GoneInv'
    BY <1>9, LifecycleAssumption
    DEF DeleteRemove, Actors, DeleteMeansGone, DeleteSteps, GoneInv, KeepPermits,
        Registered, RemoveInv, Return, ShutdownSteps, TypeOK, UnbornInv, Without,
        requestVars, osVars, runtimeVars, actorVars, shutdownVars
  <1>10. ASSUME NEW d \in Deletes, DeleteTimeout(d) PROVE GoneInv'
    BY <1>10, LifecycleAssumption
    DEF DeleteTimeout, Actors, DeleteMeansGone, DeleteSteps, GoneInv, Guarded,
        KeepPermits, Registered, RemoveInv, Return, ShutdownSteps, TimedOut, TypeOK,
        UnbornInv, requestVars, osVars, runtimeVars, actorVars, shutdownVars
  <1>11. ASSUME ShutdownGate PROVE GoneInv'
    BY <1>11, LifecycleAssumption
    DEF ShutdownGate, Actors, DeleteMeansGone, DeleteSteps, GoneInv, KeepPermits,
        Registered, RemoveInv, ShutdownSteps, TypeOK, UnbornInv, requestVars,
        osVars, runtimeVars, actorVars, shutdownVars
  <1>12. ASSUME ShutdownTimeout PROVE GoneInv'
    BY <1>12, LifecycleAssumption
    DEF ShutdownTimeout, Actors, DeleteMeansGone, DeleteSteps, GoneInv, Guarded,
        KeepPermits, Registered, RemoveInv, ShutdownSteps, TimedOut, TypeOK,
        UnbornInv, requestVars, osVars, runtimeVars, actorVars, shutdownVars
  <1>13. ASSUME ShutdownNext PROVE GoneInv'
    BY <1>13, LifecycleAssumption
    DEF ShutdownNext, Actors, DeleteMeansGone, DeleteSteps, GoneInv, KeepPermits,
        NotifyDeleted, Registered, RemoveInv, ShutdownSteps, TypeOK, UnbornInv,
        requestVars, osVars, runtimeVars, actorVars, shutdownVars
  <1>14. ASSUME ShutdownWaitZero PROVE GoneInv'
    BY <1>14, LifecycleAssumption
    DEF ShutdownWaitZero, Actors, DeleteMeansGone, DeleteSteps, GoneInv,
        KeepPermits, Registered, RemoveInv, ShutdownSteps, TypeOK, UnbornInv,
        requestVars, osVars, runtimeVars, actorVars, shutdownVars
  <1>15. ASSUME ShutdownCount PROVE GoneInv'
    <2>1. CASE NoneInFlight
      BY <1>15, <2>1, LifecycleAssumption
      DEF ShutdownCount, Actors, DeleteMeansGone, DeleteSteps, GoneInv, KeepPermits,
          NoneInFlight, Registered, RemoveInv, Return, ShutdownSteps, TypeOK,
          UnbornInv, requestVars, osVars, runtimeVars, actorVars, shutdownVars
    <2>2. CASE ~NoneInFlight
      BY <1>15, <2>2, LifecycleAssumption
      DEF ShutdownCount, Actors, DeleteMeansGone, DeleteSteps, GoneInv, KeepPermits,
          NoneInFlight, Registered, RemoveInv, Return, ShutdownSteps, TypeOK,
          UnbornInv, requestVars, osVars, runtimeVars, actorVars, shutdownVars
    <2> QED
      BY <2>1, <2>2
  <1>16. ASSUME ShutdownWake PROVE GoneInv'
    BY <1>16, LifecycleAssumption
    DEF ShutdownWake, Actors, DeleteMeansGone, DeleteSteps, GoneInv, Registered,
        RemoveInv, ShutdownSteps, TypeOK, UnbornInv, requestVars, osVars,
        runtimeVars, actorVars, shutdownVars
  <1>17. ASSUME UNCHANGED <<runtimes, reaped, at, outcome, target>> PROVE GoneInv'
    BY <1>17
    DEF DeleteMeansGone, GoneInv, Registered
  <1> QED
    BY <1>1, <1>2, <1>3, <1>4, <1>5, <1>6, <1>7, <1>8, <1>9, <1>10, <1>11, <1>12,
       <1>13, <1>14, <1>15, <1>16, <1>17
    DEF Next, ClientActs, RequestRuns, ThreadRuns, ActorRuns, DeleteRuns,
        ShutdownRuns, CreateEnter, RegisterRefused, RegisterExisting, RegisterSpawn,
        ValidateOk, ValidateFail, CancelSpawning, SpawnOk, SpawnAbandoned,
        SpawnFail, CancelSpawned, CommitRefused, CommitLost, CompareWinner,
        StartWorkers, FinishCreate, ShellExit, WaitReturns, WaitFails, MarkBegin,
        ReaperDone, ShutdownReap, DropPermit, DropSpawned, Finish, KeepPermits,
        vars, requestVars, osVars, runtimeVars, actorVars, shutdownVars

\* The status follows the thread that owns the child.
LEMMA StatusStep == TypeOK /\ ShellInv /\ UnbornInv /\ StatusInv /\ [Next]_vars => StatusInv'
  <1> SUFFICES ASSUME TypeOK, ShellInv, UnbornInv, StatusInv, [Next]_vars PROVE StatusInv'
    OBVIOUS
  <1>1. ASSUME NEW r \in Requests, SpawnOk(r) PROVE StatusInv'
    BY <1>1, LifecycleAssumption
    DEF SpawnOk, Actors, KeepPermits, ShellInv, Spawning, StatusInv, StatusTruthful,
        TypeOK, UnbornInv, requestVars, osVars, runtimeVars, actorVars, shutdownVars
  <1>2. ASSUME NEW r \in Requests, SpawnAbandoned(r) PROVE StatusInv'
    BY <1>2, LifecycleAssumption
    DEF SpawnAbandoned, Actors, DropSpawned, Finish, KeepPermits, ShellInv,
        Spawning, StatusInv, StatusTruthful, TypeOK, UnbornInv, requestVars, osVars,
        runtimeVars, actorVars, shutdownVars
  <1>3. ASSUME NEW r \in Requests, CancelSpawned(r) PROVE StatusInv'
    BY <1>3, LifecycleAssumption
    DEF CancelSpawned, Actors, DropSpawned, Finish, KeepPermits, ShellInv, Spawning,
        StatusInv, StatusTruthful, TypeOK, UnbornInv, requestVars, osVars,
        runtimeVars, actorVars, shutdownVars
  <1>4. ASSUME NEW r \in Requests, CommitRefused(r) PROVE StatusInv'
    BY <1>4, LifecycleAssumption
    DEF CommitRefused, Actors, DropSpawned, Finish, KeepPermits, Refused, ShellInv,
        Spawning, StatusInv, StatusTruthful, TypeOK, UnbornInv, requestVars, osVars,
        runtimeVars, actorVars, shutdownVars
  <1>5. ASSUME NEW r \in Requests, CommitLost(r) PROVE StatusInv'
    BY <1>5, LifecycleAssumption
    DEF CommitLost, Actors, DropSpawned, KeepPermits, Refused, ShellInv, Spawning,
        StatusInv, StatusTruthful, Taken, TypeOK, UnbornInv, requestVars, osVars,
        runtimeVars, actorVars, shutdownVars
  <1>6. ASSUME NEW r \in Requests, StartWorkers(r) PROVE StatusInv'
    BY <1>6, LifecycleAssumption
    DEF StartWorkers, Actors, KeepPermits, ShellInv, Spawning, StatusInv,
        StatusTruthful, TypeOK, UnbornInv, requestVars, osVars, runtimeVars,
        actorVars, shutdownVars
  <1>7. ASSUME NEW r \in Requests, ShellExit(r) PROVE StatusInv'
    BY <1>7, LifecycleAssumption
    DEF ShellExit, Actors, KeepPermits, ShellInv, Spawning, StatusInv,
        StatusTruthful, TypeOK, UnbornInv, requestVars, osVars, runtimeVars,
        actorVars, shutdownVars
  <1>8. ASSUME NEW r \in Requests, WaitReturns(r) PROVE StatusInv'
    BY <1>8, LifecycleAssumption
    DEF WaitReturns, Actors, KeepPermits, ShellInv, Spawning, StatusInv,
        StatusTruthful, TypeOK, UnbornInv, requestVars, osVars, runtimeVars,
        actorVars, shutdownVars
  <1>9. ASSUME NEW r \in Requests, WaitFails(r) PROVE StatusInv'
    BY <1>9, LifecycleAssumption
    DEF WaitFails, Actors, KeepPermits, ShellInv, Spawning, StatusInv,
        StatusTruthful, TypeOK, UnbornInv, requestVars, osVars, runtimeVars,
        actorVars, shutdownVars
  <1>10. ASSUME NEW r \in Requests, MarkBegin(r) PROVE StatusInv'
    BY <1>10, LifecycleAssumption
    DEF MarkBegin, Actors, EndStatus, KeepPermits, ShellInv, Spawning, StatusInv,
        StatusTruthful, TypeOK, UnbornInv, requestVars, osVars, runtimeVars,
        actorVars, shutdownVars
  <1>11. ASSUME NEW r \in Requests, MarkEnd(r) PROVE StatusInv'
    BY <1>11, LifecycleAssumption
    DEF MarkEnd, Actors, Guarded, KeepPermits, Mark, ShellInv, Spawning, StatusInv,
        StatusTruthful, TypeOK, UnbornInv, requestVars, osVars, runtimeVars,
        actorVars, shutdownVars
  <1>12. ASSUME NEW r \in Requests, ReaperDone(r) PROVE StatusInv'
    BY <1>12, LifecycleAssumption
    DEF ReaperDone, Actors, DropPermit, ShellInv, Spawning, StatusInv,
        StatusTruthful, TypeOK, UnbornInv, requestVars, osVars, runtimeVars,
        actorVars, shutdownVars
  <1>13. ASSUME NEW d \in Deletes, DeleteNotify(d) PROVE StatusInv'
    BY <1>13, LifecycleAssumption
    DEF DeleteNotify, Actors, KeepPermits, NotifyDeleted, ShellInv, Spawning,
        StatusInv, StatusTruthful, TypeOK, UnbornInv, requestVars, osVars,
        runtimeVars, actorVars, shutdownVars
  <1>14. ASSUME ShutdownNext PROVE StatusInv'
    BY <1>14, LifecycleAssumption
    DEF ShutdownNext, Actors, KeepPermits, NotifyDeleted, ShellInv, Spawning,
        StatusInv, StatusTruthful, TypeOK, UnbornInv, requestVars, osVars,
        runtimeVars, actorVars, shutdownVars
  <1>15. ASSUME UNCHANGED <<proc, thread, deleted, reaped, status>> PROVE StatusInv'
    BY <1>15
    DEF StatusInv, StatusTruthful
  <1> QED
    BY <1>1, <1>2, <1>3, <1>4, <1>5, <1>6, <1>7, <1>8, <1>9, <1>10, <1>11, <1>12,
       <1>13, <1>14, <1>15
    DEF Next, ClientActs, RequestRuns, ThreadRuns, ActorRuns, DeleteRuns,
        ShutdownRuns, CreateEnter, RegisterRefused, RegisterExisting, RegisterSpawn,
        ValidateOk, ValidateFail, CancelSpawning, SpawnFail, CommitInsert,
        CompareWinner, FinishCreate, KillCheck, KillSignal, ReapSeen, DeleteNothing,
        DeleteFound, DeleteRemove, DeleteTimeout, ShutdownGate, ShutdownTimeout,
        ShutdownReap, ShutdownWaitZero, ShutdownCount, ShutdownWake, DropPermit,
        Finish, KeepPermits, Return, vars, requestVars, osVars, runtimeVars,
        actorVars, shutdownVars

LEMMA IInvStep == IInv /\ [Next]_vars => IInv'
  BY TypeStep, PermitStep, ShellStep, OwnerStep, RemoveStep, GateStep, ReapStep,
     PlaceStep, AnswerStep, UnbornStep, GoneStep, StatusStep DEF IInv

LEMMA Invariance == Spec => []IInv
  BY InitIInv, IInvStep, PTL DEF Spec

-----------------------------------------------------------------------------
(* What follows from the invariant *)

\* Every shell that the daemon started and has not reaped is in the map, under a
\* SpawnPermit, or was drained by shutdown_all: create, its cancellation, delete and
\* shutdown_all never lose one.
THEOREM ShellsAreOwned == Spec => []NoOrphanShell
  <1>1. IInv => NoOrphanShell
    BY DEF IInv, TypeOK, PermitInv, ShellInv, OwnerInv, NoOrphanShell, Live, Spawning
  <1>2. QED
    BY <1>1, Invariance, PTL

\* When shutdown_all returns, wait_zero has seen the last permit dropped; when it
\* returns Ok, every shell of every request has been reaped, for good.
THEOREM ShutdownIsComplete == Spec => []ShutdownLeavesNothing
  <1>1. IInv => ShutdownLeavesNothing
    <2> SUFFICES ASSUME IInv, outcome[Daemon] # None PROVE
                   /\ permits = {}
                   /\ outcome[Daemon] = "Ok" => \A r \in Requests : ~Live(r)
      BY DEF ShutdownLeavesNothing
    <2>1. at[Daemon] = "done" /\ permits = {} /\ Registered = {}
      BY DEF IInv, ReapInv, GateInv, Registered
    <2>2. ASSUME outcome[Daemon] = "Ok", NEW r \in drained PROVE reaped[r]
      BY <2>1, <2>2 DEF IInv, ReapInv
    <2>3. NoOrphanShell
      BY DEF IInv, TypeOK, PermitInv, ShellInv, OwnerInv, NoOrphanShell, Live, Spawning
    <2>4. QED
      BY <2>1, <2>2, <2>3 DEF NoOrphanShell, Live
  <1>2. QED
    BY <1>1, Invariance, PTL

\* Two requests for one id that were both answered Created never have a live shell
\* each: the loser of the commit drops its shell before it answers, and an id is free
\* again only after DELETE has reaped its shell or shutdown_all has taken the map.
THEOREM OneShell == Spec => []OneShellPerId
  <1>1. IInv => OneShellPerId
    <2> SUFFICES ASSUME IInv, NEW r \in Requests, NEW s \in Requests,
                        r # s, want[r].id = want[s].id,
                        answer[r] = "Created", answer[s] = "Created", Live(r), Live(s)
                 PROVE FALSE
      BY DEF OneShellPerId
    <2>1. r \in Registered \cup drained /\ s \in Registered \cup drained
      BY LifecycleAssumption DEF IInv, AnswerInv, OwnerInv
    <2>2. Registered = {} \/ drained = {}
      BY DEF IInv, GateInv, Registered
    <2>3. CASE r \in Registered /\ s \in Registered
      BY <2>3 DEF IInv, PlaceInv, Registered
    <2>4. CASE r \in drained /\ s \in drained
      BY <2>4 DEF IInv, PlaceInv
    <2>5. QED
      BY <2>1, <2>2, <2>3, <2>4
  <1>2. QED
    BY <1>1, Invariance, PTL

\* A DELETE that answered Ok for a runtime it found has seen the shell reaped, and no
\* later step puts that runtime back into the map.
THEOREM DeletionIsFinal == Spec => []DeleteMeansGone
  <1>1. IInv => DeleteMeansGone
    BY DEF IInv, GoneInv
  <1>2. QED
    BY <1>1, Invariance, PTL

\* The status a client reads follows what child.wait() returned: Exited only of a
\* collected process, and never Running once the runtime was reaped undeleted.
THEOREM StatusIsTruthful == Spec => []StatusTruthful
  <1>1. IInv => StatusTruthful
    BY DEF IInv, StatusInv
  <1>2. QED
    BY <1>1, Invariance, PTL

\* No step opens the gate again, and none adds a permit behind it.
LEMMA GateMonotone == shuttingDown /\ [Next]_vars => shuttingDown' /\ permits' \subseteq permits
  <1> SUFFICES ASSUME shuttingDown, [Next]_vars PROVE shuttingDown' /\ permits' \subseteq permits
    OBVIOUS
  <1>1. ASSUME NEW r \in Requests, CreateEnter(r) PROVE shuttingDown' /\ permits' \subseteq permits
    BY <1>1
    DEF CreateEnter, KeepPermits
  <1>2. ASSUME NEW r \in Requests, RegisterRefused(r) PROVE shuttingDown' /\ permits' \subseteq permits
    BY <1>2
    DEF RegisterRefused, Finish, KeepPermits
  <1>3. ASSUME NEW r \in Requests, RegisterExisting(r) PROVE shuttingDown' /\ permits' \subseteq permits
    BY <1>3
    DEF RegisterExisting, Finish, Compared, KeepPermits
  <1>4. ASSUME NEW r \in Requests, RegisterSpawn(r) PROVE shuttingDown' /\ permits' \subseteq permits
    BY <1>4
    DEF RegisterSpawn, Refused
  <1>5. ASSUME NEW r \in Requests, ValidateOk(r) PROVE shuttingDown' /\ permits' \subseteq permits
    BY <1>5
    DEF ValidateOk, KeepPermits
  <1>6. ASSUME NEW r \in Requests, ValidateFail(r) PROVE shuttingDown' /\ permits' \subseteq permits
    BY <1>6
    DEF ValidateFail, Finish, DropPermit
  <1>7. ASSUME NEW r \in Requests, CancelSpawning(r) PROVE shuttingDown' /\ permits' \subseteq permits
    BY <1>7
    DEF CancelSpawning, KeepPermits
  <1>8. ASSUME NEW r \in Requests, SpawnOk(r) PROVE shuttingDown' /\ permits' \subseteq permits
    BY <1>8
    DEF SpawnOk, KeepPermits
  <1>9. ASSUME NEW r \in Requests, SpawnAbandoned(r) PROVE shuttingDown' /\ permits' \subseteq permits
    BY <1>9
    DEF SpawnAbandoned, Finish, DropSpawned, KeepPermits
  <1>10. ASSUME NEW r \in Requests, SpawnFail(r) PROVE shuttingDown' /\ permits' \subseteq permits
    BY <1>10
    DEF SpawnFail, Finish, DropPermit
  <1>11. ASSUME NEW r \in Requests, CancelSpawned(r) PROVE shuttingDown' /\ permits' \subseteq permits
    BY <1>11
    DEF CancelSpawned, Finish, DropSpawned, KeepPermits
  <1>12. ASSUME NEW r \in Requests, CommitRefused(r) PROVE shuttingDown' /\ permits' \subseteq permits
    BY <1>12
    DEF CommitRefused, Finish, DropSpawned, KeepPermits
  <1>13. ASSUME NEW r \in Requests, CommitLost(r) PROVE shuttingDown' /\ permits' \subseteq permits
    BY <1>13
    DEF CommitLost, Taken, DropSpawned, KeepPermits
  <1>14. ASSUME NEW r \in Requests, CommitInsert(r) PROVE shuttingDown' /\ permits' \subseteq permits
    BY <1>14
    DEF CommitInsert, KeepPermits
  <1>15. ASSUME NEW r \in Requests, CompareWinner(r) PROVE shuttingDown' /\ permits' \subseteq permits
    BY <1>15
    DEF CompareWinner, Finish, Compared, KeepPermits
  <1>16. ASSUME NEW r \in Requests, StartWorkers(r) PROVE shuttingDown' /\ permits' \subseteq permits
    BY <1>16
    DEF StartWorkers, KeepPermits
  <1>17. ASSUME NEW r \in Requests, FinishCreate(r) PROVE shuttingDown' /\ permits' \subseteq permits
    BY <1>17
    DEF FinishCreate, Finish, DropPermit
  <1>18. ASSUME NEW r \in Requests, ShellExit(r) PROVE shuttingDown' /\ permits' \subseteq permits
    BY <1>18
    DEF ShellExit, KeepPermits
  <1>19. ASSUME NEW r \in Requests, WaitReturns(r) PROVE shuttingDown' /\ permits' \subseteq permits
    BY <1>19
    DEF WaitReturns, KeepPermits
  <1>20. ASSUME NEW r \in Requests, WaitFails(r) PROVE shuttingDown' /\ permits' \subseteq permits
    BY <1>20
    DEF WaitFails, KeepPermits
  <1>21. ASSUME NEW r \in Requests, MarkBegin(r) PROVE shuttingDown' /\ permits' \subseteq permits
    BY <1>21
    DEF MarkBegin, EndStatus, KeepPermits
  <1>22. ASSUME NEW r \in Requests, MarkEnd(r) PROVE shuttingDown' /\ permits' \subseteq permits
    BY <1>22
    DEF MarkEnd, Mark, KeepPermits
  <1>23. ASSUME NEW r \in Requests, ReaperDone(r) PROVE shuttingDown' /\ permits' \subseteq permits
    BY <1>23
    DEF ReaperDone, DropPermit
  <1>24. ASSUME NEW a \in Actors, KillCheck(a) PROVE shuttingDown' /\ permits' \subseteq permits
    BY <1>24
    DEF KillCheck, AfterKill, KeepPermits
  <1>25. ASSUME NEW a \in Actors, KillSignal(a) PROVE shuttingDown' /\ permits' \subseteq permits
    BY <1>25
    DEF KillSignal, AfterKill, KeepPermits
  <1>26. ASSUME NEW a \in Actors, ReapSeen(a) PROVE shuttingDown' /\ permits' \subseteq permits
    BY <1>26
    DEF ReapSeen, KeepPermits
  <1>27. ASSUME NEW d \in Deletes, DeleteNothing(d) PROVE shuttingDown' /\ permits' \subseteq permits
    BY <1>27
    DEF DeleteNothing, Return, KeepPermits
  <1>28. ASSUME NEW d \in Deletes, DeleteFound(d) PROVE shuttingDown' /\ permits' \subseteq permits
    BY <1>28
    DEF DeleteFound, Registered, KeepPermits
  <1>29. ASSUME NEW d \in Deletes, DeleteNotify(d) PROVE shuttingDown' /\ permits' \subseteq permits
    BY <1>29
    DEF DeleteNotify, NotifyDeleted, KeepPermits
  <1>30. ASSUME NEW d \in Deletes, DeleteRemove(d) PROVE shuttingDown' /\ permits' \subseteq permits
    BY <1>30
    DEF DeleteRemove, Return, Without, KeepPermits
  <1>31. ASSUME NEW d \in Deletes, DeleteTimeout(d) PROVE shuttingDown' /\ permits' \subseteq permits
    BY <1>31
    DEF DeleteTimeout, TimedOut, Return, KeepPermits
  <1>32. ASSUME ShutdownGate PROVE shuttingDown' /\ permits' \subseteq permits
    BY <1>32
    DEF ShutdownGate, Registered, KeepPermits
  <1>33. ASSUME ShutdownTimeout PROVE shuttingDown' /\ permits' \subseteq permits
    BY <1>33
    DEF ShutdownTimeout, TimedOut, KeepPermits
  <1>34. ASSUME ShutdownNext PROVE shuttingDown' /\ permits' \subseteq permits
    BY <1>34
    DEF ShutdownNext, NotifyDeleted, KeepPermits
  <1>35. ASSUME ShutdownReap PROVE shuttingDown' /\ permits' \subseteq permits
    BY <1>35
    DEF ShutdownReap, KeepPermits
  <1>36. ASSUME ShutdownWaitZero PROVE shuttingDown' /\ permits' \subseteq permits
    BY <1>36
    DEF ShutdownWaitZero, KeepPermits
  <1>37. ASSUME ShutdownCount PROVE shuttingDown' /\ permits' \subseteq permits
    <2>1. CASE NoneInFlight
      BY <1>37, <2>1
      DEF ShutdownCount, NoneInFlight, Return, KeepPermits
    <2>2. CASE ~NoneInFlight
      BY <1>37, <2>2
      DEF ShutdownCount, NoneInFlight, Return, KeepPermits
    <2> QED
      BY <2>1, <2>2
  <1>38. ASSUME ShutdownWake PROVE shuttingDown' /\ permits' \subseteq permits
    BY <1>38
    DEF ShutdownWake
  <1>39. CASE UNCHANGED vars
    BY <1>39
    DEF vars
  <1> QED
    BY <1>1, <1>2, <1>3, <1>4, <1>5, <1>6, <1>7, <1>8, <1>9, <1>10, <1>11, <1>12, <1>13,
       <1>14, <1>15, <1>16, <1>17, <1>18, <1>19, <1>20, <1>21, <1>22, <1>23, <1>24,
       <1>25, <1>26, <1>27, <1>28, <1>29, <1>30, <1>31, <1>32, <1>33, <1>34, <1>35,
       <1>36, <1>37, <1>38, <1>39
    DEF Next, ClientActs, RequestRuns, ThreadRuns, ActorRuns, DeleteRuns, ShutdownRuns

\* Once shutdown_all has closed the gate, no step adds a permit or a map entry: the
\* two sections of create read the gate under the lock that closed it.
THEOREM GateIsABoundary == Spec => ShutdownBoundary
  <1>1. IInv' /\ [Next]_vars
          => [shuttingDown => permits' \subseteq permits /\ Registered' = {}]_vars
    BY GateMonotone DEF IInv, GateInv, Registered
  <1>2. QED
    BY <1>1, Invariance, PTL DEF Spec, ShutdownBoundary

\* DELETE removes only the entry of a runtime it has marked deleted and seen reaped,
\* never the successor under the same id; nothing else but shutdown removes one.
THEOREM RemovalIsSafe == Spec => RemovedOnlyReaped
  <1> DEFINE Kept == \A i \in Ids : (runtimes[i] # None /\ runtimes'[i] # runtimes[i])
                       => \/ reaped[runtimes[i]] /\ deleted[runtimes[i]]
                          \/ at[Daemon] = "idle" /\ shuttingDown'
  <1>1. IInv /\ Next => Kept
    <2> SUFFICES ASSUME IInv, Next PROVE Kept
      OBVIOUS
    <2>1. ASSUME NEW r \in Requests, CommitInsert(r) PROVE Kept
      BY <2>1 DEF CommitInsert, Taken, IInv, TypeOK
    <2>2. ASSUME NEW d \in Deletes, DeleteRemove(d) PROVE Kept
      BY <2>2 DEF DeleteRemove, Without, IInv, RemoveInv, Actors
    <2>3. ASSUME ShutdownGate PROVE Kept
      BY <2>3 DEF ShutdownGate
    <2>4. ASSUME runtimes' = runtimes PROVE Kept
      BY <2>4
    <2>5. QED
      BY <2>1, <2>2, <2>3, <2>4
      DEF Next, ClientActs, RequestRuns, ThreadRuns, ActorRuns, DeleteRuns, ShutdownRuns,
          CreateEnter, RegisterRefused, RegisterExisting, RegisterSpawn, ValidateOk,
          ValidateFail, CancelSpawning, SpawnOk, SpawnAbandoned, SpawnFail,
          CancelSpawned, CommitRefused, CommitLost, CompareWinner, StartWorkers,
          FinishCreate, ShellExit, WaitReturns, WaitFails, MarkBegin, MarkEnd,
          ReaperDone, KillCheck, KillSignal, ReapSeen, DeleteNothing, DeleteFound,
          DeleteNotify, DeleteTimeout, ShutdownTimeout, ShutdownNext, ShutdownReap,
          ShutdownWaitZero, ShutdownCount, ShutdownWake
  <1>2. QED
    BY <1>1, Invariance, PTL DEF Spec, RemovedOnlyReaped


=============================================================================
