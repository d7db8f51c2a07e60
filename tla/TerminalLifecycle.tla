------------------------- MODULE TerminalLifecycle -------------------------
(***************************************************************************)
(* The runtime registry of terminald: PUT /v1/runtimes/{id} (create),      *)
(* DELETE /v1/runtimes/{id} (delete), the daemon's shutdown, and the       *)
(* native threads that wait for the shells.                                *)
(*                                                                         *)
(* A runtime is named by the create request that spawned it, so Requests   *)
(* is both the set of PUTs and the set of runtimes.  A step is atomic when *)
(* the code holds one lock over it or touches one shared location in it:   *)
(* the map mutex, the reap_state mutex of a runtime, an atomic flag.       *)
(***************************************************************************)
EXTENDS Integers, FiniteSets

CONSTANTS
    Requests,   \* create requests; also the identities of their runtimes
    Ids,        \* runtime ids
    Specs,      \* creation specs, compared for equality only
    Deletes,    \* delete requests
    Daemon,     \* the actor that runs shutdown_all
    MayShutdown, \* whether the daemon is ever asked to stop (a bound of the instance)
    None        \* no runtime, no answer, no request

ASSUME LifecycleAssumption ==
    /\ None \notin Requests \cup {"Ok", "Timeout", "Created"}
    /\ Daemon \notin Deletes
    /\ MayShutdown \in BOOLEAN

VARIABLES
    shuttingDown,  \* DaemonInner.shutting_down
    runtimes,      \* DaemonInner.runtimes: Ids -> runtime or None
    permits,       \* the live SpawnPermits; their number is SpawnTracker.count
    zeroPermit,    \* the permit that Notify::notify_one stored in SpawnTracker.zero
    pc,            \* where the create request stands
    want,          \* its id and spec
    found,         \* the runtime it lost the commit to
    answer,        \* its answer
    proc,          \* the shell as the OS has it
    killed,        \* shells with a pending SIGKILL
    dropped,       \* runtimes whose SpawnedRuntime was dropped uncommitted
    thread,        \* the native thread that owns the Child
    deleted,       \* Runtime.deleted
    reaped,        \* the flag guarded by Runtime.reap_state
    status,        \* RuntimeMetadata.status
    at,            \* where a delete task or shutdown_all stands
    outcome,       \* what it returned
    target,        \* the runtime it is working on
    pass,          \* the loop of shutdown_all: "kill" or "reap"
    todo,          \* runtimes that loop has not taken yet
    drained,       \* the runtimes shutdown_all took out of the map
    firstError     \* shutdown_all has recorded an error

requestVars == <<pc, want, found, answer>>
osVars == <<proc, killed, dropped, thread>>
runtimeVars == <<deleted, reaped, status>>
shutdownVars == <<pass, todo, drained, firstError>>
actorVars == <<at, outcome, target, shutdownVars>>
vars == <<shuttingDown, runtimes, permits, zeroPermit, requestVars,
          osVars, runtimeVars, actorVars>>

Actors == Deletes \cup {Daemon}

Registered == {runtimes[i] : i \in Ids} \ {None}

Init ==
    /\ shuttingDown = FALSE
    /\ runtimes = [i \in Ids |-> None]
    /\ permits = {}
    /\ zeroPermit = FALSE
    /\ pc = [r \in Requests |-> "idle"]
    /\ want \in [Requests -> [id : Ids, spec : Specs]]
    /\ found = [r \in Requests |-> None]
    /\ answer = [r \in Requests |-> None]
    /\ proc = [r \in Requests |-> "none"]
    /\ killed = {}
    /\ dropped = {}
    /\ thread = [r \in Requests |-> "none"]
    /\ deleted = [r \in Requests |-> FALSE]
    /\ reaped = [r \in Requests |-> FALSE]
    /\ status = [r \in Requests |-> "Running"]
    /\ at = [a \in Actors |-> "idle"]
    /\ outcome = [a \in Actors |-> None]
    /\ target = [a \in Actors |-> None]
    /\ pass = "kill"
    /\ todo = {}
    /\ drained = {}
    /\ firstError = FALSE

-----------------------------------------------------------------------------
(* Helpers *)

\* The request ends with an answer, or with nobody left to hear it.
Finish(r, a) ==
    /\ pc' = [pc EXCEPT ![r] = "done"]
    /\ answer' = [answer EXCEPT ![r] = a]

\* The delete task or shutdown_all returns.
Return(a, o) ==
    /\ at' = [at EXCEPT ![a] = "done"]
    /\ outcome' = [outcome EXCEPT ![a] = o]

\* Mutant: the last permit out does not notify wait_zero.
DropPermitQuietly(r) ==
    /\ permits' = permits \ {r}
    /\ UNCHANGED zeroPermit

\* Drop for SpawnPermit: the last permit out notifies wait_zero.
DropPermit(r) ==
    /\ permits' = permits \ {r}
    /\ zeroPermit' = (zeroPermit \/ permits = {r})

KeepPermits == UNCHANGED <<permits, zeroPermit>>

\* The mark_reaped call of r's thread holds the reap_state mutex.
Guarded(r) == thread[r] \in {"publish", "silent"}

\* The shutdown gate, read under the map lock.
Refused(r) == shuttingDown

\* Mutant: the commit does not look at the map again.
TakenAtEntry(r) == runtimes[want[r].id] # None /\ pc[r] = "entered"

\* The id already names a runtime.
Taken(r) == runtimes[want[r].id] # None

\* compare_existing
Compared(r, existing) ==
    IF ~deleted[existing] /\ want[existing].spec = want[r].spec
    THEN "Existing" ELSE "Conflict"

\* Mutant: the uncommitted shell is handed to the detached thread alive.
DropSpawnedAlive(r) ==
    /\ deleted' = [deleted EXCEPT ![r] = TRUE]
    /\ dropped' = dropped \cup {r}
    /\ thread' = [thread EXCEPT ![r] = "wait"]
    /\ UNCHANGED killed

\* Drop for SpawnedRuntime with the child still in it: notify_deleted,
\* kill_uncommitted_spawn_best_effort, and a detached thread that owns the
\* child and the permit.  Nobody else holds this runtime yet.
DropSpawned(r) ==
    /\ deleted' = [deleted EXCEPT ![r] = TRUE]
    /\ killed' = killed \cup {r}
    /\ dropped' = dropped \cup {r}
    /\ thread' = [thread EXCEPT ![r] = "wait"]

-----------------------------------------------------------------------------
(* PUT /v1/runtimes/{id} *)

\* The check of shutting_down before the lock.
CreateEnter(r) ==
    /\ pc[r] = "idle"
    /\ pc' = [pc EXCEPT ![r] = IF shuttingDown THEN "done" ELSE "entered"]
    /\ answer' = [answer EXCEPT ![r] = IF shuttingDown THEN "ShuttingDown" ELSE None]
    /\ UNCHANGED <<shuttingDown, runtimes, want, found, osVars, runtimeVars, actorVars>>
    /\ KeepPermits

\* The section under the map lock: the gate is closed,
RegisterRefused(r) ==
    /\ pc[r] = "entered" /\ Refused(r)
    /\ Finish(r, "ShuttingDown")
    /\ UNCHANGED <<shuttingDown, runtimes, want, found, osVars, runtimeVars, actorVars>>
    /\ KeepPermits

\* or the id is taken,
RegisterExisting(r) ==
    /\ pc[r] = "entered" /\ ~Refused(r) /\ Taken(r)
    /\ Finish(r, Compared(r, runtimes[want[r].id]))
    /\ UNCHANGED <<shuttingDown, runtimes, want, found, osVars, runtimeVars, actorVars>>
    /\ KeepPermits

\* or the request gets a spawn permit.
RegisterSpawn(r) ==
    /\ pc[r] = "entered" /\ ~Refused(r) /\ ~Taken(r)
    /\ permits' = permits \cup {r}
    /\ pc' = [pc EXCEPT ![r] = "validating"]
    /\ UNCHANGED <<shuttingDown, runtimes, zeroPermit, want, found, answer, osVars,
                   runtimeVars, actorVars>>

\* validate_spec succeeds and the blocking spawn is queued.
ValidateOk(r) ==
    /\ pc[r] = "validating"
    /\ pc' = [pc EXCEPT ![r] = "spawning"]
    /\ UNCHANGED <<shuttingDown, runtimes, want, found, answer, osVars, runtimeVars, actorVars>>
    /\ KeepPermits

\* validate_spec fails, or the client goes away while it runs.
ValidateFail(r) ==
    /\ pc[r] = "validating"
    /\ Finish(r, "Error")
    /\ DropPermit(r)
    /\ UNCHANGED <<shuttingDown, runtimes, want, found, osVars, runtimeVars, actorVars>>

\* The client goes away during the blocking spawn, which runs on.
CancelSpawning(r) ==
    /\ pc[r] = "spawning"
    /\ pc' = [pc EXCEPT ![r] = "detached"]
    /\ UNCHANGED <<shuttingDown, runtimes, want, found, answer, osVars, runtimeVars, actorVars>>
    /\ KeepPermits

\* spawn_runtime_blocking returns a shell to its request.
SpawnOk(r) ==
    /\ pc[r] = "spawning"
    /\ proc' = [proc EXCEPT ![r] = "running"]
    /\ pc' = [pc EXCEPT ![r] = "spawned"]
    /\ UNCHANGED <<shuttingDown, runtimes, want, found, answer, killed, dropped, thread,
                   runtimeVars, actorVars>>
    /\ KeepPermits

\* Without a request to take it, the task's result is dropped.
SpawnAbandoned(r) ==
    /\ pc[r] = "detached"
    /\ proc' = [proc EXCEPT ![r] = "running"]
    /\ Finish(r, "Canceled")
    /\ DropSpawned(r)
    /\ UNCHANGED <<shuttingDown, runtimes, want, found, reaped, status, actorVars>>
    /\ KeepPermits

\* spawn_runtime_blocking fails; it owned the permit.
SpawnFail(r) ==
    /\ pc[r] \in {"spawning", "detached"}
    /\ Finish(r, "Error")
    /\ DropPermit(r)
    /\ UNCHANGED <<shuttingDown, runtimes, want, found, osVars, runtimeVars, actorVars>>

\* The client goes away before the request resumes with its result.
CancelSpawned(r) ==
    /\ pc[r] = "spawned"
    /\ Finish(r, "Canceled")
    /\ DropSpawned(r)
    /\ UNCHANGED <<shuttingDown, runtimes, want, found, proc, reaped, status, actorVars>>
    /\ KeepPermits

\* The commit under the map lock: the gate has closed meanwhile,
CommitRefused(r) ==
    /\ pc[r] = "spawned" /\ Refused(r)
    /\ Finish(r, "ShuttingDown")
    /\ DropSpawned(r)
    /\ UNCHANGED <<shuttingDown, runtimes, want, found, proc, reaped, status, actorVars>>
    /\ KeepPermits

\* or another request has taken the id,
CommitLost(r) ==
    /\ pc[r] = "spawned" /\ ~Refused(r) /\ Taken(r)
    /\ pc' = [pc EXCEPT ![r] = "comparing"]
    /\ found' = [found EXCEPT ![r] = runtimes[want[r].id]]
    /\ DropSpawned(r)
    /\ UNCHANGED <<shuttingDown, runtimes, want, answer, proc, reaped, status, actorVars>>
    /\ KeepPermits

\* or the runtime is inserted.
CommitInsert(r) ==
    /\ pc[r] = "spawned" /\ ~Refused(r) /\ ~Taken(r)
    /\ runtimes' = [runtimes EXCEPT ![want[r].id] = r]
    /\ pc' = [pc EXCEPT ![r] = "committed"]
    /\ UNCHANGED <<shuttingDown, want, found, answer, osVars, runtimeVars, actorVars>>
    /\ KeepPermits

\* compare_existing after the lock is released: the winner may be deleted by now.
CompareWinner(r) ==
    /\ pc[r] = "comparing"
    /\ Finish(r, Compared(r, found[r]))
    /\ UNCHANGED <<shuttingDown, runtimes, want, found, osVars, runtimeVars, actorVars>>
    /\ KeepPermits

\* start_runtime_workers hands the child to its wait thread ...
StartWorkers(r) ==
    /\ pc[r] = "committed"
    /\ pc' = [pc EXCEPT ![r] = "started"]
    /\ thread' = [thread EXCEPT ![r] = "wait"]
    /\ UNCHANGED <<shuttingDown, runtimes, want, found, answer, proc, killed, dropped,
                   runtimeVars, actorVars>>
    /\ KeepPermits

\* ... and drops the permit last.
FinishCreate(r) ==
    /\ pc[r] = "started"
    /\ Finish(r, "Created")
    /\ DropPermit(r)
    /\ UNCHANGED <<shuttingDown, runtimes, want, found, osVars, runtimeVars, actorVars>>

-----------------------------------------------------------------------------
(* The shell and the thread that owns its Child *)

\* The shell exits by itself.
ShellExit(r) ==
    /\ proc[r] = "running"
    /\ proc' = [proc EXCEPT ![r] = "zombie"]
    /\ UNCHANGED <<shuttingDown, runtimes, requestVars, killed, dropped, thread,
                   runtimeVars, actorVars>>
    /\ KeepPermits

\* The kernel delivers SIGKILL.
ShellKilled(r) ==
    /\ r \in killed
    /\ ShellExit(r)

\* child.wait() returns: from here on the OS may reuse the pid.
WaitReturns(r) ==
    /\ thread[r] = "wait" /\ proc[r] = "zombie"
    /\ proc' = [proc EXCEPT ![r] = "free"]
    /\ thread' = [thread EXCEPT ![r] = "collected"]
    /\ UNCHANGED <<shuttingDown, runtimes, requestVars, killed, dropped,
                   runtimeVars, actorVars>>
    /\ KeepPermits

\* child.wait() fails.  The wait thread of a committed runtime kills the shell
\* first (only this thread sets reaped, so kill_best_effort does signal).
WaitFails(r) ==
    /\ thread[r] = "wait"
    /\ thread' = [thread EXCEPT ![r] = "waitFailed"]
    /\ killed' = killed \cup {r}
    /\ UNCHANGED <<shuttingDown, runtimes, requestVars, proc, dropped,
                   runtimeVars, actorVars>>
    /\ KeepPermits

\* Mutant: a failed wait is reported as an exit.
AlwaysExited(r) == "Exited"

\* The status the wait thread or the detached thread passes to mark_reaped.
EndStatus(r) ==
    IF thread[r] = "collected" /\ r \notin dropped THEN "Exited" ELSE "Interrupted"

\* *reaped = true, under the guard.
Mark(r) == reaped' = [reaped EXCEPT ![r] = TRUE]

\* mark_reaped takes reap_state and reads deleted; it publishes
\* the status of a runtime that is not deleted.
MarkBegin(r) ==
    /\ thread[r] \in {"collected", "waitFailed"}
    /\ thread' = [thread EXCEPT ![r] = IF deleted[r] THEN "silent" ELSE "publish"]
    /\ status' = [status EXCEPT ![r] = IF deleted[r] THEN @ ELSE EndStatus(r)]
    /\ UNCHANGED <<shuttingDown, runtimes, requestVars, proc, killed, dropped,
                   deleted, reaped, actorVars>>
    /\ KeepPermits

\* mark_reaped sets the flag, wakes the condition variable and releases it.
MarkEnd(r) ==
    /\ Guarded(r)
    /\ Mark(r)
    /\ thread' = [thread EXCEPT ![r] = IF r \in dropped THEN "marked" ELSE "done"]
    /\ UNCHANGED <<shuttingDown, runtimes, requestVars, proc, killed, dropped,
                   deleted, status, actorVars>>
    /\ KeepPermits

\* The detached thread of an uncommitted shell returns and drops its permit.
ReaperDone(r) ==
    /\ thread[r] = "marked"
    /\ thread' = [thread EXCEPT ![r] = "done"]
    /\ DropPermit(r)
    /\ UNCHANGED <<shuttingDown, runtimes, requestVars, proc, killed, dropped,
                   runtimeVars, actorVars>>

-----------------------------------------------------------------------------
(* force_delete_and_reap, run by every delete task and by shutdown_all *)

\* Mutant: DELETE does not wait for the reaping.
AfterKillNoWait(a) ==
    IF a # Daemon THEN "remove" ELSE IF pass = "kill" THEN "next" ELSE "await"

\* Where an actor goes after kill_best_effort.
AfterKill(a) == IF a = Daemon /\ pass = "kill" THEN "next" ELSE "await"

NotifyDeleted(r) == deleted' = [deleted EXCEPT ![r] = TRUE]

\* kill_best_effort reads reaped; the guard is released right after the read.
KillCheck(a) ==
    /\ at[a] = "check"
    /\ ~Guarded(target[a])
    /\ at' = [at EXCEPT ![a] = IF reaped[target[a]] THEN AfterKill(a) ELSE "signal"]
    /\ UNCHANGED <<shuttingDown, runtimes, requestVars, osVars, runtimeVars, outcome,
                   target, shutdownVars>>
    /\ KeepPermits

\* kill_best_effort signals the pid it read earlier, whoever owns it now.
KillSignal(a) ==
    /\ at[a] = "signal"
    /\ killed' = killed \cup {target[a]}
    /\ at' = [at EXCEPT ![a] = AfterKill(a)]
    /\ UNCHANGED <<shuttingDown, runtimes, requestVars, proc, dropped, thread,
                   runtimeVars, outcome, target, shutdownVars>>
    /\ KeepPermits

\* The wait on the condition variable sees the flag.
ReapSeen(a) ==
    /\ at[a] = "await"
    /\ ~Guarded(target[a]) /\ reaped[target[a]]
    /\ at' = [at EXCEPT ![a] = IF a = Daemon THEN "next" ELSE "remove"]
    /\ UNCHANGED <<shuttingDown, runtimes, requestVars, osVars, runtimeVars, outcome,
                   target, shutdownVars>>
    /\ KeepPermits

\* DELETE_REAP_TIMEOUT expires first.
TimedOut(a) == at[a] = "await" /\ ~Guarded(target[a]) /\ ~reaped[target[a]]

\* A delete task gives up and leaves the tombstone in the map.
DeleteTimeout(d) ==
    /\ TimedOut(d)
    /\ Return(d, "Timeout")
    /\ UNCHANGED <<shuttingDown, runtimes, requestVars, osVars, runtimeVars,
                   target, shutdownVars>>
    /\ KeepPermits

\* shutdown_all records the error and goes on.
ShutdownTimeout ==
    /\ TimedOut(Daemon)
    /\ at' = [at EXCEPT ![Daemon] = "next"]
    /\ firstError' = TRUE
    /\ UNCHANGED <<shuttingDown, runtimes, requestVars, osVars, runtimeVars, outcome,
                   target, pass, todo, drained>>
    /\ KeepPermits

-----------------------------------------------------------------------------
(* DELETE /v1/runtimes/{id}.  The task it spawns outlives the request, so a
   client that goes away changes nothing but who hears the answer. *)

\* The map has no such id: there is nothing to delete.
DeleteNothing(d) ==
    /\ at[d] = "idle"
    /\ \E i \in Ids : runtimes[i] = None
    /\ Return(d, "Ok")
    /\ UNCHANGED <<shuttingDown, runtimes, requestVars, osVars, runtimeVars,
                   target, shutdownVars>>
    /\ KeepPermits

DeleteFound(d) ==
    /\ at[d] = "idle"
    /\ \E r \in Registered : target' = [target EXCEPT ![d] = r]
    /\ at' = [at EXCEPT ![d] = "notify"]
    /\ UNCHANGED <<shuttingDown, runtimes, requestVars, osVars, runtimeVars, outcome,
                   shutdownVars>>
    /\ KeepPermits

DeleteNotify(d) ==
    /\ at[d] = "notify"
    /\ NotifyDeleted(target[d])
    /\ at' = [at EXCEPT ![d] = "check"]
    /\ UNCHANGED <<shuttingDown, runtimes, requestVars, osVars, reaped, status, outcome,
                   target, shutdownVars>>
    /\ KeepPermits

\* Mutant: DELETE leaves the tombstone.
WithTombstone(r) == runtimes

\* The map without r: an entry is removed only if it still is this runtime.
Without(r) == [i \in Ids |-> IF runtimes[i] = r THEN None ELSE runtimes[i]]

\* Under the map lock: remove the entry if it still is this runtime.
DeleteRemove(d) ==
    /\ at[d] = "remove"
    /\ runtimes' = Without(target[d])
    /\ Return(d, "Ok")
    /\ UNCHANGED <<shuttingDown, requestVars, osVars, runtimeVars,
                   target, shutdownVars>>
    /\ KeepPermits

-----------------------------------------------------------------------------
(* shutdown_all *)

\* Under the map lock: close the gate and drain the map.
ShutdownGate ==
    /\ MayShutdown
    /\ at[Daemon] = "idle"
    /\ shuttingDown' = TRUE
    /\ drained' = Registered /\ todo' = Registered
    /\ runtimes' = [i \in Ids |-> None]
    /\ at' = [at EXCEPT ![Daemon] = "next"]
    /\ UNCHANGED <<requestVars, osVars, runtimeVars, outcome, target, pass, firstError>>
    /\ KeepPermits

\* Both loops start a runtime with notify_deleted and kill_best_effort.
ShutdownNext ==
    /\ at[Daemon] = "next"
    /\ \E r \in todo :
         /\ target' = [target EXCEPT ![Daemon] = r]
         /\ todo' = todo \ {r}
         /\ NotifyDeleted(r)
    /\ at' = [at EXCEPT ![Daemon] = "check"]
    /\ UNCHANGED <<shuttingDown, runtimes, requestVars, osVars, reaped, status, outcome,
                   pass, drained, firstError>>
    /\ KeepPermits

\* The killing loop is through: reap what it killed.
ShutdownReap ==
    /\ at[Daemon] = "next" /\ todo = {} /\ pass = "kill"
    /\ pass' = "reap"
    /\ todo' = drained
    /\ UNCHANGED <<shuttingDown, runtimes, requestVars, osVars, runtimeVars, outcome,
                   at, target, drained, firstError>>
    /\ KeepPermits

\* Both loops are through: wait_zero creates its Notified future.
ShutdownWaitZero ==
    /\ at[Daemon] = "next" /\ todo = {} /\ pass = "reap"
    /\ at' = [at EXCEPT ![Daemon] = "count"]
    /\ UNCHANGED <<shuttingDown, runtimes, requestVars, osVars, runtimeVars, outcome,
                   target, shutdownVars>>
    /\ KeepPermits

\* Mutant: only requests that are still running count.
NoRequestInFlight == \A r \in permits : pc[r] = "done"

\* SpawnTracker.count is zero.
NoneInFlight == permits = {}

\* wait_zero reads the count.
ShutdownCount ==
    /\ at[Daemon] = "count"
    /\ IF NoneInFlight
       THEN Return(Daemon, IF firstError THEN "Timeout" ELSE "Ok")
       ELSE /\ at' = [at EXCEPT ![Daemon] = "parked"]
            /\ UNCHANGED outcome
    /\ UNCHANGED <<shuttingDown, runtimes, requestVars, osVars, runtimeVars,
                   target, shutdownVars>>
    /\ KeepPermits

\* notified().await consumes the stored permit and the loop reads again.
ShutdownWake ==
    /\ at[Daemon] = "parked" /\ zeroPermit
    /\ zeroPermit' = FALSE
    /\ at' = [at EXCEPT ![Daemon] = "count"]
    /\ UNCHANGED <<shuttingDown, runtimes, permits, requestVars, osVars, runtimeVars, outcome,
                   target, shutdownVars>>

-----------------------------------------------------------------------------
(* The specification *)

\* Steps of a request that the runtime keeps scheduling once it is submitted.
RequestRuns(r) ==
    \/ RegisterRefused(r) \/ RegisterExisting(r) \/ RegisterSpawn(r)
    \/ ValidateOk(r) \/ ValidateFail(r)
    \/ SpawnOk(r) \/ SpawnAbandoned(r) \/ SpawnFail(r)
    \/ CommitRefused(r) \/ CommitLost(r) \/ CommitInsert(r) \/ CompareWinner(r)
    \/ StartWorkers(r) \/ FinishCreate(r)

\* Steps of the thread that owns a child.
ThreadRuns(r) == WaitReturns(r) \/ MarkBegin(r) \/ MarkEnd(r) \/ ReaperDone(r)

\* Steps of a delete task or of shutdown_all that wait for nobody's consent.
ActorRuns(a) == KillCheck(a) \/ KillSignal(a) \/ ReapSeen(a)

DeleteRuns(d) == DeleteNotify(d) \/ DeleteRemove(d)

ShutdownRuns ==
    ShutdownNext \/ ShutdownReap \/ ShutdownWaitZero \/ ShutdownCount \/ ShutdownWake

ClientActs(r) == CreateEnter(r) \/ CancelSpawning(r) \/ CancelSpawned(r)

Next ==
    \/ \E r \in Requests :
         ClientActs(r) \/ RequestRuns(r) \/ ThreadRuns(r) \/ ShellExit(r) \/ WaitFails(r)
    \/ \E a \in Actors : ActorRuns(a)
    \/ \E d \in Deletes : DeleteNothing(d) \/ DeleteFound(d) \/ DeleteRuns(d) \/ DeleteTimeout(d)
    \/ ShutdownGate \/ ShutdownTimeout
    \/ ShutdownRuns

\* Tasks and threads are scheduled, and SIGKILL is delivered; nobody has to send
\* a request, go away, exit, fail, or shut the daemon down.
Fairness ==
    /\ \A r \in Requests : WF_vars(RequestRuns(r)) /\ WF_vars(ThreadRuns(r)) /\ WF_vars(ShellKilled(r))
    /\ \A a \in Actors : WF_vars(ActorRuns(a))
    /\ \A d \in Deletes : WF_vars(DeleteRuns(d))
    /\ WF_vars(ShutdownRuns)

Spec == Init /\ [][Next]_vars /\ Fairness

-----------------------------------------------------------------------------
(* Properties *)

WorkSteps == {"notify", "check", "signal", "await", "remove"}
DeleteSteps == {"idle", "notify", "check", "signal", "await", "remove", "done"}
ShutdownSteps == {"idle", "next", "check", "signal", "await", "count", "parked", "done"}

\* The type of every variable.
TypeOK ==
    /\ shuttingDown \in BOOLEAN
    /\ runtimes \in [Ids -> Requests \cup {None}]
    /\ permits \subseteq Requests
    /\ zeroPermit \in BOOLEAN
    /\ pc \in [Requests -> {"idle", "entered", "validating", "spawning", "detached",
                            "spawned", "comparing", "committed", "started", "done"}]
    /\ want \in [Requests -> [id : Ids, spec : Specs]]
    /\ found \in [Requests -> Requests \cup {None}]
    /\ answer \in [Requests -> {None, "ShuttingDown", "Existing", "Conflict", "Error",
                                "Canceled", "Created"}]
    /\ outcome \in [Actors -> {None, "Ok", "Timeout"}]
    /\ proc \in [Requests -> {"none", "running", "zombie", "free"}]
    /\ killed \subseteq Requests
    /\ dropped \subseteq Requests
    /\ thread \in [Requests -> {"none", "wait", "collected", "waitFailed", "publish",
                                "silent", "marked", "done"}]
    /\ deleted \in [Requests -> BOOLEAN]
    /\ reaped \in [Requests -> BOOLEAN]
    /\ status \in [Requests -> {"Running", "Exited", "Interrupted"}]
    /\ at \in [Actors -> DeleteSteps \cup ShutdownSteps]
    /\ \A d \in Deletes : at[d] \in DeleteSteps
    /\ at[Daemon] \in ShutdownSteps
    /\ target \in [Actors -> Requests \cup {None}]
    /\ \A a \in Actors : at[a] \in WorkSteps => target[a] \in Requests
    /\ pass \in {"kill", "reap"}
    /\ todo \subseteq Requests
    /\ drained \subseteq Requests
    /\ firstError \in BOOLEAN

\* A shell the daemon started and has not collected.
Live(r) == proc[r] # "none" /\ ~reaped[r]

\* Every live shell has somebody who answers for it: a permit that shutdown
\* waits for, an entry of the map that DELETE and shutdown can find, or
\* shutdown itself.  A canceled PUT, a lost commit race, a DELETE that timed
\* out and a drain in between never leave a shell nobody would ever kill.
NoOrphanShell ==
    \A r \in Requests : Live(r) => r \in permits \cup Registered \cup drained

\* Once shutdown_all has returned, no request can start a shell any more, and
\* when it returned Ok every shell the daemon ever started has been reaped: also
\* those of canceled requests and of those that lost to the gate.
ShutdownLeavesNothing ==
    outcome[Daemon] # None =>
        /\ permits = {}
        /\ outcome[Daemon] = "Ok" => \A r \in Requests : ~Live(r)

\* At most one shell per id runs under a PUT that was answered Created, even
\* when DELETE and PUT of the same id interleave: the tombstone keeps the id
\* taken until the old shell is reaped, and removing it spares the successor.
OneShellPerId ==
    \A r, s \in Requests :
        (/\ r # s /\ want[r].id = want[s].id
         /\ answer[r] = "Created" /\ answer[s] = "Created")
          => ~(Live(r) /\ Live(s))

\* A DELETE that answered Ok for a runtime it found has seen its shell reaped,
\* and the id is free of it.
DeleteMeansGone ==
    \A d \in Deletes :
        (outcome[d] = "Ok" /\ target[d] # None)
          => reaped[target[d]] /\ target[d] \notin Registered

\* What a client is told of a runtime that is not deleted agrees with its
\* process: reported Exited only once the wait has collected it, and Running
\* never after it was reaped.
StatusTruthful ==
    \A r \in Requests :
        /\ status[r] = "Exited" => proc[r] = "free"
        /\ reaped[r] /\ ~deleted[r] => status[r] # "Running"

\* The gate is a boundary: after it closes no spawn permit appears and nothing
\* is committed to the map, whatever the requests in flight had checked before.
ShutdownBoundary ==
    [][shuttingDown => permits' \subseteq permits /\ Registered' = {}]_vars

\* An entry leaves the map only after its shell was reaped, or to shutdown.
RemovedOnlyReaped ==
    [][\A i \in Ids : (runtimes[i] # None /\ runtimes'[i] # runtimes[i])
          => \/ reaped[runtimes[i]] /\ deleted[runtimes[i]]
             \/ at[Daemon] = "idle" /\ shuttingDown']_vars

\* The shutdown always comes to an end: the wake-up that the last permit sends
\* is never lost, and no timeout or canceled request leaves it waiting.
ShutdownReturns == shuttingDown ~> outcome[Daemon] # None

\* A runtime that was marked deleted is reaped, whoever marked it.
DeletedIsReaped == \A r \in Requests : (deleted[r] /\ proc[r] # "none") ~> reaped[r]

\* mark_reaped's comment: until it releases reap_state, DELETE cannot act on a
\* pid that the OS may already reuse.
NoSignalWhileReaping ==
    \A a \in Actors : at[a] = "signal" => ~Guarded(target[a])

=============================================================================
