------------------------------ MODULE RunBoard ------------------------------
(* What the automations crate promises about the runs of one task, whatever  *)
(* the processes that dispatch, run and observe them do to each other: a run *)
(* has at most one record, the record closes once and stays closed until     *)
(* retention removes it, commands start only under an open record of a       *)
(* runner, and no more than Max runs have commands alive, orphans included.  *)
EXTENDS Naturals, FiniteSets

CONSTANTS Runs, Max

VARIABLES record,     \* record[r]: what history shows of run r
          executing   \* the runs with a living command

vars == <<record, executing>>

Open == {"dispatching", "open"}
Closed == {"Skipped", "Failed", "Done", "Interrupted"}

Init == record = [r \in Runs |-> "none"] /\ executing = {}

\* A dispatcher opens a record only to close it, a runner to work under it; an error
\* may leave one that nobody writes.
Create(r, kind) ==
    /\ record[r] = "none"
    /\ kind \in Open \cup {"Interrupted"}
    /\ record' = [record EXCEPT ![r] = kind]
    /\ UNCHANGED executing

Close(r, status) ==
    /\ record[r] \in Open
    /\ status \in Closed
    /\ record' = [record EXCEPT ![r] = status]
    /\ UNCHANGED executing

\* Retention forgets closed records only.
Remove(r) ==
    /\ record[r] \in Closed
    /\ record' = [record EXCEPT ![r] = "none"]
    /\ UNCHANGED executing

\* A command may still be starting when its runner has died: its record is then
\* open for as long as the command has not reached exec.
Start(r) ==
    /\ record[r] = "open"
    /\ r \notin executing
    /\ Cardinality(executing) < Max
    /\ executing' = executing \cup {r}
    /\ UNCHANGED record

\* Starting and dying release the journal in the same step when the runner is dead.
StartAndClose(r) ==
    /\ record[r] = "open"
    /\ Cardinality(executing \cup {r}) <= Max
    /\ executing' = executing \cup {r}
    /\ record' = [record EXCEPT ![r] = "Interrupted"]

Stop(r) ==
    /\ r \in executing
    /\ executing' = executing \ {r}
    /\ UNCHANGED record

Next == \E r \in Runs :
    \/ \E kind \in Open \cup {"Interrupted"} : Create(r, kind)
    \/ \E status \in Closed : Close(r, status)
    \/ Remove(r) \/ Start(r) \/ StartAndClose(r) \/ Stop(r)

Spec == Init /\ [][Next]_vars

=============================================================================
