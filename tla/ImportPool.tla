----------------------------- MODULE ImportPool -----------------------------
(* The import of SQL dumps (ImportDumps in db/importer.go): an error group with a
   limit starts one client program per dump.  The context of the group ends with
   the first failure, or when the command is interrupted. *)
EXTENDS Integers, Sequences, FiniteSets

CONSTANTS
  Dumps,         \* the dumps, in the order of their names
  Workers        \* database.import_workers

ASSUME PoolAssumption == Workers \in Nat \ {0} /\ Dumps \in Seq(STRING)

VARIABLES
  task,          \* what became of each dump
  loop,          \* the loop over the dumps: "check", "go", "wait"
  failed,        \* a member of the group returned an error
  interrupted    \* the context of the command has ended

poolVars == <<task, loop, failed>>

Tasks == DOMAIN Dumps
In(states) == {i \in Tasks : task[i] \in states}
Active == In({"scheduled", "running"})

PoolInit == task = [i \in Tasks |-> "new"] /\ loop = "check" /\ failed = FALSE
ResetPool == task' = [i \in Tasks |-> "new"] /\ loop' = "check" /\ failed' = FALSE

\* importCtx.Err()
GroupEnded == failed \/ interrupted

Set(i, state) == task' = [task EXCEPT ![i] = state]

\* Before each dump the loop looks whether the group has ended.
CheckGroup ==
  /\ loop = "check"
  /\ loop' = IF In({"new"}) = {} \/ GroupEnded THEN "wait" ELSE "go"
  /\ UNCHANGED <<task, failed>>

\* g.Go blocks until there is room.
Schedule ==
  /\ loop = "go" /\ Cardinality(Active) < Workers
  /\ \E i \in In({"new"}) : (\A j \in In({"new"}) : i <= j) /\ Set(i, "scheduled")
  /\ loop' = "check" /\ UNCHANGED failed

\* The group may have ended while the loop was blocked.
StartClient(i) ==
  /\ task[i] = "scheduled"
  /\ Set(i, IF GroupEnded THEN "skipped" ELSE "running")
  /\ failed' = GroupEnded /\ UNCHANGED loop

ClientSucceeds(i) == task[i] = "running" /\ Set(i, "done") /\ UNCHANGED <<loop, failed>>

\* The dump cannot be read, a statement fails, the server is gone, or the client is
\* killed because the group has ended.
ClientFails(i) == task[i] = "running" /\ Set(i, "failed") /\ failed' = TRUE /\ UNCHANGED loop

\* Mutant: what the group returns is all that is looked at.
ImportErrorOfGroup == failed

\* g.Wait, and then ctx.Err: the loop may have stopped with no error in the group.
ImportError == failed \/ interrupted

GroupDone == loop = "wait" /\ Active = {}
Imported == In({"done"}) = Tasks
=============================================================================
