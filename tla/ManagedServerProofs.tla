------------------------ MODULE ManagedServerProofs -------------------------
(* Theorems about ManagedServer and the pool it composes, for any number of runs, of
   dumps and of workers.  The invariant says what a run knows of its own process,
   its directory and its socket, and what the pool of clients has done. *)
EXTENDS ManagedServer, TLAPS

-----------------------------------------------------------------------------
(* The inductive invariant. *)

Steps == {"idle", "paths", "init", "start", "ready", "database", "import", "record", "read",
          "close", "shutdown", "await", "reap", "cleanup"}

TypeOK ==
  /\ mode \in {"temporary", "persistent", "external"} /\ protocol \in {"unix", "tcp"}
  /\ pc \in Steps /\ run \in 0..MaxRuns
  /\ server \in [Runs -> {"none", "starting", "up", "late", "dying", "gone"}]
  /\ socket \in [0..MaxRuns -> 0..MaxRuns] /\ tmpDir \in [Runs -> BOOLEAN]
  /\ waited \in BOOLEAN /\ initialized \in BOOLEAN /\ timeout \in BOOLEAN
  /\ task \in [Tasks -> {"new", "scheduled", "running", "skipped", "done", "failed"}]
  /\ loop \in {"check", "go", "wait"} /\ failed \in BOOLEAN /\ interrupted \in BOOLEAN

\* A dump that was not imported was not scheduled, or the group has an error.
PoolSound ==
  /\ In({"skipped", "failed"}) # {} => failed
  /\ loop = "wait" => In({"new"}) = {} \/ GroupEnded
  /\ ImportedOrStopped

\* Steps at which a run has a server of its own.
WithServer == {"ready", "database", "import", "record", "read", "shutdown", "await", "reap"}

\* A run has at most one process, which runs in a directory that is there.
ProcessSound ==
  /\ pc # "idle" => run \in Runs
  /\ \A r \in Runs : r > run => server[r] = "none"
  /\ pc \in {"paths", "init", "start"} => server[run] = "none"
  /\ pc \in WithServer /\ mode # "external" => server[run] # "none"
  /\ pc # "idle" /\ waited => server[run] = "gone"
  /\ pc \notin {"idle", "paths"} /\ mode = "temporary" => tmpDir[run]
  /\ DirectoryOutlivesServer

\* The socket in the directory of a run that has started its server is not that of
\* an earlier run which was listening before.
SocketSound ==
  pc # "idle" /\ protocol = "unix" /\ server[run] # "none" =>
    \A r \in Runs \ {run} : socket[Dir(run)] = r => server[r] # "up"

IInv == TypeOK /\ PoolSound /\ ProcessSound /\ SocketSound

LEMMA InitInv == Init => IInv
<1> SUFFICES ASSUME Init PROVE IInv
  OBVIOUS
<1>1. 0 \in 0..MaxRuns /\ NoServer \in 0..MaxRuns
  BY RunsBound DEF NoServer
<1>2. TypeOK
  <2>1. socket = [d \in 0..MaxRuns |-> NoServer] /\ run = 0 /\ task = [i \in Tasks |-> "new"]
    BY DEF Init, PoolInit
  <2>2. /\ socket \in [0..MaxRuns -> 0..MaxRuns] /\ run \in 0..MaxRuns
        /\ task \in [Tasks -> {"new", "scheduled", "running", "skipped", "done", "failed"}]
    BY <1>1, <2>1
  <2> QED BY <2>2 DEF Init, TypeOK, PoolInit, Steps
<1>3. In({"skipped", "failed"}) = {} /\ loop = "check" /\ pc = "idle"
  BY DEF Init, PoolInit, In
<1>4. PoolSound
  BY <1>3 DEF PoolSound, ImportedOrStopped
<1>5. ProcessSound
  BY <1>3 DEF Init, ProcessSound, WithServer, DirectoryOutlivesServer, Alive
<1>6. SocketSound
  BY <1>3 DEF SocketSound
<1> QED BY <1>2, <1>4, <1>5, <1>6 DEF IInv

-----------------------------------------------------------------------------
(* The pool. *)

\* A step of the pool.
PoolStep ==
  CheckGroup \/ Schedule \/ \E i \in Tasks : StartClient(i) \/ ClientFails(i) \/ ClientSucceeds(i)

LEMMA PoolType ==
  ASSUME TypeOK, PoolStep
  PROVE  /\ task' \in [Tasks -> {"new", "scheduled", "running", "skipped", "done", "failed"}]
         /\ loop' \in {"check", "go", "wait"} /\ failed' \in BOOLEAN
<1>1. CheckGroup => /\ task' = task /\ failed' = failed /\ loop' \in {"check", "go", "wait"}
  BY DEF CheckGroup
<1>2. Schedule => /\ \E i \in Tasks : Set(i, "scheduled")
                  /\ failed' = failed /\ loop' \in {"check", "go", "wait"}
  BY DEF Schedule, In
<1>3. ASSUME NEW i \in Tasks, StartClient(i)
      PROVE  /\ task' = [task EXCEPT ![i] = "skipped"] \/ task' = [task EXCEPT ![i] = "running"]
             /\ failed' \in BOOLEAN /\ loop' = loop
  BY <1>3 DEF StartClient, Set, GroupEnded, TypeOK
<1>4. ASSUME NEW i \in Tasks, ClientFails(i) \/ ClientSucceeds(i)
      PROVE  /\ task' = [task EXCEPT ![i] = "failed"] \/ task' = [task EXCEPT ![i] = "done"]
             /\ failed' \in BOOLEAN /\ loop' = loop
  BY <1>4 DEF ClientFails, ClientSucceeds, Set, TypeOK
<1> QED BY <1>1, <1>2, <1>3, <1>4 DEF PoolStep, TypeOK, Set

\* In the pool a failure is remembered, and a dump is not taken back.
LEMMA PoolKept ==
  ASSUME TypeOK, PoolStep, In({"skipped", "failed"}) # {} => failed,
         loop = "wait" => In({"new"}) = {} \/ GroupEnded, UNCHANGED interrupted
  PROVE  /\ In({"skipped", "failed"})' # {} => failed'
         /\ loop' = "wait" => In({"new"})' = {} \/ GroupEnded'
<1>1. CASE CheckGroup
  BY <1>1 DEF CheckGroup, In, GroupEnded
<1>2. CASE Schedule
  <2> PICK i \in Tasks : Set(i, "scheduled") /\ failed' = failed /\ loop' = "check"
    BY <1>2 DEF Schedule, In
  <2> QED BY DEF Set, In, TypeOK
<1>3. ASSUME NEW i \in Tasks, StartClient(i)
      PROVE  /\ In({"skipped", "failed"})' # {} => failed'
             /\ loop' = "wait" => In({"new"})' = {} \/ GroupEnded'
  <2>1. /\ task[i] = "scheduled" /\ failed' = GroupEnded /\ loop' = loop
        /\ task' = [task EXCEPT ![i] = IF GroupEnded THEN "skipped" ELSE "running"]
    BY <1>3 DEF StartClient, Set
  <2>2. GroupEnded' = GroupEnded
    BY <2>1 DEF GroupEnded
  <2>3. In({"new"})' = In({"new"})
    BY <2>1 DEF In, TypeOK
  <2>4. In({"skipped", "failed"})' # {} => GroupEnded
    BY <2>1 DEF In, TypeOK, GroupEnded
  <2> QED BY <2>1, <2>2, <2>3, <2>4
<1>4. ASSUME NEW i \in Tasks, ClientFails(i) \/ ClientSucceeds(i)
      PROVE  /\ In({"skipped", "failed"})' # {} => failed'
             /\ loop' = "wait" => In({"new"})' = {} \/ GroupEnded'
  <2>1. /\ task[i] = "running" /\ loop' = loop /\ (failed => failed')
        /\ \/ task' = [task EXCEPT ![i] = "failed"] /\ failed'
           \/ task' = [task EXCEPT ![i] = "done"]
    BY <1>4 DEF ClientFails, ClientSucceeds, Set
  <2>2. In({"new"})' = In({"new"})
    BY <2>1 DEF In, TypeOK
  <2>3. In({"skipped", "failed"})' # {} => failed'
    BY <2>1 DEF In, TypeOK
  <2>4. GroupEnded => GroupEnded'
    BY <2>1 DEF GroupEnded
  <2> QED BY <2>1, <2>2, <2>3, <2>4
<1> QED BY <1>1, <1>2, <1>3, <1>4 DEF PoolStep

-----------------------------------------------------------------------------
(* A step preserves the invariant. *)

\* The steps of a run but those that begin it or import.
PlainStep ==
  \/ PreparePaths \/ Initialize \/ StartServer \/ WaitReady \/ PrepareDatabase \/ ImportEnds
  \/ Record \/ Read \/ Close \/ Shutdown \/ Await \/ Reap \/ CleanUp \/ Killed

WorldStep == (\E r \in Runs : Listen(r) \/ ServerEnds(r)) \/ Notice \/ Timer

LEMMA NextCases ==
  [Next]_vars => \/ Begin \/ PlainStep \/ ImportStep \/ WorldStep \/ Interrupt \/ UNCHANGED vars
BY DEF Next, RunStep, PlainStep, WorldStep

\* Only the pool's own steps, a new run and an interrupt are seen by the pool.
LEMMA PoolAlone ==
  /\ PlainStep \/ WorldStep => UNCHANGED <<mode, protocol, task, loop, failed, interrupted>>
  /\ ImportStep => PoolStep /\ pc = "import" /\ UNCHANGED <<serverVars, interrupted>>
<1>1. PlainStep => Outside
  BY DEF PlainStep, PreparePaths, Initialize, StartServer, WaitReady, PrepareDatabase, ImportEnds,
     Record, Read, Close, Shutdown, Await, Reap, CleanUp, Killed, UseServer
<1>2. WorldStep => Outside
  BY DEF WorldStep, Listen, ServerEnds, Notice, Timer, Quiet
<1>3. ImportStep => PoolStep /\ pc = "import" /\ UNCHANGED <<serverVars, interrupted>>
  BY DEF ImportStep, PoolStep
<1> QED BY <1>1, <1>2, <1>3 DEF Outside, poolVars

LEMMA TypeStep ==
  ASSUME IInv, [Next]_vars
  PROVE  TypeOK'
<1>0. /\ TypeOK /\ MaxRuns \in Nat \ {0} /\ NoServer \in 0..MaxRuns
      /\ pc # "idle" => run \in Runs
  BY RunsBound DEF IInv, ProcessSound, NoServer
<1>1. CASE Begin
  <2>1. /\ pc' \in Steps /\ run' \in 0..MaxRuns /\ waited' = FALSE /\ timeout' = FALSE
        /\ interrupted' = FALSE /\ UNCHANGED <<mode, protocol, socket, tmpDir, initialized, server>>
    BY <1>0, <1>1 DEF Begin, TypeOK, Goto, Steps, SameConfig, SameFiles
  <2>2. task' = [i \in Tasks |-> "new"] /\ loop' = "check" /\ failed' = FALSE
    BY <1>1 DEF Begin, ResetPool
  <2>3. task' \in [Tasks -> {"new", "scheduled", "running", "skipped", "done", "failed"}]
    BY <2>2
  <2> QED BY <1>0, <2>1, <2>2, <2>3 DEF TypeOK
<1>2. CASE PlainStep
  <2>0. UNCHANGED <<mode, protocol, task, loop, failed, interrupted>>
    BY <1>2, PoolAlone
  <2>1. CASE PreparePaths
    BY <1>0, <2>0, <2>1 DEF PreparePaths, Goto, SameProcess, TypeOK, Steps
  <2>2. CASE Initialize
    BY <1>0, <2>0, <2>2 DEF Initialize, Goto, SameProcess, TypeOK, Steps
  <2>3. CASE StartServer
    <3>1. socket' = socket \/ socket' = [socket EXCEPT ![Dir(run)] = NoServer]
      BY <2>3 DEF StartServer, SocketRemoved
    <3>2. socket' \in [0..MaxRuns -> 0..MaxRuns]
      BY <1>0, <3>1 DEF TypeOK
    <3> QED BY <1>0, <2>0, <2>3, <3>2 DEF StartServer, Goto, TypeOK, Steps
  <2>4. CASE Await
    BY <1>0, <2>0, <2>4 DEF Await, Goto, SameFiles, TypeOK, Steps
  <2>5. CASE CleanUp
    BY <1>0, <2>0, <2>5 DEF CleanUp, Goto, SameProcess, TypeOK, Steps
  <2>6. CASE WaitReady \/ PrepareDatabase \/ ImportEnds \/ Record \/ Read \/ Close \/ Shutdown
             \/ Reap \/ Killed
    <3>1. /\ pc' \in Steps /\ timeout' = FALSE
          /\ UNCHANGED <<run, server, waited, socket, tmpDir, initialized>>
      BY <2>6 DEF WaitReady, PrepareDatabase, ImportEnds, Record, Read, Close, Shutdown, Reap,
         Killed, Goto, UseServer, SameProcess, SameFiles, Steps
    <3> QED BY <1>0, <2>0, <3>1 DEF TypeOK
  <2> QED BY <1>2, <2>1, <2>2, <2>3, <2>4, <2>5, <2>6 DEF PlainStep
<1>3. CASE ImportStep
  <2>1. PoolStep /\ UNCHANGED <<serverVars, interrupted>>
    BY <1>3, PoolAlone
  <2> QED BY <1>0, <2>1, PoolType DEF TypeOK, serverVars
<1>4. CASE WorldStep
  <2>0. UNCHANGED <<mode, protocol, task, loop, failed, interrupted>>
    BY <1>4, PoolAlone
  <2>1. ASSUME NEW r \in Runs, Listen(r) PROVE TypeOK'
    <3>1. r \in 0..MaxRuns
      BY <1>0 DEF Runs
    <3> QED BY <1>0, <2>0, <2>1, <3>1 DEF Listen, Quiet, TypeOK
  <2>2. ASSUME NEW r \in Runs, ServerEnds(r) PROVE TypeOK'
    <3>1. \/ socket' = socket
          \/ socket' = [socket EXCEPT ![Dir(r)] = NoServer]
          \/ socket' = [socket EXCEPT ![Dir(r)] = socket[Dir(r)]]
      BY <2>2 DEF ServerEnds
    <3>2. socket' \in [0..MaxRuns -> 0..MaxRuns]
      BY <1>0, <3>1 DEF TypeOK
    <3> QED BY <1>0, <2>0, <2>2, <3>2 DEF ServerEnds, Quiet, TypeOK
  <2>3. Notice \/ Timer => TypeOK'
    BY <1>0, <2>0 DEF Notice, Timer, SameFiles, SameProcess, TypeOK
  <2> QED BY <1>4, <2>1, <2>2, <2>3 DEF WorldStep
<1>5. Interrupt => TypeOK'
  BY <1>0 DEF Interrupt, TypeOK, serverVars, poolVars
<1>6. UNCHANGED vars => TypeOK'
  BY <1>0 DEF vars, TypeOK, serverVars, poolVars
<1> QED BY <1>1, <1>2, <1>3, <1>4, <1>5, <1>6, NextCases

\* The run comes to record only through the end of an import without an error.
LEMMA PoolSoundStep ==
  ASSUME IInv, [Next]_vars
  PROVE  PoolSound'
<1>0. TypeOK /\ PoolSound
  BY DEF IInv
<1>1. ASSUME UNCHANGED <<task, loop, failed>>, UNCHANGED interrupted \/ interrupted',
             pc' = "record" => pc = "record" \/ Imported,
             pc' \notin {"idle", "import"} => pc \notin {"idle", "import"} \/ Active = {}
      PROVE  PoolSound'
  <2>1. \A states : In(states)' = In(states)
    BY <1>1 DEF In
  <2>2. Active' = Active /\ Imported' = Imported
    BY <2>1 DEF Active, Imported
  <2> QED BY <1>0, <1>1, <2>1, <2>2 DEF PoolSound, ImportedOrStopped, GroupEnded
<1>2. CASE Begin
  <2>1. task' = [i \in Tasks |-> "new"] /\ loop' = "check" /\ pc' \in {"database", "paths"}
    BY <1>2 DEF Begin, ResetPool, Goto
  <2>2. In({"skipped", "failed"})' = {} /\ Active' = {}
    BY <2>1 DEF In, Active
  <2> QED BY <2>1, <2>2 DEF PoolSound, ImportedOrStopped
<1>3. CASE PlainStep
  <2>0. UNCHANGED <<mode, protocol, task, loop, failed, interrupted>>
    BY <1>3, PoolAlone
  <2>1. CASE ImportEnds
    <3>1. Active = {} /\ loop = "wait" /\ (pc' = "record" => ~ImportError)
      BY <2>1 DEF ImportEnds, GroupDone, Goto
    <3>2. ASSUME ~ImportError PROVE Imported
      <4>1. In({"new"}) = {} /\ In({"skipped", "failed"}) = {} /\ In({"scheduled", "running"}) = {}
        BY <1>0, <3>1, <3>2 DEF PoolSound, ImportError, GroupEnded, Active
      <4>2. \A i \in Tasks : task[i] = "done"
        BY <1>0, <4>1 DEF In, TypeOK
      <4> QED BY <4>2 DEF Imported, In
    <3> QED BY <1>1, <2>0, <3>1, <3>2
  <2>2. CASE ~ImportEnds
    <3>1. pc # "idle" /\ pc' # "record" /\ (pc = "import" => pc' = "idle")
      BY <1>3, <2>2 DEF PlainStep, PreparePaths, Initialize, StartServer, WaitReady,
         PrepareDatabase, Record, Read, Close, Shutdown, Await, Reap, CleanUp, Killed, Goto
    <3> QED BY <1>1, <2>0, <3>1
  <2> QED BY <2>1, <2>2
<1>4. CASE ImportStep
  <2>1. PoolStep /\ pc' = "import" /\ interrupted' = interrupted
    BY <1>4, PoolAlone DEF serverVars
  <2> QED BY <1>0, <2>1, PoolKept DEF PoolSound, ImportedOrStopped
<1>5. CASE WorldStep
  <2>1. UNCHANGED <<task, loop, failed, interrupted>>
    BY <1>5, PoolAlone
  <2>2. pc' = pc
    BY <1>5 DEF WorldStep, Listen, ServerEnds, Quiet, Notice, Timer
  <2> QED BY <1>1, <2>1, <2>2
<1>6. Interrupt => PoolSound'
  BY <1>1 DEF Interrupt, serverVars, poolVars
<1>7. UNCHANGED vars => PoolSound'
  BY <1>1 DEF vars, serverVars, poolVars
<1> QED BY <1>2, <1>3, <1>4, <1>5, <1>6, <1>7, NextCases

\* A process is started once in a run, after its directory is there, and the directory
\* is removed when the process is known to have ended.
LEMMA ProcessStep ==
  ASSUME IInv, [Next]_vars
  PROVE  ProcessSound'
<1>0. /\ TypeOK /\ ProcessSound /\ MaxRuns \in Nat \ {0}
      /\ \A r \in Runs : r \in Int
  BY RunsBound DEF IInv, Runs
<1>1. ASSUME UNCHANGED <<mode, run, server, waited, tmpDir>>,
             pc' # "idle" => pc # "idle",
             pc' \in {"paths", "init", "start"} => pc \in {"paths", "init", "start"},
             pc' \in WithServer /\ mode # "external" => server[run] # "none",
             pc' \notin {"idle", "paths"} => pc \notin {"idle", "paths"},
             pc' = "cleanup" /\ mode # "external" => ~Alive(run)
      PROVE  ProcessSound'
  BY <1>0, <1>1 DEF ProcessSound, DirectoryOutlivesServer, Alive
<1>2. CASE Begin
  <2>1. /\ pc = "idle" /\ run < MaxRuns /\ run' = run + 1 /\ waited' = FALSE
        /\ pc' = IF mode = "external" THEN "database" ELSE "paths"
        /\ UNCHANGED <<mode, tmpDir, server>>
    BY <1>2 DEF Begin, Goto, SameConfig, SameFiles
  <2>2. run \in Int /\ run' \in Runs /\ server[run'] = "none"
    BY <1>0, <2>1 DEF ProcessSound, TypeOK, Runs
  <2>3. \A r \in Runs : r > run' => server[r] = "none"
    BY <1>0, <2>1, <2>2 DEF ProcessSound
  <2>4. \A r \in Runs : mode = "temporary" /\ Alive(r) => tmpDir[r]
    BY <1>0 DEF ProcessSound, DirectoryOutlivesServer
  <2> QED BY <2>1, <2>2, <2>3, <2>4 DEF ProcessSound, DirectoryOutlivesServer, WithServer, Alive
<1>3. CASE PlainStep
  <2>0. mode' = mode
    BY <1>3, PoolAlone
  <2>1. CASE PreparePaths
    <3>1. /\ pc = "paths" /\ pc' \in {"idle", "init"} /\ UNCHANGED <<run, server, waited>>
          /\ tmpDir' = IF mode = "temporary" THEN [tmpDir EXCEPT ![run] = TRUE] ELSE tmpDir
      BY <2>1 DEF PreparePaths, Goto, SameProcess
    <3> QED BY <1>0, <2>0, <3>1 DEF ProcessSound, DirectoryOutlivesServer, WithServer, Alive, TypeOK
  <2>2. CASE StartServer
    <3>1. /\ pc = "start" /\ UNCHANGED <<run, waited, tmpDir>>
          /\ \/ pc' = "ready" /\ server' = [server EXCEPT ![run] = "starting"]
             \/ pc' = "close" /\ UNCHANGED server
      BY <2>2 DEF StartServer, Goto
    <3>2. CASE pc' = "close"
      BY <1>0, <1>1, <2>0, <3>1, <3>2 DEF WithServer
    <3>3. CASE pc' = "ready"
      <4>1. server' = [server EXCEPT ![run] = "starting"] /\ run \in Runs /\ run \in Int
        BY <1>0, <3>1, <3>3 DEF ProcessSound
      <4>2. server[run] = "none" /\ ~waited /\ (mode = "temporary" => tmpDir[run])
        BY <1>0, <3>1 DEF ProcessSound
      <4> QED BY <1>0, <2>0, <3>1, <3>3, <4>1, <4>2
              DEF ProcessSound, DirectoryOutlivesServer, WithServer, Alive, TypeOK
    <3> QED BY <3>1, <3>2, <3>3
  <2>3. CASE Await
    <3>1. /\ pc = "await" /\ UNCHANGED <<run, waited, tmpDir>>
          /\ \/ waited /\ pc' = "cleanup" /\ UNCHANGED server
             \/ /\ pc' = "reap"
                /\ server' = IF Alive(run) THEN [server EXCEPT ![run] = "dying"] ELSE server
      BY <2>3 DEF Await, Goto, SameFiles
    <3>2. CASE pc' = "cleanup"
      BY <1>0, <1>1, <2>0, <3>1, <3>2 DEF ProcessSound, WithServer, Alive
    <3>3. CASE pc' = "reap" /\ ~Alive(run)
      BY <1>0, <1>1, <2>0, <3>1, <3>3 DEF ProcessSound, WithServer
    <3>4. CASE pc' = "reap" /\ Alive(run)
      <4>1. server' = [server EXCEPT ![run] = "dying"] /\ run \in Runs /\ run \in Int
        BY <1>0, <3>1, <3>4 DEF ProcessSound
      <4> QED BY <1>0, <2>0, <3>1, <3>4, <4>1
              DEF ProcessSound, DirectoryOutlivesServer, WithServer, Alive, TypeOK
    <3> QED BY <3>1, <3>2, <3>3, <3>4
  <2>4. CASE CleanUp
    <3>1. /\ pc = "cleanup" /\ pc' = "idle" /\ UNCHANGED <<run, server, waited>>
          /\ tmpDir' = [tmpDir EXCEPT ![run] = FALSE]
      BY <2>4 DEF CleanUp, Goto, SameProcess
    <3>2. mode = "temporary" => ~Alive(run)
      BY <1>0, <3>1 DEF ProcessSound, DirectoryOutlivesServer
    <3> QED BY <1>0, <2>0, <3>1, <3>2 DEF ProcessSound, DirectoryOutlivesServer, WithServer, Alive, TypeOK
  <2>5. CASE Initialize
    <3>1. pc = "init" /\ pc' \in {"start", "close"} /\ UNCHANGED <<run, server, waited, tmpDir>>
      BY <2>5 DEF Initialize, Goto, SameProcess
    <3> QED BY <1>1, <2>0, <3>1 DEF WithServer
  <2>6. CASE WaitReady \/ PrepareDatabase \/ ImportEnds \/ Record \/ Read
    <3>1. /\ pc \in WithServer /\ pc' \in WithServer \cup {"close"}
          /\ UNCHANGED <<run, server, waited, tmpDir>>
      BY <2>6 DEF WaitReady, PrepareDatabase, ImportEnds, Record, Read, Goto, UseServer,
         SameProcess, SameFiles, WithServer
    <3> QED BY <1>0, <1>1, <2>0, <3>1 DEF WithServer, ProcessSound
  <2>7. CASE Close
    <3>1. /\ pc = "close" /\ UNCHANGED <<run, server, waited, tmpDir>>
          /\ pc' = IF mode # "external" /\ Started /\ ~waited THEN "shutdown" ELSE "cleanup"
      BY <2>7 DEF Close, Goto, UseServer, SameProcess, SameFiles
    <3>2. pc' = "cleanup" /\ mode # "external" => ~Alive(run)
      BY <1>0, <3>1 DEF Started, ProcessSound, Alive
    <3> QED BY <1>1, <2>0, <3>1, <3>2 DEF Started, WithServer
  <2>8. CASE Shutdown
    <3>1. /\ pc = "shutdown" /\ pc' = "await" /\ UNCHANGED <<run, server, waited, tmpDir>>
      BY <2>8 DEF Shutdown, Goto, UseServer, SameProcess, SameFiles
    <3> QED BY <1>0, <1>1, <2>0, <3>1 DEF WithServer, ProcessSound
  <2>9. CASE Reap
    <3>1. /\ pc = "reap" /\ pc' = "cleanup" /\ waited /\ UNCHANGED <<run, server, waited, tmpDir>>
      BY <2>9 DEF Reap, Goto, UseServer, SameProcess, SameFiles
    <3> QED BY <1>0, <1>1, <2>0, <3>1 DEF WithServer, ProcessSound, Alive
  <2>10. CASE Killed
    <3>1. pc' = "idle" /\ UNCHANGED <<run, server, waited, tmpDir>>
      BY <2>10 DEF Killed, Goto, SameProcess, SameFiles
    <3> QED BY <1>1, <2>0, <3>1 DEF WithServer
  <2> QED BY <1>3, <2>1, <2>2, <2>3, <2>4, <2>5, <2>6, <2>7, <2>8, <2>9, <2>10 DEF PlainStep
<1>4. CASE WorldStep
  <2>0. mode' = mode
    BY <1>4, PoolAlone
  <2>1. ASSUME NEW r \in Runs, Listen(r) PROVE ProcessSound'
    <3>1. /\ server[r] = "starting" /\ UNCHANGED <<pc, run, waited, tmpDir>>
          /\ \/ server' = [server EXCEPT ![r] = "up"]
             \/ server' = [server EXCEPT ![r] = "late"]
      BY <2>1 DEF Listen, Quiet
    <3>2. \A q \in Runs : /\ server'[q] \in {"up", "late"} \/ server'[q] = server[q]
                          /\ server'[q] # server[q] => server[q] = "starting"
      BY <1>0, <3>1 DEF TypeOK
    <3>3. \A q \in Runs : Alive(q)' => Alive(q)
      BY <3>2 DEF Alive
    <3>4. \A q \in Runs : /\ server[q] \in {"none", "gone"} => server'[q] = server[q]
                          /\ server[q] # "none" => server'[q] # "none"
      BY <3>2
    <3>5. DirectoryOutlivesServer'
      <4>1. pc = "cleanup" => run \in Runs
        BY <1>0 DEF ProcessSound
      <4> QED BY <1>0, <2>0, <3>1, <3>3, <4>1 DEF ProcessSound, DirectoryOutlivesServer
    <3>6. pc # "idle" => run \in Runs
      BY <1>0 DEF ProcessSound
    <3> QED BY <1>0, <2>0, <3>1, <3>4, <3>5, <3>6 DEF ProcessSound, WithServer
  <2>2. ASSUME NEW r \in Runs, ServerEnds(r) PROVE ProcessSound'
    <3>1. /\ Alive(r) /\ UNCHANGED <<pc, run, waited, tmpDir>> /\ server' = [server EXCEPT ![r] = "gone"]
      BY <2>2 DEF ServerEnds, Quiet
    <3> QED BY <1>0, <2>0, <3>1 DEF ProcessSound, DirectoryOutlivesServer, Alive, TypeOK
  <2>3. CASE Notice
    <3>1. server[run] = "gone" /\ UNCHANGED <<pc, run, server, tmpDir>>
      BY <2>3 DEF Notice, SameFiles
    <3> QED BY <1>0, <2>0, <3>1 DEF ProcessSound, DirectoryOutlivesServer, Alive
  <2>4. CASE Timer
    <3>1. UNCHANGED <<pc, run, server, waited, tmpDir>>
      BY <2>4 DEF Timer, SameFiles, SameProcess
    <3> QED BY <1>0, <2>0, <3>1 DEF ProcessSound, DirectoryOutlivesServer, Alive
  <2> QED BY <1>4, <2>1, <2>2, <2>3, <2>4 DEF WorldStep
<1>5. ASSUME UNCHANGED serverVars PROVE ProcessSound'
  BY <1>0, <1>5 DEF ProcessSound, DirectoryOutlivesServer, Alive, serverVars
<1>6. ImportStep \/ Interrupt \/ UNCHANGED vars => UNCHANGED serverVars
  BY PoolAlone DEF Interrupt, vars
<1> QED BY <1>2, <1>3, <1>4, <1>5, <1>6, NextCases

\* The socket of an earlier run is removed before the server is started, and a server
\* that takes its place was not listening before.
LEMMA SocketStep ==
  ASSUME IInv, [Next]_vars
  PROVE  SocketSound'
<1>0. /\ TypeOK /\ SocketSound /\ MaxRuns \in Nat \ {0} /\ Runs \subseteq 0..MaxRuns
      /\ pc # "idle" => run \in Runs
      /\ NoServer \notin Runs /\ NoServer \in 0..MaxRuns
  BY RunsBound DEF IInv, ProcessSound, Runs, NoServer
<1>1. ASSUME UNCHANGED <<mode, protocol, run, socket, server>>, pc' # "idle" => pc # "idle"
      PROVE  SocketSound'
  <2>1. Dir(run)' = Dir(run)
    BY <1>1 DEF Dir
  <2> QED BY <1>0, <1>1, <2>1 DEF SocketSound
<1>2. CASE Begin
  <2>1. /\ run < MaxRuns /\ run' = run + 1 /\ UNCHANGED server
    BY <1>2 DEF Begin
  <2>2. server[run'] = "none"
    BY <1>0, <2>1 DEF IInv, ProcessSound, TypeOK, Runs
  <2> QED BY <2>1, <2>2 DEF SocketSound
<1>3. CASE PlainStep
  <2>0. mode' = mode /\ protocol' = protocol
    BY <1>3, PoolAlone
  <2>1. CASE StartServer
    <3>1. /\ pc = "start" /\ run' = run
          /\ socket' = IF protocol = "unix" THEN [socket EXCEPT ![Dir(run)] = NoServer] ELSE socket
      BY <2>1 DEF StartServer, SocketRemoved
    <3>2. run \in Runs /\ Dir(run)' = Dir(run) /\ Dir(run) \in 0..MaxRuns
      BY <1>0, <2>0, <3>1 DEF Dir
    <3>3. protocol = "unix" => socket'[Dir(run)] = NoServer
      BY <1>0, <3>1, <3>2 DEF TypeOK
    <3> QED BY <1>0, <2>0, <3>1, <3>2, <3>3 DEF SocketSound
  <2>2. CASE Await
    <3>1. /\ pc = "await" /\ run' = run /\ socket' = socket
          /\ server' = server \/ (server' = [server EXCEPT ![run] = "dying"] /\ Alive(run))
      BY <2>2 DEF Await, SameFiles
    <3>2. Dir(run)' = Dir(run) /\ run \in Runs
      BY <1>0, <2>0, <3>1 DEF Dir
    <3>3. \A r \in Runs \ {run} : server'[r] = server[r]
      BY <1>0, <3>1 DEF TypeOK
    <3>4. server'[run] # "none" => server[run] # "none"
      BY <1>0, <3>1, <3>2 DEF Alive, TypeOK
    <3> QED BY <1>0, <2>0, <3>1, <3>2, <3>3, <3>4 DEF SocketSound
  <2>3. CASE ~(StartServer \/ Await)
    <3>1. UNCHANGED <<run, socket, server>> /\ pc # "idle"
      BY <1>3, <2>3 DEF PlainStep, PreparePaths, Initialize, WaitReady, PrepareDatabase, ImportEnds,
         Record, Read, Close, Shutdown, Reap, CleanUp, Killed, UseServer, SameProcess, SameFiles
    <3> QED BY <1>1, <2>0, <3>1
  <2> QED BY <2>1, <2>2, <2>3
<1>4. CASE WorldStep
  <2>0. mode' = mode /\ protocol' = protocol
    BY <1>4, PoolAlone
  <2>1. ASSUME NEW r \in Runs, Listen(r) PROVE SocketSound'
    <3>1. /\ server[r] = "starting" /\ run' = run /\ pc' = pc
          /\ server' = [server EXCEPT ![r] = IF r = run THEN "up" ELSE "late"]
          /\ socket' = IF protocol = "unix" THEN [socket EXCEPT ![Dir(r)] = r] ELSE socket
      BY <2>1 DEF Listen, Quiet
    <3>2. SUFFICES ASSUME pc # "idle", protocol = "unix", server'[run] # "none",
                          NEW q \in Runs \ {run}, socket'[Dir(run)] = q
                   PROVE  server'[q] # "up"
      BY <2>0, <3>1 DEF SocketSound, Dir
    <3>3. server[run] # "none" /\ run \in Runs /\ Dir(run) \in 0..MaxRuns
      BY <1>0, <3>1, <3>2 DEF Dir, TypeOK
    <3>4. socket[Dir(run)] = q \/ r = q
      BY <1>0, <3>1, <3>2, <3>3 DEF TypeOK
    <3> QED BY <1>0, <3>1, <3>2, <3>3, <3>4 DEF SocketSound, TypeOK
  <2>2. ASSUME NEW r \in Runs, ServerEnds(r) PROVE SocketSound'
    <3>1. /\ Alive(r) /\ run' = run /\ pc' = pc /\ server' = [server EXCEPT ![r] = "gone"]
          /\ socket' = socket \/ socket' = [socket EXCEPT ![Dir(r)] = NoServer]
      <4>1. Dir(r) \in 0..MaxRuns
        BY <1>0 DEF Dir
      <4>2. [socket EXCEPT ![Dir(r)] = socket[Dir(r)]] = socket
        BY <1>0, <4>1 DEF TypeOK
      <4> QED BY <2>2, <4>2 DEF ServerEnds, Quiet
    <3>2. SUFFICES ASSUME pc # "idle", protocol = "unix", server'[run] # "none",
                          NEW q \in Runs \ {run}, socket'[Dir(run)] = q
                   PROVE  server'[q] # "up"
      BY <2>0, <3>1 DEF SocketSound, Dir
    <3>3. run \in Runs /\ Dir(run) \in 0..MaxRuns /\ q # NoServer
      BY <1>0, <3>2 DEF Dir
    <3>4. socket[Dir(run)] = q
      BY <1>0, <3>1, <3>2, <3>3 DEF TypeOK
    <3>5. server[run] # "none"
      BY <1>0, <3>1, <3>2, <3>3 DEF TypeOK, Alive
    <3> QED BY <1>0, <3>1, <3>2, <3>4, <3>5 DEF SocketSound, TypeOK
  <2>3. Notice \/ Timer => SocketSound'
    BY <1>1, <2>0 DEF Notice, Timer, SameFiles, SameProcess
  <2> QED BY <1>4, <2>1, <2>2, <2>3 DEF WorldStep
<1>5. ImportStep \/ Interrupt \/ UNCHANGED vars => UNCHANGED serverVars
  BY PoolAlone DEF Interrupt, vars
<1>6. UNCHANGED serverVars => SocketSound'
  BY <1>1 DEF serverVars
<1> QED BY <1>2, <1>3, <1>4, <1>5, <1>6, NextCases

-----------------------------------------------------------------------------
(* The theorems. *)

\* In every state the run's process, directory and socket and the pool are sound,
\* whatever the servers do and whenever a run is interrupted or killed.
THEOREM ServerInvariance == Spec => []IInv
<1>1. IInv /\ [Next]_vars => IInv'
  BY TypeStep, PoolSoundStep, ProcessStep, SocketStep DEF IInv
<1> QED BY <1>1, InitInv, PTL DEF Spec

\* Every variable of the server and of the import keeps its type.
THEOREM ServerTypeCorrect == Spec => []TypeOK
BY ServerInvariance, PTL DEF IInv

\* A temporary directory is there as long as a server runs on it, and a run that
\* comes to clean up has no process any more.
THEOREM DirectoryKept == Spec => []DirectoryOutlivesServer
<1>1. IInv => DirectoryOutlivesServer
  BY DEF IInv, ProcessSound
<1> QED BY <1>1, ServerInvariance, PTL

\* Whoever answers on the socket of a run is its own server, or one that an earlier
\* run left starting.
THEOREM ServerIsOwn == Spec => []OwnServer
<1>1. IInv => OwnServer
  <2> SUFFICES ASSUME IInv, pc \in {"database", "import", "record", "read", "shutdown"},
                      mode # "external", protocol = "unix", NEW r \in Answering
               PROVE  r = run \/ server[r] = "late"
    BY DEF OwnServer
  <2>1. r \in Runs /\ socket[Dir(run)] = r /\ server[r] \in {"up", "late"}
    BY DEF Answering, Listening
  <2>2. server[run] # "none"
    BY DEF IInv, ProcessSound, WithServer
  <2>3. r # run => server[r] # "up"
    BY <2>1, <2>2 DEF IInv, SocketSound
  <2> QED BY <2>1, <2>3
<1> QED BY <1>1, ServerInvariance, PTL

\* The import is recorded only when all dumps were imported, and leaves no client.
THEOREM AllImported == Spec => []ImportedOrStopped
<1>1. IInv => ImportedOrStopped
  BY DEF IInv, PoolSound
<1> QED BY <1>1, ServerInvariance, PTL
=============================================================================
