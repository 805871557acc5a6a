--------------------------- MODULE ManagedServer ----------------------------
(* The database server that a run of cache starts, uses and stops (db/runtime.go,
   runCache in cmd/metabib/main.go): its data directory, its address, its process,
   and the import that happens meanwhile.  The server may stop at any time, the run
   may be interrupted or killed at any time, and runs follow one another. *)
EXTENDS ImportPool

CONSTANTS MaxRuns     \* bound: how many runs there are

ASSUME RunsBound == MaxRuns \in Nat \ {0}

VARIABLES
  mode,          \* "temporary", "persistent", or "external": not managed
  protocol,      \* "unix" or "tcp"
  pc, run,       \* the step the run is at; its number
  server,        \* per run, the process it started
  waited,        \* the process of this run is known to have ended: waitCh
  socket,        \* per data directory, the server whose socket is there
  tmpDir,        \* per run, its temporary directory is there
  initialized,   \* the persistent data directory looks initialized
  timeout        \* the deadline of the step has passed

serverVars == <<mode, protocol, pc, run, server, waited, socket, tmpDir, initialized, timeout>>
vars == <<serverVars, poolVars, interrupted>>

Runs == 1..MaxRuns
NoServer == 0
Alive(r) == server[r] \in {"starting", "up", "late", "dying"}
\* The directory of a run: one of its own, or the persistent one.
Dir(r) == IF mode = "temporary" THEN r ELSE NoServer

\* Who answers at the address that the run uses.
Listening(r) == server[r] \in {"up", "late"}
Answering ==
  IF protocol = "unix"
  THEN {r \in Runs : socket[Dir(run)] = r /\ Listening(r)}
  ELSE {r \in Runs : Listening(r)}
Reachable == mode = "external" \/ Answering # {}

Init ==
  /\ mode \in {"temporary", "persistent", "external"} /\ protocol \in {"unix", "tcp"}
  /\ pc = "idle" /\ run = 0 /\ server = [r \in Runs |-> "none"] /\ waited = FALSE
  /\ socket = [d \in 0..MaxRuns |-> NoServer] /\ tmpDir = [r \in Runs |-> FALSE]
  /\ initialized = FALSE /\ timeout = FALSE
  /\ PoolInit /\ interrupted = FALSE

Goto(step) == pc' = step /\ timeout' = FALSE
SameConfig == UNCHANGED <<mode, protocol>>
SameProcess == UNCHANGED <<run, server, waited>>
SameFiles == UNCHANGED <<socket, tmpDir, initialized>>
Outside == UNCHANGED <<mode, protocol, poolVars, interrupted>>

-----------------------------------------------------------------------------
(* PrepareRuntime *)

Begin ==
  /\ pc = "idle" /\ run < MaxRuns /\ run' = run + 1 /\ waited' = FALSE
  /\ Goto(IF mode = "external" THEN "database" ELSE "paths")
  /\ ResetPool /\ interrupted' = FALSE
  /\ SameConfig /\ SameFiles /\ UNCHANGED server

\* prepareManagedPaths: what fails here leaves the new directory behind.
PreparePaths ==
  /\ pc = "paths"
  /\ tmpDir' = IF mode = "temporary" THEN [tmpDir EXCEPT ![run] = TRUE] ELSE tmpDir
  /\ \E fails \in BOOLEAN : Goto(IF fails THEN "idle" ELSE "init")
  /\ Outside /\ SameProcess /\ UNCHANGED <<socket, initialized>>

Reuses == mode = "persistent" /\ initialized

\* initializeDataDir: an install that does not finish may leave what looks initialized.
Initialize ==
  /\ pc = "init"
  /\ \/ Reuses /\ Goto("start") /\ UNCHANGED initialized
     \/ ~Reuses /\ ~interrupted /\ Goto("start") /\ initialized' = (mode = "persistent")
     \/ ~Reuses /\ Goto("close") /\ initialized' \in {FALSE, mode = "persistent"}
  /\ Outside /\ SameProcess /\ UNCHANGED <<socket, tmpDir>>

\* Mutant: the socket that is there is left there.
SocketKept == socket
\* removeStaleSocket
SocketRemoved ==
  IF protocol = "unix" THEN [socket EXCEPT ![Dir(run)] = NoServer] ELSE socket

\* startServer and startManagedProcess
StartServer ==
  /\ pc = "start" /\ socket' = SocketRemoved
  /\ \/ ~interrupted /\ Goto("ready") /\ server' = [server EXCEPT ![run] = "starting"]
     \/ Goto("close") /\ UNCHANGED server
  /\ Outside /\ UNCHANGED <<run, waited, tmpDir, initialized>>

\* waitReady: asks the address until something answers; the process is not looked at.
WaitReady ==
  /\ pc = "ready"
  /\ \/ ~interrupted /\ Reachable /\ Goto("database")
     \/ (interrupted \/ timeout) /\ Goto("close")
  /\ Outside /\ SameProcess /\ SameFiles

-----------------------------------------------------------------------------
(* What runCache does with it *)

UseServer == Outside /\ SameProcess /\ SameFiles

\* PrepareDatabase, and the beginning of ImportDumps; with --no-import neither.
PrepareDatabase ==
  /\ pc = "database"
  /\ \/ ~interrupted /\ Reachable /\ Goto("import")
     \/ Goto("read") \/ Goto("close")
  /\ UseServer

ImportStep ==
  /\ pc = "import"
  /\ \/ CheckGroup \/ Schedule
     \/ \E i \in Tasks : StartClient(i) \/ ClientFails(i) \/ (Reachable /\ ClientSucceeds(i))
  /\ UNCHANGED <<serverVars, interrupted>>

ImportEnds ==
  /\ pc = "import" /\ GroupDone /\ Goto(IF ImportError THEN "close" ELSE "record")
  /\ UseServer

\* EnsureReadIndexes and WriteImportProvenance.
Record ==
  /\ pc = "record" /\ UseServer
  /\ \/ ~interrupted /\ Reachable /\ Goto("read")
     \/ Goto("close")

\* ProcessDatabase
Read == pc = "read" /\ Goto("close") /\ UseServer

-----------------------------------------------------------------------------
(* Close *)

Started == server[run] # "none"

Close ==
  /\ pc = "close"
  /\ Goto(IF mode # "external" /\ Started /\ ~waited THEN "shutdown" ELSE "cleanup")
  /\ UseServer

\* stopManagedServer: the admin client stops what answers at the address; if it
\* cannot, the process gets an interrupt.  Either may do nothing.
Shutdown == pc = "shutdown" /\ Goto("await") /\ UseServer

\* Mutant: waiting for the server has no end.
AwaitForever ==
  /\ pc = "await" /\ waited /\ Goto("cleanup")
  /\ Outside /\ SameFiles /\ SameProcess

Await ==
  /\ pc = "await"
  /\ \/ waited /\ Goto("cleanup") /\ UNCHANGED server
     \/ timeout /\ Goto("reap")
        /\ server' = IF Alive(run) THEN [server EXCEPT ![run] = "dying"] ELSE server
  /\ Outside /\ SameFiles /\ UNCHANGED <<run, waited>>

\* Mutant: the killed process is not waited for.
ReapNothing == pc = "reap" /\ Goto("cleanup") /\ UseServer

Reap == pc = "reap" /\ waited /\ Goto("cleanup") /\ UseServer

CleanUp ==
  /\ pc = "cleanup" /\ tmpDir' = [tmpDir EXCEPT ![run] = FALSE] /\ Goto("idle")
  /\ Outside /\ SameProcess /\ UNCHANGED <<socket, initialized>>

-----------------------------------------------------------------------------
(* The world *)

Quiet == Outside /\ UNCHANGED <<pc, run, waited, tmpDir, initialized, timeout>>

\* A server gets its directory and its address only if no other has them.
Listen(r) ==
  /\ server[r] = "starting"
  /\ \A q \in Runs : Listening(q) \/ server[q] = "dying" => protocol = "unix" /\ Dir(q) # Dir(r)
  /\ server' = [server EXCEPT ![r] = IF r = run THEN "up" ELSE "late"]
  /\ socket' = IF protocol = "unix" THEN [socket EXCEPT ![Dir(r)] = r] ELSE socket
  /\ Quiet

\* In good order, with its socket removed, or not.
ServerEnds(r) ==
  /\ Alive(r) /\ server' = [server EXCEPT ![r] = "gone"]
  /\ socket' \in {socket, [socket EXCEPT ![Dir(r)] = IF @ = r THEN NoServer ELSE @]}
  /\ Quiet

\* The goroutine that waits for the process.
Notice ==
  /\ pc # "idle" /\ server[run] = "gone" /\ ~waited /\ waited' = TRUE
  /\ Outside /\ SameFiles /\ UNCHANGED <<pc, run, server, timeout>>

Timer ==
  /\ pc \in {"ready", "await"} /\ ~timeout /\ timeout' = TRUE
  /\ Outside /\ SameFiles /\ SameProcess /\ UNCHANGED pc

Interrupt ==
  /\ pc # "idle" /\ ~interrupted /\ interrupted' = TRUE
  /\ UNCHANGED <<serverVars, poolVars>>

\* The program is killed: nothing of it runs on, the server may.
Killed ==
  /\ pc # "idle" /\ Goto("idle") /\ Outside /\ SameProcess /\ SameFiles

RunStep ==
  \/ PreparePaths \/ Initialize \/ StartServer \/ WaitReady
  \/ PrepareDatabase \/ ImportStep \/ ImportEnds \/ Record \/ Read
  \/ Close \/ Shutdown \/ Await \/ Reap \/ CleanUp

Next ==
  \/ Begin \/ RunStep
  \/ (\E r \in Runs : Listen(r) \/ ServerEnds(r))
  \/ Notice \/ Timer \/ Interrupt \/ Killed

\* The program goes on, its timers run, the clients end, and a server that was killed
\* is gone.  A server need not obey any other request.
Fairness ==
  /\ WF_vars(RunStep) /\ WF_vars(Notice) /\ WF_vars(Timer)
  /\ \A r \in Runs : WF_vars(server[r] = "dying" /\ ServerEnds(r))

Spec == Init /\ [][Next]_vars /\ Fairness

-----------------------------------------------------------------------------
(* Properties *)

\* A temporary directory is never removed under a server that still runs on it, and
\* a run that came to close its runtime leaves neither: only a killed run, and one
\* that failed on its paths, leave something.
DirectoryOutlivesServer ==
  /\ \A r \in Runs : mode = "temporary" /\ Alive(r) => tmpDir[r]
  /\ pc = "cleanup" /\ mode # "external" => ~Alive(run)

\* With a socket, a run never reads from, imports into or stops a server that an
\* earlier run left listening.  One that was left starting may yet take the address.
OwnServer ==
  pc \in {"database", "import", "record", "read", "shutdown"} /\ mode # "external" /\ protocol = "unix"
    => \A r \in Answering : r = run \/ server[r] = "late"

\* The provenance is recorded, and the database read, only when every dump has been
\* imported, and no client runs on once the import has ended.
ImportedOrStopped ==
  /\ pc = "record" => Imported
  /\ pc \notin {"idle", "import"} => Active = {}

\* Every run comes to its end, whatever the server does.
EventuallyReturns == pc # "idle" ~> pc = "idle"
=============================================================================
