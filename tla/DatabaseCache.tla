---------------------------- MODULE DatabaseCache ---------------------------
(* The manifest of a directory of SQL dumps (library/manifest.go, db/importer.go,
   db/provenance.go, library/process.go): the dumps are imported, table by table,
   into a database that may outlive the run; the database records which dumps were
   imported; the manifest is made from the tables and labelled with that record.
   The dumps may be replaced, or another directory be given, at any time. *)
EXTENDS CacheCommand, Sequences

CONSTANTS
  DumpSets,      \* what a directory may hold: functions from names to versions
  FirstDumps,    \* what it holds at first
  DumpTime,      \* the modification time of each version of a dump
  Declared,      \* what a dump says of itself: its date and its format
  Persistent,    \* whether the database outlives a run
  AllowMismatch, \* --allow-dump-date-mismatch
  MaxSwitches    \* bound: how often the dumps are replaced

ASSUME DumpAssumption == FirstDumps \in DumpSets /\ MaxSwitches \in Nat
ASSUME DumpVersions ==
  /\ DumpTime \in Seq(Int) /\ Declared \in [DOMAIN DumpTime -> Int]
  /\ \A d \in DumpSets : d \in [DOMAIN d -> DOMAIN DumpTime]
ASSUME DumpTimes == \A v, w \in DOMAIN DumpTime : DumpTime[v] = DumpTime[w] => v = w

VARIABLES
  dumps,         \* the dumps in the directory
  tables,        \* the database: the version each table has the rows of
  provenance,    \* what it records of the last import
  dbManifest,    \* the published manifest
  plan,          \* the run: what it knows of the dumps, and which are still to be imported
  taint,         \* why the tables may differ from the provenance
  switches

databaseVars == <<dumps, tables, provenance, dbManifest, plan, taint, switches>>

Names == UNION {DOMAIN d : d \in DumpSets}
Absent == 0
Partial == -1
NoTables == [n \in Names |-> Absent]
NoProvenance == <<>>
NoPlan == [sources |-> NoProvenance, newer |-> FALSE, todo |-> {}]
Rows == [n \in {n \in Names : tables[n] # Absent} |-> tables[n]]

\* What is known of a dump that was found with some declaration.
Source(v, declared) == [declared |-> declared, modified |-> DumpTime[v], md5 |-> v]
Sources(d) == [n \in DOMAIN d |-> Source(d[n], Declared[d[n]])]
Consistent(d) == AllowMismatch \/ \A n, o \in DOMAIN d : Declared[d[n]] = Declared[d[o]]

\* A database that outlives the run may hold an earlier import.
DatabaseInit ==
  /\ dumps = FirstDumps
  /\ \E d \in {NoProvenance} \cup
         (IF Persistent /\ selected = "database" THEN {e \in DumpSets : Consistent(e)} ELSE {}) :
       /\ tables = [n \in Names |-> IF n \in DOMAIN d THEN d[n] ELSE Absent]
       /\ provenance = Sources(d)
  /\ dbManifest \in (IF selected = "database" THEN {NoManifest, Unreadable} ELSE {NoManifest})
  /\ plan = NoPlan /\ taint = {} /\ switches = 0

\* Other dumps are copied into the directory, or another directory is given.
SwitchDumps ==
  /\ selected = "database" /\ switches < MaxSwitches /\ switches' = switches + 1
  /\ dumps' \in DumpSets \ {dumps}
  /\ raced' = IF pc \in {"prepare", "import"} THEN "after"
              ELSE IF pc # "idle" /\ raced = "no" THEN "before" ELSE raced
  /\ SameWorld /\ UNCHANGED <<pc, flags, tables, provenance, dbManifest, plan, taint>>

-----------------------------------------------------------------------------
(* How a manifest is compared with the dumps *)

CurrentSources == Sources(dumps)
SameDeclared(a, b) ==
  DOMAIN a = DOMAIN b /\ \A n \in DOMAIN a : a[n].declared = b[n].declared
SameModified(a, b) == \A n \in DOMAIN a : a[n].modified = b[n].modified
SameMD5(a, b) == \A n \in DOMAIN a : a[n].md5 = b[n].md5

DumpLightMatches(m, current) ==
  m.processing = Processing("fb2") /\ SameDeclared(m.dumps, current)
DumpMatches(m, current) == DumpLightMatches(m, current) /\ SameMD5(m.dumps, current)
NewerThanDumps(m) == \A n \in DOMAIN dumps : m.at > DumpTime[dumps[n]]

\* ValidateDatabaseManifest
DatabaseValid == Readable(dbManifest) /\ DumpLightMatches(dbManifest, CurrentSources)
DatabaseReady ==
  DatabaseValid /\ NewerThanDumps(dbManifest) /\ SameModified(dbManifest.dumps, CurrentSources)
DatabaseVerified == DatabaseValid /\ DumpMatches(dbManifest, CurrentSources)

-----------------------------------------------------------------------------
(* A run: planning *)

EndDatabase == EndRun /\ plan' = NoPlan
SameDatabase == UNCHANGED <<tables, provenance, taint>>

\* DiscoverDumps: the dumps must say that they are of one date.
Discover ==
  /\ pc = "discover"
  /\ IF Consistent(dumps)
     THEN plan' = [NoPlan EXCEPT !.sources = CurrentSources] /\ Goto("planDumps")
     ELSE EndDatabase
  /\ SameWorld /\ SameDatabase /\ UNCHANGED <<dumps, dbManifest, switches>>

\* collectDumpSources: what is there under the names that were found, if it still is.
Found == DOMAIN plan.sources
AllThere == Found \subseteq DOMAIN dumps
Collected == [n \in Found |-> Source(dumps[n], plan.sources[n].declared)]
NewerThanFound == \A n \in Found : dbManifest.at > DumpTime[dumps[n]]
DumpsLookCurrent ==
  /\ Readable(dbManifest) /\ DumpLightMatches(dbManifest, Collected)
  /\ SameModified(dbManifest.dumps, Collected)

\* Mutant: a manifest of other dumps is left as it is.
ImportsUnreadable(current, newer) ==
  dbManifest = NoManifest \/ (flags.rebuild /\ ~Readable(dbManifest))

\* As for archives: what is missing, or is stale and --rebuild is given.
Imports(current, newer) == dbManifest = NoManifest \/ (flags.rebuild /\ ~(current /\ newer))

PlanDatabase ==
  /\ pc = "planDumps"
  /\ IF AllThere /\ DumpsLookCurrent /\ flags.check
     THEN plan' = [plan EXCEPT !.newer = NewerThanFound] /\ Goto("verify")
     ELSE IF AllThere /\ Imports(DumpsLookCurrent, Readable(dbManifest) /\ NewerThanFound)
          THEN Goto("sum") /\ UNCHANGED plan
          ELSE EndDatabase
  /\ SameWorld /\ SameDatabase /\ UNCHANGED <<dumps, dbManifest, switches>>

\* --check-md5: the checksums decide, and the times that were seen before.
Verify ==
  /\ pc = "verify"
  /\ IF AllThere /\ Imports(DumpMatches(dbManifest, Collected), plan.newer)
     THEN /\ Goto(IF DumpMatches(dbManifest, Collected) THEN "sum" ELSE "prepare")
          /\ plan' = [plan EXCEPT !.sources = Collected]
     ELSE EndDatabase
  /\ SameWorld /\ SameDatabase /\ UNCHANGED <<dumps, dbManifest, switches>>

\* dumpSourcesWithMD5: times and checksums before the import.
SumDumps ==
  /\ pc = "sum"
  /\ IF AllThere THEN plan' = [plan EXCEPT !.sources = Collected] /\ Goto("prepare")
                 ELSE EndDatabase
  /\ SameWorld /\ SameDatabase /\ UNCHANGED <<dumps, dbManifest, switches>>

-----------------------------------------------------------------------------
(* A run: the database *)

\* PrepareRuntime, PrepareDatabase: what is in a persistent database stays.
Prepare ==
  /\ pc = "prepare" /\ Goto(IF flags.import THEN "import" ELSE "read")
  /\ IF Persistent THEN SameDatabase
     ELSE tables' = NoTables /\ provenance' = NoProvenance /\ taint' = {}
  /\ plan' = [plan EXCEPT !.todo = IF flags.import THEN Found ELSE {}]
  /\ SameWorld /\ UNCHANGED <<dumps, dbManifest, switches>>

\* The dump of a table drops the table first; several dumps are imported at once.
BeginTable(n) ==
  /\ pc = "import" /\ n \in plan.todo \cap DOMAIN dumps
  /\ tables' = [tables EXCEPT ![n] = Partial] /\ taint' = taint \cup {"interrupted"}
  /\ plan' = [plan EXCEPT !.todo = @ \ {n}]
  /\ Goto("import") /\ SameWorld /\ UNCHANGED <<dumps, provenance, dbManifest, switches>>

FillTable(n) ==
  /\ pc = "import" /\ n \in (Found \ plan.todo) \cap DOMAIN dumps /\ tables[n] = Partial
  /\ tables' = [tables EXCEPT ![n] = dumps[n]]
  /\ Goto("import") /\ SameWorld
  /\ UNCHANGED <<dumps, provenance, dbManifest, plan, taint, switches>>

\* A dump that was found has gone.
ImportFails ==
  /\ pc = "import" /\ ~AllThere /\ EndDatabase
  /\ SameWorld /\ SameDatabase /\ UNCHANGED <<dumps, dbManifest, switches>>

\* EnsureReadIndexes and WriteImportProvenance, after the last table.
Record ==
  /\ pc = "import" /\ \A n \in Found : n \notin plan.todo /\ tables[n] # Partial
  /\ provenance' = plan.sources
  /\ taint' = (IF DOMAIN Rows = Found THEN {} ELSE {"leftover"}) \cup
              (IF raced = "after" THEN {"replaced"} ELSE {})
  /\ Goto("read") /\ SameWorld /\ UNCHANGED <<dumps, tables, dbManifest, plan, switches>>

\* Mutant: the manifest is labelled with the dumps of the command line.
LabelAsked == plan.sources

\* ProcessDatabase labels the manifest with what the database records.
Label == provenance

PublishDatabase ==
  /\ pc = "read"
  /\ dbManifest' = (IF Rows = <<>> \/ provenance = NoProvenance THEN dbManifest
                    ELSE [schema |-> 2, dumps |-> Label, processing |-> Processing("fb2"),
                          records |-> Rows, at |-> clock, taint |-> taint])
  /\ EndDatabase /\ SameWorld /\ SameDatabase /\ UNCHANGED <<dumps, switches>>

StopDatabase ==
  /\ selected = "database" /\ StopRun /\ plan' = NoPlan
  /\ SameDatabase /\ UNCHANGED <<dumps, dbManifest, switches>>

DatabaseStep ==
  \/ Discover \/ PlanDatabase \/ Verify \/ SumDumps \/ Prepare
  \/ (\E n \in Names : BeginTable(n) \/ FillTable(n))
  \/ ImportFails \/ Record \/ PublishDatabase
DatabaseNext == SwitchDumps \/ DatabaseStep \/ StopDatabase

-----------------------------------------------------------------------------
(* What a manifest should say *)

\* Every row of the dumps that are there, and no other.
DatabaseDescribed ==
  dbManifest.records = dumps /\ dbManifest.processing = Processing("fb2")

DatabaseSettled == switches = MaxSwitches /\ Consistent(dumps)
=============================================================================
