------------------------------- MODULE Merge --------------------------------
(* The command merge (runMerge and writeOutput in cmd/metabib/main.go, Writer in
   jsonl/writer.go): it validates the selected manifests, declares a dataset, reads
   the manifests again, one after the other, writes the records beside the old
   dataset and replaces it.  cache may publish other manifests at any time, and
   the archives may be replaced, also between two steps of a run. *)
EXTENDS Dataset, Functions

CONSTANTS
  ArchiveNames,      \* the archives, in their order
  ArchiveVersions,   \* per archive, its versions: [entries, records of its manifest]
  DatabaseVersions,  \* the versions of the database manifest: sequences of records
  MaxChanges,        \* bound: how often a source or a manifest is replaced
  MaxRuns            \* bound: how many runs there are

ASSUME MergeArchives ==
  /\ ArchiveNames \in Seq(Range(ArchiveNames)) /\ IsInjective(ArchiveNames)
  /\ DOMAIN ArchiveVersions = Range(ArchiveNames)
\* A manifest has its records in the order of the entries, or of the books.
ASSUME ArchiveManifests ==
  \A versions \in Range(ArchiveVersions) :
    /\ versions \in Seq(Range(versions)) /\ versions # <<>>
    /\ \A v \in DOMAIN versions :
         LET entries == versions[v].entries  records == versions[v].records IN
         /\ entries \in Nat /\ records \in Seq(Range(records))
         /\ \A i \in DOMAIN records : records[i].index \in 0..(entries - 1)
         /\ \A i, j \in DOMAIN records : i < j => records[i].index <= records[j].index
ASSUME DatabaseManifests ==
  /\ DatabaseVersions \in Seq(Range(DatabaseVersions)) /\ DatabaseVersions # <<>>
  /\ \A records \in Range(DatabaseVersions) :
       /\ records \in Seq(Range(records)) /\ \A i \in DOMAIN records : records[i].id \in Int
       /\ \A i, j \in DOMAIN records : i < j => records[i].id <= records[j].id
ASSUME MergeBounds == MaxChanges \in Nat /\ MaxRuns \in Nat

VARIABLES
  archive,       \* per archive, the version that is there
  manifest,      \* per archive, the version its manifest is of, or none
  dbManifest,    \* the version of the database manifest that is there, or none
  changes, runs,
  pc, asked,     \* the step of the run, and what it was asked for
  plan,          \* per selected archive, the records its manifest declared; the sum
  index,         \* the database index
  staged,        \* the dataset that is being written, in a file beside the output
  output         \* the dataset that is published

worldVars == <<archive, manifest, dbManifest, changes>>
runVars == <<runs, pc, asked, plan, index, staged, output>>
vars == <<worldVars, runVars>>

Archives == Range(ArchiveNames)
Missing == 0
NoFile == <<>>
Nothing == [database |-> FALSE, archives |-> FALSE, stale |-> FALSE, missing |-> FALSE]
Requests == {r \in [database : BOOLEAN, archives : BOOLEAN, stale : BOOLEAN, missing : BOOLEAN] :
               r.database \/ r.archives}
NoPlan == [archives |-> <<>>, counts |-> <<>>, database |-> FALSE]

Init ==
  /\ archive = [a \in Archives |-> 1]
  /\ manifest \in [Archives -> {Missing, 1}]
  /\ dbManifest \in {Missing, 1}
  /\ changes = 0 /\ runs = 0 /\ pc = "idle" /\ asked = Nothing
  /\ plan = NoPlan /\ index = NoIndex /\ staged = NoFile /\ output = NoFile

-----------------------------------------------------------------------------
(* The world: cache, and whoever brings archives and dumps *)

Change ==
  /\ changes < MaxChanges /\ changes' = changes + 1 /\ UNCHANGED runVars
ReplaceArchive(a) ==
  /\ Change /\ \E v \in DOMAIN ArchiveVersions[a] \ {archive[a]} :
       archive' = [archive EXCEPT ![a] = v]
  /\ UNCHANGED <<manifest, dbManifest>>
PublishManifest(a) ==
  /\ Change /\ manifest[a] # archive[a] /\ manifest' = [manifest EXCEPT ![a] = archive[a]]
  /\ UNCHANGED <<archive, dbManifest>>
PublishDatabaseManifest ==
  /\ Change /\ dbManifest' \in DOMAIN DatabaseVersions \ {dbManifest}
  /\ UNCHANGED <<archive, manifest>>

-----------------------------------------------------------------------------
(* A run *)

ManifestRecords(a) == ArchiveVersions[a][manifest[a]].records
Here == UNCHANGED worldVars

\* The run is over, and what it staged is of no use any more.
Leave ==
  /\ pc' = "idle" /\ asked' = Nothing /\ plan' = NoPlan /\ index' = NoIndex
  /\ staged' = NoFile /\ UNCHANGED runs

Start(request) ==
  /\ pc = "idle" /\ runs < MaxRuns /\ runs' = runs + 1
  /\ asked' = request /\ pc' = "validate" /\ Here
  /\ UNCHANGED <<plan, index, staged, output>>

\* The archives that have a manifest, in their order: a set of one sequence.
Position(a) == CHOOSE i \in DOMAIN ArchiveNames : ArchiveNames[i] = a
Selections ==
  LET chosen == {a \in Archives : asked.archives /\ manifest[a] # Missing} IN
  {s \in [1..Cardinality(chosen) -> chosen] :
     \A i, j \in DOMAIN s : i < j => Position(s[i]) < Position(s[j])}

\* ValidateDatabaseManifest, ValidateArchiveManifests, filterMissingArchiveManifests.
DatabaseReady == asked.database /\ dbManifest # Missing
AllReady(selected) ==
  /\ asked.missing \/ (asked.database => DatabaseReady)
  /\ asked.missing \/ (asked.archives => \A a \in Archives : manifest[a] # Missing)
  /\ asked.stale \/ \A i \in DOMAIN selected : manifest[selected[i]] = archive[selected[i]]

Validate ==
  /\ pc = "validate" /\ Here
  /\ \E selected \in Selections :
       IF AllReady(selected) /\ (DatabaseReady \/ selected # <<>>)
       THEN /\ plan' = [database |-> DatabaseReady, archives |-> selected,
                        counts |-> IF selected = <<>>
                                   THEN <<Len(DatabaseVersions[dbManifest])>>
                                   ELSE [i \in DOMAIN selected |-> Len(ManifestRecords(selected[i]))]]
            /\ pc' = "declare" /\ UNCHANGED <<runs, asked, index, staged, output>>
       ELSE Leave /\ UNCHANGED output

\* DatasetFor counts the entries of the archives as they are now; the header is
\* written to a file beside the output.
Total(counts) == FoldLeft(+, 0, counts)
DeclaredArchives ==
  [i \in DOMAIN plan.archives |->
     [id |-> plan.archives[i],
      entries |-> ArchiveVersions[plan.archives[i]][archive[plan.archives[i]]].entries]]

Declare ==
  /\ pc = "declare" /\ Here
  /\ staged' = [header |-> Header(plan.database, DeclaredArchives, Total(plan.counts)),
                records |-> <<>>, fits |-> TRUE]
  /\ pc' = IF plan.archives = <<>> THEN "database" ELSE "ids"
  /\ UNCHANGED <<runs, asked, plan, index, output>>
\* loadDatabaseIndex reads the manifest twice, as it is each time.
DatabaseRecords == IF dbManifest = Missing THEN <<>> ELSE DatabaseVersions[dbManifest]

ReadIDs ==
  /\ pc = "ids" /\ Here
  /\ index' = IF plan.database THEN [NoIndex EXCEPT !.byID = IndexIDs(DatabaseRecords)] ELSE NoIndex
  /\ pc' = "files" /\ UNCHANGED <<runs, asked, plan, staged, output>>

ReadFiles ==
  /\ pc = "files" /\ Here
  /\ index' = IF plan.database THEN IndexFiles(index, DatabaseRecords) ELSE index
  /\ pc' = "archives" /\ UNCHANGED <<runs, asked, plan, staged, output>>

\* ForEachManifestRecord: an open manifest is read to its end.
AddRecords(records, fits) ==
  staged' = [staged EXCEPT !.records = @ \o records, !.fits = @ /\ fits]

\* Mutant: the records are numbered anew.
RecordsNumbered(a) ==
  [i \in DOMAIN ManifestRecords(a) |->
     ArchiveRecord([ManifestRecords(a)[i] EXCEPT !.index = i - 1], a,
                   Match(ManifestRecords(a)[i], index))]

\* mergeArchiveManifests: every record is kept, with what was found of its book.
MergedRecords(a) ==
  [i \in DOMAIN ManifestRecords(a) |->
     ArchiveRecord(ManifestRecords(a)[i], a, Match(ManifestRecords(a)[i], index))]

MergeArchive ==
  /\ pc = "archives" /\ plan.archives # <<>> /\ Here
  /\ LET a == Head(plan.archives) IN
     AddRecords(MergedRecords(a), ArchiveVersions[a][manifest[a]].entries <= Entries(staged.header, a))
  /\ plan' = [plan EXCEPT !.archives = Tail(@)]
  /\ UNCHANGED <<runs, pc, asked, index, output>>

\* writeDatabaseManifestRecords
MergeDatabase ==
  /\ pc = "database" /\ Here
  /\ AddRecords([i \in DOMAIN DatabaseRecords |-> DatabaseRecord(DatabaseRecords[i])], TRUE)
  /\ pc' = "archives" /\ UNCHANGED <<runs, asked, plan, index, output>>

\* Mutant: the number of records is not compared with the one declared.
CountIgnored(dataset) == TRUE

CountMatches(dataset) == Len(dataset.records) = dataset.header.records

\* The end of the callback of writeOutput, then Writer.Stage.
StageOutput ==
  /\ pc = "archives" /\ plan.archives = <<>> /\ Here
  /\ IF CountMatches(staged)
     THEN pc' = "commit" /\ UNCHANGED <<runs, asked, plan, index, staged, output>>
     ELSE Leave /\ UNCHANGED output

\* Writer.Commit renames the staged file.
Commit == pc = "commit" /\ Here /\ output' = staged /\ Leave

\* Writer.Abort after an error or an interrupt; or the program is killed.
Abort == pc # "idle" /\ Here /\ Leave /\ UNCHANGED output

Next ==
  \/ \E a \in Archives : ReplaceArchive(a) \/ PublishManifest(a)
  \/ PublishDatabaseManifest
  \/ \E request \in Requests : Start(request)
  \/ Validate \/ Declare \/ ReadIDs \/ ReadFiles \/ MergeArchive \/ MergeDatabase
  \/ StageOutput \/ Commit \/ Abort

Spec == Init /\ [][Next]_vars

-----------------------------------------------------------------------------
(* Properties *)

\* What merge publishes is read to its end by inspect, trace and inpx, whatever was
\* replaced while it was made: the number, the order, the indexes and the sources of
\* the records agree with the header.  Two cases are excepted: a dataset of archives
\* alone, and a manifest of an archive that had more entries than the one that is
\* counted, as --allow-stale and a replacement during the run permit.
PublishedAccepted ==
  output # NoFile /\ output.fits /\ (output.header.database \/ output.header.archives = <<>>)
    => Accepted(output)

\* Merging archives only is one of the three uses (README.md:644): its dataset is read
\* by the other commands as well.
ArchivesOnlyAccepted ==
  output # NoFile /\ output.fits /\ ~output.header.database => Accepted(output)

\* A book owns a file name in the index only if it wins over every other book that has
\* the name, in whatever order they came, also when the manifest was replaced between
\* the two passes.
OwnersWin ==
  [][pc = "files" /\ pc' = "archives" =>
       \A name \in DOMAIN index'.byFile :
         LET owner == index'.byFile[name]
             holders == {rec.id : rec \in {r \in Range(DatabaseRecords) : name \in FileKeys(r)}}
         IN owner \in holders /\ \A id \in holders \ {owner} : Wins(index'.byID, owner, id)]_vars

\* The records of an archive are together, and those of these entries.
HoldsEntries(records, a, entries) ==
  \E first \in 0..(Len(records) - Len(entries)) :
    /\ \A i \in DOMAIN records : records[i].locator.source = a <=> i - first \in DOMAIN entries
    /\ \A i \in DOMAIN entries : records[first + i].locator.index = entries[i].index

\* A dataset of archives holds the entries of each archive as one of its manifests had
\* them, in their order: whether a book is found, and what is replaced meanwhile,
\* neither adds, drops nor renumbers one (README.md:798, README.md:822).
EntriesKept ==
  output # NoFile =>
    \A a \in ArchiveIDs(output.header) : \E v \in DOMAIN ArchiveVersions[a] :
      HoldsEntries(output.records, a, ArchiveVersions[a][v].records)
=============================================================================
