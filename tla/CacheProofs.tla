---------------------------- MODULE CacheProofs -----------------------------
(* Theorems about Cache, for any versions of an archive, any dumps, and any number
   of runs, replacements and interruptions.  The invariant says what the header of a
   manifest, the provenance in the database and the locals of a run are of. *)
EXTENDS Cache, TLAPS

-----------------------------------------------------------------------------
(* The inductive invariant. *)

ArchiveSteps == {"classify", "plan", "compare", "checksum", "open", "publish"}
DatabaseSteps == {"discover", "planDumps", "verify", "sum", "prepare", "import", "read"}

\* A behaviour caches archives or dumps, never both.
OneHalf ==
  /\ selected \in {"archives", "database"}
  /\ selected = "archives" => pc \in ArchiveSteps \cup {"idle"} /\ dbManifest = NoManifest
  /\ selected = "database" => pc \in DatabaseSteps \cup {"idle"} /\ manifest = NoManifest

\* The checksum in a manifest is of no later version than its records; the time is of
\* the version its records are of, if it could be.
ArchiveManifestSound ==
  Readable(manifest) =>
    /\ manifest.md5 \in Versions /\ manifest.records \in Versions
    /\ manifest.md5 <= manifest.records /\ manifest.records <= archive
    /\ manifest.at \in Int /\ manifest.at <= clock
    /\ \E v \in Versions : /\ v <= archive /\ manifest.modified = Time[v]
                           /\ ~manifest.raced => manifest.records = v

\* What a run over an archive has taken from it.
ArchiveRunSound ==
  /\ opened # Nothing <=> pc = "publish"
  /\ opened <= archive /\ decision.md5 <= archive
  /\ pc \in {"open", "publish"} => decision.md5 # Nothing
  /\ pc = "publish" => decision.md5 <= opened /\ (raced = "no" => opened = archive)
  /\ pc \in {"checksum", "open", "publish"} => manifest = NoManifest \/ flags.rebuild
  /\ pc \in ArchiveSteps \ {"classify"} /\ Readable(manifest) /\ manifest.modified = Time[archive] =>
       decision.scope = Scope[archive]

\* What is recorded of a dump is of one version of it.
OfOneVersion(sources) ==
  \A n \in DOMAIN sources :
    sources[n].md5 \in DOMAIN DumpTime /\ sources[n].modified = DumpTime[sources[n].md5]

\* The tables are what the provenance says, unless something was marked.
TablesSound ==
  /\ plan = [sources |-> plan.sources, newer |-> plan.newer, todo |-> plan.todo]
  /\ OfOneVersion(provenance) /\ OfOneVersion(plan.sources)
  /\ taint = {} => /\ DOMAIN provenance = {n \in Names : tables[n] # Absent}
                   /\ \A n \in DOMAIN provenance : tables[n] = provenance[n].md5

\* The same of the rows in a manifest and the dumps it names.
DatabaseManifestSound ==
  Readable(dbManifest) =>
    /\ OfOneVersion(dbManifest.dumps)
    /\ dbManifest.taint = {} =>
         dbManifest.records = [n \in DOMAIN dbManifest.dumps |-> dbManifest.dumps[n].md5]

\* What a run over the dumps has taken from them.
DatabaseRunSound ==
  /\ pc \in {"planDumps", "verify"} /\ raced = "no" => plan.sources = CurrentSources
  /\ pc = "verify" /\ raced = "no" /\ NewerThanDumps(dbManifest) => plan.newer
  /\ pc \in {"sum", "prepare", "import", "read"} =>
       /\ dbManifest = NoManifest \/ flags.rebuild
       /\ raced = "no" => ~DatabaseReady
  /\ pc \in {"prepare", "import"} /\ raced # "after" =>
       AllThere /\ \A n \in Found : plan.sources[n].md5 = dumps[n]
  /\ pc = "import" /\ raced # "after" =>
       \A n \in Found \ plan.todo : tables[n] \in {Partial, dumps[n]}

IInv ==
  /\ TypeOK /\ OneHalf /\ ArchiveManifestSound /\ ArchiveRunSound
  /\ TablesSound /\ DatabaseManifestSound /\ DatabaseRunSound

-----------------------------------------------------------------------------
(* Lemmas on versions and on steps. *)

LEMMA VersionFacts ==
  /\ Versions = 1..Len(Scope) /\ Len(Scope) \in Nat /\ 1 \in Versions /\ Nothing \notin Versions
  /\ \A v \in Versions : Scope[v] \in {"fb2", "usr"} /\ Time[v] \in Int
  /\ \A v, w \in Versions : Time[v] = Time[w] => v = w
<1>1. Scope \in Seq({"fb2", "usr"}) /\ Scope # <<>> /\ Time \in [DOMAIN Scope -> Int]
  BY ArchiveVersions
<1>2. \A v, w \in DOMAIN Scope : Time[v] = Time[w] => v = w
  BY ArchiveTimes
<1> QED BY <1>1, <1>2 DEF Versions, Nothing

LEMMA DumpFacts ==
  /\ DOMAIN DumpTime = 1..Len(DumpTime) /\ Len(DumpTime) \in Nat
  /\ \A v \in DOMAIN DumpTime : /\ v # Absent /\ v # Partial /\ v \in Int
                                /\ DumpTime[v] \in Int /\ Declared[v] \in Int
  /\ \A d \in DumpSets : DOMAIN d \subseteq Names /\ \A n \in DOMAIN d : d[n] \in DOMAIN DumpTime
BY DumpVersions DEF Absent, Partial, Names

\* The steps of one half leave the other alone, and what runs do not change stays.
LEMMA Halves ==
  ASSUME OneHalf, [Next]_vars
  PROVE  /\ selected' = selected
         /\ \/ World /\ UNCHANGED <<archiveVars, databaseVars>>
            \/ (\E f \in Flags : StartRun(f)) /\ UNCHANGED <<archiveVars, databaseVars>>
            \/ selected = "archives" /\ ArchiveNext /\ UNCHANGED databaseVars
            \/ selected = "database" /\ DatabaseNext /\ UNCHANGED archiveVars
            \/ UNCHANGED vars
<1>1. ASSUME ArchiveNext PROVE selected = "archives" /\ selected' = selected
  <2>1. ArchiveStep => pc \in ArchiveSteps /\ selected' = selected
    BY DEF ArchiveStep, Classify, Plan, Compare, Checksum, Open, PublishArchive, SameWorld, ArchiveSteps
  <2>2. ReplaceArchive \/ StopArchive => selected = "archives" /\ selected' = selected
    BY DEF ReplaceArchive, StopArchive, StopRun, SameWorld
  <2> QED BY <1>1, <2>1, <2>2 DEF ArchiveNext, OneHalf, ArchiveSteps, DatabaseSteps
<1>2. ASSUME DatabaseNext PROVE selected = "database" /\ selected' = selected
  <2>1. DatabaseStep => pc \in DatabaseSteps /\ selected' = selected
    BY DEF DatabaseStep, Discover, PlanDatabase, Verify, SumDumps, Prepare, BeginTable, FillTable,
       ImportFails, Record, PublishDatabase, SameWorld, DatabaseSteps
  <2>2. SwitchDumps \/ StopDatabase => selected = "database" /\ selected' = selected
    BY DEF SwitchDumps, StopDatabase, StopRun, SameWorld
  <2> QED BY <1>2, <2>1, <2>2 DEF DatabaseNext, OneHalf, ArchiveSteps, DatabaseSteps
<1>3. World \/ (\E f \in Flags : Start(f)) => selected' = selected
  BY DEF World, Configure, Tick, Start, StartRun
<1>4. UNCHANGED vars => selected' = selected
  BY DEF vars, sharedVars
<1> QED BY <1>1, <1>2, <1>3, <1>4 DEF Next, World, Start

-----------------------------------------------------------------------------
(* Types. *)

\* What the halves share.
SharedValues ==
  /\ settings \in Settings /\ clock \in 0..MaxClock /\ stops \in 0..MaxStops
  /\ flags \in Flags /\ raced \in {"no", "before", "after"}

LEMMA SharedStep ==
  ASSUME TypeOK, OneHalf, [Next]_vars
  PROVE  SharedValues'
<1> USE CommandBounds
<1>0. SharedValues /\ Full \in Flags
  BY DEF TypeOK, SharedValues, Full, Flags
<1>1. ASSUME SameWorld,
             \/ \E step : Goto(step)
             \/ EndRun
             \/ UNCHANGED flags /\ raced' \in {"no", "before", "after"}
      PROVE  SharedValues'
  BY <1>0, <1>1 DEF SameWorld, Goto, EndRun, SharedValues
<1>2. World \/ (\E f \in Flags : StartRun(f)) => SharedValues'
  BY <1>0 DEF World, Configure, Tick, StartRun, SharedValues
<1>3. StopRun => SharedValues'
  BY <1>0 DEF StopRun, EndRun, SharedValues
<1>4. ArchiveStep => SameWorld /\ ((\E step : Goto(step)) \/ EndRun)
  BY DEF ArchiveStep, Classify, Plan, Compare, Checksum, Open, PublishArchive, BuildArchive, EndArchive
<1>5. ReplaceArchive => SameWorld /\ UNCHANGED flags /\ raced' \in {"no", "before", "after"}
  BY <1>0 DEF ReplaceArchive, SharedValues
<1>6. DatabaseStep => SameWorld /\ ((\E step : Goto(step)) \/ EndRun)
  BY DEF DatabaseStep, Discover, PlanDatabase, Verify, SumDumps, Prepare, BeginTable, FillTable,
       ImportFails, Record, PublishDatabase, EndDatabase
<1>7. SwitchDumps => SameWorld /\ UNCHANGED flags /\ raced' \in {"no", "before", "after"}
  BY <1>0 DEF SwitchDumps, SharedValues
<1>8. UNCHANGED vars => SharedValues'
  BY <1>0 DEF vars, sharedVars, SharedValues
<1> QED
  BY <1>1, <1>2, <1>3, <1>4, <1>5, <1>6, <1>7, <1>8, Halves
     DEF ArchiveNext, StopArchive, DatabaseNext, StopDatabase

ArchiveValues ==
  /\ archive \in Versions /\ opened \in Versions \cup {Nothing}
  /\ decision \in [scope : {"fb2", "usr"}, md5 : Versions \cup {Nothing}, newer : BOOLEAN]

LEMMA ArchiveValuesStep ==
  ASSUME TypeOK, ArchiveNext
  PROVE  ArchiveValues'
<1>0. ArchiveValues /\ Scope[archive] \in {"fb2", "usr"}
  BY VersionFacts DEF TypeOK, ArchiveValues
<1>1. NoDecision \in [scope : {"fb2", "usr"}, md5 : Versions \cup {Nothing}, newer : BOOLEAN]
  BY DEF NoDecision
<1>2. ForgetArchive /\ archive' = archive => ArchiveValues'
  BY <1>0, <1>1 DEF ForgetArchive, ArchiveValues
<1>3. ASSUME NEW md5 \in Versions \cup {Nothing}, BuildArchive(md5), archive' = archive
      PROVE  ArchiveValues'
  BY <1>0, <1>3 DEF BuildArchive, ArchiveValues
<1>4. ReplaceArchive => ArchiveValues'
  BY <1>0 DEF ReplaceArchive, ArchiveValues
<1>5. Classify => ArchiveValues'
  BY <1>0, <1>1 DEF Classify, ArchiveValues
<1>6. ASSUME Plan PROVE ArchiveValues'
  <2>1. Newer(manifest) \in BOOLEAN
    BY DEF Newer
  <2>2. CASE LooksCurrent /\ flags.check
    BY <1>0, <1>6, <2>1, <2>2 DEF Plan, ArchiveValues
  <2>3. CASE ~(LooksCurrent /\ flags.check)
    BY <1>2, <1>3, <1>6, <2>3 DEF Plan, EndArchive
  <2> QED BY <2>2, <2>3
<1>7. Compare => ArchiveValues'
  BY <1>0, <1>2, <1>3 DEF Compare, EndArchive, ArchiveValues
<1>8. Checksum => ArchiveValues'
  BY <1>0 DEF Checksum, ArchiveValues
<1>9. Open => ArchiveValues'
  BY <1>0 DEF Open, ArchiveValues
<1>10. PublishArchive \/ StopArchive => ArchiveValues'
  BY <1>2 DEF PublishArchive, StopArchive, EndArchive
<1> QED
  BY <1>4, <1>5, <1>6, <1>7, <1>8, <1>9, <1>10 DEF ArchiveNext, ArchiveStep

DatabaseValues ==
  /\ dumps \in DumpSets /\ tables \in [Names -> Int] /\ switches \in 0..MaxSwitches
  /\ taint \subseteq {"interrupted", "leftover", "replaced"}
  /\ \A n \in DOMAIN plan.sources : plan.sources[n] \in SourceType
  /\ \A n \in DOMAIN provenance : provenance[n] \in SourceType

\* What is recorded of the dumps that are there.
LEMMA SourceFacts ==
  ASSUME NEW d \in DumpSets
  PROVE  /\ OfOneVersion(Sources(d)) /\ DOMAIN Sources(d) = DOMAIN d
         /\ \A n \in DOMAIN d : /\ Sources(d)[n] \in SourceType /\ Sources(d)[n].md5 = d[n]
                                /\ Sources(d)[n].declared = Declared[d[n]]
BY DumpFacts DEF Sources, Source, SourceType, OfOneVersion

LEMMA CollectedFacts ==
  ASSUME DatabaseValues, AllThere
  PROVE  /\ OfOneVersion(Collected) /\ DOMAIN Collected = Found
         /\ \A n \in Found : /\ Collected[n] \in SourceType /\ Collected[n].md5 = dumps[n]
                             /\ Collected[n].declared = plan.sources[n].declared
BY DumpFacts DEF Collected, Source, SourceType, OfOneVersion, DatabaseValues, AllThere, Found

LEMMA DatabaseValuesStep ==
  ASSUME TypeOK, TablesSound, DatabaseNext
  PROVE  DatabaseValues'
<1>0. /\ DatabaseValues /\ MaxSwitches \in Nat
      /\ plan = [sources |-> plan.sources, newer |-> plan.newer, todo |-> plan.todo]
  BY DumpAssumption DEF TypeOK, DatabaseValues, TablesSound
<1>1. NoPlan.sources = <<>> /\ NoProvenance = <<>> /\ DOMAIN <<>> = {}
  BY DEF NoPlan, NoProvenance
<1>2. ASSUME UNCHANGED <<dumps, switches>>, SameDatabase,
             plan'.sources \in {plan.sources, <<>>}
      PROVE  DatabaseValues'
  BY <1>0, <1>1, <1>2 DEF SameDatabase, DatabaseValues
<1>3. ASSUME EndDatabase, UNCHANGED <<dumps, switches>>, SameDatabase PROVE DatabaseValues'
  BY <1>1, <1>2, <1>3 DEF EndDatabase
<1>4. CASE SwitchDumps
  BY <1>0, <1>4 DEF SwitchDumps, DatabaseValues
<1>5. CASE Discover
  <2>1. CASE Consistent(dumps)
    <3>1. plan' = [NoPlan EXCEPT !.sources = CurrentSources] /\ SameDatabase
          /\ UNCHANGED <<dumps, switches>>
      BY <1>5, <2>1 DEF Discover
    <3>2. plan'.sources = CurrentSources
      BY <3>1 DEF NoPlan
    <3>3. \A n \in DOMAIN CurrentSources : CurrentSources[n] \in SourceType
      BY <1>0, SourceFacts DEF CurrentSources, DatabaseValues
    <3> QED BY <1>0, <3>1, <3>2, <3>3 DEF DatabaseValues, SameDatabase
  <2>2. CASE ~Consistent(dumps)
    BY <1>3, <1>5, <2>2 DEF Discover
  <2> QED BY <2>1, <2>2
<1>6. CASE PlanDatabase
  <2>1. UNCHANGED <<dumps, switches>> /\ SameDatabase
    BY <1>6 DEF PlanDatabase
  <2>2. plan' = [plan EXCEPT !.newer = NewerThanFound] \/ plan' = plan \/ plan' = NoPlan
    BY <1>6 DEF PlanDatabase, EndDatabase
  <2>3. plan'.sources \in {plan.sources, <<>>}
    BY <1>0, <1>1, <2>2
  <2> QED BY <1>2, <2>1, <2>3
<1>7. CASE Verify \/ SumDumps
  <2>1. UNCHANGED <<dumps, switches>> /\ SameDatabase
    BY <1>7 DEF Verify, SumDumps
  <2>2. (AllThere /\ plan' = [plan EXCEPT !.sources = Collected]) \/ plan' = NoPlan
    BY <1>7 DEF Verify, SumDumps, EndDatabase
  <2>3. CASE AllThere /\ plan' = [plan EXCEPT !.sources = Collected]
    <3>1. plan'.sources = Collected
      BY <1>0, <2>3
    <3> QED BY <1>0, <2>1, <2>3, <3>1, CollectedFacts DEF DatabaseValues, SameDatabase
  <2>4. CASE plan' = NoPlan
    BY <1>1, <1>2, <2>1, <2>4
  <2> QED BY <2>2, <2>3, <2>4
<1>8. CASE Prepare
  <2>1. plan'.sources = plan.sources
    BY <1>0, <1>8 DEF Prepare
  <2>2. NoTables \in [Names -> Int]
    BY DEF NoTables, Absent
  <2> QED BY <1>0, <1>1, <1>8, <2>1, <2>2 DEF Prepare, SameDatabase, DatabaseValues
<1>9. ASSUME NEW n \in Names, BeginTable(n) PROVE DatabaseValues'
  <2>1. plan'.sources = plan.sources
    BY <1>0, <1>9 DEF BeginTable
  <2> QED BY <1>0, <1>9, <2>1 DEF BeginTable, DatabaseValues, Partial
<1>10. ASSUME NEW n \in Names, FillTable(n) PROVE DatabaseValues'
  <2>1. dumps[n] \in Int
    BY <1>0, <1>10, DumpFacts DEF FillTable, DatabaseValues
  <2> QED BY <1>0, <1>10, <2>1 DEF FillTable, DatabaseValues
<1>11. CASE ImportFails
  BY <1>3, <1>11 DEF ImportFails
<1>12. CASE Record
  BY <1>0, <1>12 DEF Record, DatabaseValues
<1>13. CASE PublishDatabase
  BY <1>3, <1>13 DEF PublishDatabase
<1>14. CASE StopDatabase
  BY <1>1, <1>2, <1>14 DEF StopDatabase
<1> QED
  BY <1>4, <1>5, <1>6, <1>7, <1>8, <1>9, <1>10, <1>11, <1>12, <1>13, <1>14
     DEF DatabaseNext, DatabaseStep

\* A step preserves the types.
LEMMA TypesStep ==
  ASSUME IInv, [Next]_vars
  PROVE  TypeOK'
<1>1. TypeOK /\ OneHalf /\ TablesSound /\ selected' = selected
  BY Halves DEF IInv
<1>2. SharedValues'
  BY <1>1, SharedStep
<1>3. ArchiveValues'
  <2>1. ArchiveValues
    BY <1>1 DEF TypeOK, ArchiveValues
  <2>2. UNCHANGED archiveVars => ArchiveValues'
    BY <2>1 DEF archiveVars, ArchiveValues
  <2> QED BY <1>1, <2>2, Halves, ArchiveValuesStep DEF vars
<1>4. DatabaseValues'
  <2>1. DatabaseValues
    BY <1>1 DEF TypeOK, DatabaseValues
  <2>2. UNCHANGED databaseVars => DatabaseValues'
    BY <2>1 DEF databaseVars, DatabaseValues
  <2> QED BY <1>1, <2>2, Halves, DatabaseValuesStep DEF vars
<1> QED BY <1>1, <1>2, <1>3, <1>4 DEF TypeOK, SharedValues, ArchiveValues, DatabaseValues

-----------------------------------------------------------------------------
(* The half of the archives. *)

\* A step preserves that a behaviour is of one half.
LEMMA OneHalfStep ==
  ASSUME IInv, [Next]_vars
  PROVE  OneHalf'
<1>0. OneHalf /\ selected' = selected
  BY Halves DEF IInv
<1>1. ASSUME World, UNCHANGED <<archiveVars, databaseVars>> PROVE OneHalf'
  BY <1>0, <1>1 DEF World, Configure, Tick, archiveVars, databaseVars, OneHalf
<1>2. ASSUME NEW f \in Flags, StartRun(f), UNCHANGED <<archiveVars, databaseVars>> PROVE OneHalf'
  BY <1>0, <1>2 DEF StartRun, archiveVars, databaseVars, OneHalf, ArchiveSteps, DatabaseSteps
<1>3. ASSUME selected = "archives", ArchiveNext, UNCHANGED databaseVars PROVE OneHalf'
  <2>1. pc' \in ArchiveSteps \cup {"idle"}
    <3>1. ReplaceArchive \/ StopArchive => pc' \in ArchiveSteps \cup {"idle"}
      BY <1>0, <1>3 DEF ReplaceArchive, StopArchive, StopRun, EndRun, OneHalf
    <3>2. ArchiveStep => pc' \in ArchiveSteps \cup {"idle"}
      BY DEF ArchiveStep, Classify, Plan, Compare, Checksum, Open, PublishArchive, BuildArchive,
         EndArchive, EndRun, Goto, ArchiveSteps
    <3> QED BY <1>3, <3>1, <3>2 DEF ArchiveNext
  <2> QED BY <1>0, <1>3, <2>1 DEF OneHalf, databaseVars
<1>4. ASSUME selected = "database", DatabaseNext, UNCHANGED archiveVars PROVE OneHalf'
  <2>1. pc' \in DatabaseSteps \cup {"idle"}
    <3>1. SwitchDumps \/ StopDatabase => pc' \in DatabaseSteps \cup {"idle"}
      BY <1>0, <1>4 DEF SwitchDumps, StopDatabase, StopRun, EndRun, OneHalf
    <3>2. DatabaseStep => pc' \in DatabaseSteps \cup {"idle"}
      BY DEF DatabaseStep, Discover, PlanDatabase, Verify, SumDumps, Prepare, BeginTable, FillTable,
         ImportFails, Record, PublishDatabase, EndDatabase, EndRun, Goto, DatabaseSteps
    <3> QED BY <1>4, <3>1, <3>2 DEF DatabaseNext
  <2> QED BY <1>0, <1>4, <2>1 DEF OneHalf, archiveVars
<1>5. UNCHANGED vars => OneHalf'
  BY <1>0 DEF vars, sharedVars, archiveVars, databaseVars, OneHalf
<1> QED BY <1>0, <1>1, <1>2, <1>3, <1>4, <1>5, Halves

\* A step preserves what a manifest of an archive says.
LEMMA ArchiveManifestStep ==
  ASSUME IInv, [Next]_vars
  PROVE  ArchiveManifestSound'
<1>0. /\ ArchiveManifestSound /\ ArchiveRunSound /\ OneHalf
      /\ archive \in Versions /\ clock \in Int /\ clock \in 0..MaxClock
      /\ decision.md5 \in Versions \cup {Nothing} /\ opened \in Versions \cup {Nothing}
  BY CommandBounds DEF IInv, TypeOK
<1>1. ASSUME manifest' = manifest, clock' = clock \/ clock' = clock + 1,
             archive' = archive \/ archive' = archive + 1
      PROVE  ArchiveManifestSound'
  <2> SUFFICES ASSUME Readable(manifest) PROVE ArchiveManifestSound'
    BY <1>1 DEF ArchiveManifestSound
  <2>1. /\ manifest.md5 \in Versions /\ manifest.records \in Versions
        /\ manifest.md5 <= manifest.records /\ manifest.records <= archive
        /\ manifest.at \in Int /\ manifest.at <= clock
    BY <1>0 DEF ArchiveManifestSound
  <2> PICK v \in Versions : /\ v <= archive /\ manifest.modified = Time[v]
                            /\ ~manifest.raced => manifest.records = v
    BY <1>0 DEF ArchiveManifestSound
  <2>2. /\ v <= archive' /\ manifest.records <= archive' /\ manifest.at <= clock'
    BY <1>0, <1>1, <2>1, VersionFacts
  <2> QED BY <1>1, <2>1, <2>2 DEF ArchiveManifestSound
<1>2. CASE PublishArchive
  <2>1. /\ manifest' = Header(2, archive, decision.md5, decision.scope, opened)
        /\ archive' = archive /\ clock' = clock /\ pc = "publish"
    BY <1>2 DEF PublishArchive, PublishedHeader, SameWorld
  <2>2. /\ manifest'.md5 = decision.md5 /\ manifest'.records = opened /\ manifest'.at = clock
        /\ manifest'.modified = Time[archive] /\ (manifest'.raced <=> raced # "no")
    BY <2>1 DEF Header
  <2>3. /\ opened \in Versions /\ decision.md5 \in Versions /\ opened <= archive
        /\ decision.md5 <= opened /\ (raced = "no" => opened = archive)
    BY <1>0, <2>1 DEF ArchiveRunSound
  <2>4. archive <= archive /\ clock <= clock
    BY <1>0, VersionFacts
  <2> QED BY <1>0, <2>1, <2>2, <2>3, <2>4 DEF ArchiveManifestSound
<1>3. ASSUME ~PublishArchive
      PROVE  /\ manifest' = manifest /\ (clock' = clock \/ clock' = clock + 1)
             /\ archive' = archive \/ archive' = archive + 1
  <2>1. ArchiveNext =>
          manifest' = manifest /\ clock' = clock /\ (archive' = archive \/ archive' = archive + 1)
    BY <1>3 DEF ArchiveNext, ArchiveStep, ReplaceArchive, StopArchive, StopRun, Classify, Plan, Compare,
       Checksum, Open, SameWorld
  <2>2. DatabaseNext => clock' = clock
    BY DEF DatabaseNext, SwitchDumps, DatabaseStep, StopDatabase, Discover, PlanDatabase, Verify,
       SumDumps, Prepare, BeginTable, FillTable, ImportFails, Record, PublishDatabase, SameWorld, StopRun
  <2>3. World \/ (\E f \in Flags : StartRun(f)) => clock' = clock \/ clock' = clock + 1
    BY DEF World, Configure, Tick, StartRun
  <2> QED BY <1>0, <2>1, <2>2, <2>3, Halves DEF vars, sharedVars, archiveVars
<1> QED BY <1>1, <1>2, <1>3

\* The header of a manifest is of a version that was there when it was written.
LEMMA LaterTimeDiffers ==
  ASSUME IInv, Readable(manifest), archive + 1 \in Versions
  PROVE  manifest.modified # Time[archive + 1]
<1>1. archive \in Versions
  BY DEF IInv, TypeOK
<1> PICK v \in Versions : v <= archive /\ manifest.modified = Time[v]
  BY DEF IInv, ArchiveManifestSound
<1>2. v # archive + 1
  BY <1>1, VersionFacts
<1> QED BY <1>2, VersionFacts

\* A step preserves what a run over an archive knows.
LEMMA ArchiveRunStep ==
  ASSUME IInv, [Next]_vars
  PROVE  ArchiveRunSound'
<1>0. /\ ArchiveRunSound /\ OneHalf /\ archive \in Versions
      /\ opened \in Versions \cup {Nothing}
      /\ decision \in [scope : {"fb2", "usr"}, md5 : Versions \cup {Nothing}, newer : BOOLEAN]
  BY DEF IInv, TypeOK
<1>a. archive <= archive /\ Nothing <= archive /\ Nothing \notin Versions /\ NoDecision.md5 = Nothing
  BY <1>0, VersionFacts DEF Nothing, NoDecision
<1>1. ASSUME EndArchive, archive' = archive PROVE ArchiveRunSound'
  BY <1>a, <1>1 DEF EndArchive, EndRun, ForgetArchive, ArchiveRunSound, ArchiveSteps
<1>2. ASSUME World, UNCHANGED archiveVars PROVE ArchiveRunSound'
  BY <1>0, <1>2 DEF World, Configure, Tick, archiveVars, ArchiveRunSound, ArchiveSteps
<1>3. ASSUME NEW f \in Flags, StartRun(f), UNCHANGED archiveVars PROVE ArchiveRunSound'
  BY <1>0, <1>3 DEF StartRun, archiveVars, ArchiveRunSound, ArchiveSteps
<1>4. ASSUME selected = "database", UNCHANGED archiveVars PROVE ArchiveRunSound'
  <2>1. pc \notin ArchiveSteps /\ pc' \notin ArchiveSteps
    BY <1>0, <1>4, OneHalfStep, Halves DEF OneHalf, ArchiveSteps, DatabaseSteps
  <2> QED BY <1>0, <1>4, <2>1 DEF archiveVars, ArchiveRunSound, ArchiveSteps
<1>5. CASE ReplaceArchive
  <2>1. /\ archive' = archive + 1 /\ archive + 1 \in Versions
        /\ UNCHANGED <<pc, flags, manifest, decision, opened>>
        /\ raced' = IF opened = Nothing THEN raced ELSE "after"
    BY <1>5 DEF ReplaceArchive
  <2>2. opened <= archive + 1 /\ decision.md5 <= archive + 1
    BY <1>0, VersionFacts DEF ArchiveRunSound, Nothing
  <2>3. Readable(manifest) => manifest.modified # Time[archive + 1]
    BY <2>1, LaterTimeDiffers
  <2> QED BY <1>0, <2>1, <2>2, <2>3 DEF ArchiveRunSound
<1>6. CASE Classify
  <2>1. /\ decision' = [NoDecision EXCEPT !.scope = Scope[archive]] /\ pc' = "plan" /\ pc = "classify"
        /\ UNCHANGED <<archive, manifest, opened>>
    BY <1>6 DEF Classify, Goto
  <2>2. decision'.scope = Scope[archive] /\ decision'.md5 = Nothing
    BY <2>1 DEF NoDecision
  <2> QED BY <1>0, <1>a, <2>1, <2>2 DEF ArchiveRunSound
<1>7. ASSUME NEW md5 \in {Nothing, archive}, BuildArchive(md5), pc \in {"plan", "compare"},
             manifest = NoManifest \/ flags.rebuild, UNCHANGED <<archive, manifest>>
      PROVE  ArchiveRunSound'
  <2>1. decision' = [decision EXCEPT !.md5 = md5] /\ pc' = "checksum" /\ UNCHANGED <<flags, opened>>
    BY <1>7 DEF BuildArchive, Goto
  <2>2. decision'.md5 = md5 /\ decision'.scope = decision.scope
    BY <1>0, <2>1
  <2> QED BY <1>0, <1>a, <1>7, <2>1, <2>2 DEF ArchiveRunSound, ArchiveSteps
<1>8. CASE Plan
  <2>1. CASE LooksCurrent /\ flags.check
    <3>1. decision' = [decision EXCEPT !.newer = Newer(manifest)] /\ pc' = "compare"
          /\ pc = "plan" /\ UNCHANGED <<archive, manifest, opened>>
      BY <1>8, <2>1 DEF Plan, Goto
    <3>2. decision'.md5 = decision.md5 /\ decision'.scope = decision.scope
      BY <1>0, <3>1
    <3> QED BY <1>0, <3>1, <3>2 DEF ArchiveRunSound, ArchiveSteps
  <2>2. CASE ~(LooksCurrent /\ flags.check)
    BY <1>1, <1>7, <1>8, <2>2 DEF Plan, Rebuilds
  <2> QED BY <2>1, <2>2
<1>9. CASE Compare
  BY <1>1, <1>7, <1>9 DEF Compare, Rebuilds
<1>10. CASE Checksum
  <2>1. /\ decision' = [decision EXCEPT !.md5 = IF @ = Nothing THEN archive ELSE @]
        /\ pc = "checksum" /\ pc' = "open" /\ UNCHANGED <<flags, archive, manifest, opened>>
    BY <1>10 DEF Checksum, Goto
  <2>2. /\ decision'.md5 = IF decision.md5 = Nothing THEN archive ELSE decision.md5
        /\ decision'.scope = decision.scope
    BY <1>0, <2>1
  <2> QED BY <1>0, <1>a, <2>1, <2>2 DEF ArchiveRunSound, ArchiveSteps
<1>11. CASE Open
  BY <1>0, <1>a, <1>11 DEF Open, Goto, ArchiveRunSound, ArchiveSteps
<1>12. CASE PublishArchive
  BY <1>1, <1>12 DEF PublishArchive
<1>13. CASE StopArchive
  BY <1>1, <1>13 DEF StopArchive, StopRun, EndArchive
<1>14. CASE UNCHANGED vars
  BY <1>0, <1>14 DEF vars, sharedVars, archiveVars, ArchiveRunSound
<1> QED
  BY <1>0, <1>2, <1>3, <1>4, <1>5, <1>6, <1>8, <1>9, <1>10, <1>11, <1>12, <1>13, <1>14, Halves
     DEF ArchiveNext, ArchiveStep

-----------------------------------------------------------------------------
(* The half of the dumps. *)

\* What the tables are when nothing was marked.
LEMMA UnmarkedTables ==
  ASSUME DatabaseValues, TablesSound, taint = {}
  PROVE  /\ \A n \in Names : tables[n] # Partial
         /\ Rows = [n \in DOMAIN provenance |-> provenance[n].md5]
<1>1. /\ DOMAIN provenance = {n \in Names : tables[n] # Absent}
      /\ \A n \in DOMAIN provenance : tables[n] = provenance[n].md5
      /\ \A n \in DOMAIN provenance : provenance[n].md5 \in DOMAIN DumpTime
  BY DEF TablesSound, OfOneVersion
<1>2. \A n \in Names : tables[n] # Partial
  BY <1>1, DumpFacts DEF Absent, Partial
<1>3. Rows = [n \in DOMAIN provenance |-> tables[n]]
  BY <1>1 DEF Rows
<1> QED BY <1>1, <1>2, <1>3

\* A step preserves that the tables are what the provenance says.
LEMMA TablesStep ==
  ASSUME IInv, [Next]_vars
  PROVE  TablesSound'
<1>0. TablesSound /\ DatabaseValues /\ DatabaseRunSound
  BY DEF IInv, TypeOK, DatabaseValues
<1>1. /\ plan = [sources |-> plan.sources, newer |-> plan.newer, todo |-> plan.todo]
      /\ OfOneVersion(provenance) /\ OfOneVersion(plan.sources)
      /\ NoPlan = [sources |-> NoPlan.sources, newer |-> NoPlan.newer, todo |-> NoPlan.todo]
      /\ OfOneVersion(<<>>) /\ NoPlan.sources = <<>>
  BY <1>0 DEF TablesSound, NoPlan, NoProvenance, OfOneVersion
<1>2. ASSUME SameDatabase, OfOneVersion(plan'.sources),
             plan' = [sources |-> plan'.sources, newer |-> plan'.newer, todo |-> plan'.todo]
      PROVE  TablesSound'
  BY <1>0, <1>2 DEF SameDatabase, TablesSound, OfOneVersion
<1>3. SameDatabase /\ (plan' = plan \/ plan' = NoPlan) => TablesSound'
  BY <1>1, <1>2
<1>4. ASSUME UNCHANGED databaseVars PROVE TablesSound'
  BY <1>3, <1>4 DEF databaseVars, SameDatabase
<1>5. SwitchDumps \/ StopDatabase \/ ImportFails \/ PublishDatabase => TablesSound'
  BY <1>3 DEF SwitchDumps, StopDatabase, ImportFails, PublishDatabase, EndDatabase, SameDatabase
<1>6. CASE Discover
  <2>1. CASE Consistent(dumps)
    <3>1. SameDatabase /\ plan' = [NoPlan EXCEPT !.sources = CurrentSources]
      BY <1>6, <2>1 DEF Discover
    <3>2. plan' = [sources |-> CurrentSources, newer |-> FALSE, todo |-> {}]
      BY <3>1 DEF NoPlan
    <3>3. OfOneVersion(CurrentSources)
      BY <1>0, SourceFacts DEF CurrentSources, DatabaseValues
    <3> QED BY <1>2, <3>1, <3>2, <3>3
  <2>2. CASE ~Consistent(dumps)
    BY <1>3, <1>6, <2>2 DEF Discover, EndDatabase
  <2> QED BY <2>1, <2>2
<1>7. CASE PlanDatabase
  <2>1. SameDatabase
        /\ (plan' = [plan EXCEPT !.newer = NewerThanFound] \/ plan' = plan \/ plan' = NoPlan)
    BY <1>7 DEF PlanDatabase, EndDatabase
  <2>2. CASE plan' = [plan EXCEPT !.newer = NewerThanFound]
    <3>1. plan' = [sources |-> plan.sources, newer |-> NewerThanFound, todo |-> plan.todo]
      BY <1>1, <2>2
    <3> QED BY <1>1, <1>2, <2>1, <3>1
  <2> QED BY <1>3, <2>1, <2>2
<1>8. CASE Verify \/ SumDumps
  <2>1. SameDatabase
        /\ ((AllThere /\ plan' = [plan EXCEPT !.sources = Collected]) \/ plan' = NoPlan)
    BY <1>8 DEF Verify, SumDumps, EndDatabase
  <2>2. CASE AllThere /\ plan' = [plan EXCEPT !.sources = Collected]
    <3>1. plan' = [sources |-> Collected, newer |-> plan.newer, todo |-> plan.todo]
      BY <1>1, <2>2
    <3> QED BY <1>0, <1>2, <2>1, <2>2, <3>1, CollectedFacts
  <2> QED BY <1>3, <2>1, <2>2
<1>9. CASE Prepare
  <2>1. plan' = [plan EXCEPT !.todo = IF flags.import THEN Found ELSE {}]
    BY <1>9 DEF Prepare
  <2>2. /\ plan' = [sources |-> plan'.sources, newer |-> plan'.newer, todo |-> plan'.todo]
        /\ plan'.sources = plan.sources
    BY <1>1, <2>1
  <2>3. CASE Persistent
    BY <1>1, <1>2, <1>9, <2>2, <2>3 DEF Prepare
  <2>4. CASE ~Persistent
    <3>1. tables' = NoTables /\ provenance' = <<>>
      BY <1>9, <2>4 DEF Prepare, NoProvenance
    <3>2. {n \in Names : NoTables[n] # Absent} = {}
      BY DEF NoTables
    <3> QED BY <1>1, <2>2, <3>1, <3>2 DEF TablesSound, OfOneVersion
  <2> QED BY <2>3, <2>4
<1>10. ASSUME NEW n \in Names, BeginTable(n) PROVE TablesSound'
  <2>1. /\ plan' = [plan EXCEPT !.todo = @ \ {n}] /\ provenance' = provenance
        /\ "interrupted" \in taint'
    BY <1>10 DEF BeginTable
  <2>2. /\ plan' = [sources |-> plan'.sources, newer |-> plan'.newer, todo |-> plan'.todo]
        /\ plan'.sources = plan.sources
    BY <1>1, <2>1
  <2> QED BY <1>1, <2>1, <2>2 DEF TablesSound, OfOneVersion
<1>11. ASSUME NEW n \in Names, FillTable(n) PROVE TablesSound'
  <2>1. tables[n] = Partial /\ UNCHANGED <<provenance, plan, taint>>
    BY <1>11 DEF FillTable
  <2>2. taint # {}
    BY <1>0, <2>1, UnmarkedTables
  <2> QED BY <1>1, <2>1, <2>2 DEF TablesSound, OfOneVersion
<1>12. CASE Record
  <2>1. /\ provenance' = plan.sources /\ UNCHANGED <<plan, tables>> /\ pc = "import"
        /\ \A n \in Found : n \notin plan.todo /\ tables[n] # Partial
        /\ taint' = (IF DOMAIN Rows = Found THEN {} ELSE {"leftover"}) \cup
                    (IF raced = "after" THEN {"replaced"} ELSE {})
    BY <1>12 DEF Record
  <2>2. ASSUME taint' = {}
        PROVE  /\ DOMAIN provenance' = {n \in Names : tables'[n] # Absent}
               /\ \A n \in DOMAIN provenance' : tables'[n] = provenance'[n].md5
    <3>1. DOMAIN Rows = Found /\ raced # "after"
      BY <2>1, <2>2
    <3>2. \A n \in Found : plan.sources[n].md5 = dumps[n] /\ tables[n] \in {Partial, dumps[n]}
      BY <1>0, <2>1, <3>1 DEF DatabaseRunSound
    <3> QED BY <2>1, <3>1, <3>2 DEF Found, Rows
  <2> QED BY <1>1, <2>1, <2>2 DEF TablesSound, OfOneVersion
<1>13. UNCHANGED databaseVars \/ DatabaseNext
  BY Halves DEF IInv, vars
<1> QED
  BY <1>4, <1>5, <1>6, <1>7, <1>8, <1>9, <1>10, <1>11, <1>12, <1>13 DEF DatabaseNext, DatabaseStep

\* A step preserves what a manifest of dumps says.
LEMMA DatabaseManifestStep ==
  ASSUME IInv, [Next]_vars
  PROVE  DatabaseManifestSound'
<1>0. DatabaseManifestSound /\ TablesSound /\ DatabaseValues
  BY DEF IInv, TypeOK, DatabaseValues
<1>1. dbManifest' = dbManifest => DatabaseManifestSound'
  BY <1>0 DEF DatabaseManifestSound, OfOneVersion
<1>2. CASE PublishDatabase
  <2> SUFFICES ASSUME dbManifest' = [schema |-> 2, dumps |-> provenance,
                        processing |-> Processing("fb2"), records |-> Rows,
                        at |-> clock, taint |-> taint]
               PROVE  DatabaseManifestSound'
    BY <1>1, <1>2 DEF PublishDatabase, Label
  <2>1. /\ dbManifest'.dumps = provenance /\ dbManifest'.records = Rows
        /\ dbManifest'.taint = taint
    OBVIOUS
  <2>2. OfOneVersion(provenance)
    BY <1>0 DEF TablesSound
  <2> QED BY <1>0, <2>1, <2>2, UnmarkedTables DEF DatabaseManifestSound, OfOneVersion
<1>3. ~PublishDatabase => dbManifest' = dbManifest
  <2>1. DatabaseNext /\ ~PublishDatabase => dbManifest' = dbManifest
    BY DEF DatabaseNext, SwitchDumps, DatabaseStep, StopDatabase, Discover, PlanDatabase, Verify,
       SumDumps, Prepare, BeginTable, FillTable, ImportFails, Record
  <2> QED BY <2>1, Halves DEF IInv, vars, databaseVars
<1> QED BY <1>1, <1>2, <1>3

\* The times of two versions of a dump are compared as the versions would be.
LEMMA SameVersions ==
  ASSUME NEW a, OfOneVersion(a), DatabaseValues, SameDeclared(a, CurrentSources),
         SameModified(a, CurrentSources) \/ SameMD5(a, CurrentSources)
  PROVE  /\ SameMD5(a, CurrentSources) /\ DOMAIN a = DOMAIN dumps
         /\ \A n \in DOMAIN a : a[n].md5 = dumps[n]
<1>1. /\ OfOneVersion(CurrentSources) /\ DOMAIN CurrentSources = DOMAIN dumps
      /\ \A n \in DOMAIN dumps : CurrentSources[n].md5 = dumps[n]
  BY SourceFacts DEF DatabaseValues, CurrentSources
<1>2. DOMAIN a = DOMAIN dumps
  BY <1>1 DEF SameDeclared
<1>3. \A n \in DOMAIN a : a[n].md5 = CurrentSources[n].md5
  BY <1>1, <1>2, DumpTimes DEF SameModified, SameMD5, OfOneVersion
<1> QED BY <1>1, <1>2, <1>3 DEF SameMD5

\* What was collected under the names that were found, if no other dumps came.
LEMMA CollectedCurrent ==
  ASSUME DatabaseValues, plan.sources = CurrentSources
  PROVE  AllThere /\ Found = DOMAIN dumps /\ Collected = CurrentSources
<1>1. /\ DOMAIN CurrentSources = DOMAIN dumps
      /\ \A n \in DOMAIN dumps : CurrentSources[n].declared = Declared[dumps[n]]
  BY SourceFacts DEF DatabaseValues, CurrentSources
<1> QED BY <1>1 DEF AllThere, Found, Collected, CurrentSources, Sources

\* A manifest that is ready is not made again.
LEMMA ReadyStays ==
  ASSUME IInv, DatabaseReady, raced = "no", plan.sources = CurrentSources
  PROVE  /\ DumpsLookCurrent /\ NewerThanFound /\ DumpMatches(dbManifest, Collected)
         /\ dbManifest # NoManifest
<1>0. DatabaseValues /\ DatabaseManifestSound
  BY DEF IInv, TypeOK, DatabaseValues
<1>1. AllThere /\ Found = DOMAIN dumps /\ Collected = CurrentSources
  BY <1>0, CollectedCurrent
<1>2. /\ Readable(dbManifest) /\ DumpLightMatches(dbManifest, CurrentSources)
      /\ NewerThanDumps(dbManifest) /\ SameModified(dbManifest.dumps, CurrentSources)
  BY DEF DatabaseReady, DatabaseValid
<1>3. DumpsLookCurrent /\ NewerThanFound
  BY <1>1, <1>2 DEF DumpsLookCurrent, NewerThanFound, NewerThanDumps
<1>4. SameMD5(dbManifest.dumps, CurrentSources)
  BY <1>0, <1>2, SameVersions DEF DatabaseManifestSound, DumpLightMatches
<1>5. dbManifest # NoManifest
  BY <1>2 DEF Readable, NoManifest
<1> QED BY <1>1, <1>2, <1>3, <1>4, <1>5 DEF DumpMatches

\* Whether a manifest is ready depends on the manifest, the dumps and the settings.
LEMMA ReadyUnchanged ==
  ASSUME UNCHANGED <<dumps, dbManifest, settings>>
  PROVE  DatabaseReady' <=> DatabaseReady
BY DEF DatabaseReady, DatabaseValid, NewerThanDumps, DumpLightMatches, SameDeclared, SameModified,
   Processing, CurrentSources

\* The steps of a run once its sources are chosen.
BuildSteps == {"sum", "prepare", "import", "read"}

\* A step preserves what a run over dumps knows.
LEMMA DatabaseRunStep ==
  ASSUME IInv, [Next]_vars
  PROVE  DatabaseRunSound'
<1>0. /\ DatabaseRunSound /\ DatabaseValues /\ OneHalf
      /\ plan = [sources |-> plan.sources, newer |-> plan.newer, todo |-> plan.todo]
  BY DEF IInv, TypeOK, DatabaseValues, TablesSound
<1>1. pc' \notin DatabaseSteps \ {"discover"} => DatabaseRunSound'
  BY DEF DatabaseRunSound, DatabaseSteps
<1>2. pc' = pc /\ pc \notin DatabaseSteps => DatabaseRunSound'
  BY <1>1
<1>3. EndDatabase => DatabaseRunSound'
  BY <1>1 DEF EndDatabase, EndRun, DatabaseSteps
<1>4. ASSUME UNCHANGED <<dumps, tables, dbManifest, plan, settings, pc, flags, raced>>
      PROVE  DatabaseRunSound'
  BY <1>0, <1>4, ReadyUnchanged DEF DatabaseRunSound, NewerThanDumps, CurrentSources, AllThere, Found
<1>5. ASSUME UNCHANGED <<dumps, dbManifest, settings, flags, raced>>, pc \in BuildSteps,
             pc' \in BuildSteps,
             pc' \in {"prepare", "import"} /\ raced # "after" =>
               /\ AllThere' /\ \A n \in Found' : plan'.sources[n].md5 = dumps[n]
               /\ pc' = "import" => \A n \in Found' \ plan'.todo : tables'[n] \in {Partial, dumps[n]}
      PROVE  DatabaseRunSound'
  BY <1>0, <1>5, ReadyUnchanged DEF DatabaseRunSound, BuildSteps
<1>6. CASE SwitchDumps
  <2>1. /\ UNCHANGED <<pc, flags, dbManifest>>
        /\ raced' = IF pc \in {"prepare", "import"} THEN "after"
                    ELSE IF pc # "idle" /\ raced = "no" THEN "before" ELSE raced
    BY <1>6 DEF SwitchDumps
  <2> QED BY <1>0, <1>2, <2>1 DEF DatabaseRunSound, DatabaseSteps
<1>7. CASE Discover
  <2>1. CASE Consistent(dumps)
    <3>1. /\ plan' = [NoPlan EXCEPT !.sources = CurrentSources] /\ dumps' = dumps
          /\ pc' = "planDumps"
      BY <1>7, <2>1 DEF Discover, Goto
    <3>2. plan'.sources = CurrentSources /\ CurrentSources' = CurrentSources
      BY <3>1 DEF NoPlan, CurrentSources
    <3> QED BY <3>1, <3>2 DEF DatabaseRunSound
  <2>2. CASE ~Consistent(dumps)
    BY <1>3, <1>7, <2>2 DEF Discover
  <2> QED BY <2>1, <2>2
<1>8. CASE PlanDatabase
  <2>1. /\ UNCHANGED <<dumps, dbManifest, settings>> /\ pc = "planDumps"
        /\ raced = "no" => plan.sources = CurrentSources
    BY <1>0, <1>8 DEF PlanDatabase, SameWorld, DatabaseRunSound
  <2>2. CASE AllThere /\ DumpsLookCurrent /\ flags.check
    <3>1. /\ plan' = [plan EXCEPT !.newer = NewerThanFound] /\ pc' = "verify"
          /\ UNCHANGED <<flags, raced>>
      BY <1>8, <2>2 DEF PlanDatabase, Goto
    <3>2. plan'.sources = plan.sources /\ plan'.newer = NewerThanFound
      BY <1>0, <3>1
    <3>3. raced = "no" /\ NewerThanDumps(dbManifest)' => NewerThanFound
      BY <1>0, <2>1, CollectedCurrent DEF NewerThanFound, NewerThanDumps
    <3>4. CurrentSources' = CurrentSources
      BY <2>1 DEF CurrentSources
    <3> QED BY <2>1, <3>1, <3>2, <3>3, <3>4 DEF DatabaseRunSound
  <2>3. CASE /\ AllThere /\ Imports(DumpsLookCurrent, Readable(dbManifest) /\ NewerThanFound)
             /\ Goto("sum")
    <3>1. pc' = "sum" /\ UNCHANGED <<flags, raced>>
      BY <2>3 DEF Goto
    <3>2. raced = "no" => ~DatabaseReady
      BY <2>1, <2>3, ReadyStays DEF Imports, DatabaseReady, DatabaseValid
    <3>3. dbManifest = NoManifest \/ flags.rebuild
      BY <2>3 DEF Imports
    <3> QED BY <2>1, <3>1, <3>2, <3>3, ReadyUnchanged DEF DatabaseRunSound
  <2> QED BY <1>3, <1>8, <2>2, <2>3 DEF PlanDatabase
<1>9. ASSUME AllThere, plan' = [plan EXCEPT !.sources = Collected], pc' \in {"sum", "prepare"},
             UNCHANGED <<dumps, dbManifest, settings, flags, raced>>,
             dbManifest = NoManifest \/ flags.rebuild, raced = "no" => ~DatabaseReady
      PROVE  DatabaseRunSound'
  <2>1. plan'.sources = Collected
    BY <1>0, <1>9
  <2>2. Found' = Found /\ AllThere' /\ \A n \in Found' : plan'.sources[n].md5 = dumps'[n]
    BY <1>0, <1>9, <2>1, CollectedFacts DEF Found, AllThere
  <2> QED BY <1>9, <2>2, ReadyUnchanged DEF DatabaseRunSound
<1>10. CASE Verify
  <2>1. /\ UNCHANGED <<dumps, dbManifest, settings>> /\ pc = "verify"
        /\ raced = "no" => plan.sources = CurrentSources
        /\ raced = "no" /\ NewerThanDumps(dbManifest) => plan.newer
    BY <1>0, <1>10 DEF Verify, SameWorld, DatabaseRunSound
  <2>2. CASE AllThere /\ Imports(DumpMatches(dbManifest, Collected), plan.newer)
    <3>1. /\ plan' = [plan EXCEPT !.sources = Collected] /\ pc' \in {"sum", "prepare"}
          /\ UNCHANGED <<flags, raced>>
      BY <1>10, <2>2 DEF Verify, Goto
    <3>2. raced = "no" => ~DatabaseReady
      BY <2>1, <2>2, ReadyStays DEF Imports, DatabaseReady
    <3>3. dbManifest = NoManifest \/ flags.rebuild
      BY <2>2 DEF Imports
    <3> QED BY <1>9, <2>1, <2>2, <3>1, <3>2, <3>3
  <2> QED BY <1>3, <1>10, <2>2 DEF Verify
<1>11. CASE SumDumps
  <2>1. CASE AllThere
    BY <1>0, <1>9, <1>11, <2>1 DEF SumDumps, Goto, SameWorld, DatabaseRunSound
  <2> QED BY <1>3, <1>11, <2>1 DEF SumDumps
<1>12. CASE Prepare
  <2>1. /\ pc' = (IF flags.import THEN "import" ELSE "read") /\ pc = "prepare"
        /\ UNCHANGED <<dumps, dbManifest, settings, flags, raced>>
        /\ plan' = [plan EXCEPT !.todo = IF flags.import THEN Found ELSE {}]
    BY <1>12 DEF Prepare, Goto, SameWorld
  <2>2. plan'.sources = plan.sources /\ plan'.todo = IF flags.import THEN Found ELSE {}
    BY <1>0, <2>1
  <2> QED BY <1>0, <1>5, <2>1, <2>2 DEF DatabaseRunSound, BuildSteps, AllThere, Found
<1>13. ASSUME NEW n \in Names, BeginTable(n) PROVE DatabaseRunSound'
  <2>1. /\ pc = "import" /\ pc' = "import" /\ plan' = [plan EXCEPT !.todo = @ \ {n}]
        /\ UNCHANGED <<dumps, dbManifest, settings, flags, raced>>
        /\ tables' = [tables EXCEPT ![n] = Partial] /\ tables \in [Names -> Int]
    BY <1>0, <1>13 DEF BeginTable, Goto, SameWorld, DatabaseValues
  <2>2. plan'.sources = plan.sources /\ plan'.todo = plan.todo \ {n}
    BY <1>0, <2>1
  <2>3. /\ tables'[n] = Partial /\ AllThere' = AllThere /\ Found' = Found
        /\ \A o \in Names \ {n} : tables'[o] = tables[o]
    BY <2>1, <2>2 DEF AllThere, Found
  <2>4. AllThere => Found \subseteq Names
    BY <1>0, DumpFacts DEF AllThere, DatabaseValues
  <2> QED BY <1>0, <1>5, <2>1, <2>2, <2>3, <2>4 DEF DatabaseRunSound, BuildSteps, Found
<1>14. ASSUME NEW n \in Names, FillTable(n) PROVE DatabaseRunSound'
  <2>1. /\ pc = "import" /\ pc' = "import" /\ plan' = plan
        /\ UNCHANGED <<dumps, dbManifest, settings, flags, raced>>
        /\ tables' = [tables EXCEPT ![n] = dumps[n]] /\ tables \in [Names -> Int]
    BY <1>0, <1>14 DEF FillTable, Goto, SameWorld, DatabaseValues
  <2>2. /\ tables'[n] = dumps[n] /\ AllThere' = AllThere /\ Found' = Found
        /\ \A o \in Names \ {n} : tables'[o] = tables[o]
    BY <2>1 DEF AllThere, Found
  <2>3. AllThere => Found \subseteq Names
    BY <1>0, DumpFacts DEF AllThere, DatabaseValues
  <2> QED BY <1>0, <1>5, <2>1, <2>2, <2>3 DEF DatabaseRunSound, BuildSteps, Found
<1>15. CASE Record
  BY <1>5, <1>15 DEF Record, Goto, SameWorld, BuildSteps
<1>16. ImportFails \/ PublishDatabase => DatabaseRunSound'
  BY <1>3 DEF ImportFails, PublishDatabase
<1>17. StopDatabase => DatabaseRunSound'
  BY <1>1 DEF StopDatabase, StopRun, EndRun, DatabaseSteps
<1>18. ASSUME World, UNCHANGED <<archiveVars, databaseVars>> PROVE DatabaseRunSound'
  BY <1>1, <1>4, <1>18 DEF World, Configure, Tick, databaseVars, DatabaseSteps
<1>19. ASSUME NEW f \in Flags, StartRun(f) PROVE DatabaseRunSound'
  BY <1>1, <1>19 DEF StartRun, DatabaseSteps
<1>20. ASSUME selected = "archives" PROVE DatabaseRunSound'
  <2>1. pc' \notin DatabaseSteps
    BY <1>0, <1>20, OneHalfStep, Halves DEF OneHalf, ArchiveSteps, DatabaseSteps
  <2> QED BY <1>1, <2>1
<1>21. CASE UNCHANGED vars
  BY <1>4, <1>21 DEF vars, sharedVars, databaseVars
<1> QED
  BY <1>0, <1>6, <1>7, <1>8, <1>10, <1>11, <1>12, <1>13, <1>14, <1>15, <1>16, <1>17, <1>18, <1>19,
     <1>20, <1>21, Halves DEF DatabaseNext, DatabaseStep

-----------------------------------------------------------------------------
(* The initial states. *)

\* What a database holds at first is what it says.
LEMMA InitTables ==
  ASSUME DatabaseInit
  PROVE  DatabaseValues /\ TablesSound /\ ~Readable(dbManifest)
<1> PICK d \in {NoProvenance} \cup DumpSets :
      tables = [n \in Names |-> IF n \in DOMAIN d THEN d[n] ELSE Absent] /\ provenance = Sources(d)
  BY DEF DatabaseInit
<1>1. /\ dumps \in DumpSets /\ plan = NoPlan /\ taint = {} /\ switches = 0 /\ MaxSwitches \in Nat
      /\ dbManifest \in {NoManifest, Unreadable}
  BY DumpAssumption DEF DatabaseInit
<1>2. /\ DOMAIN d \subseteq Names /\ DOMAIN Sources(d) = DOMAIN d /\ OfOneVersion(Sources(d))
      /\ \A n \in DOMAIN d : /\ d[n] \in Int /\ d[n] # Absent /\ Sources(d)[n].md5 = d[n]
                             /\ Sources(d)[n] \in SourceType
  BY DumpFacts, SourceFacts DEF NoProvenance, Sources, OfOneVersion
<1>3. {n \in Names : tables[n] # Absent} = DOMAIN d
  BY <1>2
<1>4. DatabaseValues
  BY <1>1, <1>2 DEF DatabaseValues, NoPlan, NoProvenance, Absent
<1>5. TablesSound
  BY <1>1, <1>2, <1>3 DEF TablesSound, NoPlan, NoProvenance, OfOneVersion
<1> QED BY <1>1, <1>4, <1>5 DEF Readable, NoManifest, Unreadable

LEMMA InitInv ==
  ASSUME Init
  PROVE  IInv
<1>0. CommandInit /\ ArchiveInit /\ DatabaseInit /\ DatabaseValues /\ TablesSound
      /\ ~Readable(dbManifest)
  BY InitTables DEF Init
<1>1. TypeOK
  <2>1. SharedValues
    BY <1>0, CommandBounds DEF CommandInit, SharedValues, Flags, Full
  <2>2. ArchiveValues
    BY <1>0, VersionFacts DEF ArchiveInit, ArchiveValues, NoDecision
  <2> QED
    BY <1>0, <2>1, <2>2 DEF TypeOK, SharedValues, ArchiveValues, DatabaseValues, CommandInit
<1>2. OneHalf
  BY <1>0 DEF CommandInit, ArchiveInit, DatabaseInit, OneHalf
<1>3. ArchiveManifestSound
  <2> SUFFICES ASSUME Readable(manifest) PROVE ArchiveManifestSound
    BY DEF ArchiveManifestSound
  <2>1. manifest = Header(1, 1, 1, "fb2", 1) /\ clock = 0 /\ raced = "no" /\ archive = 1
    BY <1>0 DEF ArchiveInit, CommandInit, Readable, NoManifest, Unreadable
  <2>2. /\ manifest.md5 = 1 /\ manifest.records = 1 /\ manifest.at = 0
        /\ manifest.modified = Time[1]
    BY <2>1 DEF Header
  <2> QED BY <2>1, <2>2, VersionFacts DEF ArchiveManifestSound
<1>4. ArchiveRunSound
  BY <1>0 DEF CommandInit, ArchiveInit, ArchiveRunSound, ArchiveSteps, NoDecision, Nothing
<1>5. DatabaseManifestSound /\ DatabaseRunSound
  BY <1>0 DEF CommandInit, DatabaseManifestSound, DatabaseRunSound
<1> QED BY <1>0, <1>1, <1>2, <1>3, <1>4, <1>5 DEF IInv

-----------------------------------------------------------------------------
(* The theorems. *)

\* What is known of manifests, tables and runs holds of every state, whatever was
\* replaced, interrupted or reconfigured between the steps of planArchiveManifest,
\* processArchive, the import of the dumps and ProcessDatabase.
THEOREM CacheInvariance == Spec => []IInv
<1>1. Init => IInv
  BY InitInv
<1>2. IInv /\ [Next]_vars => IInv'
  BY TypesStep, OneHalfStep, ArchiveManifestStep, ArchiveRunStep, TablesStep,
     DatabaseManifestStep, DatabaseRunStep DEF IInv
<1> QED BY <1>1, <1>2, PTL DEF Spec

\* The variables of the model keep their types.
THEOREM CacheTypeCorrect == Spec => []TypeOK
<1>1. IInv => TypeOK
  BY DEF IInv
<1> QED BY <1>1, CacheInvariance, PTL

\* The tables of a manifest whose dumps have the versions that are there.
LEMMA SameVersionsDescribe ==
  ASSUME IInv, DatabaseValid, dbManifest.taint = {},
         SameModified(dbManifest.dumps, CurrentSources) \/ SameMD5(dbManifest.dumps, CurrentSources)
  PROVE  DatabaseDescribed
<1>1. /\ OfOneVersion(dbManifest.dumps) /\ DatabaseValues
      /\ dbManifest.records = [n \in DOMAIN dbManifest.dumps |-> dbManifest.dumps[n].md5]
      /\ dbManifest.processing = Processing("fb2")
      /\ SameDeclared(dbManifest.dumps, CurrentSources)
  BY DEF IInv, TypeOK, DatabaseValues, DatabaseManifestSound, DatabaseValid, DumpLightMatches
<1>2. /\ DOMAIN dbManifest.dumps = DOMAIN dumps
      /\ \A n \in DOMAIN dumps : dbManifest.dumps[n].md5 = dumps[n]
  BY <1>1, SameVersions
<1>3. dumps = [n \in DOMAIN dumps |-> dumps[n]]
  BY <1>1, DumpVersions DEF DatabaseValues
<1> QED BY <1>1, <1>2, <1>3 DEF DatabaseDescribed

\* A manifest that validateArchiveManifest or ValidateDatabaseManifest accepts after
\* comparing checksums describes its source, as it is when it is validated.
THEOREM VerifiedManifestsDescribe == Spec => []VerifiedDescribes
<1>1. ASSUME IInv, ArchiveVerified PROVE ArchiveDescribed
  <2>1. /\ manifest.md5 = archive /\ Readable(manifest)
        /\ ScopeMatches(manifest, Scope[archive]) /\ manifest.processing = Processing(Scope[archive])
    BY <1>1 DEF ArchiveVerified, ArchiveValid, Matches, LightMatches
  <2>2. /\ manifest.records \in Versions /\ archive \in Versions
        /\ manifest.md5 <= manifest.records /\ manifest.records <= archive
    BY <1>1, <2>1 DEF IInv, TypeOK, ArchiveManifestSound
  <2>3. manifest.records = archive
    BY <2>1, <2>2, VersionFacts
  <2> QED BY <2>1, <2>3 DEF ArchiveDescribed
<1>2. IInv => VerifiedDescribes
  BY <1>1, SameVersionsDescribe DEF VerifiedDescribes, DatabaseVerified, DumpMatches
<1> QED BY <1>2, CacheInvariance, PTL

\* So does one they accept by its times, apart from what merge is warned of: an
\* archive replaced while it was read, and tables that are not those of one import.
THEOREM FreshManifestsDescribe == Spec => []FreshDescribes
<1>1. ASSUME IInv, ArchiveReady, ~manifest.raced PROVE ArchiveDescribed
  <2>1. /\ Time[archive] = manifest.modified /\ Readable(manifest)
        /\ ScopeMatches(manifest, Scope[archive]) /\ manifest.processing = Processing(Scope[archive])
    BY <1>1 DEF ArchiveReady, ArchiveValid, LightMatches
  <2>2. archive \in Versions /\ \E v \in Versions : manifest.modified = Time[v] /\ manifest.records = v
    BY <1>1, <2>1 DEF IInv, TypeOK, ArchiveManifestSound
  <2>3. manifest.records = archive
    BY <2>1, <2>2, VersionFacts
  <2> QED BY <2>1, <2>3 DEF ArchiveDescribed
<1>2. IInv => FreshDescribes
  BY <1>1, SameVersionsDescribe DEF FreshDescribes, DatabaseReady
<1> QED BY <1>2, CacheInvariance, PTL

\* A step replaces a manifest of an archive only with --rebuild, and a ready one by a
\* ready one.
LEMMA ArchiveImproved ==
  ASSUME IInv, [Next]_vars, manifest' # manifest, manifest # NoManifest
  PROVE  flags.rebuild /\ (ArchiveReady => ArchiveReady')
<1>1. PublishArchive
  <2>1. ArchiveNext /\ ~PublishArchive => manifest' = manifest
    BY DEF ArchiveNext, ArchiveStep, ReplaceArchive, StopArchive, Classify, Plan, Compare,
       Checksum, Open
  <2> QED BY <2>1, Halves DEF IInv, vars, archiveVars
<1>2. /\ pc = "publish" /\ manifest' = Header(2, archive, decision.md5, decision.scope, opened)
      /\ archive' = archive /\ UNCHANGED <<settings, clock>>
  BY <1>1 DEF PublishArchive, PublishedHeader, SameWorld
<1>3. flags.rebuild
  BY <1>2 DEF IInv, ArchiveRunSound
<1>4. ASSUME ArchiveReady PROVE ArchiveReady'
  <2>1. Readable(manifest) /\ Newer(manifest) /\ Time[archive] = manifest.modified
    BY <1>4 DEF ArchiveReady, ArchiveValid, LightMatches
  <2>2. decision.scope = Scope[archive] /\ manifest.at <= clock /\ manifest.at \in Int
        /\ clock \in Int /\ Time[archive] \in Int
    BY <1>2, <2>1, VersionFacts DEF IInv, ArchiveRunSound, ArchiveSteps, ArchiveManifestSound, TypeOK
  <2>3. /\ manifest'.schema = 2 /\ manifest'.scope = Scope[archive] /\ manifest'.at = clock
        /\ manifest'.modified = Time[archive] /\ manifest'.processing = Processing(Scope[archive])
    BY <1>2, <2>2 DEF Header
  <2>4. clock > Time[archive]
    BY <2>1, <2>2 DEF Newer
  <2>5. manifest'.processing = Processing(Scope[archive])'
    BY <1>2, <2>3 DEF Processing
  <2> QED BY <1>2, <2>3, <2>4, <2>5
    DEF ArchiveReady, ArchiveValid, LightMatches, ScopeMatches, Newer, Readable
<1> QED BY <1>3, <1>4

\* The same of a manifest of dumps.
LEMMA DatabaseImproved ==
  ASSUME IInv, [Next]_vars, dbManifest' # dbManifest, dbManifest # NoManifest
  PROVE  flags.rebuild /\ (raced = "no" /\ DatabaseReady => DatabaseReady')
<1>1. PublishDatabase
  <2>1. DatabaseNext /\ ~PublishDatabase => dbManifest' = dbManifest
    BY DEF DatabaseNext, SwitchDumps, DatabaseStep, StopDatabase, Discover, PlanDatabase, Verify,
       SumDumps, Prepare, BeginTable, FillTable, ImportFails, Record
  <2> QED BY <2>1, Halves DEF IInv, vars, databaseVars
<1> QED BY <1>1 DEF PublishDatabase, IInv, DatabaseRunSound

\* cache replaces what it published only when asked to rebuild, and what is ready only
\* by what is ready: Rebuilds and Imports are not fooled by what happens while a run
\* collects what it compares.
THEOREM ManifestsOnlyImproved == Spec => OnlyImproved
<1>1. IInv /\ [Next]_vars =>
        [manifest' # manifest /\ manifest # NoManifest =>
           flags.rebuild /\ (ArchiveReady => ArchiveReady')]_vars
  BY ArchiveImproved
<1>2. IInv /\ [Next]_vars =>
        [dbManifest' # dbManifest /\ dbManifest # NoManifest =>
           flags.rebuild /\ (raced = "no" /\ DatabaseReady => DatabaseReady')]_vars
  BY DatabaseImproved
<1>3. Spec => [][manifest' # manifest /\ manifest # NoManifest =>
                   flags.rebuild /\ (ArchiveReady => ArchiveReady')]_vars
  BY <1>1, CacheInvariance, PTL DEF Spec
<1>4. Spec => [][dbManifest' # dbManifest /\ dbManifest # NoManifest =>
                   flags.rebuild /\ (raced = "no" /\ DatabaseReady => DatabaseReady')]_vars
  BY <1>2, CacheInvariance, PTL DEF Spec
<1> QED BY <1>3, <1>4 DEF OnlyImproved
=============================================================================
