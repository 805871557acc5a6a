-------------------------------- MODULE Cache -------------------------------
(* The command cache over its two halves (runCache in cmd/metabib/main.go), run again
   and again for one selection; what merge may rely on in what it publishes. *)
EXTENDS ArchiveCache, DatabaseCache

vars == <<sharedVars, archiveVars, databaseVars>>

Init == CommandInit /\ ArchiveInit /\ DatabaseInit

Start(f) == StartRun(f) /\ UNCHANGED <<archiveVars, databaseVars>>
World == (Configure \/ Tick) /\ UNCHANGED <<archiveVars, databaseVars>>
Step ==
  \/ ArchiveStep /\ UNCHANGED databaseVars
  \/ DatabaseStep /\ UNCHANGED archiveVars

Next ==
  \/ World \/ (\E f \in Flags : Start(f))
  \/ ArchiveNext /\ UNCHANGED databaseVars
  \/ DatabaseNext /\ UNCHANGED archiveVars

\* cache --rebuild is run again and again, and time goes on.
Fairness == WF_vars(Step) /\ SF_vars(Start(Full)) /\ WF_vars(World /\ Tick)

Spec == Init /\ [][Next]_vars /\ Fairness

-----------------------------------------------------------------------------
(* Properties *)

SourceType == [declared : Int, modified : Int, md5 : Int]

\* The values of the variables.
TypeOK ==
  /\ selected \in {"archives", "database"} /\ settings \in Settings
  /\ clock \in 0..MaxClock /\ stops \in 0..MaxStops /\ flags \in Flags /\ raced \in {"no", "before", "after"}
  /\ archive \in Versions /\ opened \in Versions \cup {Nothing}
  /\ decision \in [scope : {"fb2", "usr"}, md5 : Versions \cup {Nothing}, newer : BOOLEAN]
  /\ dumps \in DumpSets /\ tables \in [Names -> Int] /\ switches \in 0..MaxSwitches
  /\ taint \subseteq {"interrupted", "leftover", "replaced"}
  /\ \A n \in DOMAIN plan.sources : plan.sources[n] \in SourceType
  /\ \A n \in DOMAIN provenance : provenance[n] \in SourceType

\* A manifest that merge accepts without a checksum describes its source, whatever
\* was replaced, interrupted or reconfigured before.  The exceptions are named: an
\* archive replaced while it was read; tables an import left half done, tables of an
\* earlier import that the later one did not have, dumps replaced during an import.
FreshDescribes ==
  /\ ArchiveReady /\ ~manifest.raced => ArchiveDescribed
  /\ DatabaseReady /\ dbManifest.taint = {} => DatabaseDescribed

\* A manifest whose checksums are verified describes its source, also when an archive
\* was replaced at any step of the run that built the manifest.
VerifiedDescribes ==
  /\ ArchiveVerified => ArchiveDescribed
  /\ DatabaseVerified /\ dbManifest.taint = {} => DatabaseDescribed

\* What was published is replaced only with --rebuild, and never something that is
\* ready by something that is not, unless the dumps changed under the run.
OnlyImproved ==
  /\ [][manifest' # manifest /\ manifest # NoManifest =>
          flags.rebuild /\ (ArchiveReady => ArchiveReady')]_vars
  /\ [][dbManifest' # dbManifest /\ dbManifest # NoManifest =>
          flags.rebuild /\ (raced = "no" /\ DatabaseReady => DatabaseReady')]_vars

\* When the source no longer changes, repeated runs end with a manifest that is
\* ready, whatever interrupted runs left and wherever the source's time lies.
EventuallyReady ==
  /\ selected = "archives" /\ ArchiveSettled ~> ArchiveReady
  /\ selected = "database" /\ DatabaseSettled ~> DatabaseReady
=============================================================================
