---------------------------- MODULE ArchiveCache ----------------------------
(* The manifest of one archive (library/manifest.go, library/process.go): cache
   plans what to do with it, builds it from the archive, publishes it with a header
   that describes the archive, and validates it, as merge does later.  The archive
   may be replaced at any time, also between the steps of a run. *)
EXTENDS CacheCommand, Sequences

CONSTANTS
  Time,          \* the modification time of each version of the archive
  Scope          \* the scope its entries give it: "fb2" or "usr"

ASSUME ArchiveVersions ==
  /\ Scope \in Seq({"fb2", "usr"}) /\ Scope # <<>> /\ Time \in [DOMAIN Scope -> Int]
ASSUME ArchiveTimes ==
  /\ DOMAIN Time = DOMAIN Scope
  /\ \A v, w \in DOMAIN Time : Time[v] = Time[w] => v = w

VARIABLES
  archive,       \* the version that is there
  manifest,      \* the published manifest: its header, and what its records are of
  decision,      \* what the run decided: ArchiveManifestDecision
  opened         \* the version it reads entries from

archiveVars == <<archive, manifest, decision, opened>>

Versions == DOMAIN Scope
Nothing == 0
NoDecision == [scope |-> "fb2", md5 |-> Nothing, newer |-> FALSE]

Header(schema, v, md5, scope, records) ==
  [schema |-> schema, modified |-> Time[v], md5 |-> md5, scope |-> scope,
   processing |-> Processing(scope), records |-> records, at |-> clock, raced |-> raced # "no"]

\* Besides no manifest at first: one of an older release, or a damaged one.
ArchiveInit ==
  /\ archive = 1 /\ decision = NoDecision /\ opened = Nothing
  /\ manifest \in IF selected = "archives"
       THEN {NoManifest, Unreadable, Header(1, 1, 1, "fb2", 1)} ELSE {NoManifest}

\* Another program replaces the archive; an open archive is still read.
ReplaceArchive ==
  /\ selected = "archives" /\ archive + 1 \in Versions /\ archive' = archive + 1
  /\ raced' = IF opened = Nothing THEN raced ELSE "after"
  /\ SameWorld /\ UNCHANGED <<pc, flags, manifest, decision, opened>>

-----------------------------------------------------------------------------
(* How a manifest is compared with its archive *)

\* Older releases knew one scope.
ScopeMatches(m, scope) == IF m.schema = 1 THEN scope = "fb2" ELSE m.scope = scope

\* times: the time to compare, if any.
LightMatches(m, scope, times) ==
  /\ ScopeMatches(m, scope) /\ m.processing = Processing(scope)
  /\ times # {} => m.modified \in times

Matches(m, scope, md5) == LightMatches(m, scope, {}) /\ m.md5 = md5

\* The manifest was written after the archive.
Newer(m) == m.at > Time[archive]

\* validateArchiveManifest: the report on the manifest as it is now.
ArchiveValid == Readable(manifest) /\ LightMatches(manifest, Scope[archive], {})
ArchiveReady ==
  ArchiveValid /\ Newer(manifest) /\ LightMatches(manifest, Scope[archive], {Time[archive]})
ArchiveVerified == ArchiveValid /\ Matches(manifest, Scope[archive], archive)

-----------------------------------------------------------------------------
(* A run *)

ForgetArchive == decision' = NoDecision /\ opened' = Nothing
EndArchive == EndRun /\ ForgetArchive

BuildArchive(md5) ==
  /\ decision' = [decision EXCEPT !.md5 = md5] /\ Goto("checksum") /\ UNCHANGED opened

\* classifyArchiveScope, at the beginning of planArchiveManifest.
Classify ==
  /\ pc = "classify" /\ decision' = [NoDecision EXCEPT !.scope = Scope[archive]]
  /\ Goto("plan") /\ SameWorld /\ UNCHANGED <<archive, manifest, opened>>

\* The header is that of the archive as it is.
LooksCurrent == Readable(manifest) /\ LightMatches(manifest, decision.scope, {Time[archive]})

\* Mutant: what is stale is made again without being asked.
RebuildsUnasked(current, newer) == manifest = NoManifest \/ ~(current /\ newer)

\* A manifest is made if it is missing, or if it is stale and --rebuild is given.
Rebuilds(current, newer) == manifest = NoManifest \/ (flags.rebuild /\ ~(current /\ newer))

Plan ==
  /\ pc = "plan"
  /\ IF LooksCurrent /\ flags.check
     THEN /\ decision' = [decision EXCEPT !.newer = Newer(manifest)]
          /\ Goto("compare") /\ UNCHANGED opened
     ELSE IF Rebuilds(LooksCurrent, Readable(manifest) /\ Newer(manifest))
          THEN BuildArchive(Nothing) ELSE EndArchive
  /\ SameWorld /\ UNCHANGED <<archive, manifest>>

\* --check-md5: the archive is read, and may no longer be the one that was compared.
Compare ==
  /\ pc = "compare"
  /\ IF Rebuilds(Matches(manifest, decision.scope, archive), decision.newer)
     THEN BuildArchive(archive) ELSE EndArchive
  /\ SameWorld /\ UNCHANGED <<archive, manifest>>

\* processArchive: the checksum, unless the plan has it, and then the archive is opened.
Checksum ==
  /\ pc = "checksum"
  /\ decision' = [decision EXCEPT !.md5 = IF @ = Nothing THEN archive ELSE @]
  /\ Goto("open") /\ SameWorld /\ UNCHANGED <<archive, manifest, opened>>

Open ==
  /\ pc = "open" /\ opened' = archive
  /\ Goto("publish") /\ SameWorld /\ UNCHANGED <<archive, manifest, decision>>

\* Mutant: the checksum is taken when the records are there.
PublishedHeaderLate == Header(2, archive, archive, decision.scope, opened)

\* archiveManifestHeaderFor: the time is that of the archive when all was read.
PublishedHeader == Header(2, archive, decision.md5, decision.scope, opened)

PublishArchive ==
  /\ pc = "publish" /\ manifest' = PublishedHeader /\ EndArchive
  /\ SameWorld /\ UNCHANGED archive

\* An error, an interrupt or a kill: what was spooled is of no use.
StopArchive ==
  selected = "archives" /\ StopRun /\ ForgetArchive /\ UNCHANGED <<archive, manifest>>

ArchiveStep == Classify \/ Plan \/ Compare \/ Checksum \/ Open \/ PublishArchive
ArchiveNext == ReplaceArchive \/ ArchiveStep \/ StopArchive

-----------------------------------------------------------------------------
(* What a manifest should say *)

\* Records of the archive that is there, taken with its scope and the settings.
ArchiveDescribed ==
  /\ manifest.records = archive
  /\ ScopeMatches(manifest, Scope[archive])
  /\ manifest.processing = Processing(Scope[archive])

ArchiveSettled == archive + 1 \notin Versions
=============================================================================
