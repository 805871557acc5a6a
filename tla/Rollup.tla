------------------------------- MODULE Rollup -------------------------------
(* One lineage (runFamily and processUpdates of rollup/rollup.go).  A run lists
   the directories, checks that the active archive agrees with the last
   finalized one and with the stored period state, finalizes an active archive
   whose period is over, and copies the new entries of the update archives to a
   hidden work archive.  The work archive replaces the active one, and is
   finalized on the way when it reaches its target size.  A run may stop at any
   step: an I/O error, a cancelled context and a killed process all leave what
   was published and nothing of the work archive. *)
EXTENDS Integers, Sequences, FiniteSets, Functions

CONSTANTS
  Updates,       \* update archives in name order: range in the name, entries
  Libraries,     \* the possible first contents of the archive directory
  Policies,      \* finalization policies, of {"size", "rolling", "calendar"}
  Target,        \* target size, for the policy "size"
  Period,        \* rolling duration, or length of a calendar bucket
  ByName,        \* archiveEntryKey: by name (lineage usr) or by id (fb2)
  MaxClock,      \* bound: the clock stops there
  MaxStops       \* bound: how many runs stop before their end

ASSUME SizesAssumption == Target \in Nat \ {0} /\ Period \in Nat \ {0}
ASSUME BoundsAssumption == MaxClock \in Nat /\ MaxStops \in Nat

VARIABLES
  files,         \* the archive directory: finalized and active archives
  state,         \* the lineage's entry of rollup-state.json, or NoLineage
  arrived,       \* updates in the update directories
  clock, policy,
  pc, job,       \* the run: its next step and its locals
  outcome,       \* how the last run ended
  stops, torn    \* runs that stopped; one did between two steps that belong together

vars == <<files, state, arrived, clock, policy, pc, job, outcome, stops, torn>>

NoFile == [ext |-> "none", begin |-> 0, end |-> 0, bytes |-> 0, entries |-> <<>>]
NoLineage == [begin |-> 0, end |-> 0, start |-> 0, deadline |-> 0]

\* An entry whose name is not a number has id 0, an empty one has no bytes.
Usable(e) == e.bytes > 0 /\ e.id > 0
KeyOf(e) == IF ByName THEN <<e.id, e.form>> ELSE <<e.id>>
ById(d, e) == d.id < e.id \/ (d.id = e.id /\ d.form < e.form)

UsableOf(i) == {e \in Range(Updates[i].entries) : Usable(e)}
KeysOf(entries) == {KeyOf(e) : e \in Range(entries)}

\* A file is as large as what was written to it; ids are those of its entries.
EntryType == [id : Nat, form : Nat, bytes : Nat]
FileType == [ext : {"none", "zip", "merging"}, begin : Nat, end : Nat, bytes : Nat,
             entries : Seq(EntryType)]
IDs(f) == {e.id : e \in Range(f.entries)}
NamedByRange(f) == {f.begin, f.end} \subseteq IDs(f) /\ IDs(f) \subseteq f.begin..f.end

\* The updates of a library come in the order of their ranges: of a lineage whose keys
\* are ids, what one brings below the end of an earlier one was in it, or in one before.
ASSUME UpdatesAssumption ==
  /\ Updates \in Seq(Range(Updates))
  /\ \A i \in DOMAIN Updates :
       /\ Updates[i].last \in Nat /\ Updates[i].entries \in Seq(EntryType)
       /\ \A e \in UsableOf(i) : e.id <= Updates[i].last
  /\ ~ByName => \A i, j \in DOMAIN Updates : i < j =>
       \A d \in UsableOf(i), e \in UsableOf(j) : e.id <= d.id =>
         \E k \in 1..i : \E c \in UsableOf(k) : KeyOf(c) = KeyOf(e)

\* What a rollup has left there before: ranges that do not overlap, the active archive
\* last, and under a period policy none, since there is no state of it.
ASSUME LibrariesAssumption ==
  /\ Policies \subseteq {"size", "rolling", "calendar"}
  /\ \A library \in Libraries :
       /\ IsFiniteSet(library) /\ library \subseteq FileType
       /\ \A f \in library :
            /\ f.ext = "zip" \/ (f.ext = "merging" /\ Policies \subseteq {"size"})
            /\ NamedByRange(f) /\ \A k \in DOMAIN f.entries : Usable(f.entries[k])
            /\ \A k, l \in DOMAIN f.entries : KeyOf(f.entries[k]) = KeyOf(f.entries[l]) => k = l
            /\ ~ByName => \A i \in DOMAIN Updates : \A e \in UsableOf(i) :
                 e.id <= f.end => \E g \in library : KeyOf(e) \in KeysOf(g.entries)
       /\ \A f, g \in library : f # g => f.end < g.begin \/ g.end < f.begin
       /\ \A f, g \in library : f # g /\ f.ext = "merging" => g.end < f.begin

SameName(f, g) == f.ext = g.ext /\ f.begin = g.begin /\ f.end = g.end
\* Renaming to a name replaces the file that has it.
Put(fs, f) == {g \in fs : ~SameName(f, g)} \cup {f}

-----------------------------------------------------------------------------
(* Choosing the archives a run works on *)

OfKind(fs, ext) == {f \in fs : f.ext = ext}

LastArchive(fs) ==
  LET done == OfKind(fs, "zip")
      Before(f, g) == f.end > g.end \/ (f.end = g.end /\ f.begin <= g.begin)
  IN  IF done = {} THEN NoFile ELSE CHOOSE f \in done : \A g \in done : Before(f, g)

MergeArchive(fs) ==
  LET active == OfKind(fs, "merging")
  IN  IF active = {} THEN NoFile ELSE CHOOSE f \in active : TRUE

Mismatched(last, merge) ==
  \/ merge.begin < last.begin
  \/ merge.begin > last.begin /\ merge.begin <= last.end
  \/ merge.end < last.end

\* validatePeriodState: the state must be about this very archive.
StateDenies(merge) ==
  policy # "size" /\ (state.begin # merge.begin \/ state.end # merge.end)

Refused ==
  \/ Cardinality(OfKind(files, "merging")) > 1
  \/ LET merge == MergeArchive(files)
     IN  merge # NoFile /\ (Mismatched(LastArchive(files), merge) \/ StateDenies(merge))

PeriodExpired(lineage) == clock >= lineage.deadline

BucketStart(t) == t - (t % Period)
\* createRollupLineageState
LineageOf(f, started) ==
  LET from == IF policy = "calendar" THEN BucketStart(started) ELSE started
  IN  [begin |-> f.begin, end |-> f.end, start |-> from, deadline |-> from + Period]

\* Mutant: an update that overlaps what is archived is not looked into.
HasNewByName(i, high) == Updates[i].first > high

\* getUpdates by the range in the name, refineUpdatesByContents by the entries.
HasNew(i, high) ==
  /\ Updates[i].last > high
  /\ \E k \in DOMAIN Updates[i].entries :
       Usable(Updates[i].entries[k]) /\ Updates[i].entries[k].id > high

Selected(high) == {i \in job.seen : HasNew(i, high)}

\* The entries of an update, or of the archive that is opened again, which is read first.
Again == 0
Queued(from, entries) ==
  {[from |-> from, at |-> k, entry |-> entries[k]] : k \in DOMAIN entries}
Existing(item) == item.from = Again

\* The archives are read one after the other, each in the order of its entries' ids.
ReadBefore(a, b) == a.from < b.from \/ (a.from = b.from /\ ById(a.entry, b.entry))
IsNext(item) == \A other \in job.queue : ~ReadBefore(other, item)

-----------------------------------------------------------------------------
(* The run *)

NewWork == [entries |-> <<>>, bytes |-> 0, begin |-> 0, end |-> 0, old |-> NoFile]

Idle == [seen |-> {}, last |-> NoFile, merge |-> NoFile, high |-> 0,
         lineage |-> NoLineage, queue |-> {}, work |-> NewWork, left |-> 0,
         keys |-> {}, copied |-> FALSE, since |-> 0, as |-> "none"]

Init ==
  /\ files \in Libraries /\ state = NoLineage /\ arrived = {}
  /\ clock = 1 /\ policy \in Policies
  /\ pc = "idle" /\ job = Idle /\ outcome = "none"
  /\ stops = 0 /\ torn = FALSE

\* The updates of a library come in the order of their ranges.
Arrive(i) ==
  /\ i \notin arrived /\ \A j \in 1..(i - 1) : j \in arrived
  /\ arrived' = arrived \cup {i}
  /\ UNCHANGED <<files, state, clock, policy, pc, job, outcome, stops, torn>>

Tick ==
  /\ clock < MaxClock /\ clock' = clock + 1
  /\ UNCHANGED <<files, state, arrived, policy, pc, job, outcome, stops, torn>>

End(how) == pc' = "idle" /\ job' = Idle /\ outcome' = how

Refuse ==
  /\ pc = "idle" /\ Refused /\ outcome' = "refused"
  /\ UNCHANGED <<files, state, arrived, clock, policy, pc, job, stops, torn>>

\* Mutants: the deadline is one off, on either side; a state without its archive
\* is kept.
FirstStepAfterDeadline(merge) ==
  IF policy = "size" THEN "plan"
  ELSE IF merge = NoFile THEN IF state = NoLineage THEN "plan" ELSE "forget"
  ELSE IF clock > state.deadline THEN "finalize" ELSE "plan"

FirstStepBeforeDeadline(merge) ==
  IF policy = "size" THEN "plan"
  ELSE IF merge = NoFile THEN IF state = NoLineage THEN "plan" ELSE "forget"
  ELSE IF clock + 1 >= state.deadline THEN "finalize" ELSE "plan"

FirstStepKeepingState(merge) ==
  IF policy = "size" \/ merge = NoFile THEN "plan"
  ELSE IF PeriodExpired(state) THEN "finalize" ELSE "plan"

\* The state is looked at only under a period policy.
FirstStep(merge) ==
  IF policy = "size" THEN "plan"
  ELSE IF merge = NoFile THEN IF state = NoLineage THEN "plan" ELSE "forget"
  ELSE IF PeriodExpired(state) THEN "finalize" ELSE "plan"

Begin ==
  /\ pc = "idle" /\ ~Refused
  /\ LET last  == LastArchive(files)
         merge == MergeArchive(files)
     IN  /\ job' = [Idle EXCEPT !.seen = arrived, !.last = last, !.merge = merge,
                                !.high = IF merge = NoFile THEN last.end ELSE merge.end,
                                !.lineage = IF merge = NoFile THEN NoLineage ELSE state]
         /\ pc' = FirstStep(merge)
  /\ outcome' = "running"
  /\ UNCHANGED <<files, state, arrived, clock, policy, stops, torn>>

\* finalizeMergeArchive renames the active archive whose period is over.
FinalizeExpired ==
  /\ pc = "finalize"
  /\ LET final == [job.merge EXCEPT !.ext = "zip"]
     IN  /\ files' = Put(files \ {job.merge}, final)
         /\ job' = [job EXCEPT !.last = final, !.merge = NoFile, !.high = final.end,
                               !.lineage = NoLineage]
  /\ pc' = "forget"
  /\ UNCHANGED <<state, arrived, clock, policy, outcome, stops, torn>>

\* removeRollupLineageState, and the save that follows it in both its callers.
Forget ==
  /\ pc = "forget" /\ state' = NoLineage /\ pc' = "plan"
  /\ UNCHANGED <<files, arrived, clock, policy, job, outcome, stops, torn>>

\* Mutant: the last archive is opened again whatever its size.
ReopensAny == policy = "size" /\ job.merge = NoFile /\ job.last # NoFile

\* openWorkArchive: a last archive below the target is opened again.
Reopens == policy = "size" /\ job.merge = NoFile /\ job.last # NoFile /\ job.last.bytes < Target
\* The archive the work archive starts from: the active one, copied at once, or
\* the reopened last one, whose entries are queued before those of the updates.
OpenWork ==
  LET old == IF Reopens THEN job.last ELSE job.merge
  IN  [entries |-> job.merge.entries, bytes |-> job.merge.bytes,
       begin |-> old.begin, end |-> old.end, old |-> old]

PlanNothing ==
  /\ pc = "plan" /\ Selected(job.high) = {} /\ End("done")
  /\ UNCHANGED <<files, state, arrived, clock, policy, stops, torn>>

Plan ==
  /\ pc = "plan" /\ Selected(job.high) # {}
  /\ job' = [job EXCEPT
       !.work  = OpenWork,
       !.queue = (IF Reopens THEN Queued(Again, job.last.entries) ELSE {}) \cup
                 UNION {Queued(i, Updates[i].entries) : i \in Selected(job.high)},
       !.left  = Target - job.merge.bytes,
       !.since = job.lineage.start]
  /\ pc' = "copy"
  /\ UNCHANGED <<files, state, arrived, clock, policy, outcome, stops, torn>>

-----------------------------------------------------------------------------
(* Copying entries *)

\* Mutants: copied entries are forgotten; the first new entry is skipped.
SkippedUnlessFinalized(item) ==
  ~Usable(item.entry) \/ (~Existing(item) /\ item.entry.id <= job.high)

SkippedUpTo(item) ==
  \/ ~Usable(item.entry)
  \/ ~Existing(item) /\ (item.entry.id <= job.high + 1 \/ KeyOf(item.entry) \in job.keys)

Skipped(item) ==
  \/ ~Usable(item.entry)
  \/ ~Existing(item) /\ (item.entry.id <= job.high \/ KeyOf(item.entry) \in job.keys)

SkipEntry ==
  /\ pc = "copy"
  /\ \E item \in job.queue :
       IsNext(item) /\ Skipped(item) /\ job' = [job EXCEPT !.queue = @ \ {item}]
  /\ UNCHANGED <<files, state, arrived, clock, policy, pc, outcome, stops, torn>>

WithEntry(work, e) ==
  [work EXCEPT !.entries = Append(@, e), !.bytes = @ + e.bytes,
               !.begin = IF @ = 0 \/ e.id < @ THEN e.id ELSE @,
               !.end = IF e.id > @ THEN e.id ELSE @]

\* What copying the entry leaves of the target size.
LeftAfter(item) ==
  IF policy = "size" /\ ~Existing(item) THEN job.left - item.entry.bytes ELSE job.left

CopyEntry ==
  /\ pc = "copy"
  /\ \E item \in job.queue :
       LET full == policy = "size" /\ LeftAfter(item) <= 0 IN
       /\ IsNext(item) /\ ~Skipped(item)
       /\ job' = [job EXCEPT
            !.queue  = @ \ {item},
            !.work   = WithEntry(@, item.entry),
            !.left   = LeftAfter(item),
            !.keys   = IF Existing(item) THEN @ ELSE @ \cup {KeyOf(item.entry)},
            !.since  = IF Existing(item) \/ job.copied THEN @ ELSE clock,
            !.copied = @ \/ ~Existing(item),
            !.as     = IF full THEN "zip" ELSE "merging"]
       /\ pc' = IF full THEN "publish" ELSE "copy"
  /\ UNCHANGED <<files, state, arrived, clock, policy, outcome, stops, torn>>

\* Nothing new was copied: the work archive is removed.
DropWork ==
  /\ pc = "copy" /\ job.queue = {} /\ ~job.copied /\ End("done")
  /\ UNCHANGED <<files, state, arrived, clock, policy, stops, torn>>

CloseWork ==
  /\ pc = "copy" /\ job.queue = {} /\ job.copied
  /\ job' = [job EXCEPT !.as = "merging"] /\ pc' = "publish"
  /\ UNCHANGED <<files, state, arrived, clock, policy, outcome, stops, torn>>

-----------------------------------------------------------------------------
(* finishAs: rename the work archive, then remove the archive it was made from *)

WorkFile == [ext |-> job.as, begin |-> job.work.begin, end |-> job.work.end,
             bytes |-> job.work.bytes, entries |-> job.work.entries]

\* Mutants: the range of the next archive, or its room, is not reset.
RestartedWithWork ==
  [job EXCEPT !.work = [job.work EXCEPT !.entries = <<>>, !.bytes = 0], !.last = WorkFile,
              !.high = job.work.end, !.left = Target, !.copied = FALSE, !.keys = {}]
RestartedWithLeft ==
  [job EXCEPT !.work = NewWork, !.last = WorkFile, !.high = job.work.end,
              !.copied = FALSE, !.keys = {}]

\* The next work archive, after one reached the target.
Restarted == [job EXCEPT !.work = NewWork, !.last = WorkFile, !.high = job.work.end,
                         !.left = Target, !.copied = FALSE, !.keys = {}]
\* What the run does once its work archive is in place.
Proceed ==
  IF job.as = "zip" THEN pc' = "copy" /\ job' = Restarted /\ UNCHANGED outcome
  ELSE IF policy = "size" THEN End("done")
  ELSE pc' = "save" /\ UNCHANGED <<job, outcome>>

\* Mutant: the old archive goes first.
PublishWorkLast ==
  /\ pc = "publish"
  /\ IF job.work.old = NoFile \/ job.work.old \notin files
     THEN files' = Put(files, WorkFile) /\ Proceed
     ELSE files' = files \ {job.work.old} /\ UNCHANGED <<pc, job, outcome>>
  /\ UNCHANGED <<state, arrived, clock, policy, stops, torn>>

PublishWork ==
  /\ pc = "publish"
  /\ files' = Put(files, WorkFile)
  /\ IF job.work.old = NoFile THEN Proceed
     ELSE pc' = "remove" /\ UNCHANGED <<job, outcome>>
  /\ UNCHANGED <<state, arrived, clock, policy, stops, torn>>

RemoveOld ==
  /\ pc = "remove"
  /\ files' = {f \in files : SameName(f, job.work.old) => SameName(f, WorkFile)}
  /\ Proceed
  /\ UNCHANGED <<state, arrived, clock, policy, stops, torn>>

\* Mutant: the range of an archive that grew is not updated.
StateToSaveUnmoved ==
  IF job.lineage = NoLineage THEN LineageOf(WorkFile, job.since) ELSE job.lineage

\* The lineage's own state, or that of an archive started with its first copy.
StateToSave ==
  IF job.lineage = NoLineage THEN LineageOf(WorkFile, job.since)
  ELSE [job.lineage EXCEPT !.begin = WorkFile.begin, !.end = WorkFile.end]
SaveState ==
  /\ pc = "save" /\ state' = StateToSave /\ End("done")
  /\ UNCHANGED <<files, arrived, clock, policy, stops, torn>>

\* An error or a cancellation: the deferred cleanup removes the work archive;
\* a killed process leaves it hidden, and no run reads it.
Stop ==
  /\ pc # "idle" /\ stops < MaxStops
  /\ stops' = stops + 1 /\ torn' = (torn \/ pc \in {"remove", "save"})
  /\ End("stopped")
  /\ UNCHANGED <<files, state, arrived, clock, policy>>

Run ==
  \/ Refuse \/ Begin \/ FinalizeExpired \/ Forget \/ PlanNothing \/ Plan
  \/ SkipEntry \/ CopyEntry \/ DropWork \/ CloseWork
  \/ PublishWork \/ RemoveOld \/ SaveState

Next == Run \/ Stop \/ Tick \/ \E i \in DOMAIN Updates : Arrive(i)

\* The command is run again and again; nothing else is certain to happen.
Spec == Init /\ [][Next]_vars /\ WF_vars(Run)

-----------------------------------------------------------------------------
(* Properties *)

ArchivedKeys == UNION {KeysOf(f.entries) : f \in files}
Archived(i) == {KeyOf(e) : e \in UsableOf(i)} \subseteq ArchivedKeys

\* The values of the variables; an archive begun in this run always has room left
\* while it is being filled.
TypeOK ==
  /\ files \cup {job.last, job.merge, job.work.old} \subseteq FileType
  /\ state \in [begin : Nat, end : Nat, start : Nat, deadline : Nat]
  /\ arrived \subseteq DOMAIN Updates /\ job.seen \subseteq arrived
  /\ clock \in Nat /\ policy \in Policies
  /\ stops \in 0..MaxStops /\ torn \in BOOLEAN
  /\ outcome \in {"none", "running", "done", "refused", "stopped"}
  /\ pc \in {"idle", "finalize", "forget", "plan", "copy", "publish", "remove", "save"}
  /\ job.as \in {"none", "zip", "merging"} /\ job.copied \in BOOLEAN
  /\ job.high \in Nat /\ job.left \in Int
  /\ pc = "copy" /\ policy = "size" /\ job.merge = NoFile => job.left > 0

\* Every usable entry of an arrived update that the archives' ranges say is done
\* is in an archive: the high-water mark a later run filters by never passes an
\* entry that was not copied, wherever a run stopped and an archive was finalized.
NothingDropped ==
  pc = "idle" =>
    \A i \in arrived : \A e \in UsableOf(i) :
      (\E f \in files : e.id <= f.end) => KeyOf(e) \in ArchivedKeys

\* No entry is archived twice, although updates overlap and runs are repeated,
\* unless a run stopped between publishing an archive and removing the old one.
StoredOnceIn(fs) ==
  \A f, g \in fs : \A k \in DOMAIN f.entries, l \in DOMAIN g.entries :
    KeyOf(f.entries[k]) = KeyOf(g.entries[l]) => f = g /\ k = l
StoredOnce ==
  ~torn /\ pc # "remove" => StoredOnceIn(files)

\* The range in a file's name is the range of its contents; every later run, and
\* fetch, decide what is new by the name alone.
RangesTell ==
  \A f \in files : NamedByRange(f)

\* A run refuses what it finds (two active archives, one that does not match the
\* last archive or the stored state) only after a run stopped between two steps
\* of one publication: runs never lock themselves out otherwise.
RefusesOnlyTorn ==
  outcome = "refused" => torn

\* What was archived stays archived, in every step of a run that rewrites,
\* renames and removes archives.
KeepsArchived ==
  [][ArchivedKeys \subseteq ArchivedKeys']_vars

\* An archive that reached the target is never opened, renamed or removed again.
FullArchivesStay ==
  [][\A f \in OfKind(files, "zip") : policy = "size" /\ f.bytes >= Target => f \in files']_vars

\* Under the policy "size" every archive finalized has reached the target.
FinalizedFull ==
  [][\A f \in OfKind(files', "zip") \ files : policy = "size" => f.bytes >= Target]_vars

\* As long as the lineage has a period, its start and its deadline stay: growing
\* the active archive does not postpone it, and a period that is over is forgotten
\* before another begins, also when a run stops after finalizing.
DeadlineStays ==
  [][state # NoLineage /\ state' # NoLineage =>
       state'.start = state.start /\ state'.deadline = state.deadline]_vars

\* Under a period policy an archive is finalized only when its own period is over.
FinalizedWhenDue ==
  [][\A f \in OfKind(files', "zip") \ files : policy # "size" =>
       state.begin = f.begin /\ state.end = f.end /\ clock >= state.deadline]_vars

\* An active archive whose period is over is finalized, if runs go on.
Overdue == policy # "size" /\ OfKind(files, "merging") # {} /\ clock >= state.deadline
OverdueFinalized ==
  Overdue ~> (~Overdue \/ torn)

\* Two formats of a book that arrived in one update are both archived when a run
\* is done with it, as rollup_test.go:253 wants of the lineage usr.
FormatsKept ==
  outcome = "done" => \A i \in arrived : \A d, e \in UsableOf(i) :
    d.id = e.id /\ KeyOf(d) \in ArchivedKeys => KeyOf(e) \in ArchivedKeys

\* An active archive that reached the target size has been finalized when a run is
\* done, as README.md:347 says of the policy "size".
FinalizedAtTarget ==
  outcome = "done" /\ policy = "size" =>
    \A f \in OfKind(files, "merging") : f.bytes < Target
=============================================================================
