---------------------------- MODULE RollupProofs ----------------------------
(* Proofs about Rollup, for any updates, any first archives and any number of
   runs.  Base says what a run relies on at each of its steps: which archives its
   work archive is made from, what it carries over from them and what its name
   will be.  The properties of the directory follow from it in three parts: the
   lineage's period, what a run finds that no other one left torn, and what the
   high-water mark passes. *)
EXTENDS Rollup, FiniteSetTheorems, SequenceTheorems, WellFoundedInduction, TLAPS

LineageType == [begin : Nat, end : Nat, start : Nat, deadline : Nat]
ItemType == [from : Nat, at : Nat, entry : EntryType]
WorkType == [entries : Seq(EntryType), bytes : Nat, begin : Nat, end : Nat, old : FileType]
JobType ==
  [seen : SUBSET Nat, last : FileType, merge : FileType, high : Nat, lineage : LineageType,
   queue : SUBSET ItemType, work : WorkType, left : Int, keys : SUBSET Seq(Nat),
   copied : BOOLEAN, since : Nat, as : {"none", "zip", "merging"}]

Typed == TypeOK /\ job \in JobType

\* A file is named by its contents, all of it usable, and holds no key twice.
Injective(entries) ==
  \A k, l \in DOMAIN entries : KeyOf(entries[k]) = KeyOf(entries[l]) => k = l
Whole(f) ==
  /\ f.ext \in {"zip", "merging"} /\ NamedByRange(f)
  /\ \A k \in DOMAIN f.entries : Usable(f.entries[k])
  /\ Injective(f.entries)
FilesWhole ==
  /\ IsFiniteSet(files) /\ \A f \in files : Whole(f)
  /\ \A f, g \in files : f.end = g.end => f = g

-----------------------------------------------------------------------------
(* Where a run is *)

Choosing == pc \in {"finalize", "forget", "plan"}
Working == pc \in {"copy", "publish", "remove"}
Old == job.work.old
\* The directory without the file that is being published.
Others == IF pc = "remove" THEN files \ {WorkFile} ELSE files
Pending == {item \in job.queue : Existing(item)}

\* What a run has chosen is there, and there is no other active archive.
ChosenThere ==
  Choosing =>
    /\ job.merge # NoFile => job.merge \in OfKind(files, "merging")
    /\ job.last # NoFile => job.last \in OfKind(files, "zip")
    /\ OfKind(files, "merging") \subseteq {job.merge}
    /\ job.high = IF job.merge = NoFile THEN job.last.end ELSE job.merge.end
    /\ job.work = NewWork /\ job.queue = {} /\ job.keys = {} /\ ~job.copied
    /\ pc = "finalize" => job.merge # NoFile /\ policy # "size"
    /\ pc = "forget" => job.merge = NoFile /\ policy # "size"

\* The high-water mark is the highest end there is.
MarkHighest ==
  Choosing \/ Working =>
    /\ \A f \in Others : f.end <= job.high
    /\ job.high = 0 \/ \E f \in Others : f.end = job.high

\* What is opened again is there, and nothing else is an active archive.
OldThere ==
  Working =>
    /\ Old # NoFile => /\ Old \in Others /\ Old.end = job.high
                       /\ Old.ext = "merging" \/ (policy = "size" /\ Old.bytes < Target)
    /\ OfKind(Others, "merging") \subseteq {Old}
    /\ pc = "remove" => Old # NoFile /\ WorkFile \in files

\* The queue is of entries of the updates and, before any other was copied, of the
\* archive that is opened again.
QueueSound ==
  \A item \in job.queue :
    IF Existing(item)
    THEN /\ pc = "copy" /\ policy = "size" /\ job.merge = NoFile /\ ~job.copied /\ Old # NoFile
         /\ item.at \in DOMAIN Old.entries /\ item.entry = Old.entries[item.at]
    ELSE /\ item.from \in job.seen
         /\ item.at \in DOMAIN Updates[item.from].entries
         /\ item.entry = Updates[item.from].entries[item.at]

\* A work archive is published with something new in it, as a finalized one when no
\* room is left.
RoomKept ==
  Working =>
    /\ job.copied <=> job.work.end > job.high
    /\ pc # "copy" => job.copied /\ job.as \in {"zip", "merging"}
    /\ pc # "copy" /\ job.as = "zip" => policy = "size" /\ job.left <= 0
    /\ policy = "size" => job.left + job.work.bytes >= Target

\* The range the work archive will be named by is that of what it holds and what
\* it has still to copy of the archive it replaces.
WorkIDs == {e.id : e \in Range(job.work.entries)} \cup {item.entry.id : item \in Pending}
WorkNamed ==
  Working =>
    /\ \A k \in DOMAIN job.work.entries : Usable(job.work.entries[k])
    /\ WorkIDs \subseteq job.work.begin..job.work.end
    /\ IF WorkIDs = {} THEN job.work.begin = 0 /\ job.work.end = 0
       ELSE {job.work.begin, job.work.end} \subseteq WorkIDs
    /\ IF Old # NoFile THEN job.work.begin = Old.begin
       ELSE WorkIDs # {} => job.work.begin > job.high

\* The entries of the archive that is replaced are in the work archive, or come.
Carried ==
  Working /\ Old # NoFile =>
    \A k \in DOMAIN Old.entries :
      \/ KeyOf(Old.entries[k]) \in KeysOf(job.work.entries)
      \/ [from |-> Again, at |-> k, entry |-> Old.entries[k]] \in job.queue

\* What the work archive holds is from the archive it replaces or new, and once.
CopiedOnce ==
  Working =>
    /\ Injective(job.work.entries)
    /\ \A k \in DOMAIN job.work.entries :
         LET e == job.work.entries[k] IN
         IF e.id > job.high THEN KeyOf(e) \in job.keys
         ELSE Old # NoFile /\ KeyOf(e) \in KeysOf(Old.entries)
    /\ \A item \in Pending : KeyOf(item.entry) \notin KeysOf(job.work.entries)
    /\ job.keys \subseteq KeysOf(job.work.entries)

Base ==
  /\ Typed /\ FilesWhole /\ ChosenThere /\ MarkHighest /\ OldThere /\ QueueSound
  /\ RoomKept /\ WorkNamed /\ Carried /\ CopiedOnce

-----------------------------------------------------------------------------
(* The parts that rest on it *)

\* A run under a period policy has the state that is stored, until it saves its own;
\* it finalizes what that state is about, and only when its period is over.
PeriodKept ==
  IF policy = "size" THEN pc \notin {"finalize", "forget", "save"}
  ELSE
    /\ pc = "forget" => job.lineage = NoLineage
    /\ pc \in {"plan", "copy", "publish", "remove", "save"} => job.lineage = state
    /\ pc = "finalize" => /\ state.begin = job.merge.begin /\ state.end = job.merge.end
                          /\ clock >= state.deadline
    /\ pc \in {"publish", "remove", "save"} => job.as = "merging"

\* The directory as it will be when the archive that was replaced is removed.
Kept == IF pc = "remove" THEN files \ {Old} ELSE files
Tidy ==
  ~torn =>
    /\ \A f, g \in Kept : f # g => f.end < g.begin \/ g.end < f.begin
    /\ \A f, g \in Kept : f # g /\ f.ext = "merging" => g.end < f.begin
    /\ StoredOnceIn(Kept)
    /\ policy # "size" /\ pc \notin {"remove", "save"} =>
         \A f \in OfKind(files, "merging") : state.begin = f.begin /\ state.end = f.end
    /\ pc = "save" => \A f \in OfKind(files, "merging") :
         f.begin = job.work.begin /\ f.end = job.work.end

\* What arrives, and what a run sees of it, leaves out no earlier update that is not
\* archived anyway.
Gapless(s) == \A i \in s : \A j \in 1..(i - 1) : j \in s \/ Archived(j)
\* Every end is that of a first archive, or the id of an entry that has arrived.
Reached ==
  \E library \in Libraries :
    /\ \A g \in library : KeysOf(g.entries) \subseteq ArchivedKeys
    /\ \A f \in files :
         \/ \E g \in library : f.end <= g.end
         \/ \E i \in arrived : \E d \in UsableOf(i) : f.end <= d.id
\* What the ends pass is archived.
Passed ==
  \A i \in arrived : \A e \in UsableOf(i) :
    (\E f \in files : e.id <= f.end) => KeyOf(e) \in ArchivedKeys
\* What a run has seen is archived, or in its work archive, or it comes.
Progress ==
  Working =>
    \A i \in job.seen : \A e \in UsableOf(i) :
      \/ KeyOf(e) \in ArchivedKeys
      \/ KeyOf(e) \in KeysOf(job.work.entries)
      \/ \E item \in job.queue : item.from = i /\ item.entry = e
\* The last entry of the work archive was read before what is still queued.
ReadInOrder ==
  Working /\ job.copied =>
    \E i \in job.seen : \E d \in UsableOf(i) :
      /\ job.work.end = d.id
      /\ KeyOf(d) \in KeysOf(job.work.entries)
      /\ \A item \in job.queue : item.from > i \/ (item.from = i /\ item.entry.id >= d.id)
Sweep ==
  /\ Gapless(arrived) /\ Gapless(job.seen)
  /\ Reached /\ Passed /\ Progress /\ ReadInOrder

-----------------------------------------------------------------------------
(* Choosing the archives *)

LEMMA NoFileType == NoFile \in FileType /\ NoFile.ext = "none" /\ NoFile.end = 0
  BY DEF NoFile, FileType

LEMMA KeyType == \A e \in EntryType : KeyOf(e) \in Seq(Nat)
  BY DEF KeyOf, EntryType

LEMMA KeysTyped == \A entries \in Seq(EntryType) :
                     /\ KeysOf(entries) \subseteq Seq(Nat)
                     /\ KeysOf(entries) = {KeyOf(entries[k]) : k \in DOMAIN entries}
<1> TAKE entries \in Seq(EntryType)
<1>1. Range(entries) = {entries[k] : k \in DOMAIN entries}
  BY DEF Range
<1>2. \A k \in DOMAIN entries : entries[k] \in EntryType
  OBVIOUS
<1> QED BY <1>1, <1>2, KeyType DEF KeysOf

\* The one whose end is the highest exists: no set of finite sets shrinks for ever.
LEMMA HighestExists ==
  ASSUME NEW done, IsFiniteSet(done), done # {}, done \subseteq FileType
  PROVE  \E f \in done : \A g \in done :
           f.end > g.end \/ (f.end = g.end /\ f.begin <= g.begin)
<1> DEFINE Better(f, g) == g.end > f.end \/ (g.end = f.end /\ g.begin < f.begin)
           Above(f) == {g \in done : Better(f, g)}
           R == StrictSubsetOrdering(done)
           T == {Above(f) : f \in done}
<1>1. T \subseteq FiniteSubsetsOf(done) /\ T # {}
  <2>1. \A f \in done : Above(f) \subseteq done
    OBVIOUS
  <2>2. FiniteSubsetsOf(done) = SUBSET done
    BY FS_FiniteSubsetsOfFinite
  <2> HIDE DEF Above
  <2>3. T \subseteq SUBSET done
    BY <2>1
  <2>4. T # {}
    OBVIOUS
  <2> QED BY <2>2, <2>3, <2>4
<1>2. \E x \in T : \A y \in T : ~ (<<y, x>> \in R)
  <2> HIDE DEF T, R
  <2>1. IsWellFoundedOn(StrictSubsetOrdering(done), FiniteSubsetsOf(done))
    BY FS_StrictSubsetOrderingWellFounded
  <2> QED BY <1>1, <2>1, WFMin DEF R
<1>3. PICK f \in done : \A g \in done : ~ (<<Above(g), Above(f)>> \in R)
  BY <1>2
<1>4. ASSUME NEW g \in done, Better(f, g)
      PROVE  FALSE
  <2>1. Above(g) \subseteq Above(f)
    BY <1>4 DEF FileType
  <2>2. g \in Above(f) /\ g \notin Above(g)
    BY <1>4 DEF FileType
  <2> HIDE DEF Above
  <2>3. Above(g) \in SUBSET done /\ Above(f) \in SUBSET done
    BY DEF Above
  <2>4. <<Above(g), Above(f)>> \in StrictSubsetOrdering(done)
    BY <2>1, <2>2, <2>3 DEF StrictSubsetOrdering
  <2> QED BY <2>4, <1>3
<1>5. \A g \in done : g.end \in Nat /\ g.begin \in Nat
  BY DEF FileType
<1>6. \A g \in done : f.end > g.end \/ (f.end = g.end /\ f.begin <= g.begin)
  BY <1>4, <1>5
<1> QED BY <1>6

LEMMA LastArchiveIs ==
  ASSUME NEW fs, IsFiniteSet(fs), fs \subseteq FileType
  PROVE  /\ OfKind(fs, "zip") = {} => LastArchive(fs) = NoFile
         /\ OfKind(fs, "zip") # {} => LastArchive(fs) \in OfKind(fs, "zip")
         /\ \A g \in OfKind(fs, "zip") : g.end <= LastArchive(fs).end
<1>1. CASE OfKind(fs, "zip") = {}
  BY <1>1 DEF LastArchive
<1>2. CASE OfKind(fs, "zip") # {}
  <2> DEFINE done == OfKind(fs, "zip")
             Last(f) == \A g \in done : f.end > g.end \/ (f.end = g.end /\ f.begin <= g.begin)
  <2>1. IsFiniteSet(done) /\ done \subseteq FileType
    BY FS_Subset DEF OfKind
  <2>2. \E f \in done : Last(f)
    BY <1>2, <2>1, HighestExists
  <2>3. LastArchive(fs) = CHOOSE f \in done : Last(f)
    BY <1>2 DEF LastArchive
  <2>4. LastArchive(fs) \in done /\ Last(LastArchive(fs))
    BY <2>2, <2>3
  <2> QED BY <1>2, <2>1, <2>4 DEF FileType
<1> QED BY <1>1, <1>2

LEMMA MergeArchiveIs ==
  ASSUME NEW fs, IsFiniteSet(fs)
  PROVE  /\ OfKind(fs, "merging") = {} => MergeArchive(fs) = NoFile
         /\ OfKind(fs, "merging") # {} => MergeArchive(fs) \in OfKind(fs, "merging")
         /\ Cardinality(OfKind(fs, "merging")) <= 1 => OfKind(fs, "merging") \subseteq {MergeArchive(fs)}
<1>1. IsFiniteSet(OfKind(fs, "merging"))
  BY FS_Subset DEF OfKind
<1>2. Cardinality(OfKind(fs, "merging")) \in Nat
  BY <1>1, FS_CardinalityType
<1>3. OfKind(fs, "merging") # {} => MergeArchive(fs) \in OfKind(fs, "merging")
  BY DEF MergeArchive
<1>4. ASSUME Cardinality(OfKind(fs, "merging")) <= 1
      PROVE  OfKind(fs, "merging") \subseteq {MergeArchive(fs)}
  <2>1. CASE Cardinality(OfKind(fs, "merging")) = 0
    BY <1>1, <2>1, FS_EmptySet
  <2>2. CASE Cardinality(OfKind(fs, "merging")) = 1
    BY <1>1, <1>3, <2>2, FS_Singleton
  <2> QED BY <1>2, <1>4, <2>1, <2>2
<1> QED BY <1>3, <1>4 DEF MergeArchive

-----------------------------------------------------------------------------
(* What a step makes of the run's locals *)

LEMMA IdleType ==
  /\ NewWork \in WorkType /\ Idle \in JobType /\ NoLineage \in LineageType
  /\ NewWork.entries = <<>> /\ NewWork.old = NoFile
  /\ NewWork.begin = 0 /\ NewWork.end = 0 /\ NewWork.bytes = 0
  /\ Idle.work = NewWork /\ Idle.queue = {} /\ Idle.keys = {} /\ Idle.copied = FALSE
  /\ Idle.seen = {} /\ Idle.merge = NoFile /\ Idle.last = NoFile
<1>1. NewWork \in WorkType
  BY NoFileType DEF NewWork, WorkType
<1>2. NoLineage \in LineageType
  BY DEF NoLineage, LineageType
<1> QED BY <1>1, <1>2, NoFileType DEF Idle, JobType, NewWork

LEMMA ArchivesTyped ==
  ASSUME Typed, FilesWhole
  PROVE  LastArchive(files) \in FileType /\ MergeArchive(files) \in FileType
<1>1. files \subseteq FileType /\ IsFiniteSet(files)
  BY DEF Typed, TypeOK, FilesWhole
<1>2. OfKind(files, "zip") \subseteq files /\ OfKind(files, "merging") \subseteq files
  BY DEF OfKind
<1> QED BY <1>1, <1>2, LastArchiveIs, MergeArchiveIs, NoFileType

LEMMA BeginStep ==
  ASSUME Typed, FilesWhole, Begin
  PROVE  /\ job' \in JobType /\ job'.work = NewWork /\ job'.queue = {} /\ job'.keys = {}
         /\ job'.copied = FALSE /\ job'.seen = arrived
         /\ job'.last = LastArchive(files) /\ job'.merge = MergeArchive(files)
         /\ job'.high = IF job'.merge = NoFile THEN job'.last.end ELSE job'.merge.end
         /\ job'.lineage = IF job'.merge = NoFile THEN NoLineage ELSE state
         /\ pc' = FirstStep(job'.merge)
<1> DEFINE last == LastArchive(files)
           merge == MergeArchive(files)
           high == IF merge = NoFile THEN last.end ELSE merge.end
           lineage == IF merge = NoFile THEN NoLineage ELSE state
<1>1. last \in FileType /\ merge \in FileType /\ arrived \in SUBSET Nat
  <2>1. DOMAIN Updates \subseteq Nat
    BY UpdatesAssumption
  <2> QED BY <2>1, ArchivesTyped DEF Typed, TypeOK
<1>2. high \in Nat /\ lineage \in LineageType
  BY <1>1, IdleType DEF Typed, TypeOK, LineageType, FileType
<1>3. job' = [Idle EXCEPT !.seen = arrived, !.last = last, !.merge = merge,
                          !.high = high, !.lineage = lineage]
  BY DEF Begin
<1>4. pc' = FirstStep(merge)
  BY DEF Begin
<1> HIDE DEF last, merge, high, lineage
<1>5. Idle \in JobType
  BY IdleType
<1>6. job' \in JobType
  BY <1>1, <1>2, <1>3, <1>5 DEF JobType
<1>7. /\ job'.work = Idle.work /\ job'.queue = Idle.queue /\ job'.keys = Idle.keys
      /\ job'.copied = Idle.copied /\ job'.seen = arrived /\ job'.last = last
      /\ job'.merge = merge /\ job'.high = high /\ job'.lineage = lineage
  BY <1>3, <1>5 DEF JobType
<1> QED BY <1>4, <1>6, <1>7, IdleType DEF last, merge, high, lineage

LEMMA FinalizeStep ==
  ASSUME Typed, FinalizeExpired,
         NEW final, final = [job.merge EXCEPT !.ext = "zip"]
  PROVE  /\ final \in FileType /\ final.ext = "zip" /\ final.begin = job.merge.begin
         /\ final.end = job.merge.end /\ final.entries = job.merge.entries
         /\ files' = Put(files \ {job.merge}, final)
         /\ job' \in JobType /\ job'.last = final /\ job'.merge = NoFile /\ job'.high = final.end
         /\ job'.lineage = NoLineage /\ job'.seen = job.seen /\ job'.work = job.work
         /\ job'.queue = job.queue /\ job'.keys = job.keys /\ job'.copied = job.copied
<1>1. job \in JobType
  BY DEF Typed
<1>2. /\ final \in FileType /\ final.ext = "zip" /\ final.begin = job.merge.begin
      /\ final.end = job.merge.end /\ final.entries = job.merge.entries
  BY <1>1 DEF JobType, FileType
<1>3. job' = [job EXCEPT !.last = final, !.merge = NoFile, !.high = final.end,
                         !.lineage = NoLineage]
  BY DEF FinalizeExpired
<1>4. final.end \in Nat
  BY <1>2 DEF FileType
<1>5. job' \in JobType
  BY <1>1, <1>2, <1>3, <1>4, NoFileType, IdleType DEF JobType
<1>6. /\ job'.last = final /\ job'.merge = NoFile /\ job'.high = final.end
      /\ job'.lineage = NoLineage /\ job'.seen = job.seen /\ job'.work = job.work
      /\ job'.queue = job.queue /\ job'.keys = job.keys /\ job'.copied = job.copied
  BY <1>1, <1>3 DEF JobType
<1>7. files' = Put(files \ {job.merge}, final)
  BY DEF FinalizeExpired
<1> QED BY <1>2, <1>5, <1>6, <1>7

LEMMA PlanStep ==
  ASSUME Typed, Plan
  PROVE  /\ job' \in JobType
         /\ job'.work = OpenWork
         /\ job'.queue = (IF Reopens THEN Queued(Again, job.last.entries) ELSE {}) \cup
                         UNION {Queued(i, Updates[i].entries) : i \in Selected(job.high)}
         /\ job'.left = Target - job.merge.bytes
         /\ job'.seen = job.seen /\ job'.last = job.last /\ job'.merge = job.merge
         /\ job'.high = job.high /\ job'.lineage = job.lineage /\ job'.keys = job.keys
         /\ job'.copied = job.copied
<1> DEFINE queue == (IF Reopens THEN Queued(Again, job.last.entries) ELSE {}) \cup
                    UNION {Queued(i, Updates[i].entries) : i \in Selected(job.high)}
           left == Target - job.merge.bytes
<1>1. job \in JobType
  BY DEF Typed
<1>2. job.last \in FileType /\ job.merge \in FileType
  BY <1>1 DEF JobType
<1>3. OpenWork \in WorkType
  BY <1>2 DEF OpenWork, WorkType, FileType
<1>4. \A from \in Nat, entries \in Seq(EntryType) : Queued(from, entries) \subseteq ItemType
  <2> TAKE from \in Nat, entries \in Seq(EntryType)
  <2>1. \A k \in DOMAIN entries : k \in Nat /\ entries[k] \in EntryType
    OBVIOUS
  <2> QED BY <2>1 DEF Queued, ItemType
<1>5. \A i \in Selected(job.high) : Queued(i, Updates[i].entries) \subseteq ItemType
  <2> TAKE i \in Selected(job.high)
  <2>1. i \in DOMAIN Updates
    BY DEF Typed, TypeOK, Selected
  <2>2. i \in Nat /\ Updates[i].entries \in Seq(EntryType)
    BY <2>1, UpdatesAssumption
  <2> QED BY <1>4, <2>2
<1>6. Queued(Again, job.last.entries) \subseteq ItemType
  <2>1. job.last.entries \in Seq(EntryType)
    BY <1>2 DEF FileType
  <2> QED BY <1>4, <2>1 DEF Again
<1>7. queue \in SUBSET ItemType
  BY <1>5, <1>6
<1>8. left \in Int
  BY <1>2, SizesAssumption DEF FileType
<1>9. job.lineage.start \in Nat
  BY <1>1 DEF JobType, LineageType
<1>10. job' = [job EXCEPT !.work = OpenWork, !.queue = queue, !.left = left,
                          !.since = job.lineage.start]
  BY DEF Plan
<1> HIDE DEF queue, left
<1>11. job' \in JobType
  BY <1>1, <1>3, <1>7, <1>8, <1>9, <1>10 DEF JobType
<1>12. /\ job'.work = OpenWork /\ job'.queue = queue /\ job'.left = left
       /\ job'.seen = job.seen /\ job'.last = job.last /\ job'.merge = job.merge
       /\ job'.high = job.high /\ job'.lineage = job.lineage /\ job'.keys = job.keys
       /\ job'.copied = job.copied
  BY <1>1, <1>10 DEF JobType
<1> QED BY <1>11, <1>12 DEF queue, left

LEMMA SkipStep ==
  ASSUME Typed, SkipEntry
  PROVE  \E item \in job.queue :
           /\ IsNext(item) /\ Skipped(item)
           /\ job' \in JobType /\ job'.queue = job.queue \ {item}
           /\ job'.seen = job.seen /\ job'.last = job.last /\ job'.merge = job.merge
           /\ job'.high = job.high /\ job'.lineage = job.lineage /\ job'.work = job.work
           /\ job'.left = job.left /\ job'.keys = job.keys /\ job'.copied = job.copied
           /\ job'.as = job.as
<1>1. job \in JobType
  BY DEF Typed
<1>2. PICK item \in job.queue :
        IsNext(item) /\ Skipped(item) /\ job' = [job EXCEPT !.queue = @ \ {item}]
  BY DEF SkipEntry
<1>3. job' \in JobType
  BY <1>1, <1>2 DEF JobType
<1>4. /\ job'.queue = job.queue \ {item}
      /\ job'.seen = job.seen /\ job'.last = job.last /\ job'.merge = job.merge
      /\ job'.high = job.high /\ job'.lineage = job.lineage /\ job'.work = job.work
      /\ job'.left = job.left /\ job'.keys = job.keys /\ job'.copied = job.copied
      /\ job'.as = job.as
  BY <1>1, <1>2 DEF JobType
<1> QED BY <1>2, <1>3, <1>4

LEMMA GrownWork ==
  ASSUME NEW work \in WorkType, NEW e \in EntryType
  PROVE  /\ WithEntry(work, e) \in WorkType
         /\ WithEntry(work, e).entries = Append(work.entries, e)
         /\ WithEntry(work, e).bytes = work.bytes + e.bytes
         /\ WithEntry(work, e).begin =
              IF work.begin = 0 \/ e.id < work.begin THEN e.id ELSE work.begin
         /\ WithEntry(work, e).end = IF e.id > work.end THEN e.id ELSE work.end
         /\ WithEntry(work, e).old = work.old
<1>1. Append(work.entries, e) \in Seq(EntryType)
  BY DEF WorkType
<1>2. work.bytes + e.bytes \in Nat /\ e.id \in Nat
  BY DEF WorkType, EntryType
<1> QED BY <1>1, <1>2 DEF WithEntry, WorkType

LEMMA CopyStep ==
  ASSUME Typed, CopyEntry
  PROVE  \E item \in job.queue :
           /\ IsNext(item) /\ ~Skipped(item) /\ item \in ItemType
           /\ job' \in JobType /\ job'.queue = job.queue \ {item}
           /\ job'.work.entries = Append(job.work.entries, item.entry)
           /\ job'.work.bytes = job.work.bytes + item.entry.bytes
           /\ job'.work.begin = IF job.work.begin = 0 \/ item.entry.id < job.work.begin
                                THEN item.entry.id ELSE job.work.begin
           /\ job'.work.end = IF item.entry.id > job.work.end THEN item.entry.id ELSE job.work.end
           /\ job'.work.old = job.work.old
           /\ job'.left = LeftAfter(item)
           /\ job'.keys = IF Existing(item) THEN job.keys ELSE job.keys \cup {KeyOf(item.entry)}
           /\ job'.copied = (job.copied \/ ~Existing(item))
           /\ job'.seen = job.seen /\ job'.last = job.last /\ job'.merge = job.merge
           /\ job'.high = job.high /\ job'.lineage = job.lineage
           /\ IF policy = "size" /\ LeftAfter(item) <= 0
              THEN pc' = "publish" /\ job'.as = "zip"
              ELSE pc' = "copy" /\ job'.as = "merging"
<1>1. job \in JobType
  BY DEF Typed
<1>2. PICK item \in job.queue :
        LET full == policy = "size" /\ LeftAfter(item) <= 0 IN
        /\ IsNext(item) /\ ~Skipped(item)
        /\ job' = [job EXCEPT
             !.queue  = @ \ {item},
             !.work   = WithEntry(@, item.entry),
             !.left   = LeftAfter(item),
             !.keys   = IF Existing(item) THEN @ ELSE @ \cup {KeyOf(item.entry)},
             !.since  = IF Existing(item) \/ job.copied THEN @ ELSE clock,
             !.copied = @ \/ ~Existing(item),
             !.as     = IF full THEN "zip" ELSE "merging"]
        /\ pc' = IF full THEN "publish" ELSE "copy"
  BY DEF CopyEntry
<1> DEFINE full == policy = "size" /\ LeftAfter(item) <= 0
           work == WithEntry(job.work, item.entry)
           keys == IF Existing(item) THEN job.keys ELSE job.keys \cup {KeyOf(item.entry)}
           since == IF Existing(item) \/ job.copied THEN job.since ELSE clock
           copied == job.copied \/ ~Existing(item)
           as == IF full THEN "zip" ELSE "merging"
<1>3. item \in ItemType /\ item.entry \in EntryType /\ job.work \in WorkType
  BY <1>1 DEF JobType, ItemType
<1>4. /\ work \in WorkType /\ work.entries = Append(job.work.entries, item.entry)
      /\ work.bytes = job.work.bytes + item.entry.bytes
      /\ work.begin = IF job.work.begin = 0 \/ item.entry.id < job.work.begin
                      THEN item.entry.id ELSE job.work.begin
      /\ work.end = IF item.entry.id > job.work.end THEN item.entry.id ELSE job.work.end
      /\ work.old = job.work.old
  BY <1>3, GrownWork
<1>5. LeftAfter(item) \in Int
  BY <1>1, <1>3 DEF LeftAfter, JobType, EntryType
<1>6. keys \in SUBSET Seq(Nat)
  BY <1>1, <1>3, KeyType DEF JobType
<1>7. since \in Nat
  BY <1>1 DEF JobType, Typed, TypeOK
<1>8. copied \in BOOLEAN /\ as \in {"none", "zip", "merging"}
  OBVIOUS
<1>9. job' = [job EXCEPT !.queue = job.queue \ {item}, !.work = work, !.left = LeftAfter(item),
                         !.keys = keys, !.since = since, !.copied = copied, !.as = as]
  BY <1>2
<1>10. pc' = IF full THEN "publish" ELSE "copy"
  BY <1>2
<1>11. as = IF full THEN "zip" ELSE "merging"
  OBVIOUS
<1> HIDE DEF full, work, keys, since, copied, as
<1>12. job' \in JobType
  BY <1>1, <1>4, <1>5, <1>6, <1>7, <1>8, <1>9 DEF JobType
<1>13. /\ job'.queue = job.queue \ {item} /\ job'.work = work /\ job'.left = LeftAfter(item)
       /\ job'.keys = keys /\ job'.copied = copied /\ job'.as = as
       /\ job'.seen = job.seen /\ job'.last = job.last /\ job'.merge = job.merge
       /\ job'.high = job.high /\ job'.lineage = job.lineage
  BY <1>1, <1>9 DEF JobType
<1> USE DEF full
<1>14. IF policy = "size" /\ LeftAfter(item) <= 0
       THEN pc' = "publish" /\ job'.as = "zip"
       ELSE pc' = "copy" /\ job'.as = "merging"
  BY <1>10, <1>11, <1>13
<1>15. keys = IF Existing(item) THEN job.keys ELSE job.keys \cup {KeyOf(item.entry)}
  BY DEF keys
<1>16. copied = (job.copied \/ ~Existing(item))
  BY DEF copied
<1>17. IsNext(item) /\ ~Skipped(item)
  BY <1>2
<1> QED BY <1>3, <1>4, <1>12, <1>13, <1>14, <1>15, <1>16, <1>17

\* The file a work archive is published as.
LEMMA PublishedFile ==
  ASSUME Typed
  PROVE  /\ WorkFile \in FileType /\ WorkFile.ext = job.as
         /\ WorkFile.begin = job.work.begin /\ WorkFile.end = job.work.end
         /\ WorkFile.bytes = job.work.bytes /\ WorkFile.entries = job.work.entries
<1> QED BY DEF WorkFile, Typed, JobType, WorkType, FileType

LEMMA RestartStep ==
  ASSUME Typed, job' = Restarted
  PROVE  /\ job' \in JobType /\ job'.work = NewWork /\ job'.high = job.work.end
         /\ job'.left = Target /\ job'.copied = FALSE /\ job'.keys = {}
         /\ job'.seen = job.seen /\ job'.merge = job.merge /\ job'.lineage = job.lineage
         /\ job'.queue = job.queue /\ job'.as = job.as /\ job'.last = WorkFile
<1>1. job \in JobType
  BY DEF Typed
<1>2. WorkFile \in FileType
  BY PublishedFile
<1>3. job.work.end \in Nat
  BY <1>1 DEF JobType, WorkType
<1>4. job' = [job EXCEPT !.work = NewWork, !.last = WorkFile, !.high = job.work.end,
                         !.left = Target, !.copied = FALSE, !.keys = {}]
  BY DEF Restarted
<1>5. Target \in Int /\ NewWork \in WorkType
  BY IdleType, SizesAssumption
<1>6. {} \in SUBSET Seq(Nat)
  OBVIOUS
<1>7. job' \in JobType
  BY <1>1, <1>2, <1>3, <1>4, <1>5, <1>6 DEF JobType
<1>8. /\ job'.work = NewWork /\ job'.high = job.work.end
      /\ job'.left = Target /\ job'.copied = FALSE /\ job'.keys = {}
      /\ job'.seen = job.seen /\ job'.merge = job.merge /\ job'.lineage = job.lineage
      /\ job'.queue = job.queue /\ job'.as = job.as /\ job'.last = WorkFile
  BY <1>1, <1>4 DEF JobType
<1> QED BY <1>7, <1>8

\* A run goes on with the next work archive, saves its state, or is done.
LEMMA ProceedStep ==
  ASSUME Typed, Proceed
  PROVE  \/ pc' = "copy" /\ job.as = "zip" /\ job' = Restarted /\ outcome' = outcome
         \/ pc' = "idle" /\ job.as # "zip" /\ policy = "size" /\ job' = Idle /\ outcome' = "done"
         \/ pc' = "save" /\ job.as # "zip" /\ policy # "size" /\ job' = job /\ outcome' = outcome
<1> QED BY DEF Proceed, End

-----------------------------------------------------------------------------
(* Base is invariant *)

\* What others do while a run takes no step: updates arrive, time passes, and a
\* run that would begin is refused.
Around ==
  /\ UNCHANGED <<files, state, policy, pc, job, torn>>
  /\ arrived \subseteq arrived' /\ arrived' \subseteq DOMAIN Updates
  /\ clock' \in Nat /\ clock <= clock' /\ stops' \in 0..MaxStops
  /\ outcome' = outcome \/ (outcome' = "refused" /\ Refused)

LEMMA BaseAround ==
  ASSUME Base, Around
  PROVE  Base'
<1>1. Typed'
  BY DEF Base, Around, Typed, TypeOK
<1>2. /\ UNCHANGED files /\ UNCHANGED policy /\ UNCHANGED pc /\ UNCHANGED job
  BY DEF Around
<1>3. WorkFile' = WorkFile /\ Old' = Old /\ Pending' = Pending
  BY <1>2 DEF WorkFile, Old, Pending
<1>4. Others' = Others /\ WorkIDs' = WorkIDs
  BY <1>2, <1>3 DEF Others, WorkIDs
<1>5. FilesWhole' /\ ChosenThere' /\ MarkHighest' /\ OldThere'
  BY <1>2, <1>3, <1>4
     DEF Base, FilesWhole, ChosenThere, MarkHighest, OldThere, Choosing, Working
<1>6. QueueSound' /\ RoomKept' /\ WorkNamed' /\ Carried' /\ CopiedOnce'
  BY <1>2, <1>3, <1>4
     DEF Base, QueueSound, RoomKept, WorkNamed, Carried, CopiedOnce, Working
<1> QED BY <1>1, <1>5, <1>6 DEF Base

\* Between runs there is only the directory.
LEMMA BaseBetweenRuns ==
  ASSUME Typed', FilesWhole', pc' = "idle", job' = Idle
  PROVE  Base'
<1>1. ~Choosing' /\ ~Working'
  BY DEF Choosing, Working
<1>2. job'.queue = {}
  BY IdleType
<1> QED BY <1>1, <1>2 DEF Base, ChosenThere, MarkHighest, OldThere, QueueSound, RoomKept,
                      WorkNamed, Carried, CopiedOnce

LEMMA IDsOf ==
  ASSUME NEW f \in FileType, NamedByRange(f)
  PROVE  /\ f.begin <= f.end
         /\ \A k \in DOMAIN f.entries : f.begin <= f.entries[k].id /\ f.entries[k].id <= f.end
         /\ \E k \in DOMAIN f.entries : f.entries[k].id = f.end
         /\ \E k \in DOMAIN f.entries : f.entries[k].id = f.begin
<1>1. IDs(f) = {f.entries[k].id : k \in DOMAIN f.entries}
  BY DEF IDs, Range
<1>2. f.begin \in Nat /\ f.end \in Nat
  BY DEF FileType
<1> QED BY <1>1, <1>2 DEF NamedByRange

LEMMA BaseInit == Init => Base
<1> SUFFICES ASSUME Init PROVE Base
  OBVIOUS
<1> USE DEF Init
<1>1. IsFiniteSet(files) /\ files \subseteq FileType
  BY LibrariesAssumption
<1>2. \A f \in files : Whole(f)
  BY LibrariesAssumption DEF Whole, Injective
<1>3. ASSUME NEW f \in files, NEW g \in files, f.end = g.end, f # g
      PROVE  FALSE
  <2>1. f.end < g.begin \/ g.end < f.begin
    BY <1>3, LibrariesAssumption
  <2>2. f.begin <= f.end /\ g.begin <= g.end
    BY <1>1, <1>2, IDsOf DEF Whole
  <2> QED BY <1>1, <1>3, <2>1, <2>2 DEF FileType
<1>4. FilesWhole
  BY <1>1, <1>2, <1>3 DEF FilesWhole
<1>5. Typed
  <2>1. job.queue = {} /\ job.seen = {} /\ job.last = NoFile /\ job.merge = NoFile /\ Old = NoFile
        /\ job \in JobType
    BY IdleType DEF Old
  <2>2. job.as \in {"none", "zip", "merging"} /\ job.copied \in BOOLEAN /\ job.high \in Nat
        /\ job.left \in Int
    BY <2>1 DEF JobType
  <2>3. state \in [begin : Nat, end : Nat, start : Nat, deadline : Nat]
    BY IdleType DEF LineageType
  <2>4. files \cup {job.last, job.merge, job.work.old} \subseteq FileType
    BY <1>1, <2>1, NoFileType DEF Old
  <2>5. stops \in 0..MaxStops
    BY BoundsAssumption
  <2>8. clock \in Nat /\ policy \in Policies
    OBVIOUS
  <2>9. torn \in BOOLEAN
    OBVIOUS
  <2>6. job.seen \subseteq arrived /\ arrived \subseteq DOMAIN Updates
    BY <2>1
  <2>7. pc = "idle" /\ outcome = "none"
    OBVIOUS
  <2> HIDE DEF Init
  <2> QED BY <2>1, <2>2, <2>3, <2>4, <2>5, <2>6, <2>7, <2>8, <2>9
       DEF Typed, TypeOK
<1>6. ~Choosing /\ ~Working /\ job.queue = {}
  BY IdleType DEF Choosing, Working
<1> QED BY <1>4, <1>5, <1>6 DEF Base, ChosenThere, MarkHighest, OldThere, QueueSound, RoomKept,
                             WorkNamed, Carried, CopiedOnce

LEMMA ChosenByBegin ==
  ASSUME Base, ~Refused
  PROVE  LET last == LastArchive(files)
             merge == MergeArchive(files)
             high == IF merge = NoFile THEN last.end ELSE merge.end
         IN  /\ last # NoFile => last \in OfKind(files, "zip")
             /\ merge # NoFile => merge \in OfKind(files, "merging")
             /\ OfKind(files, "merging") \subseteq {merge}
             /\ \A f \in files : f.end <= high
             /\ high = 0 \/ \E f \in files : f.end = high
<1> DEFINE last == LastArchive(files)
           merge == MergeArchive(files)
           high == IF merge = NoFile THEN last.end ELSE merge.end
<1>1. IsFiniteSet(files) /\ files \subseteq FileType /\ \A f \in files : Whole(f)
  BY DEF Base, Typed, TypeOK, FilesWhole
<1>2. /\ OfKind(files, "zip") = {} => last = NoFile
      /\ OfKind(files, "zip") # {} => last \in OfKind(files, "zip")
      /\ \A g \in OfKind(files, "zip") : g.end <= last.end
  BY <1>1, LastArchiveIs
<1>3. Cardinality(OfKind(files, "merging")) <= 1
  <2>1. IsFiniteSet(OfKind(files, "merging"))
    BY <1>1, FS_Subset DEF OfKind
  <2>2. Cardinality(OfKind(files, "merging")) \in Nat
    BY <2>1, FS_CardinalityType
  <2> QED BY <2>2 DEF Refused
<1>4. /\ OfKind(files, "merging") = {} => merge = NoFile
      /\ OfKind(files, "merging") # {} => merge \in OfKind(files, "merging")
      /\ OfKind(files, "merging") \subseteq {merge}
  BY <1>1, <1>3, MergeArchiveIs
<1>5. merge # NoFile => ~Mismatched(last, merge)
  BY DEF Refused
<1>6. last \in FileType /\ merge \in FileType
  BY ArchivesTyped DEF Base
<1>7. \A f \in files : f \in OfKind(files, "zip") \/ f \in OfKind(files, "merging")
  BY <1>1 DEF Whole, OfKind
<1>8. merge # NoFile => last.end <= merge.end
  BY <1>5, <1>6 DEF Mismatched, FileType
<1> HIDE DEF last, merge
<1>9. \A f \in files : f.end <= high
  <2> TAKE f \in files
  <2>1. CASE f \in OfKind(files, "zip")
    <3>1. f.end <= last.end
      BY <1>2, <2>1
    <3> QED BY <1>1, <1>6, <1>8, <3>1 DEF FileType
  <2>2. CASE f \in OfKind(files, "merging")
    <3>1. f = merge /\ f.ext # NoFile.ext
      BY <1>4, <2>2, NoFileType DEF OfKind
    <3> QED BY <1>6, <3>1 DEF FileType
  <2> QED BY <1>7, <2>1, <2>2
<1>10. high = 0 \/ \E f \in files : f.end = high
  <2>1. NoFile.end = 0
    BY NoFileType
  <2> QED BY <1>2, <1>4, <2>1 DEF OfKind
<1> QED BY <1>2, <1>4, <1>9, <1>10, NoFileType DEF last, merge

LEMMA FirstSteps ==
  \A merge : /\ FirstStep(merge) \in {"plan", "forget", "finalize"}
             /\ FirstStep(merge) = "forget" => merge = NoFile /\ policy # "size"
             /\ FirstStep(merge) = "finalize" =>
                  merge # NoFile /\ policy # "size" /\ PeriodExpired(state)
  BY DEF FirstStep

LEMMA BaseBegin ==
  ASSUME Base, Begin
  PROVE  Base'
<1>1. /\ job' \in JobType /\ job'.work = NewWork /\ job'.queue = {} /\ job'.keys = {}
      /\ job'.copied = FALSE /\ job'.seen = arrived
      /\ job'.last = LastArchive(files) /\ job'.merge = MergeArchive(files)
      /\ job'.high = IF job'.merge = NoFile THEN job'.last.end ELSE job'.merge.end
      /\ pc' = FirstStep(job'.merge)
  BY BeginStep DEF Base
<1>2. UNCHANGED <<files, state, arrived, clock, policy, stops, torn>> /\ ~Refused
  BY DEF Begin
<1>3. /\ job'.last # NoFile => job'.last \in OfKind(files, "zip")
      /\ job'.merge # NoFile => job'.merge \in OfKind(files, "merging")
      /\ OfKind(files, "merging") \subseteq {job'.merge}
      /\ \A f \in files : f.end <= job'.high
      /\ job'.high = 0 \/ \E f \in files : f.end = job'.high
  BY <1>1, <1>2, ChosenByBegin
<1>4. /\ pc' \in {"plan", "forget", "finalize"}
      /\ pc' = "forget" => job'.merge = NoFile /\ policy # "size"
      /\ pc' = "finalize" => job'.merge # NoFile /\ policy # "size"
  BY <1>1, FirstSteps
<1>5. Typed'
  <2>1. job'.work.old \in FileType
    BY <1>1, IdleType, NoFileType
  <2>2. outcome' = "running"
    BY DEF Begin
  <2>3. /\ job'.last \in FileType /\ job'.merge \in FileType /\ job'.high \in Nat /\ job'.left \in Int
        /\ job'.as \in {"none", "zip", "merging"} /\ job'.copied \in BOOLEAN
    BY <1>1 DEF JobType
  <2> QED BY <1>1, <1>2, <1>4, <2>1, <2>2, <2>3 DEF Base, Typed, TypeOK
<1>6. FilesWhole'
  BY <1>2 DEF Base, FilesWhole
<1>7. ~Working' /\ pc' # "remove" /\ Others' = files
  BY <1>2, <1>4 DEF Working, Others
<1>8. ChosenThere'
  BY <1>1, <1>2, <1>3, <1>4 DEF ChosenThere
<1>9. MarkHighest'
  BY <1>3, <1>7 DEF MarkHighest
<1> QED BY <1>1, <1>5, <1>6, <1>7, <1>8, <1>9
        DEF Base, OldThere, QueueSound, RoomKept, WorkNamed, Carried, CopiedOnce

LEMMA BaseForget ==
  ASSUME Base, Forget
  PROVE  Base'
<1>1. pc = "forget" /\ pc' = "plan" /\ UNCHANGED <<files, arrived, clock, policy, job, outcome, stops, torn>>
      /\ state' = NoLineage
  BY DEF Forget
<1>2. Typed'
  BY <1>1, IdleType DEF Base, Typed, TypeOK, LineageType
<1>3. FilesWhole' /\ Choosing /\ Choosing' /\ ~Working' /\ Others' = Others
  BY <1>1 DEF Base, FilesWhole, Choosing, Working, Others
<1>4. ChosenThere'
  BY <1>1, <1>3 DEF Base, ChosenThere
<1>5. MarkHighest'
  BY <1>1, <1>3 DEF Base, MarkHighest
<1>6. job'.queue = {}
  BY <1>1, <1>3 DEF Base, ChosenThere
<1> QED BY <1>2, <1>3, <1>4, <1>5, <1>6
        DEF Base, OldThere, QueueSound, RoomKept, WorkNamed, Carried, CopiedOnce

\* The active archive keeps its range and its entries when it is finalized.
LEMMA FinalizedFiles ==
  ASSUME Base, FinalizeExpired,
         NEW final, final = [job.merge EXCEPT !.ext = "zip"]
  PROVE  /\ job.merge \in files /\ job.merge.ext = "merging" /\ final.ext = "zip"
         /\ OfKind(files, "merging") = {job.merge}
         /\ final \in FileType /\ final.begin = job.merge.begin /\ final.end = job.merge.end
         /\ final.entries = job.merge.entries
         /\ files' = (files \ {job.merge}) \cup {final}
<1>1. /\ final \in FileType /\ final.ext = "zip" /\ final.begin = job.merge.begin
      /\ final.end = job.merge.end /\ final.entries = job.merge.entries
      /\ files' = Put(files \ {job.merge}, final)
  BY FinalizeStep DEF Base
<1>2. pc = "finalize"
  BY DEF FinalizeExpired
<1>3. /\ job.merge \in files /\ job.merge.ext = "merging"
      /\ OfKind(files, "merging") = {job.merge}
  BY <1>2 DEF Base, ChosenThere, Choosing, OfKind
<1>4. \A g \in files \ {job.merge} : ~SameName(final, g) /\ ~SameName(g, final)
  BY <1>1, <1>3 DEF Base, FilesWhole, SameName
<1> QED BY <1>1, <1>3, <1>4 DEF Put

LEMMA BaseFinalize ==
  ASSUME Base, FinalizeExpired
  PROVE  Base'
<1> DEFINE final == [job.merge EXCEPT !.ext = "zip"]
<1>1. /\ job.merge \in files /\ job.merge.ext = "merging" /\ final.ext = "zip"
      /\ OfKind(files, "merging") = {job.merge}
      /\ final \in FileType /\ final.begin = job.merge.begin /\ final.end = job.merge.end
      /\ final.entries = job.merge.entries
      /\ files' = (files \ {job.merge}) \cup {final}
  BY FinalizedFiles
<1>2. /\ job' \in JobType /\ job'.last = final /\ job'.merge = NoFile /\ job'.high = final.end
      /\ job'.seen = job.seen /\ job'.work = job.work
      /\ job'.queue = job.queue /\ job'.keys = job.keys /\ job'.copied = job.copied
  BY FinalizeStep DEF Base
<1> HIDE DEF final
<1>3. /\ pc = "finalize" /\ pc' = "forget"
      /\ UNCHANGED <<state, arrived, clock, policy, outcome, stops, torn>>
  BY DEF FinalizeExpired
<1>4. Typed'
  <2>1. job'.work.old \in FileType
    BY <1>2 DEF JobType, WorkType
  <2>2. files' \subseteq FileType
    BY <1>1 DEF Base, Typed, TypeOK
  <2>3. /\ job'.last \in FileType /\ job'.merge \in FileType /\ job'.high \in Nat /\ job'.left \in Int
        /\ job'.as \in {"none", "zip", "merging"} /\ job'.copied \in BOOLEAN
    BY <1>2 DEF JobType
  <2> QED BY <1>2, <1>3, <2>1, <2>2, <2>3 DEF Base, Typed, TypeOK
<1>5. FilesWhole'
  <2>1. IsFiniteSet(files')
    <3>1. IsFiniteSet(files \ {job.merge})
      BY FS_Subset DEF Base, FilesWhole
    <3> QED BY <1>1, <3>1, FS_AddElement
  <2>2. Whole(final)
    <3>1. Whole(job.merge)
      BY <1>1 DEF Base, FilesWhole
    <3> QED BY <1>1, <3>1 DEF Whole, NamedByRange, IDs
  <2>3. \A f \in files' : Whole(f)
    BY <1>1, <2>2 DEF Base, FilesWhole
  <2>4. \A f, g \in files' : f.end = g.end => f = g
    BY <1>1 DEF Base, FilesWhole
  <2> QED BY <2>1, <2>3, <2>4 DEF FilesWhole
<1>6. job.high = job.merge.end
  BY <1>1, <1>3, NoFileType DEF Base, ChosenThere, Choosing
<1>7. ChosenThere'
  <2>1. OfKind(files', "merging") = {} /\ final \in OfKind(files', "zip")
    BY <1>1 DEF OfKind
  <2>2. job.work = NewWork /\ job.queue = {} /\ job.keys = {} /\ ~job.copied /\ policy # "size"
    BY <1>3 DEF Base, ChosenThere, Choosing
  <2> QED BY <1>2, <1>3, <2>1, <2>2 DEF ChosenThere
<1>8. MarkHighest'
  <2>1. Others = files /\ Others' = files' /\ Choosing
    BY <1>3 DEF Others, Choosing
  <2>2. \A f \in files : f.end <= job.high
    BY <2>1 DEF Base, MarkHighest
  <2>3. \A f \in files' : f.end <= job'.high
    BY <1>1, <1>2, <1>6, <2>2
  <2>4. \E f \in files' : f.end = job'.high
    BY <1>1, <1>2
  <2> QED BY <2>1, <2>3, <2>4 DEF MarkHighest
<1>9. ~Working' /\ job'.queue = {}
  BY <1>2, <1>3 DEF Working, Base, ChosenThere, Choosing
<1> QED BY <1>4, <1>5, <1>7, <1>8, <1>9
        DEF Base, OldThere, QueueSound, RoomKept, WorkNamed, Carried, CopiedOnce

LEMMA AppendedEntry ==
  ASSUME NEW s \in Seq(EntryType), NEW e \in EntryType
  PROVE  /\ Range(Append(s, e)) = Range(s) \cup {e}
         /\ KeysOf(Append(s, e)) = KeysOf(s) \cup {KeyOf(e)}
         /\ \A k \in DOMAIN Append(s, e) :
              (k \in DOMAIN s /\ Append(s, e)[k] = s[k]) \/ (k = Len(s) + 1 /\ Append(s, e)[k] = e)
         /\ Injective(s) /\ KeyOf(e) \notin KeysOf(s) => Injective(Append(s, e))
<1>1. Len(s) \in Nat /\ DOMAIN s = 1..Len(s) /\ DOMAIN Append(s, e) = 1..(Len(s) + 1)
  OBVIOUS
<1>2. \A k \in DOMAIN s : Append(s, e)[k] = s[k]
  OBVIOUS
<1>3. Append(s, e)[Len(s) + 1] = e
  OBVIOUS
<1>4. \A k \in DOMAIN Append(s, e) : k \in DOMAIN s \/ k = Len(s) + 1
  BY <1>1
<1>5. Range(Append(s, e)) = Range(s) \cup {e}
  BY <1>1, <1>2, <1>3, <1>4 DEF Range
<1>6. KeysOf(Append(s, e)) = KeysOf(s) \cup {KeyOf(e)}
  BY <1>5 DEF KeysOf
<1>7. ASSUME Injective(s), KeyOf(e) \notin KeysOf(s)
      PROVE  Injective(Append(s, e))
  <2>1. \A k \in DOMAIN s : KeyOf(s[k]) \in KeysOf(s)
    BY KeysTyped
  <2> QED BY <1>2, <1>3, <1>4, <1>7, <2>1 DEF Injective
<1> QED BY <1>2, <1>3, <1>4, <1>5, <1>6, <1>7

LEMMA KeyTellsID == \A d, e \in EntryType : KeyOf(d) = KeyOf(e) => d.id = e.id
  BY DEF KeyOf

LEMMA EntriesTyped ==
  ASSUME NEW f \in FileType
  PROVE  /\ f.entries \in Seq(EntryType) /\ f.begin \in Nat /\ f.end \in Nat /\ f.bytes \in Nat
         /\ \A k \in DOMAIN f.entries : f.entries[k] \in EntryType /\ k \in Nat
         /\ KeysOf(f.entries) = {KeyOf(f.entries[k]) : k \in DOMAIN f.entries}
         /\ IDs(f) = {f.entries[k].id : k \in DOMAIN f.entries}
<1>1. f.entries \in Seq(EntryType)
  BY DEF FileType
<1>2. \A k \in DOMAIN f.entries : f.entries[k] \in EntryType /\ k \in Nat
  BY <1>1
<1> QED BY <1>1, <1>2, KeysTyped DEF FileType, IDs, Range

LEMMA WorkTyped ==
  ASSUME Typed
  PROVE  /\ job.work.entries \in Seq(EntryType) /\ job.work.begin \in Nat /\ job.work.end \in Nat
         /\ job.work.bytes \in Nat /\ Old \in FileType /\ job.high \in Nat /\ job.left \in Int
         /\ \A k \in DOMAIN job.work.entries : job.work.entries[k] \in EntryType
         /\ KeysOf(job.work.entries) = {KeyOf(job.work.entries[k]) : k \in DOMAIN job.work.entries}
         /\ \A item \in job.queue : item \in ItemType /\ item.entry \in EntryType
<1>1. job.work.entries \in Seq(EntryType)
  BY DEF Typed, JobType, WorkType
<1>2. \A k \in DOMAIN job.work.entries : job.work.entries[k] \in EntryType
  BY <1>1
<1>3. KeysOf(job.work.entries) = {KeyOf(job.work.entries[k]) : k \in DOMAIN job.work.entries}
  BY <1>1, KeysTyped
<1>4. \A item \in job.queue : item \in ItemType /\ item.entry \in EntryType
  BY DEF Typed, JobType, ItemType
<1> QED BY <1>1, <1>2, <1>3, <1>4 DEF Typed, JobType, WorkType, Old

LEMMA BaseSkip ==
  ASSUME Base, SkipEntry
  PROVE  Base'
<1>1. PICK item \in job.queue :
           /\ IsNext(item) /\ Skipped(item)
           /\ job' \in JobType /\ job'.queue = job.queue \ {item}
           /\ job'.seen = job.seen /\ job'.last = job.last /\ job'.merge = job.merge
           /\ job'.high = job.high /\ job'.lineage = job.lineage /\ job'.work = job.work
           /\ job'.left = job.left /\ job'.keys = job.keys /\ job'.copied = job.copied
           /\ job'.as = job.as
  BY SkipStep DEF Base
<1>2. pc = "copy" /\ UNCHANGED <<files, state, arrived, clock, policy, pc, outcome, stops, torn>>
  BY DEF SkipEntry
<1>3. Working /\ ~Choosing /\ Others = files /\ Working' /\ ~Choosing' /\ Others' = files /\ Old' = Old
  BY <1>1, <1>2 DEF Working, Choosing, Others, Old
<1>4. ~Existing(item)
  <2> SUFFICES ASSUME Existing(item) PROVE FALSE
    OBVIOUS
  <2>1. Old \in files /\ item.at \in DOMAIN Old.entries /\ item.entry = Old.entries[item.at]
    BY <1>3 DEF Base, QueueSound, OldThere
  <2>2. Usable(item.entry)
    BY <2>1 DEF Base, FilesWhole, Whole
  <2> QED BY <1>1, <2>2 DEF Skipped
<1>5. Pending' = Pending
  BY <1>1, <1>4 DEF Pending
<1>6. WorkIDs' = WorkIDs
  BY <1>1, <1>5 DEF WorkIDs
<1>7. Typed'
  BY <1>1, <1>2 DEF Base, Typed, TypeOK, JobType
<1>8. FilesWhole' /\ ChosenThere' /\ MarkHighest' /\ OldThere'
  BY <1>1, <1>2, <1>3 DEF Base, FilesWhole, ChosenThere, MarkHighest, OldThere
<1>9. QueueSound'
  BY <1>1, <1>2, <1>3 DEF Base, QueueSound
<1>10. RoomKept' /\ WorkNamed'
  BY <1>1, <1>2, <1>3, <1>6 DEF Base, RoomKept, WorkNamed
<1>11. Carried'
  BY <1>1, <1>3, <1>4 DEF Base, Carried, Existing
<1>12. CopiedOnce'
  BY <1>1, <1>3, <1>5 DEF Base, CopiedOnce
<1> QED BY <1>7, <1>8, <1>9, <1>10, <1>11, <1>12 DEF Base

LEMMA BaseClose ==
  ASSUME Base, CloseWork
  PROVE  Base'
<1>1. /\ pc = "copy" /\ job.queue = {} /\ job.copied /\ pc' = "publish"
      /\ job' = [job EXCEPT !.as = "merging"]
      /\ UNCHANGED <<files, state, arrived, clock, policy, outcome, stops, torn>>
  BY DEF CloseWork
<1>2. job \in JobType
  BY DEF Base, Typed
<1>3. job' \in JobType
  BY <1>1, <1>2 DEF JobType
<1>4. /\ job'.queue = {} /\ job'.seen = job.seen /\ job'.last = job.last /\ job'.merge = job.merge
      /\ job'.high = job.high /\ job'.lineage = job.lineage /\ job'.work = job.work
      /\ job'.left = job.left /\ job'.keys = job.keys /\ job'.copied = job.copied
      /\ job'.as = "merging"
  BY <1>1, <1>2 DEF JobType
<1>5. Working /\ ~Choosing /\ Others = files /\ Working' /\ ~Choosing' /\ Others' = files /\ Old' = Old
  BY <1>1, <1>4 DEF Working, Choosing, Others, Old
<1>6. Pending = {} /\ Pending' = {} /\ WorkIDs' = WorkIDs
  BY <1>1, <1>4 DEF Pending, WorkIDs
<1>7. Typed'
  BY <1>1, <1>3, <1>4 DEF Base, Typed, TypeOK, JobType
<1>8. FilesWhole' /\ ChosenThere' /\ MarkHighest' /\ OldThere'
  BY <1>1, <1>4, <1>5 DEF Base, FilesWhole, ChosenThere, MarkHighest, OldThere
<1>9. QueueSound' /\ RoomKept' /\ WorkNamed'
  BY <1>1, <1>4, <1>5, <1>6 DEF Base, QueueSound, RoomKept, WorkNamed
<1>10. Carried' /\ CopiedOnce'
  BY <1>1, <1>4, <1>5, <1>6 DEF Base, Carried, CopiedOnce
<1> QED BY <1>7, <1>8, <1>9, <1>10 DEF Base

LEMMA QueuedItems ==
  ASSUME NEW from, NEW entries, NEW item \in Queued(from, entries)
  PROVE  /\ item.from = from /\ item.at \in DOMAIN entries /\ item.entry = entries[item.at]
         /\ item = [from |-> from, at |-> item.at, entry |-> entries[item.at]]
<1> QED BY DEF Queued

LEMMA BasePlan ==
  ASSUME Base, Plan
  PROVE  Base'
<1>1. /\ job' \in JobType
      /\ job'.work = OpenWork
      /\ job'.queue = (IF Reopens THEN Queued(Again, job.last.entries) ELSE {}) \cup
                      UNION {Queued(i, Updates[i].entries) : i \in Selected(job.high)}
      /\ job'.left = Target - job.merge.bytes
      /\ job'.seen = job.seen /\ job'.last = job.last /\ job'.merge = job.merge
      /\ job'.high = job.high /\ job'.lineage = job.lineage /\ job'.keys = job.keys
      /\ job'.copied = job.copied
  BY PlanStep DEF Base
<1>2. /\ pc = "plan" /\ pc' = "copy"
      /\ UNCHANGED <<files, state, arrived, clock, policy, outcome, stops, torn>>
  BY DEF Plan
<1>3. Choosing /\ ~Working /\ Others = files /\ Working' /\ ~Choosing' /\ Others' = files
  BY <1>2 DEF Choosing, Working, Others
<1>4. /\ job.merge # NoFile => job.merge \in files /\ job.merge.ext = "merging"
      /\ job.last # NoFile => job.last \in files
      /\ OfKind(files, "merging") \subseteq {job.merge}
      /\ job.high = IF job.merge = NoFile THEN job.last.end ELSE job.merge.end
      /\ job.keys = {} /\ ~job.copied
  BY <1>3 DEF Base, ChosenThere, OfKind
<1>5. /\ Old' = IF Reopens THEN job.last ELSE job.merge
      /\ job'.work.entries = job.merge.entries /\ job'.work.bytes = job.merge.bytes
      /\ job'.work.begin = Old'.begin /\ job'.work.end = Old'.end
  BY <1>1 DEF OpenWork, Old
<1>6. Reopens => /\ policy = "size" /\ job.merge = NoFile /\ job.last # NoFile
                 /\ job.last.bytes < Target
  BY DEF Reopens
<1>7. /\ job.merge \in FileType /\ job.last \in FileType /\ files \subseteq FileType
      /\ \A f \in files : Whole(f) /\ f.end <= job.high
  BY <1>3 DEF Base, Typed, TypeOK, FilesWhole, MarkHighest
<1>8. Old' # NoFile => Old' \in files /\ Whole(Old') /\ Old' \in FileType /\ Old'.end <= job.high
  BY <1>4, <1>5, <1>6, <1>7
<1>9. NoFile.entries = <<>> /\ NoFile.begin = 0 /\ NoFile.end = 0 /\ NoFile.bytes = 0
      /\ NoFile.ext = "none" /\ DOMAIN NoFile.entries = {}
  BY DEF NoFile
<1>10. \A item \in job'.queue :
         \/ Reopens /\ item \in Queued(Again, job.last.entries)
         \/ \E i \in Selected(job.high) : item \in Queued(i, Updates[i].entries)
  BY <1>1
<1>11. \A i \in Selected(job.high) : i \in job.seen /\ i # Again /\ i \in DOMAIN Updates
  <2>1. job.seen \subseteq DOMAIN Updates
    BY DEF Base, Typed, TypeOK
  <2>2. \A i \in DOMAIN Updates : i # 0
    BY UpdatesAssumption
  <2> QED BY <2>1, <2>2 DEF Selected, Again
<1>12. \A item \in job'.queue :
         Existing(item) => Reopens /\ item \in Queued(Again, job.last.entries)
  BY <1>10, <1>11, QueuedItems DEF Existing
<1>13. Pending' = IF Reopens THEN Queued(Again, job.last.entries) ELSE {}
  <2>1. \A item \in Queued(Again, job.last.entries) : Existing(item)
    BY QueuedItems DEF Existing
  <2> QED BY <1>1, <1>12, <2>1 DEF Pending
<1>14. Old' # NoFile => WorkIDs' = IDs(Old')
  <2> SUFFICES ASSUME Old' # NoFile PROVE WorkIDs' = IDs(Old')
    OBVIOUS
  <2>1. CASE Reopens
    <3>1. job'.work.entries = <<>> /\ Old' = job.last /\ job.last \in FileType
      BY <1>5, <1>6, <1>7, <1>9, <2>1
    <3>2. Range(job'.work.entries) = {}
      BY <3>1 DEF Range
    <3>3. {item.entry.id : item \in Queued(Again, job.last.entries)} =
            {job.last.entries[k].id : k \in DOMAIN job.last.entries}
      <4>1. \A item \in Queued(Again, job.last.entries) :
              item.at \in DOMAIN job.last.entries /\ item.entry = job.last.entries[item.at]
        BY QueuedItems
      <4>2. \A k \in DOMAIN job.last.entries :
              [from |-> Again, at |-> k, entry |-> job.last.entries[k]]
                \in Queued(Again, job.last.entries)
        BY DEF Queued
      <4> QED BY <4>1, <4>2
    <3> QED BY <1>13, <2>1, <3>1, <3>2, <3>3, EntriesTyped DEF WorkIDs
  <2>2. CASE ~Reopens
    BY <1>5, <1>13, <2>2 DEF WorkIDs, IDs
  <2> QED BY <2>1, <2>2
<1>15. Old' = NoFile => WorkIDs' = {} /\ job'.work.entries = <<>>
  <2> SUFFICES ASSUME Old' = NoFile PROVE WorkIDs' = {} /\ job'.work.entries = <<>>
    OBVIOUS
  <2>1. ~Reopens /\ job.merge = NoFile
    BY <1>5, <1>6
  <2>2. job'.work.entries = <<>>
    BY <1>5, <1>9, <2>1
  <2>3. Range(job'.work.entries) = {}
    BY <2>2 DEF Range
  <2> QED BY <1>13, <2>1, <2>2, <2>3 DEF WorkIDs
<1>16. Typed'
  <2>1. Old' \in FileType /\ job'.work.old = Old'
    BY <1>5, <1>7 DEF Old
  <2>2. /\ job'.high \in Nat /\ job'.left \in Int
        /\ job'.as \in {"none", "zip", "merging"} /\ job'.copied \in BOOLEAN
    BY <1>1 DEF JobType
  <2>3. job'.merge = NoFile => job'.left > 0
    BY <1>1, <1>9, SizesAssumption
  <2> QED BY <1>1, <1>2, <2>1, <2>2, <2>3 DEF Base, Typed, TypeOK
<1>17. FilesWhole' /\ ChosenThere'
  BY <1>2, <1>3 DEF Base, FilesWhole, ChosenThere
<1>18. MarkHighest'
  BY <1>1, <1>2, <1>3 DEF Base, MarkHighest
<1>19. OldThere'
  <2>1. Old' # NoFile => Old'.ext = "merging" \/ (policy = "size" /\ Old'.bytes < Target)
    BY <1>4, <1>5, <1>6
  <2>2. OfKind(files, "merging") \subseteq {Old'}
    BY <1>4, <1>5, <1>6, <1>9 DEF OfKind
  <2>3. Old' # NoFile => Old'.end = job'.high
    BY <1>1, <1>4, <1>5, <1>6
  <2> QED BY <1>2, <1>3, <1>8, <2>1, <2>2, <2>3 DEF OldThere, OfKind
<1>20. QueueSound'
  <2> SUFFICES ASSUME NEW item \in job'.queue
               PROVE  (IF Existing(item)
                       THEN /\ pc' = "copy" /\ policy' = "size" /\ job'.merge = NoFile
                            /\ ~job'.copied /\ Old' # NoFile
                            /\ item.at \in DOMAIN Old'.entries /\ item.entry = Old'.entries[item.at]
                       ELSE /\ item.from \in job'.seen
                            /\ item.at \in DOMAIN Updates[item.from].entries
                            /\ item.entry = Updates[item.from].entries[item.at])
    BY DEF QueueSound, Existing
  <2>1. CASE Existing(item)
    <3>1. Reopens /\ item \in Queued(Again, job.last.entries)
      BY <1>12, <2>1
    <3> QED BY <1>1, <1>2, <1>4, <1>5, <1>6, <2>1, <3>1, QueuedItems
  <2>2. CASE ~Existing(item)
    <3>1. PICK i \in Selected(job.high) : item \in Queued(i, Updates[i].entries)
      BY <1>10, <2>2, QueuedItems DEF Existing
    <3> QED BY <1>1, <1>11, <2>2, <3>1, QueuedItems
  <2> QED BY <2>1, <2>2
<1>21. RoomKept'
  <2>1. job'.left + job'.work.bytes >= Target
    <3>1. job.merge.bytes \in Nat /\ Target \in Nat
      BY <1>7, EntriesTyped, SizesAssumption
    <3> QED BY <1>1, <1>5, <3>1
  <2>2. ~(job'.work.end > job'.high)
    <3>1. Old'.end \in Nat /\ job.high \in Nat /\ Old'.end <= job.high
      BY <1>5, <1>7, <1>8, <1>9, EntriesTyped, WorkTyped DEF Base
    <3> QED BY <1>1, <1>5, <3>1
  <2> QED BY <1>1, <1>2, <1>4, <2>1, <2>2 DEF RoomKept
<1>22. WorkNamed'
  <2>1. \A k \in DOMAIN job'.work.entries : Usable(job'.work.entries[k])
    BY <1>4, <1>5, <1>7, <1>9 DEF Whole
  <2>2. CASE Old' = NoFile
    <3>1. job'.work.begin = 0 /\ job'.work.end = 0 /\ WorkIDs' = {}
      BY <1>5, <1>9, <1>15, <2>2
    <3> QED BY <2>1, <2>2, <3>1 DEF WorkNamed
  <2>3. CASE Old' # NoFile
    <3>1. /\ NamedByRange(Old') /\ WorkIDs' = IDs(Old')
          /\ job'.work.begin = Old'.begin /\ job'.work.end = Old'.end
      BY <1>5, <1>8, <1>14, <2>3 DEF Whole
    <3>2. WorkIDs' # {}
      BY <3>1 DEF NamedByRange
    <3>3. /\ WorkIDs' \subseteq job'.work.begin..job'.work.end
          /\ {job'.work.begin, job'.work.end} \subseteq WorkIDs'
      BY <3>1 DEF NamedByRange
    <3> QED BY <2>1, <2>3, <3>1, <3>2, <3>3 DEF WorkNamed
  <2> QED BY <2>2, <2>3
<1>23. Carried'
  <2> SUFFICES ASSUME Old' # NoFile, NEW k \in DOMAIN Old'.entries
               PROVE  \/ KeyOf(Old'.entries[k]) \in KeysOf(job'.work.entries)
                      \/ [from |-> Again, at |-> k, entry |-> Old'.entries[k]] \in job'.queue
    BY DEF Carried
  <2>1. CASE Reopens
    BY <1>1, <1>5, <2>1 DEF Queued
  <2>2. CASE ~Reopens
    <3>1. Old' = job.merge /\ job'.work.entries = job.merge.entries
      BY <1>5, <2>2
    <3> QED BY <1>7, <3>1, EntriesTyped
  <2> QED BY <2>1, <2>2
<1>24. CopiedOnce'
  <2>1. CASE Old' = NoFile \/ Reopens
    <3>1. job'.work.entries = <<>>
      BY <1>5, <1>6, <1>9, <1>15, <2>1
    <3>2. KeysOf(job'.work.entries) = {} /\ DOMAIN job'.work.entries = {}
      BY <3>1 DEF KeysOf, Range
    <3> QED BY <1>1, <1>4, <3>2 DEF CopiedOnce, Injective
  <2>2. CASE Old' # NoFile /\ ~Reopens
    <3>1. Old' = job.merge /\ job'.work.entries = Old'.entries
      BY <1>5, <2>2
    <3>2. Injective(job'.work.entries) /\ NamedByRange(Old')
      BY <1>8, <2>2, <3>1 DEF Whole
    <3>3. ASSUME NEW k \in DOMAIN job'.work.entries
          PROVE  /\ KeyOf(job'.work.entries[k]) \in KeysOf(Old'.entries)
                 /\ ~(job'.work.entries[k].id > job'.high)
      <4>1. Old' \in FileType /\ job'.work.entries[k] \in EntryType
        BY <1>8, <2>2, <3>1, EntriesTyped
      <4>2. job'.work.entries[k].id <= Old'.end
        BY <3>1, <3>2, <4>1, IDsOf
      <4>3. KeyOf(job'.work.entries[k]) \in KeysOf(Old'.entries)
        BY <3>1, <4>1, EntriesTyped
      <4>4. Old'.end \in Nat /\ job.high \in Nat /\ job'.work.entries[k].id \in Nat
        BY <4>1, EntriesTyped, WorkTyped DEF Base, EntryType
      <4> QED BY <1>1, <1>8, <2>2, <4>2, <4>3, <4>4
    <3>4. Pending' = {}
      BY <1>13, <2>2
    <3> QED BY <1>1, <1>4, <2>2, <3>2, <3>3, <3>4 DEF CopiedOnce
  <2> QED BY <2>1, <2>2
<1> QED BY <1>16, <1>17, <1>18, <1>19, <1>20, <1>21, <1>22, <1>23, <1>24 DEF Base

LEMMA BaseCopy ==
  ASSUME Base, CopyEntry
  PROVE  Base'
<1>1. PICK item \in job.queue :
           /\ IsNext(item) /\ ~Skipped(item) /\ item \in ItemType
           /\ job' \in JobType /\ job'.queue = job.queue \ {item}
           /\ job'.work.entries = Append(job.work.entries, item.entry)
           /\ job'.work.bytes = job.work.bytes + item.entry.bytes
           /\ job'.work.begin = IF job.work.begin = 0 \/ item.entry.id < job.work.begin
                                THEN item.entry.id ELSE job.work.begin
           /\ job'.work.end = IF item.entry.id > job.work.end THEN item.entry.id ELSE job.work.end
           /\ job'.work.old = job.work.old
           /\ job'.left = LeftAfter(item)
           /\ job'.keys = IF Existing(item) THEN job.keys ELSE job.keys \cup {KeyOf(item.entry)}
           /\ job'.copied = (job.copied \/ ~Existing(item))
           /\ job'.seen = job.seen /\ job'.last = job.last /\ job'.merge = job.merge
           /\ job'.high = job.high /\ job'.lineage = job.lineage
           /\ IF policy = "size" /\ LeftAfter(item) <= 0
              THEN pc' = "publish" /\ job'.as = "zip"
              ELSE pc' = "copy" /\ job'.as = "merging"
  BY CopyStep DEF Base
<1> DEFINE e == item.entry
<1>2. pc = "copy" /\ UNCHANGED <<files, state, arrived, clock, policy, outcome, stops, torn>>
      /\ pc' \in {"copy", "publish"}
  BY <1>1 DEF CopyEntry
<1>3. Working /\ ~Choosing /\ Others = files /\ Working' /\ ~Choosing' /\ Others' = files /\ Old' = Old
  BY <1>1, <1>2 DEF Working, Choosing, Others, Old
<1>4. /\ job.work.entries \in Seq(EntryType) /\ job.work.begin \in Nat /\ job.work.end \in Nat
      /\ job.work.bytes \in Nat /\ Old \in FileType /\ job.high \in Nat /\ job.left \in Int
      /\ \A k \in DOMAIN job.work.entries : job.work.entries[k] \in EntryType
      /\ KeysOf(job.work.entries) = {KeyOf(job.work.entries[k]) : k \in DOMAIN job.work.entries}
      /\ \A other \in job.queue : other \in ItemType /\ other.entry \in EntryType
  BY WorkTyped DEF Base
<1>5. e \in EntryType /\ e.id \in Nat /\ e.bytes \in Nat
  BY <1>4 DEF EntryType
<1>6. Usable(e) /\ (~Existing(item) => e.id > job.high /\ KeyOf(e) \notin job.keys)
  BY <1>1, <1>4, <1>5 DEF Skipped
<1>7. e.id > 0
  BY <1>6 DEF Usable
<1>8. Pending' = Pending \ {item}
  BY <1>1 DEF Pending
<1>9. /\ Range(job'.work.entries) = Range(job.work.entries) \cup {e}
      /\ KeysOf(job'.work.entries) = KeysOf(job.work.entries) \cup {KeyOf(e)}
      /\ \A k \in DOMAIN job'.work.entries :
           (k \in DOMAIN job.work.entries /\ job'.work.entries[k] = job.work.entries[k])
           \/ job'.work.entries[k] = e
      /\ Injective(job.work.entries) /\ KeyOf(e) \notin KeysOf(job.work.entries)
           => Injective(job'.work.entries)
  BY <1>1, <1>4, <1>5, AppendedEntry
<1>10. Existing(item) => /\ policy = "size" /\ job.merge = NoFile /\ ~job.copied /\ Old # NoFile
                         /\ item.at \in DOMAIN Old.entries /\ e = Old.entries[item.at]
  BY DEF Base, QueueSound
<1>11. Old # NoFile => /\ Old \in files /\ Whole(Old) /\ Old.end <= job.high
                       /\ NamedByRange(Old) /\ Injective(Old.entries) /\ Old.begin <= Old.end
                       /\ Old.begin > 0
  <2> SUFFICES ASSUME Old # NoFile
               PROVE  /\ Old \in files /\ Whole(Old) /\ Old.end <= job.high /\ NamedByRange(Old)
                      /\ Injective(Old.entries) /\ Old.begin <= Old.end /\ Old.begin > 0
    OBVIOUS
  <2>1. Old \in files /\ Old.end <= job.high
    BY <1>3 DEF Base, OldThere, MarkHighest
  <2>2. Whole(Old)
    BY <2>1 DEF Base, FilesWhole
  <2>3. NamedByRange(Old) /\ Injective(Old.entries)
    BY <2>2 DEF Whole
  <2>4. PICK k \in DOMAIN Old.entries : Old.entries[k].id = Old.begin
    BY <1>4, <2>3, IDsOf
  <2>5. Old.begin > 0
    BY <2>2, <2>4 DEF Whole, Usable
  <2> QED BY <1>4, <2>1, <2>2, <2>3, <2>5, IDsOf
<1>12. Existing(item) => e.id <= job.high /\ KeyOf(e) \in KeysOf(Old.entries)
  <2> SUFFICES ASSUME Existing(item)
               PROVE  e.id <= job.high /\ KeyOf(e) \in KeysOf(Old.entries)
    OBVIOUS
  <2>1. e.id <= Old.end
    BY <1>4, <1>10, <1>11, IDsOf
  <2>2. KeyOf(e) \in KeysOf(Old.entries)
    BY <1>4, <1>10, EntriesTyped
  <2>3. Old.end \in Nat
    BY <1>4, EntriesTyped
  <2> QED BY <1>4, <1>5, <1>10, <1>11, <2>1, <2>2, <2>3
\* A new entry is read after those of the archive that is opened again.
<1>13. ~Existing(item) => Pending = {} /\ Pending' = {}
  <2> SUFFICES ASSUME ~Existing(item), NEW other \in Pending PROVE FALSE
    BY <1>8
  <2>1. other \in job.queue /\ other.from = 0 /\ item.from \in Nat /\ item.from # 0
    BY <1>1 DEF Pending, Existing, Again, ItemType
  <2>2. ReadBefore(other, item)
    BY <2>1 DEF ReadBefore
  <2> QED BY <1>1, <2>1, <2>2 DEF IsNext
<1>14. KeyOf(e) \notin KeysOf(job.work.entries)
  <2>1. CASE Existing(item)
    <3>1. item \in Pending
      BY <2>1 DEF Pending
    <3> QED BY <1>3, <3>1 DEF Base, CopiedOnce
  <2>2. CASE ~Existing(item)
    <3> SUFFICES ASSUME NEW k \in DOMAIN job.work.entries, KeyOf(e) = KeyOf(job.work.entries[k])
                 PROVE  FALSE
      BY <1>4
    <3>1. e.id = job.work.entries[k].id
      BY <1>4, <1>5, KeyTellsID
    <3>2. KeyOf(job.work.entries[k]) \in job.keys
      BY <1>3, <1>6, <2>2, <3>1 DEF Base, CopiedOnce
    <3> QED BY <1>6, <2>2, <3>2
  <2> QED BY <2>1, <2>2
<1>15. Existing(item) => ~(policy = "size" /\ LeftAfter(item) <= 0)
  <2>1. Existing(item) => job.left > 0 /\ LeftAfter(item) = job.left
    BY <1>2, <1>10 DEF Base, Typed, TypeOK, LeftAfter
  <2> QED BY <1>4, <2>1
<1>16. Typed'
  <2>1. job'.work.old \in FileType
    BY <1>1, <1>4 DEF Old
  <2>2. /\ job'.high \in Nat /\ job'.left \in Int /\ job'.last \in FileType /\ job'.merge \in FileType
        /\ job'.as \in {"none", "zip", "merging"} /\ job'.copied \in BOOLEAN
    BY <1>1 DEF JobType
  <2>3. pc' = "copy" /\ policy' = "size" => job'.left > 0
    BY <1>1, <1>2, <2>2
  <2> QED BY <1>1, <1>2, <2>1, <2>2, <2>3 DEF Base, Typed, TypeOK
<1>17. FilesWhole' /\ ChosenThere' /\ MarkHighest' /\ OldThere'
  BY <1>1, <1>2, <1>3 DEF Base, FilesWhole, ChosenThere, MarkHighest, OldThere
<1>18. QueueSound'
  <2> SUFFICES ASSUME NEW other \in job'.queue
               PROVE  (IF Existing(other)
                       THEN /\ pc' = "copy" /\ policy' = "size" /\ job'.merge = NoFile
                            /\ ~job'.copied /\ Old' # NoFile
                            /\ other.at \in DOMAIN Old'.entries /\ other.entry = Old'.entries[other.at]
                       ELSE /\ other.from \in job'.seen
                            /\ other.at \in DOMAIN Updates[other.from].entries
                            /\ other.entry = Updates[other.from].entries[other.at])
    BY DEF QueueSound, Existing
  <2>1. other \in job.queue /\ other # item
    BY <1>1
  <2>2. CASE Existing(other)
    <3>1. other \in Pending
      BY <2>1, <2>2 DEF Pending
    <3>2. Existing(item)
      BY <1>13, <3>1
    <3>3. pc' = "copy" /\ ~job'.copied
      BY <1>1, <1>10, <1>15, <3>2
    <3> QED BY <1>1, <1>2, <1>3, <2>1, <2>2, <3>3 DEF Base, QueueSound
  <2>3. CASE ~Existing(other)
    BY <1>1, <2>1, <2>3 DEF Base, QueueSound
  <2> QED BY <2>2, <2>3
<1>19. RoomKept'
  <2>1. policy = "size" => job.left + job.work.bytes >= Target
    BY <1>3 DEF Base, RoomKept
  <2>2. job.copied <=> job.work.end > job.high
    BY <1>3 DEF Base, RoomKept
  <2>3. job'.copied => job'.work.end > job'.high
    <3>1. job'.copied => job.copied \/ ~Existing(item)
      BY <1>1
    <3>2. CASE job.copied
      BY <1>1, <1>4, <1>5, <2>2, <3>2
    <3>3. CASE ~Existing(item)
      <4>1. e.id > job.high
        BY <1>6, <3>3
      <4> QED BY <1>1, <1>4, <1>5, <4>1
    <3> QED BY <3>1, <3>2, <3>3
  <2>4. policy = "size" => job'.left + job'.work.bytes >= Target
    BY <1>1, <1>4, <1>5, <2>1, SizesAssumption DEF LeftAfter
  <2>5. pc' # "copy" => /\ job'.copied /\ job'.as = "zip" /\ policy = "size" /\ job'.left <= 0
    BY <1>1, <1>15
  <2>6. job'.work.end > job'.high => job'.copied
    <3>1. CASE Existing(item)
      <4>1. e.id <= job.high /\ (job'.copied <=> job.copied)
        BY <1>1, <1>12, <3>1
      <4>2. job'.work.end > job'.high => job.work.end > job.high
        BY <1>1, <1>4, <1>5, <4>1
      <4> QED BY <2>2, <4>1, <4>2
    <3>2. CASE ~Existing(item)
      BY <1>1, <3>2
    <3> QED BY <3>1, <3>2
  <2> QED BY <1>2, <2>3, <2>4, <2>5, <2>6 DEF RoomKept
<1>20. WorkIDs' = WorkIDs \cup {e.id}
  <2>1. WorkIDs' = {d.id : d \in Range(job'.work.entries)} \cup {other.entry.id : other \in Pending'}
    BY DEF WorkIDs
  <2>2. {d.id : d \in Range(job'.work.entries)} = {d.id : d \in Range(job.work.entries)} \cup {e.id}
    BY <1>9
  <2>3. {other.entry.id : other \in Pending'} \cup {e.id} = {other.entry.id : other \in Pending} \cup {e.id}
    BY <1>8
  <2>4. WorkIDs = {d.id : d \in Range(job.work.entries)} \cup {other.entry.id : other \in Pending}
    BY DEF WorkIDs
  <2> QED BY <2>1, <2>2, <2>3, <2>4
<1>21. WorkNamed'
  <2>1. /\ \A k \in DOMAIN job.work.entries : Usable(job.work.entries[k])
        /\ WorkIDs \subseteq job.work.begin..job.work.end
        /\ WorkIDs = {} => job.work.begin = 0 /\ job.work.end = 0
        /\ WorkIDs # {} => {job.work.begin, job.work.end} \subseteq WorkIDs
        /\ Old # NoFile => job.work.begin = Old.begin
        /\ Old = NoFile /\ WorkIDs # {} => job.work.begin > job.high
    BY <1>3 DEF Base, WorkNamed
  <2>2. \A k \in DOMAIN job'.work.entries : Usable(job'.work.entries[k])
    BY <1>6, <1>9, <2>1
  <2>3. Old # NoFile => job'.work.begin = Old.begin
    <3> SUFFICES ASSUME Old # NoFile PROVE job'.work.begin = Old.begin
      OBVIOUS
    <3>1. Old.begin <= e.id
      <4>1. CASE Existing(item)
        BY <1>4, <1>10, <1>11, <4>1, IDsOf
      <4>2. CASE ~Existing(item)
        <5>1. Old.begin \in Nat /\ Old.end \in Nat
          BY <1>4, EntriesTyped
        <5> QED BY <1>4, <1>5, <1>6, <1>11, <4>2, <5>1
      <4> QED BY <4>1, <4>2
    <3> QED BY <1>1, <1>4, <1>5, <1>11, <2>1, <3>1
  <2>8. 0 \notin WorkIDs
    <3>1. \A d \in Range(job.work.entries) : d.id > 0
      BY <2>1 DEF Range, Usable
    <3>2. ASSUME NEW other \in Pending
          PROVE  other.entry.id > 0
      <4>1. Old # NoFile /\ other.at \in DOMAIN Old.entries /\ other.entry = Old.entries[other.at]
        BY DEF Pending, Base, QueueSound
      <4> QED BY <1>11, <4>1 DEF Whole, Usable
    <3> QED BY <3>1, <3>2 DEF WorkIDs
  <2>4. WorkIDs' \subseteq job'.work.begin..job'.work.end
    <3>1. \A x \in WorkIDs : x \in Nat /\ x >= job.work.begin /\ x <= job.work.end
      BY <1>4, <2>1
    <3>2. ASSUME NEW x \in WorkIDs'
          PROVE  x \in Nat /\ job'.work.begin <= x /\ x <= job'.work.end
      <4>1. CASE x = e.id
        BY <1>1, <1>4, <1>5, <4>1
      <4>2. CASE x \in WorkIDs
        <5>1. job.work.begin # 0
          BY <2>1, <2>8, <4>2
        <5>2. job'.work.begin <= job.work.begin /\ job.work.end <= job'.work.end
          BY <1>1, <1>4, <1>5, <5>1
        <5>3. job'.work.begin \in Nat /\ job'.work.end \in Nat
          BY <1>1, <1>4, <1>5
        <5> QED BY <1>4, <3>1, <4>2, <5>2, <5>3
      <4> QED BY <1>20, <4>1, <4>2
    <3>3. job'.work.begin \in Nat /\ job'.work.end \in Nat
      BY <1>1, <1>4, <1>5
    <3> QED BY <3>2, <3>3
  <2>5. {job'.work.begin, job'.work.end} \subseteq WorkIDs'
    <3>1. CASE WorkIDs = {}
      <4>1. job'.work.begin = e.id /\ job'.work.end = e.id
        BY <1>1, <1>5, <1>7, <2>1, <3>1
      <4> QED BY <1>20, <4>1
    <3>2. CASE WorkIDs # {}
      BY <1>1, <1>20, <2>1, <3>2
    <3> QED BY <3>1, <3>2
  <2>6. Old = NoFile => job'.work.begin > job'.high
    <3> SUFFICES ASSUME Old = NoFile PROVE job'.work.begin > job'.high
      OBVIOUS
    <3>1. e.id > job.high
      BY <1>6, <1>10
    <3>2. job.work.begin = 0 \/ job.work.begin > job.high
      BY <2>1
    <3> QED BY <1>1, <1>4, <1>5, <3>1, <3>2
  <2>7. WorkIDs' # {}
    BY <1>20
  <2> QED BY <1>3, <2>2, <2>3, <2>4, <2>5, <2>6, <2>7 DEF WorkNamed
<1>22. Carried'
  <2> SUFFICES ASSUME Old # NoFile, NEW k \in DOMAIN Old.entries
               PROVE  \/ KeyOf(Old.entries[k]) \in KeysOf(job'.work.entries)
                      \/ [from |-> Again, at |-> k, entry |-> Old.entries[k]] \in job'.queue
    BY <1>3 DEF Carried
  <2>1. \/ KeyOf(Old.entries[k]) \in KeysOf(job.work.entries)
        \/ [from |-> Again, at |-> k, entry |-> Old.entries[k]] \in job.queue
    BY <1>3 DEF Base, Carried
  <2>2. [from |-> Again, at |-> k, entry |-> Old.entries[k]] = item => e = Old.entries[k]
    OBVIOUS
  <2> QED BY <1>1, <1>9, <2>1, <2>2
<1>23. CopiedOnce'
  <2>1. /\ Injective(job.work.entries)
        /\ \A k \in DOMAIN job.work.entries :
             IF job.work.entries[k].id > job.high THEN KeyOf(job.work.entries[k]) \in job.keys
             ELSE Old # NoFile /\ KeyOf(job.work.entries[k]) \in KeysOf(Old.entries)
        /\ \A other \in Pending : KeyOf(other.entry) \notin KeysOf(job.work.entries)
        /\ job.keys \subseteq KeysOf(job.work.entries)
    BY <1>3 DEF Base, CopiedOnce
  <2>2. Injective(job'.work.entries)
    BY <1>9, <1>14, <2>1
  <2>3. ASSUME NEW k \in DOMAIN job'.work.entries
        PROVE  IF job'.work.entries[k].id > job'.high THEN KeyOf(job'.work.entries[k]) \in job'.keys
               ELSE Old # NoFile /\ KeyOf(job'.work.entries[k]) \in KeysOf(Old.entries)
    <3>1. CASE k \in DOMAIN job.work.entries /\ job'.work.entries[k] = job.work.entries[k]
      <4>1. job.keys \subseteq job'.keys
        BY <1>1
      <4> QED BY <1>1, <2>1, <3>1, <4>1
    <3>2. CASE job'.work.entries[k] = e
      <4>1. CASE Existing(item)
        BY <1>1, <1>4, <1>5, <1>10, <1>12, <3>2, <4>1
      <4>2. CASE ~Existing(item)
        BY <1>1, <1>6, <3>2, <4>2
      <4> QED BY <4>1, <4>2
    <3> QED BY <1>9, <3>1, <3>2
  <2>4. ASSUME NEW other \in Pending'
        PROVE  KeyOf(other.entry) \notin KeysOf(job'.work.entries)
    <3>1. other \in Pending /\ other # item /\ other \in job.queue /\ Existing(other)
      BY <1>8 DEF Pending
    <3>2. Existing(item)
      BY <1>13, <3>1
    <3>3. other.at \in DOMAIN Old.entries /\ other.entry = Old.entries[other.at] /\ other \in ItemType
      BY <1>4, <3>1 DEF Base, QueueSound
    <3>4. KeyOf(other.entry) # KeyOf(e)
      <4> SUFFICES ASSUME KeyOf(other.entry) = KeyOf(e) PROVE FALSE
        OBVIOUS
      <4>1. other.at = item.at
        BY <1>10, <1>11, <3>2, <3>3 DEF Injective
      <4>2. other.entry = item.entry /\ other.from = item.from
        BY <1>10, <3>1, <3>2, <3>3, <4>1 DEF Existing
      <4> QED BY <1>1, <3>1, <3>3, <4>1, <4>2 DEF ItemType
    <3> QED BY <1>9, <2>1, <3>1, <3>4
  <2>5. job'.keys \subseteq KeysOf(job'.work.entries)
    BY <1>1, <1>9, <2>1
  <2> QED BY <1>3, <2>2, <2>3, <2>4, <2>5 DEF CopiedOnce
<1> QED BY <1>16, <1>17, <1>18, <1>19, <1>21, <1>22, <1>23 DEF Base

\* What is published is named by what it holds, which is more than what it
\* replaces, and its name is that of no other file.
LEMMA NewFile ==
  ASSUME Base, pc \in {"publish", "remove"}
  PROVE  /\ Working /\ Pending = {}
         /\ WorkFile \in FileType /\ Whole(WorkFile)
         /\ job.copied /\ WorkFile.end > job.high /\ WorkFile.end = job.work.end
         /\ \A f \in Others : f.end <= job.high /\ f.end < WorkFile.end /\ f # WorkFile
         /\ Old # NoFile => /\ Old \in Others /\ Old # WorkFile
                            /\ KeysOf(Old.entries) \subseteq KeysOf(WorkFile.entries)
<1>1. Working /\ ~Choosing
  BY DEF Working, Choosing
<1>2. Pending = {}
  BY DEF Base, QueueSound, Pending
<1>3. /\ WorkFile \in FileType /\ WorkFile.ext = job.as
      /\ WorkFile.begin = job.work.begin /\ WorkFile.end = job.work.end
      /\ WorkFile.bytes = job.work.bytes /\ WorkFile.entries = job.work.entries
  BY PublishedFile DEF Base
<1>4. job.copied /\ job.work.end > job.high /\ job.as \in {"zip", "merging"}
  BY <1>1 DEF Base, RoomKept
<1>5. job.high \in Nat /\ job.work.end \in Nat
  BY WorkTyped DEF Base
<1>6. WorkIDs = IDs(WorkFile)
  BY <1>2, <1>3 DEF WorkIDs, IDs
<1>7. NamedByRange(WorkFile)
  <2>1. /\ WorkIDs \subseteq job.work.begin..job.work.end
        /\ WorkIDs = {} => job.work.end = 0
        /\ WorkIDs # {} => {job.work.begin, job.work.end} \subseteq WorkIDs
    BY <1>1 DEF Base, WorkNamed
  <2>2. WorkIDs # {}
    BY <1>4, <1>5, <2>1
  <2> QED BY <1>3, <1>6, <2>1, <2>2 DEF NamedByRange
<1>8. Whole(WorkFile)
  <2>1. \A k \in DOMAIN WorkFile.entries : Usable(WorkFile.entries[k])
    BY <1>1, <1>3 DEF Base, WorkNamed
  <2>2. Injective(WorkFile.entries)
    BY <1>1, <1>3 DEF Base, CopiedOnce
  <2> QED BY <1>3, <1>4, <1>7, <2>1, <2>2 DEF Whole
<1>9. ASSUME NEW f \in Others
      PROVE  f.end <= job.high /\ f.end < WorkFile.end /\ f # WorkFile
  <2>1. f.end <= job.high
    BY <1>1 DEF Base, MarkHighest
  <2>2. f.end \in Nat
    BY DEF Others, Base, Typed, TypeOK, FileType
  <2> QED BY <1>3, <1>4, <1>5, <2>1, <2>2
<1>10. ASSUME Old # NoFile
       PROVE  Old \in Others /\ KeysOf(Old.entries) \subseteq KeysOf(WorkFile.entries)
  <2>1. Old \in Others
    BY <1>1, <1>10 DEF Base, OldThere
  <2>2. ASSUME NEW k \in DOMAIN Old.entries
        PROVE  KeyOf(Old.entries[k]) \in KeysOf(WorkFile.entries)
    <3>1. \/ KeyOf(Old.entries[k]) \in KeysOf(job.work.entries)
          \/ [from |-> Again, at |-> k, entry |-> Old.entries[k]] \in job.queue
      BY <1>1, <1>10 DEF Base, Carried
    <3>2. [from |-> Again, at |-> k, entry |-> Old.entries[k]] \notin job.queue
      BY <1>2 DEF Pending, Existing
    <3> QED BY <1>3, <3>1, <3>2
  <2>3. KeysOf(Old.entries) = {KeyOf(Old.entries[k]) : k \in DOMAIN Old.entries}
    BY WorkTyped, EntriesTyped DEF Base
  <2> QED BY <2>1, <2>2, <2>3
<1> QED BY <1>1, <1>2, <1>3, <1>4, <1>8, <1>9, <1>10

LEMMA PublishStep ==
  ASSUME Base, PublishWork
  PROVE  /\ files' = files \cup {WorkFile} /\ Others = files
         /\ \/ Old = NoFile /\ Proceed
            \/ Old # NoFile /\ pc' = "remove" /\ job' = job /\ outcome' = outcome
<1>1. pc = "publish"
  BY DEF PublishWork
<1>2. Others = files
  BY <1>1 DEF Others
<1>3. \A f \in files : ~SameName(WorkFile, f)
  <2>1. \A f \in files : f.end < WorkFile.end
    BY <1>1, <1>2, NewFile
  <2>2. WorkFile.end \in Nat
    BY <1>1, NewFile DEF FileType
  <2> QED BY <2>1, <2>2 DEF SameName
<1>4. files' = files \cup {WorkFile}
  BY <1>3 DEF PublishWork, Put
<1> QED BY <1>2, <1>4 DEF PublishWork, Old

LEMMA RemoveStep ==
  ASSUME Base, RemoveOld
  PROVE  /\ files' = files \ {Old} /\ files' = (Others \ {Old}) \cup {WorkFile}
         /\ Old # NoFile /\ Proceed
<1>1. pc = "remove"
  BY DEF RemoveOld
<1>2. Old # NoFile /\ WorkFile \in files /\ Others = files \ {WorkFile}
  BY <1>1 DEF Base, OldThere, Working, Others
<1>3. Old \in files /\ Old # WorkFile /\ Old.end # WorkFile.end
  <2>1. Old \in Others /\ Old.end < WorkFile.end
    BY <1>1, <1>2, NewFile
  <2>2. WorkFile.end \in Nat
    BY <1>1, NewFile DEF FileType
  <2> QED BY <1>2, <2>1, <2>2
<1>4. \A f \in files : SameName(f, Old) <=> f = Old
  BY <1>3 DEF Base, FilesWhole, SameName
<1>5. files' = {f \in files : SameName(f, Old) => SameName(f, WorkFile)}
  BY DEF RemoveOld, Old
<1>6. ~SameName(Old, WorkFile)
  BY <1>3 DEF SameName
<1>7. files' = files \ {Old}
  BY <1>4, <1>5, <1>6
<1> QED BY <1>2, <1>3, <1>7 DEF RemoveOld

LEMMA FilesAfter ==
  ASSUME Base, pc \in {"publish", "remove"}, files' \subseteq Others \cup {WorkFile}
  PROVE  FilesWhole' /\ files' \subseteq FileType
<1>1. Others \subseteq files
  BY DEF Others
<1>2. WorkFile \in FileType /\ Whole(WorkFile) /\ \A f \in Others : f.end < WorkFile.end
  BY NewFile
<1>3. IsFiniteSet(files')
  <2>1. IsFiniteSet(files \cup {WorkFile})
    BY FS_AddElement DEF Base, FilesWhole
  <2> QED BY <1>1, <2>1, FS_Subset
<1>4. \A f \in files' : Whole(f)
  BY <1>1, <1>2 DEF Base, FilesWhole
<1>5. ASSUME NEW f \in files', NEW g \in files', f.end = g.end
      PROVE  f = g
  <2>1. WorkFile.end \in Nat
    BY <1>2 DEF FileType
  <2>2. f \in Others /\ g \in Others => f = g
    BY <1>1, <1>5 DEF Base, FilesWhole
  <2>3. f \in Others \/ f = WorkFile
    OBVIOUS
  <2>4. g \in Others \/ g = WorkFile
    OBVIOUS
  <2> QED BY <1>2, <1>5, <2>1, <2>2, <2>3, <2>4
<1>6. files' \subseteq FileType
  BY <1>1, <1>2 DEF Base, Typed, TypeOK
<1> QED BY <1>3, <1>4, <1>5, <1>6 DEF FilesWhole

LEMMA BaseProceed ==
  ASSUME Base, pc \in {"publish", "remove"}, Proceed,
         files' = (Others \ {Old}) \cup {WorkFile},
         UNCHANGED <<state, arrived, clock, policy, stops, torn>>
  PROVE  Base'
<1>1. FilesWhole' /\ files' \subseteq FileType
  BY FilesAfter
<1>2. /\ Working /\ Pending = {} /\ WorkFile \in FileType
      /\ WorkFile.end = job.work.end /\ WorkFile.end > job.high
      /\ \A f \in Others : f.end < WorkFile.end
  BY NewFile
<1>3. CASE pc' = "copy" /\ job.as = "zip" /\ job' = Restarted /\ outcome' = outcome
  <2>1. /\ job' \in JobType /\ job'.work = NewWork /\ job'.high = job.work.end
        /\ job'.left = Target /\ job'.copied = FALSE /\ job'.keys = {}
        /\ job'.seen = job.seen /\ job'.merge = job.merge /\ job'.lineage = job.lineage
        /\ job'.queue = job.queue /\ job'.as = job.as /\ job'.last = WorkFile
    BY <1>3, RestartStep DEF Base
  <2>2. Working' /\ ~Choosing' /\ Others' = files' /\ Old' = NoFile
    BY <1>3, <2>1, IdleType DEF Working, Choosing, Others, Old
  <2>3. job'.work.entries = <<>> /\ job'.work.begin = 0 /\ job'.work.end = 0 /\ job'.work.bytes = 0
        /\ DOMAIN job'.work.entries = {} /\ Range(job'.work.entries) = {}
    BY <2>1, IdleType DEF Range
  <2>4. Pending' = {}
    BY <1>2, <2>1 DEF Pending
  <2>5. WorkIDs' = {}
    BY <2>3, <2>4 DEF WorkIDs
  <2>6. Typed'
    <3>1. /\ job'.work.old \in FileType /\ job'.last \in FileType /\ job'.merge \in FileType
      BY <1>2, <2>1, IdleType, NoFileType DEF JobType
    <3>2. job'.high \in Nat /\ job'.left \in Int /\ job'.as \in {"none", "zip", "merging"}
          /\ job'.copied \in BOOLEAN
      BY <2>1 DEF JobType
    <3>3. job'.left > 0
      BY <2>1, SizesAssumption
    <3> QED BY <1>1, <1>3, <2>1, <3>1, <3>2, <3>3 DEF Base, Typed, TypeOK
  <2>7. ChosenThere'
    BY <2>2 DEF ChosenThere
  <2>8. MarkHighest'
    <3>1. WorkFile.end \in Nat /\ \A f \in Others : f.end \in Nat
      BY <1>2 DEF Base, Typed, TypeOK, FileType, Others
    <3> QED BY <1>2, <2>1, <2>2, <3>1 DEF MarkHighest
  <2>9. OldThere'
    <3>1. WorkFile.ext = "zip"
      BY <1>3, PublishedFile DEF Base
    <3>2. OfKind(Others, "merging") \subseteq {Old}
      BY <1>2 DEF Base, OldThere
    <3>3. OfKind(files', "merging") = {}
      BY <3>1, <3>2 DEF OfKind
    <3> QED BY <1>3, <2>2, <3>3 DEF OldThere
  <2>10. QueueSound'
    BY <1>2, <2>1 DEF Base, QueueSound, Pending, Existing
  <2>11. RoomKept'
    <3>1. job'.high \in Nat /\ Target \in Nat
      BY <2>1, SizesAssumption DEF JobType
    <3>2. ~(job'.work.end > job'.high) /\ job'.left + job'.work.bytes >= Target
      BY <2>1, <2>3, <3>1
    <3> QED BY <1>3, <2>1, <3>2 DEF RoomKept
  <2>12. WorkNamed'
    BY <2>2, <2>3, <2>5 DEF WorkNamed
  <2>13. Carried' /\ CopiedOnce'
    BY <2>1, <2>2, <2>3, <2>4 DEF Carried, CopiedOnce, Injective
  <2> QED BY <1>1, <2>6, <2>7, <2>8, <2>9, <2>10, <2>11, <2>12, <2>13 DEF Base
<1>4. CASE pc' = "idle" /\ job.as # "zip" /\ policy = "size" /\ job' = Idle /\ outcome' = "done"
  <2>1. Idle.work.old \in FileType /\ Idle.last \in FileType /\ Idle.merge \in FileType
        /\ Idle.seen = {}
    BY IdleType, NoFileType
  <2>2. Idle.high \in Nat /\ Idle.left \in Int /\ Idle.as \in {"none", "zip", "merging"}
        /\ Idle.copied \in BOOLEAN
    BY IdleType DEF JobType
  <2>3. Typed'
    BY <1>1, <1>4, <2>1, <2>2, IdleType DEF Base, Typed, TypeOK
  <2> QED BY <1>1, <1>4, <2>3, BaseBetweenRuns
<1>5. CASE pc' = "save" /\ job.as # "zip" /\ policy # "size" /\ job' = job /\ outcome' = outcome
  <2>1. Typed'
    BY <1>1, <1>5 DEF Base, Typed, TypeOK
  <2>2. ~Choosing' /\ ~Working'
    BY <1>5 DEF Choosing, Working
  <2>3. QueueSound'
    BY <1>2, <1>5 DEF Base, QueueSound, Pending, Existing
  <2> QED BY <1>1, <2>1, <2>2, <2>3
          DEF Base, ChosenThere, MarkHighest, OldThere, RoomKept, WorkNamed, Carried, CopiedOnce
<1>6. Typed
  BY DEF Base
<1> QED BY <1>3, <1>4, <1>5, <1>6, ProceedStep

LEMMA BasePublish ==
  ASSUME Base, PublishWork
  PROVE  Base'
<1>1. /\ pc = "publish" /\ UNCHANGED <<state, arrived, clock, policy, stops, torn>>
  BY DEF PublishWork
<1>2. files' = files \cup {WorkFile} /\ Others = files
  BY PublishStep
<1>3. CASE Old = NoFile /\ Proceed
  <2>1. NoFile \notin files
    BY NoFileType DEF Base, FilesWhole, Whole
  <2>2. files' = (Others \ {Old}) \cup {WorkFile}
    BY <1>2, <1>3, <2>1
  <2> QED BY <1>1, <1>3, <2>2, BaseProceed
<1>4. CASE Old # NoFile /\ pc' = "remove" /\ job' = job /\ outcome' = outcome
  <2>1. FilesWhole' /\ files' \subseteq FileType
    BY <1>1, <1>2, FilesAfter
  <2>2. Typed'
    BY <1>1, <1>4, <2>1 DEF Base, Typed, TypeOK
  <2>3. WorkFile' = WorkFile /\ Old' = Old /\ Pending' = Pending /\ WorkIDs' = WorkIDs
    BY <1>4 DEF WorkFile, Old, Pending, WorkIDs
  <2>4. WorkFile \notin files
    BY <1>1, <1>2, NewFile
  <2>5. Others' = files
    BY <1>2, <1>4, <2>3, <2>4 DEF Others
  <2>6. Working /\ Working' /\ ~Choosing'
    BY <1>1, <1>4 DEF Working, Choosing
  <2>7. ChosenThere' /\ MarkHighest'
    BY <1>2, <1>4, <2>5, <2>6 DEF Base, ChosenThere, MarkHighest
  <2>8. OldThere'
    BY <1>1, <1>2, <1>4, <2>3, <2>5, <2>6 DEF Base, OldThere
  <2>9. QueueSound'
    BY <1>1, <1>4, <2>3 DEF Base, QueueSound
  <2>10. RoomKept'
    BY <1>1, <1>4, <2>6 DEF Base, RoomKept
  <2>11. WorkNamed' /\ Carried' /\ CopiedOnce'
    BY <1>1, <1>4, <2>3, <2>6 DEF Base, WorkNamed, Carried, CopiedOnce
  <2> QED BY <2>1, <2>2, <2>7, <2>8, <2>9, <2>10, <2>11 DEF Base
<1> QED BY <1>3, <1>4, PublishStep

LEMMA BaseRemove ==
  ASSUME Base, RemoveOld
  PROVE  Base'
<1>1. pc = "remove" /\ UNCHANGED <<state, arrived, clock, policy, stops, torn>>
  BY DEF RemoveOld
<1>2. files' = (Others \ {Old}) \cup {WorkFile} /\ Proceed
  BY RemoveStep
<1> QED BY <1>1, <1>2, BaseProceed

-----------------------------------------------------------------------------

LEMMA BaseEnd ==
  ASSUME Base, pc' = "idle", job' = Idle, outcome' \in {"done", "stopped"},
         UNCHANGED <<files, arrived, clock, policy>>, stops' \in 0..MaxStops, torn' \in BOOLEAN,
         state' \in LineageType
  PROVE  Base'
<1>1. Idle.work.old \in FileType /\ Idle.last \in FileType /\ Idle.merge \in FileType
      /\ Idle.seen = {}
  BY IdleType, NoFileType
<1>2. Idle.high \in Nat /\ Idle.left \in Int /\ Idle.as \in {"none", "zip", "merging"}
      /\ Idle.copied \in BOOLEAN
  BY IdleType DEF JobType
<1>3. Typed'
  BY <1>1, <1>2, IdleType DEF Base, Typed, TypeOK, LineageType
<1>4. FilesWhole'
  BY DEF Base, FilesWhole
<1> QED BY <1>3, <1>4, BaseBetweenRuns

LEMMA SavedType ==
  ASSUME Typed
  PROVE  StateToSave \in LineageType
<1>1. WorkFile.begin \in Nat /\ WorkFile.end \in Nat
  BY PublishedFile DEF FileType
<1>2. job.since \in Nat /\ job.lineage \in LineageType
  BY DEF Typed, JobType
<1>3. \A t \in Nat : BucketStart(t) \in Nat
  BY SizesAssumption DEF BucketStart
<1>4. LineageOf(WorkFile, job.since) \in LineageType
  BY <1>1, <1>2, <1>3, SizesAssumption DEF LineageOf, LineageType
<1> QED BY <1>1, <1>2, <1>4 DEF StateToSave, LineageType

LEMMA BaseStep ==
  ASSUME Base, Run \/ Stop \/ Around
  PROVE  Base'
<1>1. state \in LineageType /\ stops \in 0..MaxStops /\ torn \in BOOLEAN
  BY DEF Base, Typed, TypeOK, LineageType
<1>2. CASE Refuse
  <2>1. Around
    BY <1>2 DEF Refuse, Around, Base, Typed, TypeOK
  <2> QED BY <2>1, BaseAround
<1>3. CASE PlanNothing
  BY <1>1, <1>3, BaseEnd DEF PlanNothing, End
<1>4. CASE DropWork
  BY <1>1, <1>4, BaseEnd DEF DropWork, End
<1>5. CASE SaveState
  <2>1. StateToSave \in LineageType
    BY SavedType DEF Base
  <2> QED BY <1>1, <1>5, <2>1, BaseEnd DEF SaveState, End
<1>6. CASE Stop
  <2>1. stops' \in 0..MaxStops
    BY <1>1, <1>6, BoundsAssumption DEF Stop
  <2>2. torn' \in BOOLEAN
    BY <1>6 DEF Stop
  <2> QED BY <1>1, <1>6, <2>1, <2>2, BaseEnd DEF Stop, End
<1> QED BY <1>2, <1>3, <1>4, <1>5, <1>6, BaseBegin, BaseFinalize, BaseForget, BasePlan, BaseSkip,
           BaseCopy, BaseClose, BasePublish, BaseRemove, BaseAround DEF Run

LEMMA NextSteps ==
  ASSUME Base, [Next]_vars
  PROVE  Run \/ Stop \/ Around
<1>1. clock \in Nat /\ stops \in 0..MaxStops /\ arrived \subseteq DOMAIN Updates
  BY DEF Base, Typed, TypeOK
<1>2. CASE UNCHANGED vars
  BY <1>1, <1>2 DEF vars, Around
<1>3. CASE Tick
  BY <1>1, <1>3 DEF Tick, Around
<1>4. CASE \E i \in DOMAIN Updates : Arrive(i)
  BY <1>1, <1>4 DEF Arrive, Around
<1> QED BY <1>2, <1>3, <1>4 DEF Next

\* Base is invariant: a run finds at each step what it has relied on since it began.
THEOREM RollupInvariance == Spec => []Base
<1>1. Init => Base
  BY BaseInit
<1>2. Base /\ [Next]_vars => Base'
  BY NextSteps, BaseStep
<1> QED BY <1>1, <1>2, PTL DEF Spec

\* The values of the variables, and room left while a new archive is filled.
THEOREM RollupTypeCorrect == Spec => []TypeOK
<1>1. Base => TypeOK
  BY DEF Base, Typed
<1> QED BY <1>1, RollupInvariance, PTL

\* The range in the name of an archive is that of its contents, always.
THEOREM RangesAlwaysTell == Spec => []RangesTell
<1>1. Base => RangesTell
  BY DEF Base, FilesWhole, Whole, RangesTell
<1> QED BY <1>1, RollupInvariance, PTL

-----------------------------------------------------------------------------
(* The archive directory *)

\* Only these steps touch the archives.
LEMMA FileSteps ==
  ASSUME Run \/ Stop \/ Around
  PROVE  UNCHANGED files \/ FinalizeExpired \/ PublishWork \/ RemoveOld
  BY DEF Run, Stop, Around, Refuse, Begin, Forget, PlanNothing, Plan, SkipEntry, CopyEntry,
         DropWork, CloseWork, SaveState

LEMMA KeepsStep ==
  ASSUME Base, Run \/ Stop \/ Around
  PROVE  ArchivedKeys \subseteq ArchivedKeys'
<1>1. CASE UNCHANGED files
  BY <1>1 DEF ArchivedKeys
<1>2. CASE FinalizeExpired
  <2> DEFINE final == [job.merge EXCEPT !.ext = "zip"]
  <2>1. /\ final.entries = job.merge.entries
        /\ files' = (files \ {job.merge}) \cup {final}
    BY <1>2, FinalizedFiles
  <2> HIDE DEF final
  <2>2. KeysOf(final.entries) = KeysOf(job.merge.entries)
    BY <2>1
  <2> QED BY <2>1, <2>2 DEF ArchivedKeys
<1>3. CASE PublishWork
  BY <1>3, PublishStep DEF ArchivedKeys
<1>4. CASE RemoveOld
  <2>1. pc = "remove"
    BY <1>4 DEF RemoveOld
  <2>2. files' = files \ {Old} /\ files' = (Others \ {Old}) \cup {WorkFile} /\ Old # NoFile
    BY <1>4, RemoveStep
  <2>3. KeysOf(Old.entries) \subseteq KeysOf(WorkFile.entries) /\ WorkFile \in files'
    BY <2>1, <2>2, NewFile
  <2> QED BY <2>2, <2>3 DEF ArchivedKeys
<1> QED BY <1>1, <1>2, <1>3, <1>4, FileSteps

\* What was archived stays archived, for all updates and however runs stop: the old
\* archive goes only when the new one holds every key of it.
THEOREM NothingArchivedIsLost == Spec => KeepsArchived
<1>1. Base /\ [Next]_vars => ArchivedKeys \subseteq ArchivedKeys'
  BY NextSteps, KeepsStep
<1> QED BY <1>1, RollupInvariance, PTL DEF Spec, KeepsArchived

LEMMA FullStayStep ==
  ASSUME Base, Run \/ Stop \/ Around, policy = "size",
         NEW f \in OfKind(files, "zip"), f.bytes >= Target
  PROVE  f \in files'
<1>1. f \in files /\ f.ext = "zip" /\ f.bytes \in Nat
  BY DEF OfKind, Base, Typed, TypeOK, FileType
<1>2. CASE FinalizeExpired
  BY <1>2 DEF FinalizeExpired, Base, ChosenThere, Choosing
<1>3. CASE PublishWork
  BY <1>1, <1>3, PublishStep
<1>4. CASE RemoveOld
  <2>1. pc = "remove"
    BY <1>4 DEF RemoveOld
  <2>2. Old # NoFile /\ files' = files \ {Old}
    BY <1>4, RemoveStep
  <2>3. Old.ext = "merging" \/ Old.bytes < Target
    BY <2>1, <2>2 DEF Base, OldThere, Working
  <2>4. f # Old
    BY <1>1, <2>3, SizesAssumption
  <2> QED BY <1>1, <2>2, <2>4
<1> QED BY <1>1, <1>2, <1>3, <1>4, FileSteps

\* An archive that reached the target is never opened, renamed or removed again.
THEOREM FullArchivesAreLeft == Spec => FullArchivesStay
<1>1. Base /\ [Next]_vars =>
        \A f \in OfKind(files, "zip") : policy = "size" /\ f.bytes >= Target => f \in files'
  BY NextSteps, FullStayStep
<1> QED BY <1>1, RollupInvariance, PTL DEF Spec, FullArchivesStay

LEMMA FullWhenFinalized ==
  ASSUME Base, Run \/ Stop \/ Around, policy = "size",
         NEW f \in OfKind(files', "zip") \ files
  PROVE  f.bytes >= Target
<1>1. f \in files' /\ f \notin files /\ f.ext = "zip"
  BY DEF OfKind
<1>2. CASE FinalizeExpired
  BY <1>2 DEF FinalizeExpired, Base, ChosenThere, Choosing
<1>3. CASE PublishWork
  <2>1. f = WorkFile
    BY <1>1, <1>3, PublishStep
  <2>2. pc = "publish" /\ Working
    BY <1>3 DEF PublishWork, Working
  <2>3. job.as = "zip" /\ f.bytes = job.work.bytes
    BY <1>1, <2>1, PublishedFile DEF Base
  <2>4. job.left <= 0 /\ job.left + job.work.bytes >= Target
    BY <2>2, <2>3 DEF Base, RoomKept
  <2>5. job.left \in Int /\ job.work.bytes \in Nat
    BY WorkTyped DEF Base
  <2> QED BY <2>3, <2>4, <2>5, SizesAssumption
<1>4. CASE RemoveOld
  BY <1>1, <1>4, RemoveStep
<1> QED BY <1>1, <1>2, <1>3, <1>4, FileSteps

\* Under the policy "size" every archive that is finalized has reached the target:
\* what was left of it and what was written to it always add up.
THEOREM FinalizedOnlyFull == Spec => FinalizedFull
<1>1. Base /\ [Next]_vars =>
        \A f \in OfKind(files', "zip") \ files : policy = "size" => f.bytes >= Target
  BY NextSteps, FullWhenFinalized
<1> QED BY <1>1, RollupInvariance, PTL DEF Spec, FinalizedFull

-----------------------------------------------------------------------------
(* The period of a lineage *)

LEMMA PeriodStep ==
  ASSUME Base, PeriodKept, Run \/ Stop \/ Around
  PROVE  PeriodKept'
<1>1. policy' = policy
  BY DEF Run, Stop, Around, Refuse, Begin, FinalizeExpired, Forget, PlanNothing, Plan, SkipEntry,
         CopyEntry, DropWork, CloseWork, PublishWork, RemoveOld, SaveState
<1>2. CASE Around \/ Refuse
  <2>1. clock \in Nat /\ clock' \in Nat /\ clock <= clock' /\ UNCHANGED <<state, pc, job>>
    BY <1>2 DEF Around, Refuse, Base, Typed, TypeOK
  <2>2. pc = "finalize" /\ policy # "size" => state.deadline \in Nat
    BY DEF Base, Typed, TypeOK
  <2> QED BY <1>1, <2>1, <2>2 DEF PeriodKept
<1>3. CASE pc' = "idle"
  BY <1>3 DEF PeriodKept
<1>4. CASE Begin
  <2>1. /\ job'.merge = MergeArchive(files)
        /\ job'.lineage = IF job'.merge = NoFile THEN NoLineage ELSE state
        /\ pc' = FirstStep(job'.merge)
    BY <1>4, BeginStep DEF Base
  <2>2. ~Refused /\ UNCHANGED <<state, clock>>
    BY <1>4 DEF Begin
  <2>3. CASE policy = "size"
    BY <1>1, <2>1, <2>3 DEF PeriodKept, FirstStep
  <2>4. CASE policy # "size"
    <3>1. pc' = "plan" => job'.lineage = state
      BY <2>1, <2>4 DEF FirstStep
    <3>2. pc' = "forget" => job'.lineage = NoLineage
      BY <2>1, <2>4 DEF FirstStep
    <3>3. pc' = "finalize" => job'.merge # NoFile /\ clock >= state.deadline
      BY <2>1, <2>4 DEF FirstStep, PeriodExpired
    <3>4. job'.merge # NoFile => state.begin = job'.merge.begin /\ state.end = job'.merge.end
      BY <2>1, <2>2, <2>4 DEF Refused, StateDenies
    <3>5. pc' \in {"plan", "forget", "finalize"}
      BY <2>1, FirstSteps
    <3> QED BY <1>1, <2>2, <2>4, <3>1, <3>2, <3>3, <3>4, <3>5 DEF PeriodKept
  <2> QED BY <2>3, <2>4
<1>5. CASE FinalizeExpired
  <2>1. job'.lineage = NoLineage /\ pc = "finalize" /\ pc' = "forget"
    BY <1>5, FinalizeStep DEF Base, FinalizeExpired
  <2> QED BY <1>1, <2>1 DEF PeriodKept
<1>6. CASE Forget
  BY <1>1, <1>6 DEF Forget, PeriodKept
<1>7. CASE Plan
  <2>1. job'.lineage = job.lineage /\ pc = "plan" /\ pc' = "copy" /\ state' = state
    BY <1>7, PlanStep DEF Base, Plan
  <2> QED BY <1>1, <2>1 DEF PeriodKept
<1>8. CASE SkipEntry
  <2>1. job'.lineage = job.lineage /\ pc = "copy" /\ pc' = "copy" /\ state' = state
    BY <1>8, SkipStep DEF Base, SkipEntry
  <2> QED BY <1>1, <2>1 DEF PeriodKept
<1>9. CASE CopyEntry
  <2>1. /\ job'.lineage = job.lineage /\ pc = "copy" /\ state' = state
        /\ pc' = "copy" \/ (pc' = "publish" /\ policy = "size")
    BY <1>9, CopyStep DEF Base, CopyEntry
  <2> QED BY <1>1, <2>1 DEF PeriodKept
<1>10. CASE CloseWork
  <2>1. /\ job' = [job EXCEPT !.as = "merging"] /\ job \in JobType
        /\ pc = "copy" /\ pc' = "publish" /\ state' = state
    BY <1>10 DEF CloseWork, Base, Typed
  <2>2. job'.lineage = job.lineage /\ job'.as = "merging"
    BY <2>1 DEF JobType
  <2> QED BY <1>1, <2>1, <2>2 DEF PeriodKept
<1>11. CASE PublishWork \/ RemoveOld
  <2>1. pc \in {"publish", "remove"} /\ state' = state
    BY <1>11 DEF PublishWork, RemoveOld
  <2>2. Proceed \/ (pc' = "remove" /\ job' = job)
    BY <1>11, PublishStep, RemoveStep
  <2>3. CASE pc' = "remove" /\ job' = job
    BY <1>1, <2>1, <2>3 DEF PeriodKept
  <2>4. CASE Proceed
    <3>1. CASE policy = "size"
      <4>1. pc' \in {"copy", "idle"}
        BY <2>4, <3>1, ProceedStep DEF Base
      <4> QED BY <1>1, <3>1, <4>1 DEF PeriodKept
    <3>2. CASE policy # "size"
      <4>1. job.as = "merging" /\ job.lineage = state
        BY <2>1, <3>2 DEF PeriodKept
      <4>2. pc' = "save" /\ job' = job
        BY <2>4, <3>2, <4>1, ProceedStep DEF Base
      <4> QED BY <1>1, <2>1, <3>2, <4>1, <4>2 DEF PeriodKept
    <3> QED BY <3>1, <3>2
  <2> QED BY <2>2, <2>3, <2>4
<1> QED BY <1>2, <1>3, <1>4, <1>5, <1>6, <1>7, <1>8, <1>9, <1>10, <1>11
        DEF Run, Stop, PlanNothing, DropWork, SaveState, End

\* A run under a period policy works with the state that is stored.
LEMMA PeriodInvariance == Spec => []PeriodKept
<1>1. Init => PeriodKept
  BY DEF Init, PeriodKept
<1>2. Base /\ PeriodKept /\ [Next]_vars => PeriodKept'
  BY NextSteps, PeriodStep
<1> QED BY <1>1, <1>2, RollupInvariance, PTL DEF Spec

LEMMA StateSteps ==
  ASSUME Run \/ Stop \/ Around
  PROVE  UNCHANGED state \/ Forget \/ SaveState
  BY DEF Run, Stop, Around, Refuse, Begin, FinalizeExpired, PlanNothing, Plan, SkipEntry,
         CopyEntry, DropWork, CloseWork, PublishWork, RemoveOld

LEMMA DeadlineStep ==
  ASSUME Base, PeriodKept, Run \/ Stop \/ Around, state # NoLineage, state' # NoLineage
  PROVE  state'.start = state.start /\ state'.deadline = state.deadline
<1>1. CASE Forget
  BY <1>1 DEF Forget
<1>2. CASE SaveState
  <2>1. job.lineage = state
    BY <1>2 DEF SaveState, PeriodKept
  <2>2. state' = [state EXCEPT !.begin = WorkFile.begin, !.end = WorkFile.end]
    BY <1>2, <2>1 DEF SaveState, StateToSave
  <2>3. state \in LineageType
    BY DEF Base, Typed, TypeOK, LineageType
  <2> QED BY <2>2, <2>3 DEF LineageType
<1> QED BY <1>1, <1>2, StateSteps

\* The start and the deadline of a period stay until it is forgotten, however often
\* the active archive grows.
THEOREM PeriodsHaveOneDeadline == Spec => DeadlineStays
<1>1. Base /\ PeriodKept /\ [Next]_vars =>
        (state # NoLineage /\ state' # NoLineage =>
           state'.start = state.start /\ state'.deadline = state.deadline)
  BY NextSteps, DeadlineStep
<1> QED BY <1>1, RollupInvariance, PeriodInvariance, PTL DEF Spec, DeadlineStays

LEMMA DueStep ==
  ASSUME Base, PeriodKept, Run \/ Stop \/ Around, policy # "size",
         NEW f \in OfKind(files', "zip") \ files
  PROVE  state.begin = f.begin /\ state.end = f.end /\ clock >= state.deadline
<1>1. f \in files' /\ f \notin files /\ f.ext = "zip"
  BY DEF OfKind
<1>2. CASE FinalizeExpired
  <2> DEFINE final == [job.merge EXCEPT !.ext = "zip"]
  <2>1. /\ final.begin = job.merge.begin /\ final.end = job.merge.end
        /\ files' = (files \ {job.merge}) \cup {final}
    BY <1>2, FinalizedFiles
  <2>2. f = final
    BY <1>1, <2>1
  <2>3. pc = "finalize"
    BY <1>2 DEF FinalizeExpired
  <2> HIDE DEF final
  <2> QED BY <2>1, <2>2, <2>3 DEF PeriodKept
<1>3. CASE PublishWork
  <2>1. f = WorkFile /\ WorkFile.ext = job.as
    BY <1>1, <1>3, PublishStep, PublishedFile DEF Base
  <2>2. job.as = "merging"
    BY <1>3 DEF PublishWork, PeriodKept
  <2> QED BY <1>1, <2>1, <2>2
<1>4. CASE RemoveOld
  BY <1>1, <1>4, RemoveStep
<1> QED BY <1>1, <1>2, <1>3, <1>4, FileSteps

\* Under a period policy an archive is finalized only when its own period is over.
THEOREM FinalizedOnlyWhenDue == Spec => FinalizedWhenDue
<1>1. Base /\ PeriodKept /\ [Next]_vars =>
        \A f \in OfKind(files', "zip") \ files : policy # "size" =>
          state.begin = f.begin /\ state.end = f.end /\ clock >= state.deadline
  BY NextSteps, DueStep
<1> QED BY <1>1, RollupInvariance, PeriodInvariance, PTL DEF Spec, FinalizedWhenDue

-----------------------------------------------------------------------------
(* What is not torn *)

\* No range overlaps another, the active archive is the last, and no key is in two.
InOrder(fs) ==
  /\ \A f, g \in fs : f # g => f.end < g.begin \/ g.end < f.begin
  /\ \A f, g \in fs : f # g /\ f.ext = "merging" => g.end < f.begin
  /\ StoredOnceIn(fs)

LEMMA InOrderAtFirst ==
  ASSUME Init
  PROVE  InOrder(files)
<1>1. files \in Libraries /\ files \subseteq FileType
  BY LibrariesAssumption DEF Init
<1>2. /\ \A f, g \in files : f # g => f.end < g.begin \/ g.end < f.begin
      /\ \A f, g \in files : f # g /\ f.ext = "merging" => g.end < f.begin
      /\ \A f \in files : NamedByRange(f)
      /\ \A f \in files : \A k, l \in DOMAIN f.entries :
           KeyOf(f.entries[k]) = KeyOf(f.entries[l]) => k = l
  BY <1>1, LibrariesAssumption
<1>3. ASSUME NEW f \in files, NEW g \in files, NEW k \in DOMAIN f.entries,
             NEW l \in DOMAIN g.entries, KeyOf(f.entries[k]) = KeyOf(g.entries[l])
      PROVE  f = g /\ k = l
  <2>1. f \in FileType /\ g \in FileType
    BY <1>1
  <2>2. f.entries[k] \in EntryType /\ g.entries[l] \in EntryType
    BY <2>1, EntriesTyped
  <2>3. f.entries[k].id = g.entries[l].id /\ f.entries[k].id \in Nat
    BY <1>3, <2>2, KeyTellsID DEF EntryType
  <2>4. /\ f.begin <= f.entries[k].id /\ f.entries[k].id <= f.end
        /\ g.begin <= g.entries[l].id /\ g.entries[l].id <= g.end
    BY <1>2, <2>1, IDsOf
  <2>5. f.begin \in Nat /\ f.end \in Nat /\ g.begin \in Nat /\ g.end \in Nat
    BY <2>1, EntriesTyped
  <2>6. f = g
    BY <1>2, <2>3, <2>4, <2>5
  <2> QED BY <1>2, <1>3, <2>6
<1> QED BY <1>2, <1>3 DEF InOrder, StoredOnceIn

LEMMA InOrderFinalized ==
  ASSUME Base, FinalizeExpired, InOrder(files)
  PROVE  InOrder(files') /\ OfKind(files', "merging") = {}
<1> DEFINE final == [job.merge EXCEPT !.ext = "zip"]
<1>1. /\ job.merge \in files /\ final.ext = "zip"
      /\ OfKind(files, "merging") = {job.merge}
      /\ final.begin = job.merge.begin /\ final.end = job.merge.end
      /\ final.entries = job.merge.entries
      /\ files' = (files \ {job.merge}) \cup {final}
  BY FinalizedFiles
<1> HIDE DEF final
<1>2. OfKind(files', "merging") = {}
  BY <1>1 DEF OfKind
<1>3. \A f, g \in files' : f # g => f.end < g.begin \/ g.end < f.begin
  BY <1>1 DEF InOrder
<1>4. \A f, g \in files' : f # g /\ f.ext = "merging" => g.end < f.begin
  BY <1>2 DEF OfKind
<1>5. ASSUME NEW f \in files', NEW g \in files', NEW k \in DOMAIN f.entries,
             NEW l \in DOMAIN g.entries, KeyOf(f.entries[k]) = KeyOf(g.entries[l])
      PROVE  f = g /\ k = l
  <2>1. PICK d \in files : d.entries = f.entries /\ (f = d \/ (f = final /\ d = job.merge))
    BY <1>1
  <2>2. PICK e \in files : e.entries = g.entries /\ (g = e \/ (g = final /\ e = job.merge))
    BY <1>1
  <2>3. d = e /\ k = l
    BY <1>5, <2>1, <2>2 DEF InOrder, StoredOnceIn
  <2>4. CASE d = job.merge
    <3>1. f = final /\ g = final
      <4>1. \A h \in files' : h # final => h # job.merge
        BY <1>1
      <4> QED BY <2>1, <2>2, <2>3, <2>4, <4>1
    <3> QED BY <2>3, <3>1
  <2>5. CASE d # job.merge
    BY <2>1, <2>2, <2>3, <2>5
  <2> QED BY <2>4, <2>5
<1> QED BY <1>2, <1>3, <1>4, <1>5 DEF InOrder, StoredOnceIn

\* The directory with the new archive, and without the one it replaces.
LEMMA InOrderPublished ==
  ASSUME Base, pc = "publish", InOrder(files),
         NEW fs, fs = (files \ {Old}) \cup {WorkFile}
  PROVE  InOrder(fs)
<1>1. /\ Working /\ Pending = {} /\ Others = files
      /\ WorkFile \in FileType /\ Whole(WorkFile) /\ WorkFile.end > job.high
      /\ WorkFile.begin = job.work.begin /\ WorkFile.entries = job.work.entries
      /\ \A f \in files : f.end <= job.high /\ f # WorkFile
  BY NewFile, PublishedFile DEF Others, Base
<1>2. /\ files \subseteq FileType /\ \A f \in files : NamedByRange(f)
      /\ job.high \in Nat /\ Old \in FileType
  BY WorkTyped DEF Base, Typed, TypeOK, FilesWhole, Whole
<1>3. WorkFile.begin <= WorkFile.end
  BY <1>1, IDsOf DEF Whole
<1>4. ASSUME NEW g \in files \ {Old}
      PROVE  g.end < WorkFile.begin
  <2>1. g.end \in Nat /\ g.begin \in Nat /\ g.begin <= g.end /\ WorkFile.begin \in Nat
    BY <1>1, <1>2, EntriesTyped, IDsOf
  <2>2. CASE Old = NoFile
    <3>1. WorkIDs # {}
      <4>1. WorkIDs = {} => job.work.end = 0
        BY <1>1 DEF Base, WorkNamed
      <4> QED BY <1>1, <1>2, <4>1, NewFile
    <3>2. job.work.begin > job.high
      BY <1>1, <2>2, <3>1 DEF Base, WorkNamed
    <3> QED BY <1>1, <1>2, <2>1, <3>2
  <2>3. CASE Old # NoFile
    <3>1. Old \in files /\ Old.end = job.high /\ job.work.begin = Old.begin
      BY <1>1, <2>3 DEF Base, OldThere, WorkNamed
    <3>2. g.end < Old.begin \/ Old.end < g.begin
      BY <3>1 DEF InOrder
    <3> QED BY <1>1, <1>2, <2>1, <3>1, <3>2
  <2> QED BY <2>2, <2>3
<1>5. ASSUME NEW g \in files \ {Old}, NEW k \in DOMAIN WorkFile.entries, NEW l \in DOMAIN g.entries,
             KeyOf(WorkFile.entries[k]) = KeyOf(g.entries[l])
      PROVE  FALSE
  <2> DEFINE d == WorkFile.entries[k]
             e == g.entries[l]
  <2>1. d \in EntryType /\ e \in EntryType
    BY <1>1, <1>2, EntriesTyped
  <2>2. d.id = e.id /\ d.id \in Nat
    BY <1>5, <2>1, KeyTellsID DEF EntryType
  <2>3. e.id <= g.end /\ g.end <= job.high /\ g.end \in Nat
    BY <1>1, <1>2, IDsOf, EntriesTyped
  <2>4. ~(d.id > job.high)
    BY <1>2, <2>2, <2>3
  <2>5. Old # NoFile /\ KeyOf(d) \in KeysOf(Old.entries)
    BY <1>1, <2>4 DEF Base, CopiedOnce
  <2>6. PICK m \in DOMAIN Old.entries : KeyOf(Old.entries[m]) = KeyOf(d)
    <3>1. KeysOf(Old.entries) = {KeyOf(Old.entries[m]) : m \in DOMAIN Old.entries}
      BY <1>2, EntriesTyped
    <3> QED BY <2>5, <3>1
  <2>7. Old \in files
    BY <1>1, <2>5 DEF Base, OldThere
  <2>8. Old = g
    BY <1>5, <2>6, <2>7 DEF InOrder, StoredOnceIn
  <2> QED BY <2>8
<1>6. OfKind(files, "merging") \subseteq {Old}
  BY <1>1 DEF Base, OldThere
<1>7. \A f, g \in fs : f # g => f.end < g.begin \/ g.end < f.begin
  BY <1>4 DEF InOrder
<1>8. \A f, g \in fs : f # g /\ f.ext = "merging" => g.end < f.begin
  BY <1>4, <1>6 DEF OfKind
<1>9. ASSUME NEW f \in fs, NEW g \in fs, NEW k \in DOMAIN f.entries,
             NEW l \in DOMAIN g.entries, KeyOf(f.entries[k]) = KeyOf(g.entries[l])
      PROVE  f = g /\ k = l
  <2>1. CASE f = WorkFile /\ g = WorkFile
    BY <1>1, <1>9, <2>1 DEF Whole, Injective
  <2>2. CASE f = WorkFile /\ g # WorkFile
    BY <1>5, <1>9, <2>2
  <2>3. CASE f # WorkFile /\ g = WorkFile
    BY <1>5, <1>9, <2>3
  <2>4. CASE f # WorkFile /\ g # WorkFile
    BY <1>9, <2>4 DEF InOrder, StoredOnceIn
  <2> QED BY <2>1, <2>2, <2>3, <2>4
<1> QED BY <1>7, <1>8, <1>9 DEF InOrder, StoredOnceIn

LEMMA TidyStep ==
  ASSUME Base, PeriodKept, PeriodKept', Tidy, Run \/ Stop \/ Around
  PROVE  Tidy'
<1> SUFFICES ASSUME ~torn' PROVE Tidy'
  BY DEF Tidy
<1>1. ~torn /\ policy' = policy
  <2>1. CASE Stop
    BY <2>1 DEF Stop
  <2>2. CASE ~Stop
    <3>1. UNCHANGED <<policy, torn>>
      BY <2>2 DEF Run, Around, Refuse, Begin, FinalizeExpired, Forget, PlanNothing, Plan,
             SkipEntry, CopyEntry, DropWork, CloseWork, PublishWork, RemoveOld, SaveState
    <3> QED BY <3>1
  <2> QED BY <2>1, <2>2
<1>2. /\ InOrder(Kept)
      /\ policy # "size" /\ pc \notin {"remove", "save"} =>
           \A f \in OfKind(files, "merging") : state.begin = f.begin /\ state.end = f.end
      /\ pc = "save" => \A f \in OfKind(files, "merging") :
           f.begin = job.work.begin /\ f.end = job.work.end
  BY <1>1 DEF Tidy, InOrder
<1>3. CASE UNCHANGED <<files, state>> /\ pc \notin {"remove", "save"} /\ pc' \notin {"remove", "save"}
  <2>1. Kept' = Kept
    BY <1>3 DEF Kept
  <2> QED BY <1>1, <1>2, <1>3, <2>1 DEF Tidy, InOrder
<1>4. CASE Around
  <2>1. /\ UNCHANGED files /\ UNCHANGED pc /\ UNCHANGED job /\ UNCHANGED state
    BY <1>4 DEF Around
  <2>2. Kept' = Kept
    BY <2>1 DEF Kept, Old
  <2> QED BY <1>1, <1>2, <2>1, <2>2 DEF Tidy, InOrder
<1>5. CASE FinalizeExpired
  <2>1. pc = "finalize" /\ pc' = "forget"
    BY <1>5 DEF FinalizeExpired
  <2>2. Kept = files /\ Kept' = files'
    BY <2>1 DEF Kept
  <2>3. InOrder(files') /\ OfKind(files', "merging") = {}
    BY <1>2, <1>5, <2>2, InOrderFinalized
  <2> QED BY <2>1, <2>2, <2>3 DEF Tidy, InOrder
<1>6. CASE Forget
  <2>1. pc = "forget" /\ pc' = "plan" /\ files' = files
    BY <1>6 DEF Forget
  <2>2. Kept = files /\ Kept' = files'
    BY <2>1 DEF Kept
  <2>3. OfKind(files, "merging") = {}
    <3>1. OfKind(files, "merging") \subseteq {NoFile}
      BY <2>1 DEF Base, ChosenThere, Choosing
    <3> QED BY <3>1, NoFileType DEF OfKind
  <2> QED BY <1>2, <2>1, <2>2, <2>3 DEF Tidy, InOrder
<1>7. CASE SaveState
  <2>1. pc = "save" /\ pc' = "idle" /\ files' = files /\ state' = StateToSave
    BY <1>7 DEF SaveState, End
  <2>2. Kept = files /\ Kept' = files'
    BY <2>1 DEF Kept
  <2>3. state'.begin = WorkFile.begin /\ state'.end = WorkFile.end
    <3>1. job.lineage \in LineageType
      BY DEF Base, Typed, JobType
    <3> QED BY <2>1, <3>1 DEF StateToSave, LineageOf, LineageType
  <2>4. WorkFile.begin = job.work.begin /\ WorkFile.end = job.work.end
    BY PublishedFile DEF Base
  <2> QED BY <1>2, <2>1, <2>2, <2>3, <2>4 DEF Tidy, InOrder
<1>8. CASE PublishWork
  <2>1. pc = "publish" /\ Kept = files
    BY <1>8 DEF PublishWork, Kept
  <2>2. files' = files \cup {WorkFile}
    BY <1>8, PublishStep
  <2>3. Kept' = (files \ {Old}) \cup {WorkFile}
    <3>1. CASE Old = NoFile /\ Proceed
      <4>1. pc' # "remove"
        BY <3>1, ProceedStep DEF Base
      <4>2. NoFile \notin files
        BY NoFileType DEF Base, FilesWhole, Whole
      <4> QED BY <2>2, <3>1, <4>1, <4>2 DEF Kept
    <3>2. CASE Old # NoFile /\ pc' = "remove" /\ job' = job
      <4>1. Old # WorkFile /\ Old' = Old
        BY <2>1, <3>2, NewFile DEF Old
      <4> QED BY <2>2, <3>2, <4>1 DEF Kept
    <3> QED BY <1>8, <3>1, <3>2, PublishStep
  <2>4. InOrder(Kept')
    BY <1>2, <2>1, <2>3, InOrderPublished
  <2>5. pc' \notin {"remove", "save"} => policy = "size"
    BY <1>1, <1>8, PublishStep, ProceedStep, <2>1 DEF Base, PeriodKept
  <2>6. pc' = "save" => \A f \in OfKind(files', "merging") :
                          f.begin = job'.work.begin /\ f.end = job'.work.end
    <3> SUFFICES ASSUME pc' = "save", NEW f \in OfKind(files', "merging")
                 PROVE  f.begin = job'.work.begin /\ f.end = job'.work.end
      OBVIOUS
    <3>1. Old = NoFile /\ Proceed
      BY <1>8, PublishStep
    <3>2. job' = job
      BY <3>1, ProceedStep DEF Base
    <3>3. OfKind(files, "merging") \subseteq {NoFile}
      BY <2>1, <3>1 DEF Base, OldThere, Working, Others
    <3>4. f = WorkFile
      BY <2>2, <3>3, NoFileType DEF OfKind
    <3> QED BY <3>2, <3>4, PublishedFile DEF Base
  <2> QED BY <1>1, <2>4, <2>5, <2>6 DEF Tidy, InOrder
<1>9. CASE RemoveOld
  <2>1. pc = "remove"
    BY <1>9 DEF RemoveOld
  <2>2. files' = files \ {Old} /\ files' = (Others \ {Old}) \cup {WorkFile} /\ Proceed
    BY <1>9, RemoveStep
  <2>3. pc' \in {"copy", "idle", "save"}
    BY <2>2, ProceedStep DEF Base
  <2>4. Kept = files' /\ Kept' = files'
    BY <2>1, <2>2, <2>3 DEF Kept
  <2>5. pc' \notin {"remove", "save"} => policy = "size"
    BY <2>1, <2>2, ProceedStep DEF Base, PeriodKept
  <2>6. pc' = "save" => \A f \in OfKind(files', "merging") :
                          f.begin = job'.work.begin /\ f.end = job'.work.end
    <3> SUFFICES ASSUME pc' = "save", NEW f \in OfKind(files', "merging")
                 PROVE  f.begin = job'.work.begin /\ f.end = job'.work.end
      OBVIOUS
    <3>1. job' = job
      BY <2>2, ProceedStep DEF Base
    <3>2. OfKind(Others, "merging") \subseteq {Old}
      BY <2>1 DEF Base, OldThere, Working
    <3>3. f = WorkFile
      BY <2>2, <3>2 DEF OfKind
    <3> QED BY <3>1, <3>3, PublishedFile DEF Base
  <2> QED BY <1>1, <1>2, <2>4, <2>5, <2>6 DEF Tidy, InOrder
<1>10. CASE Stop
  <2>1. pc \notin {"remove", "save"} /\ pc' = "idle" /\ UNCHANGED <<files, state>>
    BY <1>10 DEF Stop, End
  <2> QED BY <1>3, <2>1
<1>11. CASE Refuse \/ Begin \/ PlanNothing \/ Plan \/ SkipEntry \/ CopyEntry \/ DropWork \/ CloseWork
  <2>1. UNCHANGED <<files, state>> /\ pc \in {"idle", "plan", "copy"}
    BY <1>11 DEF Refuse, Begin, PlanNothing, Plan, SkipEntry, CopyEntry, DropWork, CloseWork
  <2>2. pc' \notin {"remove", "save"}
    <3>1. CASE Begin
      BY <3>1, FirstSteps DEF Begin
    <3>2. CASE CopyEntry
      BY <3>2, CopyStep DEF Base
    <3> QED BY <1>11, <3>1, <3>2 DEF Refuse, PlanNothing, Plan, SkipEntry, DropWork, CloseWork, End
  <2> QED BY <1>3, <2>1, <2>2
<1> QED BY <1>4, <1>5, <1>6, <1>7, <1>8, <1>9, <1>10, <1>11 DEF Run

LEMMA TidyInit == Init => Tidy
<1> SUFFICES ASSUME Init PROVE Tidy
  OBVIOUS
<1>1. InOrder(files) /\ Kept = files /\ pc = "idle"
  BY InOrderAtFirst DEF Init, Kept
<1>2. policy # "size" => OfKind(files, "merging") = {}
  <2>1. policy \in Policies /\ files \in Libraries
    BY DEF Init
  <2> QED BY <2>1, LibrariesAssumption DEF OfKind
<1> QED BY <1>1, <1>2 DEF Tidy, InOrder

\* Unless one stopped between two steps that belong together, runs leave archives
\* in order, and the state of the active one.
THEOREM TidyInvariance == Spec => []Tidy
<1>1. Base /\ PeriodKept /\ PeriodKept' /\ Tidy /\ [Next]_vars => Tidy'
  BY NextSteps, TidyStep
<1> QED BY <1>1, TidyInit, RollupInvariance, PeriodInvariance, PTL DEF Spec

\* No entry is archived twice, whatever updates overlap.
THEOREM ArchivedOnce == Spec => []StoredOnce
<1>1. Tidy => StoredOnce
  BY DEF Tidy, StoredOnce, Kept
<1> QED BY <1>1, TidyInvariance, PTL

LEMMA TidyAccepted ==
  ASSUME Base, Tidy, ~torn, pc = "idle"
  PROVE  ~Refused
<1>1. InOrder(files)
  BY DEF Tidy, InOrder, Kept
<1>2. IsFiniteSet(files) /\ files \subseteq FileType /\ \A f \in files : NamedByRange(f)
  BY DEF Base, Typed, TypeOK, FilesWhole, Whole
<1>3. \A f, g \in OfKind(files, "merging") : f = g
  <2> SUFFICES ASSUME NEW f \in OfKind(files, "merging"), NEW g \in OfKind(files, "merging"), f # g
               PROVE  FALSE
    OBVIOUS
  <2>1. f \in files /\ g \in files /\ f.ext = "merging" /\ g.ext = "merging"
    BY DEF OfKind
  <2>2. g.end < f.begin /\ f.end < g.begin
    BY <1>1, <2>1 DEF InOrder
  <2>3. f.begin <= f.end /\ g.begin <= g.end
    BY <1>2, <2>1, IDsOf
  <2>4. f.begin \in Nat /\ f.end \in Nat /\ g.begin \in Nat /\ g.end \in Nat
    BY <1>2, <2>1, EntriesTyped
  <2> QED BY <2>2, <2>3, <2>4
<1>4. Cardinality(OfKind(files, "merging")) <= 1
  <2>1. CASE OfKind(files, "merging") = {}
    <3>1. Cardinality(OfKind(files, "merging")) = 0
      BY <2>1, FS_EmptySet
    <3> QED BY <3>1
  <2>2. CASE OfKind(files, "merging") # {}
    <3>1. PICK f : OfKind(files, "merging") = {f}
      BY <1>3, <2>2
    <3>2. Cardinality(OfKind(files, "merging")) = 1
      BY <3>1, FS_Singleton
    <3> QED BY <3>2
  <2> QED BY <2>1, <2>2
<1> DEFINE last == LastArchive(files)
           merge == MergeArchive(files)
<1>5. /\ OfKind(files, "zip") = {} => last = NoFile
      /\ OfKind(files, "zip") # {} => last \in OfKind(files, "zip")
  BY <1>2, LastArchiveIs
<1>6. merge # NoFile => merge \in OfKind(files, "merging")
  BY <1>2, MergeArchiveIs
<1> HIDE DEF last, merge
<1>7. ASSUME merge # NoFile
      PROVE  ~Mismatched(last, merge) /\ ~StateDenies(merge)
  <2>1. merge \in files /\ merge.ext = "merging" /\ merge \in FileType
    BY <1>2, <1>6, <1>7 DEF OfKind
  <2>2. merge.begin \in Nat /\ merge.end \in Nat /\ merge.begin <= merge.end
    BY <1>2, <2>1, EntriesTyped, IDsOf
  <2>3. last = NoFile => ~Mismatched(last, merge)
    BY <2>2 DEF Mismatched, NoFile
  <2>4. ASSUME last # NoFile
        PROVE  ~Mismatched(last, merge)
    <3>1. last \in files /\ last.ext = "zip" /\ last \in FileType
      BY <1>2, <1>5, <2>4 DEF OfKind
    <3>2. last.begin \in Nat /\ last.end \in Nat /\ last.begin <= last.end
      BY <1>2, <3>1, EntriesTyped, IDsOf
    <3>3. last.end < merge.begin
      BY <1>1, <2>1, <3>1 DEF InOrder
    <3> QED BY <2>2, <3>2, <3>3 DEF Mismatched
  <2>5. ~StateDenies(merge)
    BY <1>6, <1>7 DEF Tidy, StateDenies
  <2> QED BY <2>3, <2>4, <2>5
<1>8. Cardinality(OfKind(files, "merging")) \in Nat
  BY <1>2, FS_Subset, FS_CardinalityType DEF OfKind
<1> QED BY <1>4, <1>7, <1>8 DEF Refused, last, merge

\* A run is refused only after another stopped between two steps that belong
\* together: a rollup does not lock itself out.
THEOREM RefusedOnlyTorn == Spec => []RefusesOnlyTorn
<1>1. Init => RefusesOnlyTorn
  BY DEF Init, RefusesOnlyTorn
<1>2. ASSUME Base, Tidy, RefusesOnlyTorn, [Next]_vars
      PROVE  RefusesOnlyTorn'
  <2>1. torn \in BOOLEAN
    BY <1>2 DEF Base, Typed, TypeOK
  <2>2. CASE Refuse
    BY <1>2, <2>2, TidyAccepted DEF Refuse, RefusesOnlyTorn
  <2>3. CASE PublishWork \/ RemoveOld
    <3>1. torn' = torn
      BY <2>3 DEF PublishWork, RemoveOld
    <3>2. outcome' \in {outcome, "done"}
      BY <1>2, <2>3, PublishStep, RemoveStep, ProceedStep DEF Base
    <3> QED BY <1>2, <3>1, <3>2 DEF RefusesOnlyTorn
  <2>4. CASE Begin \/ PlanNothing \/ DropWork \/ SaveState
    BY <1>2, <2>4 DEF Begin, PlanNothing, DropWork, SaveState, End, RefusesOnlyTorn
  <2>5. CASE FinalizeExpired \/ Forget \/ Plan \/ SkipEntry \/ CopyEntry \/ CloseWork
    BY <1>2, <2>5 DEF FinalizeExpired, Forget, Plan, SkipEntry, CopyEntry, CloseWork, RefusesOnlyTorn
  <2>6. CASE Stop
    BY <1>2, <2>6 DEF Stop, End, RefusesOnlyTorn
  <2>7. CASE Tick \/ (\E i \in DOMAIN Updates : Arrive(i)) \/ UNCHANGED vars
    BY <1>2, <2>7 DEF Tick, Arrive, vars, RefusesOnlyTorn
  <2> QED BY <1>2, <2>2, <2>3, <2>4, <2>5, <2>6, <2>7 DEF Next, Run
<1>3. Base /\ Tidy /\ RefusesOnlyTorn /\ [Next]_vars => RefusesOnlyTorn'
  BY <1>2
<1> QED BY <1>1, <1>3, RollupInvariance, TidyInvariance, PTL DEF Spec

-----------------------------------------------------------------------------
(* What the high-water mark passes, where a key is an id *)

LEMMA UsableEntries ==
  ASSUME NEW i \in DOMAIN Updates
  PROVE  /\ i \in Nat /\ i > 0 /\ Updates[i].entries \in Seq(EntryType) /\ Updates[i].last \in Nat
         /\ \A e \in UsableOf(i) :
              /\ e \in EntryType /\ e.id \in Nat /\ e.id > 0 /\ Usable(e) /\ e.id <= Updates[i].last
              /\ \E k \in DOMAIN Updates[i].entries : Updates[i].entries[k] = e
         /\ \A k \in DOMAIN Updates[i].entries :
              Usable(Updates[i].entries[k]) => Updates[i].entries[k] \in UsableOf(i)
<1>1. i \in Nat /\ i > 0
  BY UpdatesAssumption
<1>2. /\ Updates[i].entries \in Seq(EntryType) /\ Updates[i].last \in Nat
      /\ \A e \in UsableOf(i) : e.id <= Updates[i].last
  BY UpdatesAssumption
<1>3. \A k \in DOMAIN Updates[i].entries : Updates[i].entries[k] \in EntryType
  BY <1>2
<1>4. \A e \in UsableOf(i) :
        Usable(e) /\ \E k \in DOMAIN Updates[i].entries : Updates[i].entries[k] = e
  BY DEF UsableOf, Range
<1>5. \A e \in UsableOf(i) : e \in EntryType /\ e.id \in Nat /\ e.id > 0
  BY <1>3, <1>4 DEF EntryType, Usable
<1>6. \A k \in DOMAIN Updates[i].entries :
        Usable(Updates[i].entries[k]) => Updates[i].entries[k] \in UsableOf(i)
  BY DEF UsableOf, Range
<1> QED BY <1>1, <1>2, <1>4, <1>5, <1>6

\* What a later update brings below an entry of an earlier one was in that, or before.
LEMMA Overlap ==
  ASSUME ~ByName, NEW i \in DOMAIN Updates, NEW j \in DOMAIN Updates, i < j,
         NEW d \in UsableOf(i), NEW e \in UsableOf(j), e.id <= d.id
  PROVE  \E k \in 1..i : \E c \in UsableOf(k) : KeyOf(c) = KeyOf(e)
  BY UpdatesAssumption

LEMMA SameID ==
  ASSUME ~ByName, NEW d, NEW e, d.id = e.id
  PROVE  KeyOf(d) = KeyOf(e)
  BY DEF KeyOf

\* Below the high-water mark all that has arrived is archived.
LEMMA BelowMark ==
  ASSUME Base, Passed, Choosing \/ Working, pc # "remove",
         NEW i \in arrived, NEW e \in UsableOf(i), e.id <= job.high
  PROVE  KeyOf(e) \in ArchivedKeys
<1>1. i \in DOMAIN Updates
  BY DEF Base, Typed, TypeOK
<1>2. e.id \in Nat /\ e.id > 0
  BY <1>1, UsableEntries
<1>3. job.high = 0 \/ \E f \in files : f.end = job.high
  BY DEF Base, MarkHighest, Others
<1>4. \E f \in files : e.id <= f.end
  BY <1>2, <1>3
<1> QED BY <1>4 DEF Passed

LEMMA ReachedStep ==
  ASSUME Base, Reached, ReadInOrder, Run \/ Stop \/ Around
  PROVE  Reached'
<1>1. ArchivedKeys \subseteq ArchivedKeys'
  BY KeepsStep
<1>2. arrived \subseteq arrived' /\ job.seen \subseteq arrived
  BY DEF Run, Stop, Around, Refuse, Begin, FinalizeExpired, Forget, PlanNothing, Plan, SkipEntry,
         CopyEntry, DropWork, CloseWork, PublishWork, RemoveOld, SaveState, Base, Typed, TypeOK
<1>3. PICK library \in Libraries :
        /\ \A g \in library : KeysOf(g.entries) \subseteq ArchivedKeys
        /\ \A f \in files :
             \/ \E g \in library : f.end <= g.end
             \/ \E i \in arrived : \E d \in UsableOf(i) : f.end <= d.id
  BY DEF Reached
<1>4. ASSUME NEW f \in files'
      PROVE  \/ \E g \in library : f.end <= g.end
             \/ \E i \in arrived' : \E d \in UsableOf(i) : f.end <= d.id
  <2>1. CASE \E h \in files : h.end = f.end
    BY <1>2, <1>3, <2>1
  <2>2. CASE f \notin files
    <3>1. CASE FinalizeExpired
      <4> DEFINE final == [job.merge EXCEPT !.ext = "zip"]
      <4>1. job.merge \in files /\ final.end = job.merge.end
            /\ files' = (files \ {job.merge}) \cup {final}
        BY <3>1, FinalizedFiles
      <4> HIDE DEF final
      <4> QED BY <1>4, <2>1, <2>2, <4>1
    <3>2. CASE PublishWork
      <4>1. f = WorkFile /\ pc = "publish"
        BY <1>4, <2>2, <3>2, PublishStep DEF PublishWork
      <4>2. Working /\ job.copied /\ f.end = job.work.end /\ f.end \in Nat
        BY <4>1, NewFile DEF FileType
      <4>3. PICK i \in job.seen : \E d \in UsableOf(i) : job.work.end = d.id
        BY <4>2 DEF ReadInOrder
      <4>4. PICK d \in UsableOf(i) : job.work.end = d.id
        BY <4>3
      <4>5. f.end <= d.id /\ i \in arrived'
        BY <1>2, <4>2, <4>4
      <4> QED BY <4>5
    <3>3. CASE RemoveOld
      BY <1>4, <2>2, <3>3, RemoveStep
    <3> QED BY <1>4, <2>2, <3>1, <3>2, <3>3, FileSteps
  <2> QED BY <2>1, <2>2
<1>5. \A g \in library : KeysOf(g.entries) \subseteq ArchivedKeys'
  BY <1>1, <1>3
<1> QED BY <1>4, <1>5 DEF Reached

\* What lies below an end is archived, also of an update that has not arrived.
LEMMA BelowEnd ==
  ASSUME Base, ~ByName, Passed, Reached, Gapless(arrived),
         NEW i \in DOMAIN Updates, NEW e \in UsableOf(i), NEW f \in files, e.id <= f.end
  PROVE  KeyOf(e) \in ArchivedKeys
<1> SUFFICES ASSUME i \notin arrived, ~Archived(i) PROVE KeyOf(e) \in ArchivedKeys
  BY DEF Passed, Archived
<1>1. arrived \subseteq DOMAIN Updates /\ f.end \in Nat /\ e.id \in Nat /\ i \in Nat
  BY UsableEntries DEF Base, Typed, TypeOK, FileType
<1>2. PICK library \in Libraries :
        /\ \A g \in library : KeysOf(g.entries) \subseteq ArchivedKeys
        /\ \/ \E g \in library : f.end <= g.end
           \/ \E j \in arrived : \E d \in UsableOf(j) : f.end <= d.id
  BY DEF Reached
<1>3. CASE \E g \in library : f.end <= g.end
  <2>1. PICK g \in library : f.end <= g.end
    BY <1>3
  <2>2. g.end \in Nat
    BY LibrariesAssumption DEF FileType
  <2>3. e.id <= g.end
    BY <1>1, <2>1, <2>2
  <2>4. \E h \in library : KeyOf(e) \in KeysOf(h.entries)
    BY <2>3, LibrariesAssumption
  <2> QED BY <1>2, <2>4
<1>4. CASE \E j \in arrived : \E d \in UsableOf(j) : f.end <= d.id
  <2>1. PICK j \in arrived : \E d \in UsableOf(j) : f.end <= d.id
    BY <1>4
  <2>2. PICK d \in UsableOf(j) : f.end <= d.id
    BY <2>1
  <2>3. j \in DOMAIN Updates /\ j \in Nat /\ d.id \in Nat
    BY <1>1, UsableEntries
  <2>4. j < i
    <3>1. i < j => i \in 1..(j - 1)
      BY <1>1, <2>3, UsableEntries
    <3> QED BY <1>1, <2>3, <3>1 DEF Gapless
  <2>5. e.id <= d.id
    BY <1>1, <2>2, <2>3
  <2>6. PICK k \in 1..j : \E c \in UsableOf(k) : KeyOf(c) = KeyOf(e)
    BY <2>3, <2>4, <2>5, Overlap
  <2>7. PICK c \in UsableOf(k) : KeyOf(c) = KeyOf(e)
    BY <2>6
  <2>8. k \in arrived \/ Archived(k)
    <3>1. k = j \/ k \in 1..(j - 1)
      BY <2>3
    <3> QED BY <3>1 DEF Gapless
  <2>9. ASSUME k \in arrived
        PROVE  c.id = e.id
    <3>1. c \in EntryType /\ e \in EntryType
      BY <1>1, <2>9, UsableEntries
    <3> QED BY <2>7, <3>1, KeyTellsID
  <2>10. KeyOf(c) \in ArchivedKeys
    BY <2>8, <2>9 DEF Passed, Archived
  <2> QED BY <2>7, <2>10
<1> QED BY <1>2, <1>3, <1>4

\* What arrives below an end was there already.
LEMMA PassedOnArrival ==
  ASSUME Base, ~ByName, Passed, Reached, Gapless(arrived), Around
  PROVE  Passed'
<1>1. files' = files /\ arrived' \subseteq DOMAIN Updates /\ ArchivedKeys' = ArchivedKeys
  BY DEF Around, ArchivedKeys
<1> SUFFICES ASSUME NEW i \in arrived', NEW e \in UsableOf(i), NEW f \in files, e.id <= f.end
             PROVE  KeyOf(e) \in ArchivedKeys
  BY <1>1 DEF Passed
<1> QED BY <1>1, BelowEnd

\* The work archive may be finalized: what its range passes is archived, or in it.
LEMMA WorkPasses ==
  ASSUME Base, Sweep, ~ByName, pc = "publish",
         NEW i \in arrived, NEW e \in UsableOf(i), e.id <= job.work.end
  PROVE  KeyOf(e) \in ArchivedKeys \cup KeysOf(job.work.entries)
<1>1. Working /\ job.copied /\ arrived \subseteq DOMAIN Updates /\ job.seen \subseteq arrived
  BY NewFile DEF Base, Typed, TypeOK
<1>2. PICK j \in job.seen : \E d \in UsableOf(j) :
        /\ job.work.end = d.id
        /\ KeyOf(d) \in KeysOf(job.work.entries)
        /\ \A item \in job.queue : item.from > j \/ (item.from = j /\ item.entry.id >= d.id)
  BY <1>1 DEF Sweep, ReadInOrder
<1>3. PICK d \in UsableOf(j) :
        /\ job.work.end = d.id
        /\ KeyOf(d) \in KeysOf(job.work.entries)
        /\ \A item \in job.queue : item.from > j \/ (item.from = j /\ item.entry.id >= d.id)
  BY <1>2
<1>4. i \in DOMAIN Updates /\ j \in DOMAIN Updates /\ i \in Nat /\ j \in Nat /\ j > 0 /\ i > 0
      /\ d.id \in Nat /\ e.id \in Nat
  BY <1>1, UsableEntries
<1>5. ASSUME NEW k \in 1..j, NEW c \in UsableOf(k), c.id <= d.id
      PROVE  KeyOf(c) \in ArchivedKeys \cup KeysOf(job.work.entries)
  <2>0. k \in job.seen \/ Archived(k)
    <3>1. k = j \/ k \in 1..(j - 1)
      BY <1>4
    <3> QED BY <3>1 DEF Sweep, Gapless
  <2> SUFFICES ASSUME ~Archived(k) PROVE KeyOf(c) \in ArchivedKeys \cup KeysOf(job.work.entries)
    BY DEF Archived
  <2>1. k \in job.seen
    BY <2>0
  <2>2. k \in DOMAIN Updates
    BY <1>1, <2>1
  <2>3. c.id \in Nat
    BY <2>2, UsableEntries
  <2>4. \/ KeyOf(c) \in ArchivedKeys
        \/ KeyOf(c) \in KeysOf(job.work.entries)
        \/ \E item \in job.queue : item.from = k /\ item.entry = c
    BY <1>1, <2>1 DEF Sweep, Progress
  <2>5. ASSUME NEW item \in job.queue, item.from = k, item.entry = c
        PROVE  KeyOf(c) = KeyOf(d)
    <3>1. c.id >= d.id
      BY <1>3, <1>4, <2>5
    <3>2. c.id = d.id
      BY <1>4, <1>5, <2>3, <3>1
    <3> QED BY <3>2, SameID
  <2> QED BY <1>3, <2>4, <2>5
<1>6. CASE i <= j
  <2>1. i \in 1..j
    BY <1>4, <1>6
  <2> QED BY <1>3, <1>5, <2>1
<1>7. CASE j < i
  <2>1. e.id <= d.id
    BY <1>3
  <2>2. PICK k \in 1..j : \E c \in UsableOf(k) : KeyOf(c) = KeyOf(e)
    BY <1>4, <1>7, <2>1, Overlap
  <2>3. PICK c \in UsableOf(k) : KeyOf(c) = KeyOf(e)
    BY <2>2
  <2>4. c.id = e.id
    <3>1. k \in DOMAIN Updates
      BY <1>4, UpdatesAssumption
    <3>2. c \in EntryType /\ e \in EntryType
      BY <1>4, <3>1, UsableEntries
    <3> QED BY <2>3, <3>2, KeyTellsID
  <2>5. KeyOf(c) \in ArchivedKeys \cup KeysOf(job.work.entries)
    BY <1>5, <2>1, <2>4
  <2> QED BY <2>3, <2>5
<1> QED BY <1>4, <1>6, <1>7

LEMMA PassedStep ==
  ASSUME Base, Sweep, ~ByName, Run \/ Stop \/ Around
  PROVE  Passed'
<1>1. ArchivedKeys \subseteq ArchivedKeys'
  BY KeepsStep
<1>2. CASE Around
  BY <1>2, PassedOnArrival DEF Sweep
<1> SUFFICES ASSUME ~Around, NEW i \in arrived', NEW e \in UsableOf(i), NEW f \in files', e.id <= f.end
             PROVE  KeyOf(e) \in ArchivedKeys'
  BY <1>2 DEF Passed
<1>3. arrived' = arrived
  BY DEF Run, Stop, Refuse, Begin, FinalizeExpired, Forget, PlanNothing, Plan, SkipEntry,
         CopyEntry, DropWork, CloseWork, PublishWork, RemoveOld, SaveState
<1>4. CASE \E h \in files : h.end = f.end
  BY <1>1, <1>3, <1>4 DEF Sweep, Passed
<1>5. CASE f \notin files
  <2>1. CASE FinalizeExpired
    <3> DEFINE final == [job.merge EXCEPT !.ext = "zip"]
    <3>1. job.merge \in files /\ final.end = job.merge.end
          /\ files' = (files \ {job.merge}) \cup {final}
      BY <2>1, FinalizedFiles
    <3> HIDE DEF final
    <3> QED BY <1>4, <1>5, <3>1
  <2>2. CASE PublishWork
    <3>1. f = WorkFile /\ pc = "publish" /\ files' = files \cup {WorkFile}
      BY <1>5, <2>2, PublishStep DEF PublishWork
    <3>2. f.end = job.work.end /\ f.entries = job.work.entries
      BY <3>1, PublishedFile DEF Base
    <3>3. KeyOf(e) \in ArchivedKeys \cup KeysOf(job.work.entries)
      BY <1>3, <3>1, <3>2, WorkPasses
    <3>4. KeysOf(job.work.entries) \subseteq ArchivedKeys'
      BY <3>1, <3>2 DEF ArchivedKeys
    <3> QED BY <1>1, <3>3, <3>4
  <2>3. CASE RemoveOld
    BY <1>5, <2>3, RemoveStep
  <2> QED BY <1>5, <2>1, <2>2, <2>3, FileSteps
<1> QED BY <1>4, <1>5

\* At the plan what is not queued is below the high-water mark.
LEMMA ProgressPlanned ==
  ASSUME Base, Passed, Plan
  PROVE  Progress'
<1>1. /\ job'.seen = job.seen /\ ArchivedKeys' = ArchivedKeys
      /\ job'.queue = (IF Reopens THEN Queued(Again, job.last.entries) ELSE {}) \cup
                      UNION {Queued(i, Updates[i].entries) : i \in Selected(job.high)}
  BY PlanStep DEF Base, Plan, ArchivedKeys
<1>2. Choosing /\ pc # "remove" /\ job.seen \subseteq arrived /\ arrived \subseteq DOMAIN Updates
  BY DEF Plan, Choosing, Base, Typed, TypeOK
<1> SUFFICES ASSUME NEW i \in job.seen, NEW e \in UsableOf(i)
             PROVE  \/ KeyOf(e) \in ArchivedKeys
                    \/ \E item \in job'.queue : item.from = i /\ item.entry = e
  BY <1>1 DEF Progress
<1>3. /\ e.id \in Nat /\ e.id <= Updates[i].last /\ Updates[i].last \in Nat
      /\ \E k \in DOMAIN Updates[i].entries : Updates[i].entries[k] = e
      /\ Usable(e) /\ job.high \in Nat
  BY <1>2, UsableEntries, WorkTyped DEF Base
<1>4. PICK k \in DOMAIN Updates[i].entries : Updates[i].entries[k] = e
  BY <1>3
<1>5. CASE i \in Selected(job.high)
  <2>1. [from |-> i, at |-> k, entry |-> e] \in Queued(i, Updates[i].entries)
    BY <1>4 DEF Queued
  <2>2. [from |-> i, at |-> k, entry |-> e] \in job'.queue
    BY <1>1, <1>5, <2>1
  <2> QED BY <2>2
<1>6. CASE i \notin Selected(job.high)
  <2>1. ~HasNew(i, job.high)
    BY <1>6 DEF Selected
  <2>2. e.id <= job.high
    BY <1>3, <1>4, <2>1 DEF HasNew
  <2>3. KeyOf(e) \in ArchivedKeys
    BY <1>2, <2>2, BelowMark
  <2> QED BY <2>3
<1> QED BY <1>5, <1>6

LEMMA ProgressSkipped ==
  ASSUME Base, Passed, Progress, SkipEntry
  PROVE  Progress'
<1>1. PICK item \in job.queue :
           /\ IsNext(item) /\ Skipped(item) /\ job'.queue = job.queue \ {item}
           /\ job'.seen = job.seen /\ job'.work = job.work
  BY SkipStep DEF Base
<1>2. pc = "copy" /\ Working /\ ArchivedKeys' = ArchivedKeys
      /\ job.seen \subseteq arrived /\ arrived \subseteq DOMAIN Updates
  BY DEF SkipEntry, Working, ArchivedKeys, Base, Typed, TypeOK
<1> SUFFICES ASSUME NEW i \in job.seen, NEW e \in UsableOf(i)
             PROVE  \/ KeyOf(e) \in ArchivedKeys
                    \/ KeyOf(e) \in KeysOf(job.work.entries)
                    \/ \E other \in job'.queue : other.from = i /\ other.entry = e
  BY <1>1, <1>2 DEF Progress
<1>3. \/ KeyOf(e) \in ArchivedKeys
      \/ KeyOf(e) \in KeysOf(job.work.entries)
      \/ \E other \in job.queue : other.from = i /\ other.entry = e
  BY <1>2 DEF Progress
<1>4. CASE item.from = i /\ item.entry = e
  <2>1. Usable(e) /\ i # 0 /\ e.id \in Nat /\ job.high \in Nat
    BY <1>2, UsableEntries, WorkTyped DEF Base
  <2>2. e.id <= job.high \/ KeyOf(e) \in job.keys
    BY <1>1, <1>4, <2>1 DEF Skipped
  <2>3. job.keys \subseteq KeysOf(job.work.entries)
    BY <1>2 DEF Base, CopiedOnce
  <2>4. e.id <= job.high => KeyOf(e) \in ArchivedKeys
    BY <1>2, BelowMark
  <2> QED BY <2>2, <2>3, <2>4
<1>5. CASE ~(item.from = i /\ item.entry = e)
  BY <1>1, <1>3, <1>5
<1> QED BY <1>4, <1>5

LEMMA ProgressCopied ==
  ASSUME Base, Progress, CopyEntry
  PROVE  Progress'
<1>1. PICK item \in job.queue :
           /\ job'.queue = job.queue \ {item} /\ job'.seen = job.seen
           /\ job'.work.entries = Append(job.work.entries, item.entry)
  BY CopyStep DEF Base
<1>2. Working /\ ArchivedKeys' = ArchivedKeys
  BY DEF CopyEntry, Working, ArchivedKeys
<1>3. KeysOf(job'.work.entries) = KeysOf(job.work.entries) \cup {KeyOf(item.entry)}
  BY <1>1, WorkTyped, AppendedEntry DEF Base
<1> QED BY <1>1, <1>2, <1>3 DEF Progress

LEMMA ProgressStep ==
  ASSUME Base, Passed, Progress, Run \/ Stop \/ Around
  PROVE  Progress'
<1>1. ArchivedKeys \subseteq ArchivedKeys'
  BY KeepsStep
<1>2. CASE Around \/ Refuse
  <2>1. UNCHANGED <<pc, job, files>>
    BY <1>2 DEF Around, Refuse
  <2> QED BY <2>1 DEF Progress, Working, ArchivedKeys
<1>3. CASE pc' \in {"idle", "plan", "forget", "finalize", "save"}
  BY <1>3 DEF Progress, Working
<1>4. CASE CloseWork
  <2>1. job \in JobType /\ job' = [job EXCEPT !.as = "merging"] /\ Working /\ files' = files
    BY <1>4 DEF Base, Typed, CloseWork, Working
  <2>2. job'.seen = job.seen /\ job'.work = job.work /\ job'.queue = job.queue
    BY <2>1 DEF JobType
  <2> QED BY <1>1, <2>1, <2>2 DEF Progress
<1>5. CASE PublishWork \/ RemoveOld
  <2>1. Working /\ pc \in {"publish", "remove"} /\ Typed
    BY <1>5 DEF PublishWork, RemoveOld, Working, Base
  <2>2. WorkFile \in files' /\ WorkFile.entries = job.work.entries
    BY <1>5, <2>1, PublishStep, RemoveStep, PublishedFile
  <2>3. KeysOf(job.work.entries) \subseteq ArchivedKeys'
    BY <2>2 DEF ArchivedKeys
  <2>4. Proceed \/ (pc' = "remove" /\ job' = job)
    BY <1>5, PublishStep, RemoveStep
  <2>5. CASE job'.seen = job.seen /\ job'.queue = job.queue
    <3>1. \A i \in job.seen : \A e \in UsableOf(i) :
            \/ KeyOf(e) \in ArchivedKeys'
            \/ \E item \in job.queue : item.from = i /\ item.entry = e
      BY <1>1, <2>1, <2>3 DEF Progress
    <3> QED BY <2>5, <3>1 DEF Progress
  <2>6. CASE pc' = "copy" /\ job' = Restarted
    BY <2>1, <2>5, <2>6, RestartStep
  <2> QED BY <1>3, <2>1, <2>4, <2>5, <2>6, ProceedStep
<1>6. CASE Begin
  BY <1>3, <1>6, FirstSteps DEF Begin
<1> QED BY <1>2, <1>3, <1>4, <1>5, <1>6, ProgressPlanned, ProgressSkipped, ProgressCopied
        DEF Run, Stop, FinalizeExpired, Forget, PlanNothing, DropWork, SaveState, End

\* The order in which a run reads is that of the updates, and in each that of the ids.
LEMMA OrderCopied ==
  ASSUME Base, ReadInOrder, CopyEntry
  PROVE  ReadInOrder'
<1>1. PICK item \in job.queue :
           /\ IsNext(item) /\ ~Skipped(item) /\ item \in ItemType
           /\ job'.queue = job.queue \ {item} /\ job'.seen = job.seen
           /\ job'.work.entries = Append(job.work.entries, item.entry)
           /\ job'.work.end = IF item.entry.id > job.work.end THEN item.entry.id ELSE job.work.end
           /\ job'.copied = (job.copied \/ ~Existing(item))
           /\ job'.high = job.high
  BY CopyStep DEF Base
<1>2. /\ Working /\ job.work.end \in Nat /\ job.high \in Nat /\ item.entry \in EntryType
      /\ item.entry.id \in Nat /\ item.from \in Nat
      /\ \A other \in job.queue : other \in ItemType /\ other.entry.id \in Nat /\ other.from \in Nat
  BY <1>1, WorkTyped DEF CopyEntry, Working, Base, ItemType, EntryType
<1>3. KeysOf(job'.work.entries) = KeysOf(job.work.entries) \cup {KeyOf(item.entry)}
  BY <1>1, <1>2, WorkTyped, AppendedEntry DEF Base
<1> SUFFICES ASSUME job'.copied
             PROVE  \E i \in job.seen : \E d \in UsableOf(i) :
                      /\ job'.work.end = d.id
                      /\ KeyOf(d) \in KeysOf(job'.work.entries)
                      /\ \A other \in job'.queue :
                           other.from > i \/ (other.from = i /\ other.entry.id >= d.id)
  BY <1>1 DEF ReadInOrder
<1>4. ~Existing(item)
  <2>1. Existing(item) => ~job.copied
    BY DEF Base, QueueSound
  <2> QED BY <1>1, <2>1
<1>5. CASE item.entry.id > job.work.end
  <2>1. item.from \in job.seen /\ item.entry \in UsableOf(item.from)
    <3>1. /\ item.from \in job.seen /\ item.at \in DOMAIN Updates[item.from].entries
          /\ item.entry = Updates[item.from].entries[item.at]
      BY <1>4 DEF Base, QueueSound
    <3>2. Usable(item.entry)
      BY <1>1 DEF Skipped
    <3>3. item.from \in DOMAIN Updates
      BY <3>1 DEF Base, Typed, TypeOK
    <3> QED BY <3>1, <3>2, <3>3, UsableEntries
  <2>2. job'.work.end = item.entry.id /\ KeyOf(item.entry) \in KeysOf(job'.work.entries)
    BY <1>1, <1>3, <1>5
  <2>3. ASSUME NEW other \in job'.queue
        PROVE  other.from > item.from \/ (other.from = item.from /\ other.entry.id >= item.entry.id)
    <3>1. other \in job.queue /\ ~ReadBefore(other, item)
      BY <1>1 DEF IsNext
    <3> QED BY <1>2, <3>1 DEF ReadBefore, ById
  <2> QED BY <2>1, <2>2, <2>3
<1>6. CASE ~(item.entry.id > job.work.end)
  <2>1. job.copied
    <3>1. item.entry.id > job.high
      BY <1>1, <1>2, <1>4 DEF Skipped
    <3>2. job.work.end > job.high
      BY <1>2, <1>6, <3>1
    <3> QED BY <1>2, <3>2 DEF Base, RoomKept
  <2>2. PICK i \in job.seen : \E d \in UsableOf(i) :
          /\ job.work.end = d.id
          /\ KeyOf(d) \in KeysOf(job.work.entries)
          /\ \A other \in job.queue : other.from > i \/ (other.from = i /\ other.entry.id >= d.id)
    BY <1>2, <2>1 DEF ReadInOrder
  <2>3. PICK d \in UsableOf(i) :
          /\ job.work.end = d.id
          /\ KeyOf(d) \in KeysOf(job.work.entries)
          /\ \A other \in job.queue : other.from > i \/ (other.from = i /\ other.entry.id >= d.id)
    BY <2>2
  <2>4. /\ job'.work.end = d.id /\ KeyOf(d) \in KeysOf(job'.work.entries)
        /\ job'.queue \subseteq job.queue
    BY <1>1, <1>3, <1>6, <2>3
  <2> QED BY <2>2, <2>3, <2>4
<1> QED BY <1>5, <1>6

LEMMA OrderStep ==
  ASSUME Base, ReadInOrder, Run \/ Stop \/ Around
  PROVE  ReadInOrder'
<1>1. CASE Around \/ Refuse
  <2>1. UNCHANGED <<pc, job>>
    BY <1>1 DEF Around, Refuse
  <2> QED BY <2>1 DEF ReadInOrder, Working
<1>2. CASE pc' \in {"idle", "plan", "forget", "finalize", "save"}
  BY <1>2 DEF ReadInOrder, Working
<1>3. CASE Plan
  <2>1. job'.copied = job.copied /\ ~job.copied
    BY <1>3, PlanStep DEF Base, Plan, ChosenThere, Choosing
  <2> QED BY <2>1 DEF ReadInOrder
<1>4. CASE SkipEntry
  <2>1. /\ job'.queue \subseteq job.queue /\ job'.seen = job.seen /\ job'.work = job.work
        /\ job'.copied = job.copied /\ Working
    BY <1>4, SkipStep DEF Base, SkipEntry, Working
  <2> QED BY <2>1 DEF ReadInOrder
<1>5. CASE CloseWork
  <2>1. job \in JobType /\ job' = [job EXCEPT !.as = "merging"] /\ Working
    BY <1>5 DEF Base, Typed, CloseWork, Working
  <2>2. job'.seen = job.seen /\ job'.work = job.work /\ job'.queue = job.queue
        /\ job'.copied = job.copied
    BY <2>1 DEF JobType
  <2> QED BY <2>1, <2>2 DEF ReadInOrder
<1>6. CASE PublishWork \/ RemoveOld
  <2>1. Working /\ Typed
    BY <1>6 DEF PublishWork, RemoveOld, Working, Base
  <2>2. Proceed \/ (pc' = "remove" /\ job' = job)
    BY <1>6, PublishStep, RemoveStep
  <2>3. CASE job' = job
    BY <2>1, <2>3 DEF ReadInOrder
  <2>4. CASE job' = Restarted
    <3>1. job'.copied = FALSE
      BY <2>1, <2>4, RestartStep
    <3> QED BY <3>1 DEF ReadInOrder
  <2> QED BY <1>2, <2>1, <2>2, <2>3, <2>4, ProceedStep
<1>7. CASE Begin
  BY <1>2, <1>7, FirstSteps DEF Begin
<1> QED BY <1>1, <1>2, <1>3, <1>4, <1>5, <1>6, <1>7, OrderCopied
        DEF Run, Stop, FinalizeExpired, Forget, PlanNothing, DropWork, SaveState, End

\* A run sees what has arrived when it begins.
LEMMA SeenStep ==
  ASSUME Base, Run \/ Stop \/ Around
  PROVE  job'.seen \in {job.seen, arrived, {}}
<1>1. Idle.seen = {} /\ Typed
  BY IdleType DEF Base
<1>2. CASE Begin
  BY <1>2, BeginStep DEF Base
<1>3. CASE FinalizeExpired \/ Plan \/ SkipEntry \/ CopyEntry
  BY <1>1, <1>3, FinalizeStep, PlanStep, SkipStep, CopyStep
<1>4. CASE CloseWork
  BY <1>1, <1>4 DEF CloseWork, Typed, JobType
<1>5. CASE PublishWork \/ RemoveOld
  <2>1. Proceed \/ job' = job
    BY <1>5, PublishStep, RemoveStep
  <2> QED BY <1>1, <2>1, ProceedStep, RestartStep
<1> QED BY <1>1, <1>2, <1>3, <1>4, <1>5
        DEF Run, Stop, Around, Refuse, Forget, PlanNothing, DropWork, SaveState, End

LEMMA SweepInit == Init => Sweep
<1> SUFFICES ASSUME Init PROVE Sweep
  OBVIOUS
<1>1. arrived = {} /\ job.seen = {} /\ pc = "idle"
  BY IdleType DEF Init
<1>2. Gapless(arrived) /\ Gapless(job.seen) /\ Passed
  BY <1>1 DEF Gapless, Passed
<1>3. Progress /\ ReadInOrder
  BY <1>1 DEF Progress, ReadInOrder, Working
<1>4. Reached
  <2>1. files \in Libraries /\ \A f \in files : KeysOf(f.entries) \subseteq ArchivedKeys
    BY DEF Init, ArchivedKeys
  <2>2. \A f \in files : f.end \in Nat
    BY <2>1, LibrariesAssumption DEF FileType
  <2>3. \A f \in files : f.end <= f.end
    BY <2>2
  <2> QED BY <2>1, <2>3 DEF Reached
<1> QED BY <1>2, <1>3, <1>4 DEF Sweep

LEMMA ArchivedStays ==
  ASSUME Base, Run \/ Stop \/ Around
  PROVE  \A i : Archived(i) => Archived(i)'
  BY KeepsStep DEF Archived

LEMMA SweepStep ==
  ASSUME Base, Sweep, ~ByName, Run \/ Stop \/ Around, Gapless(arrived)'
  PROVE  Sweep'
<1>1. Gapless(job.seen)'
  <2>1. \A i : Archived(i) => Archived(i)'
    BY ArchivedStays
  <2>2. CASE job'.seen = job.seen \/ job'.seen = {}
    BY <2>1, <2>2 DEF Gapless, Sweep
  <2>3. CASE job'.seen = arrived
    BY <2>1, <2>3 DEF Gapless, Sweep
  <2> QED BY <2>2, <2>3, SeenStep
<1> QED BY <1>1, ReachedStep, PassedStep, ProgressStep, OrderStep DEF Sweep

\* In a lineage whose keys are ids, no run passes an entry that has arrived: what the
\* ranges of the archives cover is archived, also where an archive was finalized in
\* the middle of an update and the run stopped there.
THEOREM NothingIsDropped == ASSUME ~ByName PROVE Spec => []NothingDropped
<1>1. Base /\ Sweep /\ [Next]_vars => Sweep'
  <2> SUFFICES ASSUME Base, Sweep, [Next]_vars PROVE Sweep'
    OBVIOUS
  <2>1. Gapless(arrived)'
    <3>1. CASE \E i \in DOMAIN Updates : Arrive(i)
      BY <3>1, NextSteps, ArchivedStays DEF Arrive, Sweep, Gapless
    <3>2. CASE ~ \E i \in DOMAIN Updates : Arrive(i)
      <4>1. arrived' = arrived
        BY <3>2 DEF Next, vars, Tick, Run, Stop, Refuse, Begin, FinalizeExpired, Forget,
                    PlanNothing, Plan, SkipEntry, CopyEntry, DropWork, CloseWork, PublishWork,
                    RemoveOld, SaveState
      <4> QED BY <4>1, ArchivedStays, NextSteps DEF Sweep, Gapless
    <3> QED BY <3>1, <3>2
  <2> QED BY <2>1, NextSteps, SweepStep
<1>2. Sweep => NothingDropped
  BY DEF Sweep, Passed, NothingDropped
<1> QED BY <1>1, <1>2, SweepInit, RollupInvariance, PTL DEF Spec
=============================================================================
