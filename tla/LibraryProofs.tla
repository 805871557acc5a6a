---------------------------- MODULE LibraryProofs ----------------------------
(* Proofs about Library: what RollupProofs proves of the archives holds also when
   fetch brings the updates, into a directory of its own or into that of the
   archives, and chooses what to bring by the ranges it finds there.  A step of
   fetch or of the site is a step beside rollup (Around); what is left to prove is
   that fetch leaves out no update that is not archived anyway. *)
EXTENDS Library, RollupProofs

\* What fetch has selected is listed.
Selecting == listed \in 0..Len(Updates) /\ todo \subseteq 1..listed

\* What it leaves out before one that it has still to bring has arrived, or is archived.
Bringing == \A i \in todo : \A j \in 1..(i - 1) : j \in arrived \/ j \in todo \/ Archived(j)

-----------------------------------------------------------------------------
(* The archives, with fetch beside them *)

LEMMA Listed ==
  ASSUME Selecting
  PROVE  Len(Updates) \in Nat /\ listed \in Nat /\ 1..listed \subseteq DOMAIN Updates
<1>1. Len(Updates) \in Nat /\ DOMAIN Updates = 1..Len(Updates)
  BY UpdatesAssumption, LenProperties
<1> QED BY <1>1 DEF Selecting

LEMMA LibrarySteps ==
  ASSUME Base, Selecting, [LibraryNext]_libraryVars
  PROVE  Run \/ Stop \/ Around
<1>1. /\ clock \in Nat /\ stops \in 0..MaxStops /\ MaxStops \in Nat
      /\ arrived \subseteq DOMAIN Updates
  BY BoundsAssumption DEF Base, Typed, TypeOK
<1>2. CASE UNCHANGED vars
  BY <1>1, <1>2 DEF vars, Around
<1>3. CASE FetchFile
  <2>1. PICK i \in todo : arrived' = arrived \cup {i}
    BY <1>3 DEF FetchFile
  <2>2. i \in DOMAIN Updates
    BY Listed DEF Selecting
  <2> QED BY <1>1, <1>3, <2>1, <2>2 DEF FetchFile, Around
<1>4. CASE StopFetch
  BY <1>1, <1>4 DEF StopFetch, Around
<1>5. CASE Tick
  BY <1>1, <1>5 DEF Tick, Around
<1> QED BY <1>2, <1>3, <1>4, <1>5
        DEF LibraryNext, Fetch, libraryVars, Publish, RefuseFetch, BeginFetch, EndFetch

LEMMA SelectingInvariant == LibrarySpec => []Selecting
<1>1. LibraryInit => Selecting
  BY UpdatesAssumption, LenProperties DEF LibraryInit, Selecting
<1>2. Selecting /\ [LibraryNext]_libraryVars => Selecting'
  <2> SUFFICES ASSUME Selecting, [LibraryNext]_libraryVars PROVE Selecting'
    OBVIOUS
  <2>1. CASE Publish
    <3>1. listed' \in 0..Len(Updates) /\ 1..listed \subseteq 1..listed' /\ todo' = todo
      BY <2>1, Listed DEF Publish, Selecting
    <3> QED BY <3>1 DEF Selecting
  <2>2. CASE BeginFetch
    BY <2>2 DEF BeginFetch, Wanted, Selecting
  <2>3. CASE ~Publish /\ ~BeginFetch
    <3>1. listed' = listed /\ todo' \subseteq todo
      BY <2>3 DEF LibraryNext, Fetch, libraryVars, fetchVars, RefuseFetch, FetchFile, EndFetch,
                  StopFetch, LeaveFetch
    <3> QED BY <3>1 DEF Selecting
  <2> QED BY <2>1, <2>2, <2>3
<1> QED BY <1>1, <1>2, PTL DEF LibrarySpec

\* What a run of rollup relies on holds whatever fetch brings, and when.
THEOREM LibraryInvariance == LibrarySpec => []Base
<1>1. LibraryInit => Base
  BY BaseInit DEF LibraryInit
<1>2. Base /\ Selecting /\ [LibraryNext]_libraryVars => Base'
  BY LibrarySteps, BaseStep
<1> QED BY <1>1, <1>2, SelectingInvariant, PTL DEF LibrarySpec

\* The range in the name of an archive, which fetch goes by, is that of its contents.
THEOREM LibraryRangesTell == LibrarySpec => []RangesTell
<1>1. Base => RangesTell
  BY DEF Base, FilesWhole, Whole, RangesTell
<1> QED BY <1>1, LibraryInvariance, PTL

\* What was archived stays archived, with fetch at work.
THEOREM LibraryKeepsArchived == LibrarySpec => KeepsArchived
<1>1. Base /\ Selecting /\ [LibraryNext]_libraryVars => ArchivedKeys \subseteq ArchivedKeys'
  BY LibrarySteps, KeepsStep
<1> QED BY <1>1, SelectingInvariant, LibraryInvariance, PTL DEF LibrarySpec, KeepsArchived

\* An archive that reached the target is left alone, with fetch at work.
THEOREM LibraryFullStay == LibrarySpec => FullArchivesStay
<1>1. Base /\ Selecting /\ [LibraryNext]_libraryVars =>
        \A f \in OfKind(files, "zip") : policy = "size" /\ f.bytes >= Target => f \in files'
  BY LibrarySteps, FullStayStep
<1> QED BY <1>1, SelectingInvariant, LibraryInvariance, PTL DEF LibrarySpec, FullArchivesStay

\* Only archives that reached the target are finalized, with fetch at work.
THEOREM LibraryFinalizedFull == LibrarySpec => FinalizedFull
<1>1. Base /\ Selecting /\ [LibraryNext]_libraryVars =>
        \A f \in OfKind(files', "zip") \ files : policy = "size" => f.bytes >= Target
  BY LibrarySteps, FullWhenFinalized
<1> QED BY <1>1, SelectingInvariant, LibraryInvariance, PTL DEF LibrarySpec, FinalizedFull

\* No entry is archived twice, whatever fetch brings again.
THEOREM LibraryStoredOnce == LibrarySpec => []StoredOnce
<1>1. LibraryInit => PeriodKept /\ Tidy
  BY TidyInit DEF LibraryInit, Init, PeriodKept
<1>2. Base /\ Selecting /\ PeriodKept /\ [LibraryNext]_libraryVars => PeriodKept'
  BY LibrarySteps, PeriodStep
<1>3. Base /\ Selecting /\ PeriodKept /\ PeriodKept' /\ Tidy /\ [LibraryNext]_libraryVars => Tidy'
  BY LibrarySteps, TidyStep
<1>4. Tidy => StoredOnce
  BY DEF Tidy, StoredOnce, Kept
<1> QED BY <1>1, <1>2, <1>3, <1>4, SelectingInvariant, LibraryInvariance, PTL DEF LibrarySpec

-----------------------------------------------------------------------------
(* What fetch leaves out *)

\* The highest range is one of those there, and that of an update if one ends there.
LEMMA HighestIs ==
  ASSUME Base, IntervalsThere # {}
  PROVE  /\ Highest \in IntervalsThere
         /\ \A r \in IntervalsThere : r.end <= Highest.end
         /\ \A r \in IntervalsThere : r.end = Highest.end /\ r.daily => Highest.daily
<1> DEFINE Before(a, b) == a.end > b.end \/ (a.end = b.end /\ (a.daily \/ ~b.daily))
           Ranked(r) == [ext |-> "zip", begin |-> IF r.daily THEN 0 ELSE 1, end |-> r.end,
                         bytes |-> 0, entries |-> <<>>]
           There == IF layout = "together" THEN OfKind(files, "zip") ELSE {}
           Daily == {Interval(Updates[i].first, Updates[i].last, TRUE) : i \in arrived}
           Done == {Interval(f.begin, f.end, FALSE) : f \in There}
<1>1. IsFiniteSet(arrived) /\ IsFiniteSet(There) /\ There \subseteq FileType
  <2>1. arrived \subseteq 1..Len(Updates) /\ Len(Updates) \in Nat
    BY UpdatesAssumption, LenProperties DEF Base, Typed, TypeOK
  <2>2. IsFiniteSet(1..Len(Updates))
    BY <2>1, FS_Interval
  <2>3. IsFiniteSet(files) /\ There \subseteq files /\ files \subseteq FileType
    BY DEF Base, FilesWhole, OfKind, Typed, TypeOK
  <2> QED BY <2>1, <2>2, <2>3, FS_Subset
<1>2. IsFiniteSet(Daily) /\ IsFiniteSet(Done)
  <2> DEFINE named == [i \in arrived |-> Interval(Updates[i].first, Updates[i].last, TRUE)]
             done == [f \in There |-> Interval(f.begin, f.end, FALSE)]
  <2>1. named \in Surjection(arrived, Daily) /\ done \in Surjection(There, Done)
    BY DEF Surjection
  <2> HIDE DEF named, done
  <2> QED BY <1>1, <2>1, FS_Surjection
<1>3. IntervalsThere = Daily \cup Done
  BY DEF IntervalsThere
<1>4. IsFiniteSet(IntervalsThere)
  BY <1>2, <1>3, FS_Union
<1>5. \A r \in IntervalsThere : r.end \in Nat /\ r.daily \in BOOLEAN
  <2>1. \A i \in arrived : Updates[i].last \in Nat
    BY UpdatesAssumption DEF Base, Typed, TypeOK
  <2>2. \A f \in There : f.end \in Nat
    BY <1>1 DEF FileType
  <2> HIDE DEF There
  <2>3. ASSUME NEW r \in Daily
        PROVE  r.end \in Nat /\ r.daily \in BOOLEAN
    <3>1. PICK i \in arrived : r = Interval(Updates[i].first, Updates[i].last, TRUE)
      OBVIOUS
    <3>2. r.end = Updates[i].last /\ r.daily = TRUE
      BY <3>1 DEF Interval
    <3> QED BY <2>1, <3>2
  <2>4. ASSUME NEW r \in Done
        PROVE  r.end \in Nat /\ r.daily \in BOOLEAN
    <3>1. PICK f \in There : r = Interval(f.begin, f.end, FALSE)
      OBVIOUS
    <3>2. r.end = f.end /\ r.daily = FALSE
      BY <3>1 DEF Interval
    <3> QED BY <2>2, <3>2
  <2> QED BY <1>3, <2>3, <2>4
<1> HIDE DEF Daily, Done, There
<1>6. \E r \in IntervalsThere : \A s \in IntervalsThere : Before(r, s)
  <2> DEFINE ranked == {Ranked(r) : r \in IntervalsThere}
  <2>1. IsFiniteSet(ranked) /\ ranked # {}
    <3> DEFINE rank == [r \in IntervalsThere |-> Ranked(r)]
    <3>1. rank \in Surjection(IntervalsThere, ranked)
      BY DEF Surjection
    <3>2. ranked # {}
      OBVIOUS
    <3> HIDE DEF rank, ranked
    <3> QED BY <1>4, <3>1, <3>2, FS_Surjection
  <2>2. ranked \subseteq FileType
    <3>1. <<>> \in Seq(EntryType)
      OBVIOUS
    <3>2. \A r \in IntervalsThere : Ranked(r) \in FileType
      BY <1>5, <3>1 DEF FileType
    <3> QED BY <3>2
  <2>3. PICK f \in ranked : \A g \in ranked : f.end > g.end \/ (f.end = g.end /\ f.begin <= g.begin)
    <3> HIDE DEF ranked
    <3> QED BY <2>1, <2>2, HighestExists
  <2>4. PICK r \in IntervalsThere : f = Ranked(r)
    OBVIOUS
  <2>5. ASSUME NEW s \in IntervalsThere
        PROVE  Before(r, s)
    <3>1. \/ Ranked(r).end > Ranked(s).end
          \/ Ranked(r).end = Ranked(s).end /\ Ranked(r).begin <= Ranked(s).begin
      BY <2>3, <2>4
    <3> QED BY <1>5, <3>1
  <2> QED BY <2>5
<1>7. Highest = CHOOSE r \in IntervalsThere : \A s \in IntervalsThere : Before(r, s)
  BY DEF Highest
<1>8. Highest \in IntervalsThere /\ \A s \in IntervalsThere : Before(Highest, s)
  BY <1>6, <1>7
<1> QED BY <1>5, <1>8

\* The mark is the end of an update that is there, which is then preferred, or of an
\* archive, or nothing is there.
LEMMA MarkIs ==
  ASSUME Base
  PROVE  \/ \E f \in files : Mark.end = f.end
         \/ \E i \in arrived : Mark.end = Updates[i].last /\ Mark.daily
         \/ Mark.end = 0 /\ ~Mark.daily
<1>1. CASE ActiveThere # {}
  <2>1. ActiveThere = OfKind(files, "merging") /\ IsFiniteSet(files)
    BY <1>1 DEF ActiveThere, Base, FilesWhole
  <2>2. MergeArchive(files) \in files
    BY <1>1, <2>1, MergeArchiveIs DEF OfKind
  <2>3. Mark.end = MergeArchive(files).end
    BY <1>1 DEF Mark, Interval
  <2> QED BY <2>2, <2>3
<1>2. CASE ActiveThere = {} /\ IntervalsThere = {}
  BY <1>2 DEF Mark, Highest, NoInterval, Interval
<1>3. CASE ActiveThere = {} /\ IntervalsThere # {}
  <2>1. Mark \in IntervalsThere
    BY <1>3, HighestIs DEF Mark
  <2>2. \/ \E i \in arrived : Mark = Interval(Updates[i].first, Updates[i].last, TRUE)
        \/ \E f \in OfKind(files, "zip") : Mark = Interval(f.begin, f.end, FALSE)
    BY <2>1 DEF IntervalsThere
  <2> QED BY <2>2 DEF Interval, OfKind
<1> QED BY <1>1, <1>2, <1>3

LEMMA LeftOut ==
  ASSUME Base, Sweep, Selecting, ~ByName, NEW j \in 1..listed, j \notin Wanted, j \notin arrived
  PROVE  Archived(j)
<1>1. /\ j \in DOMAIN Updates /\ j \in Nat /\ j > 0 /\ Updates[j].last \in Nat
      /\ arrived \subseteq DOMAIN Updates
  BY Listed, UsableEntries DEF Base, Typed, TypeOK
<1>2. ~(Mark.end < Updates[j].last) /\ ~(Mark.end = Updates[j].last /\ Mark.daily)
  BY DEF Wanted
<1>3. CASE \E f \in files : Mark.end = f.end
  <2>1. PICK f \in files : Mark.end = f.end
    BY <1>3
  <2>2. f.end \in Nat
    BY DEF Base, Typed, TypeOK, FileType
  <2>3. \A e \in UsableOf(j) : e.id <= f.end
    BY <1>1, <1>2, <2>1, <2>2, UsableEntries
  <2>4. \A e \in UsableOf(j) : KeyOf(e) \in ArchivedKeys
    BY <1>1, <2>3, BelowEnd DEF Sweep
  <2> QED BY <2>4 DEF Archived
<1>4. CASE \E k \in arrived : Mark.end = Updates[k].last /\ Mark.daily
  <2>1. PICK k \in arrived : Mark.end = Updates[k].last /\ Mark.daily
    BY <1>4
  <2>2. k \in DOMAIN Updates /\ k \in Nat /\ Updates[k].last \in Nat
    BY <1>1, UsableEntries
  <2>3. ~(k < j)
    BY <1>1, <1>2, <2>1, <2>2, SiteAssumption
  <2>4. j \in 1..(k - 1)
    BY <1>1, <2>1, <2>2, <2>3
  <2> QED BY <2>1, <2>4 DEF Sweep, Gapless
<1>5. CASE Mark.end = 0
  <2>1. UsableOf(j) = {}
    BY <1>1, <1>2, <1>5, UsableEntries
  <2> QED BY <2>1 DEF Archived
<1> QED BY <1>3, <1>4, <1>5, MarkIs

LEMMA BringingStep ==
  ASSUME Base, Sweep, Selecting, Bringing, ~ByName, [LibraryNext]_libraryVars
  PROVE  Bringing' /\ Gapless(arrived)'
<1>1. Run \/ Stop \/ Around
  BY LibrarySteps
<1>2. \A j : Archived(j) => Archived(j)'
  BY <1>1, ArchivedStays
<1>3. CASE BeginFetch
  <2>1. todo' = Wanted /\ arrived' = arrived /\ Wanted \subseteq 1..listed
    BY <1>3 DEF BeginFetch, vars, Wanted
  <2>2. ASSUME NEW i \in Wanted, NEW j \in 1..(i - 1), j \notin arrived, j \notin Wanted
        PROVE  Archived(j)'
    <3>1. j \in 1..listed
      BY <2>1, Listed
    <3> QED BY <1>2, <2>2, <3>1, LeftOut
  <2>3. Bringing'
    BY <2>1, <2>2 DEF Bringing
  <2> QED BY <1>2, <2>1, <2>3 DEF Sweep, Gapless
<1>4. CASE FetchFile
  <2>1. PICK i \in todo : /\ \A j \in todo : i <= j
                          /\ todo' = todo \ {i} /\ arrived' = arrived \cup {i}
    BY <1>4 DEF FetchFile
  <2>2. Bringing'
    BY <1>2, <2>1 DEF Bringing
  <2>3. \A j \in 1..(i - 1) : j \in arrived' \/ Archived(j)'
    <3>1. i \in Nat /\ \A j \in 1..(i - 1) : j < i
      BY Listed DEF Selecting
    <3> QED BY <1>2, <2>1, <3>1 DEF Bringing
  <2>4. \A k \in arrived : \A j \in 1..(k - 1) : j \in arrived' \/ Archived(j)'
    BY <1>2, <2>1 DEF Sweep, Gapless
  <2> QED BY <2>1, <2>2, <2>3, <2>4 DEF Gapless
<1>5. CASE ~BeginFetch /\ ~FetchFile
  <2>1. arrived' = arrived /\ (todo' = todo \/ todo' = {})
    BY <1>5 DEF LibraryNext, Fetch, libraryVars, fetchVars, vars, Publish, RefuseFetch, EndFetch,
                StopFetch, LeaveFetch, Tick, Run, Stop, Refuse, Begin, FinalizeExpired, Forget,
                PlanNothing, Plan, SkipEntry, CopyEntry, DropWork, CloseWork, PublishWork,
                RemoveOld, SaveState
  <2> QED BY <1>2, <2>1 DEF Bringing, Sweep, Gapless
<1> QED BY <1>3, <1>4, <1>5

\* In a lineage whose keys are ids, nothing that fetch brought is dropped, although
\* fetch goes by the ranges that rollup moves, and rollup by those that fetch fills.
THEOREM LibraryDropsNothing == ASSUME ~ByName PROVE LibrarySpec => []NothingDropped
<1>1. LibraryInit => Sweep /\ Bringing
  BY SweepInit DEF LibraryInit, Bringing
<1>2. Base /\ Selecting /\ Sweep /\ Bringing /\ [LibraryNext]_libraryVars => Sweep' /\ Bringing'
  BY LibrarySteps, BringingStep, SweepStep
<1>3. Sweep => NothingDropped
  BY DEF Sweep, Passed, NothingDropped
<1> QED BY <1>1, <1>2, <1>3, SelectingInvariant, LibraryInvariance, PTL DEF LibrarySpec
=============================================================================
