------------------------------ MODULE Library -------------------------------
(* fetch and rollup over one library (Run in fetch/fetch.go, Rollup): the library's
   site lists its updates, fetch brings what is newer than the highest range it
   finds in its directory, and rollup archives it.  Both are run again and again,
   also at once; they share nothing but the directories, which may be one. *)
EXTENDS Rollup

CONSTANTS Layouts      \* of {"apart", "together"}: where fetch brings the updates

\* The site lists the updates in the order of their ranges.
ASSUME SiteAssumption ==
  \A i, j \in DOMAIN Updates : i < j => Updates[i].last <= Updates[j].last

VARIABLES
  layout,        \* "together": fetch --to is the directory of the archives
  listed,        \* how many updates the site lists, in the order of their ranges
  todo,          \* the run of fetch: the updates it has selected and not brought
  fetching,      \* a run of fetch is under way
  answer         \* how the last run of fetch ended

fetchVars == <<layout, listed, todo, fetching, answer>>
libraryVars == <<vars, fetchVars>>

LibraryInit ==
  /\ Init /\ layout \in Layouts
  /\ listed = 0 /\ todo = {} /\ fetching = FALSE /\ answer = "none"

\* The library publishes another update.
Publish ==
  /\ listed < Len(Updates) /\ listed' = listed + 1
  /\ UNCHANGED <<vars, layout, todo, fetching, answer>>

-----------------------------------------------------------------------------
(* What fetch takes for there *)

Interval(begin, end, daily) == [begin |-> begin, end |-> end, daily |-> daily]
NoInterval == Interval(0, 0, FALSE)

\* classifyArchiveRangeName: the ranges in the names, of updates and, if they are in
\* the same directory, of finalized archives.
IntervalsThere ==
  {Interval(Updates[i].first, Updates[i].last, TRUE) : i \in arrived} \cup
  {Interval(f.begin, f.end, FALSE) : f \in IF layout = "together" THEN OfKind(files, "zip") ELSE {}}

\* The highest range; of two that end alike the update, whose name sorts first.
Highest ==
  LET Before(a, b) == a.end > b.end \/ (a.end = b.end /\ (a.daily \/ ~b.daily))
  IN  IF IntervalsThere = {} THEN NoInterval
      ELSE CHOOSE r \in IntervalsThere : \A s \in IntervalsThere : Before(r, s)

ActiveThere == IF layout = "together" THEN OfKind(files, "merging") ELSE {}

\* getArchiveHighWater fails: an active archive must agree with the highest range.
FetchRefused ==
  \/ Cardinality(ActiveThere) > 1
  \/ \E active \in ActiveThere : Mismatched(Highest, active)

Mark ==
  IF ActiveThere = {} THEN Highest
  ELSE LET active == MergeArchive(files) IN Interval(active.begin, active.end, FALSE)

\* archiveLinks: what is listed above the mark, or at it if an update that ends there
\* is not there itself.
Wanted ==
  {i \in 1..listed : \/ Mark.end < Updates[i].last
                     \/ Mark.end = Updates[i].last /\ Mark.daily /\ i \notin arrived}

-----------------------------------------------------------------------------
(* A run of fetch *)

RefuseFetch ==
  /\ ~fetching /\ FetchRefused /\ answer' = "refused"
  /\ UNCHANGED <<vars, layout, listed, todo, fetching>>

BeginFetch ==
  /\ ~fetching /\ ~FetchRefused /\ listed > 0
  /\ fetching' = TRUE /\ todo' = Wanted
  /\ UNCHANGED <<vars, layout, listed, answer>>

\* One file after the other, in the order of the page; Download is what brings one.
FetchFile ==
  /\ fetching /\ \E i \in todo :
       /\ \A j \in todo : i <= j
       /\ todo' = todo \ {i} /\ arrived' = arrived \cup {i}
  /\ UNCHANGED <<files, state, clock, policy, pc, job, outcome, stops, torn,
                 layout, listed, fetching, answer>>

LeaveFetch(how) == fetching' = FALSE /\ todo' = {} /\ answer' = how

EndFetch ==
  /\ fetching /\ todo = {} /\ LeaveFetch("done")
  /\ UNCHANGED <<vars, layout, listed>>

\* A file cannot be brought, or the run is interrupted or killed: what it brought stays.
StopFetch ==
  /\ fetching /\ stops < MaxStops /\ stops' = stops + 1 /\ LeaveFetch("stopped")
  /\ UNCHANGED <<files, state, arrived, clock, policy, pc, job, outcome, torn, layout, listed>>

Fetch == RefuseFetch \/ BeginFetch \/ FetchFile \/ EndFetch

LibraryNext ==
  \/ Publish \/ Fetch \/ StopFetch
  \/ (Run \/ Stop \/ Tick) /\ UNCHANGED fetchVars

\* Both commands are run again and again; nothing else is certain to happen.
LibrarySpec ==
  /\ LibraryInit /\ [][LibraryNext]_libraryVars
  /\ WF_libraryVars(Run /\ UNCHANGED fetchVars) /\ WF_libraryVars(Fetch)

-----------------------------------------------------------------------------
(* Properties *)

\* Every update the site lists is archived in the end, whatever stops either program
\* and however their runs overlap, unless a run of rollup left the archives torn, or
\* fetch refuses the directory that it shares with an active archive.
EventuallyArchived ==
  []<>((\A i \in 1..listed : Archived(i)) \/ torn \/ FetchRefused)
=============================================================================
