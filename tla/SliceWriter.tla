---------------------------- MODULE SliceWriter -----------------------------
(* inpx: an INPX of selected lines, split as a template says (streamINPXWriter and
   annotationCollector in sliceinpx/inpx.go). *)
EXTENDS InpxInput

CONSTANTS
  Where,     \* the series whose lines the filter keeps
  SplitBy    \* per series, the name of the entry its lines go to

KeptSeries(r, options) == Keep(Series(r, options.preference), Where)
Selected(r, options) == Titled(r) /\ KeptSeries(r, options) # <<>>

SliceLines(r, options) ==
  LET series == KeptSeries(r, options)
  IN  [k \in DOMAIN series |-> Line(r, series[k], options)]

\* openSplit: a book's lines stay together, where its first line belongs.
SplitOf(r, options) == SplitBy[Head(KeptSeries(r, options))]

\* Mutant: annotations are collected before the filter.
SliceNotesUnfiltered(r, options) == Titled(r) /\ Annotated(r)
SliceNotes(r, options) == Selected(r, options) /\ Annotated(r)

\* WriteRecord: only what is in an archive has a line here.
SliceRecord(w, r, options, additional, compiling) ==
  IF ~MatchesContent(r, options.content) \/ r.archive = Online THEN w
  ELSE [w EXCEPT
          !.inp = IF Selected(r, options)
                  THEN AddTo(@, SplitOf(r, options), SliceLines(r, options)) ELSE @,
          !.notes = IF additional /\ SliceNotes(r, options)
                    THEN AddTo(@, r.archive, <<r.name>>) ELSE @,
          !.books = IF compiling /\ Selected(r, options) THEN Append(@, Body(r)) ELSE @]
=============================================================================
