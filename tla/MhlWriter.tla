----------------------------- MODULE MhlWriter ------------------------------
(* mhl-inpx: the INPX of MyHomeLib, which finds a book by the place of its line
   (streamINPXWriter in mhlinpx/inpx.go).  A record of an archive that has none so far
   leaves a dummy line. *)
EXTENDS InpxInput

Dummy(w, i) == [kind |-> "dummy", archive |-> w.active, index |-> i]
Dummies(w, indexes) == [k \in DOMAIN indexes |-> Dummy(w, indexes[k])]
AppendLines(w, lines) == [w EXCEPT !.inp[Len(w.inp)].lines = @ \o lines]

IgnoresEntry(archives, w, i) == w.active # Online /\ InventoryIgnores(archives[w.active].files, i)

\* writeMissing for what lies between: lines, or still to be written.
FillTo(archives, w, index) ==
  LET passed == [k \in 1..(index - w.place) |-> w.place + k - 1]
      missing == Keep(passed, {i \in w.place..(index - 1) : ~IgnoresEntry(archives, w, i)})
      moved == [w EXCEPT !.place = index]
  IN  IF w.open THEN AppendLines(moved, Dummies(w, missing)) ELSE [moved EXCEPT !.pending = @ \o missing]

\* Mutant: what was to be written is forgotten when the .inp is opened.
OpenedBare(w) ==
  [w EXCEPT !.open = TRUE, !.pending = <<>>, !.inp = Append(@, Part(w.active, <<>>))]
Opened(w) ==
  IF w.open THEN w
  ELSE [w EXCEPT !.open = TRUE, !.pending = <<>>,
                 !.inp = Append(@, Part(w.active, Dummies(w, w.pending)))]

\* finishActive: the rest of the entries; an archive without a record gets no .inp.
FinishedActive(archives, w) ==
  LET filled == IF w.active \in {NoArchive, Online} THEN w
                ELSE FillTo(archives, w, Len(archives[w.active].files) + 1)
  IN  [filled EXCEPT !.active = NoArchive, !.open = FALSE, !.pending = <<>>]

AdvancedTo(archives, w, target) ==
  IF w.active = target THEN w
  ELSE [FinishedActive(archives, w) EXCEPT !.active = target, !.place = 1]

\* One line, with the first series; merging, the file's comes before the database's.
MhlSeries(r, preference) ==
  Head(Series(r, IF preference = "merge" THEN "replace" ELSE preference))
MhlLine(w, r, options) ==
  IF Titled(r) THEN Line(r, MhlSeries(r, options.preference), options) ELSE Dummy(w, r.index)

\* WriteRecord.  What is in no archive has the next place of its own.
MhlRecord(archives, w, r, options) ==
  IF ~MatchesContent(r, options.content) THEN w
  ELSE LET at == AdvancedTo(archives, w, r.archive)
           index == IF r.archive = Online THEN at.place ELSE r.index
           there == FillTo(archives, at, index)
           written == IF IgnoresEntry(archives, there, index) THEN there
                      ELSE AppendLines(Opened(there), <<MhlLine(there, r, options)>>)
       IN  [written EXCEPT !.place = index + 1]
=============================================================================
