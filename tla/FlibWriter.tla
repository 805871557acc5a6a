----------------------------- MODULE FlibWriter -----------------------------
(* flib-inpx: the INPX of FLibrary, with folders of annotations and the books for
   compilations beside it (streamINPXWriter in flibinpx/inpx.go). *)
EXTENDS InpxInput

FlibFinishedActive(w) == [w EXCEPT !.active = NoArchive, !.open = FALSE]
FlibAdvancedTo(w, target) ==
  IF w.active = target THEN w ELSE [FlibFinishedActive(w) EXCEPT !.active = target]

\* ensureActiveWriter: the .inp of the archive, and with it its folder.
FlibOpened(w, additional) ==
  IF w.open THEN w
  ELSE [w EXCEPT !.open = TRUE, !.inp = Append(@, Part(w.active, <<>>)),
                 !.notes = IF additional THEN Append(@, Part(w.active, <<>>)) ELSE @]

IntoFolder(w, r) ==
  IF Annotated(r) THEN [w EXCEPT !.notes[Len(w.notes)].lines = Append(@, r.name)] ELSE w

FlibLines(r, options) ==
  LET series == Series(r, options.preference)
  IN  [k \in DOMAIN series |-> Line(r, series[k], options)]

\* WriteRecord: what has no title leaves nothing.
FlibRecord(w, r, options, additional, compiling) ==
  IF ~MatchesContent(r, options.content) THEN w
  ELSE LET at == FlibAdvancedTo(w, r.archive)
           there == FlibOpened(at, additional)
           noted == IF additional THEN IntoFolder(there, r) ELSE there
           added == IF compiling THEN [noted EXCEPT !.books = Append(@, Body(r))] ELSE noted
       IN  IF ~Titled(r) THEN at
           ELSE [added EXCEPT !.inp[Len(added.inp)].lines = @ \o FlibLines(r, options)]
=============================================================================
