----------------------------- MODULE InpxExport -----------------------------
(* The INPX commands (Generate in mhlinpx, flibinpx and sliceinpx): a merged dataset is
   streamed, record by record, into files beside the outputs, which then replace them
   one after the other.  A command is run again under the same output names when the
   dataset of a dump is merged again; it may fail or be stopped at every step. *)
EXTENDS MhlWriter, FlibWriter, SliceWriter, Compilations

CONSTANTS
  Datasets,      \* the datasets there may be at first
  Remerged,      \* the datasets a later merge may bring
  Tools,         \* of {"mhl", "flib", "slice"}
  Fingerprints,  \* are the datasets made with fingerprints of the bodies?
  MaxRuns,       \* bound: how often the command is run
  MaxStops       \* bound: how often it fails or is stopped

ASSUME ExportBounds == Fingerprints \in BOOLEAN /\ MaxRuns \in Nat /\ MaxStops \in Nat
ASSUME ExportOptions ==
  /\ Tools \subseteq {"mhl", "flib", "slice"} /\ Contents \subseteq {"fb2", "usr", "all"}
  /\ Preferences \subseteq {"ignore", "complement", "merge", "replace"}
ASSUME ExportDatasets ==
  \A archives \in Datasets \cup Remerged :
    /\ archives \in Seq(Range(archives))
    /\ \A a \in DOMAIN archives : archives[a].files \in Seq(DOMAIN File)

VARIABLES
  dataset,       \* the archives of the dataset under the input's name
  input,         \* the dataset that the run has opened: its archives and its records
  options,       \* the command, and what was asked of it
  pc,            \* the step of the run
  read,          \* how many records it has read
  writer,        \* what it has written
  run, stops,
  index, notes, compilations    \* the outputs, each with the run it is of

vars == <<dataset, input, options, pc, read, writer, run, stops, index, notes, compilations>>
outputs == <<index, notes, compilations>>

NoOutput == [run |-> 0, parts |-> <<>>]
Input(archives) == [archives |-> archives, records |-> Records(archives)]
Options == [tool : Tools, content : Contents, preference : Preferences]

Init ==
  /\ dataset \in Datasets /\ input = Input(dataset) /\ options \in Options
  /\ pc = "idle" /\ read = 0 /\ writer = NewWriter /\ run = 0 /\ stops = 0
  /\ index = [run |-> 0, of |-> input, parts |-> <<>>] /\ notes = NoOutput
  /\ compilations = [run |-> 0, found |-> {}]

\* Annotations and compilations are made for datasets with archives, by two of the tools.
Additional == options.tool # "mhl" /\ input.archives # <<>>
Compiling == Additional /\ Fingerprints

\* Another merge publishes a dataset.  A run goes on with the file it has opened, so
\* nothing is left out if this is only done between two.
Remerge ==
  /\ pc = "idle" /\ run \in 1..(MaxRuns - 1) /\ dataset' \in Remerged \ {dataset}
  /\ UNCHANGED <<input, options, pc, read, writer, run, stops, index, notes, compilations>>

\* inpx refuses a dataset without archives.
Begin ==
  /\ pc = "idle" /\ run < MaxRuns /\ (options.tool = "slice" => dataset # <<>>)
  /\ pc' = "writing" /\ run' = run + 1 /\ read' = 0 /\ writer' = NewWriter
  /\ input' = Input(dataset)
  /\ UNCHANGED <<dataset, options, stops, outputs>>

Written(r) ==
  CASE options.tool = "mhl" -> MhlRecord(input.archives, writer, r, options)
    [] options.tool = "flib" -> FlibRecord(writer, r, options, Additional, Compiling)
    [] options.tool = "slice" -> SliceRecord(writer, r, options, Additional, Compiling)
WriteRecord ==
  /\ pc = "writing" /\ read < Len(input.records)
  /\ read' = read + 1 /\ writer' = Written(input.records[read + 1])
  /\ UNCHANGED <<dataset, input, options, pc, run, stops, outputs>>

Finish ==
  /\ pc = "writing" /\ read = Len(input.records)
  /\ writer' = IF options.tool = "mhl" THEN FinishedActive(input.archives, writer) ELSE writer
  /\ pc' = "index"
  /\ UNCHANGED <<dataset, input, options, read, run, stops, outputs>>

Replace(step, next) ==
  /\ pc = step /\ pc' = next /\ UNCHANGED <<dataset, input, options, read, writer, run, stops>>
ReplaceIndex ==
  /\ Replace("index", IF Additional THEN "notes" ELSE "idle")
  /\ index' = [run |-> run, of |-> input, parts |-> writer.inp]
  /\ UNCHANGED <<notes, compilations>>
ReplaceNotes ==
  /\ Replace("notes", IF Compiling THEN "compilations" ELSE "idle")
  /\ notes' = [run |-> run, parts |-> writer.notes]
  /\ UNCHANGED <<index, compilations>>

\* Without a compilation there is nothing to replace the old file with: it stays.
ReplaceCompilations ==
  /\ Replace("compilations", "idle")
  /\ LET found == CompilationsOf(writer.books)
     IN  compilations' = IF found = {} THEN compilations ELSE [run |-> run, found |-> found]
  /\ UNCHANGED <<index, notes>>

\* What is not yet in place is removed.
Stop ==
  /\ pc # "idle" /\ stops < MaxStops
  /\ stops' = stops + 1 /\ pc' = "idle"
  /\ UNCHANGED <<dataset, input, options, read, writer, run, outputs>>

Next ==
  \/ Remerge \/ Begin \/ WriteRecord \/ Finish
  \/ ReplaceIndex \/ ReplaceNotes \/ ReplaceCompilations \/ Stop

Spec == Init /\ [][Next]_vars

-----------------------------------------------------------------------------
(* Properties *)

\* The lines of a record in a part of the INPX, and the parts that have any.
IsLineOf(l, r) == l.kind = "book" /\ l.archive = r.archive /\ l.index = r.index
LinesOf(r, part) == Keep(part.lines, {l \in Range(part.lines) : IsLineOf(l, r)})
PartsWith(r) == {p \in DOMAIN index.parts : LinesOf(r, index.parts[p]) # <<>>}

\* What the options ask the INPX to list of a record: the series of its lines.
Asked(r) ==
  IF ~MatchesContent(r, options.content) \/ ~Titled(r) THEN <<>>
  ELSE CASE options.tool = "mhl" -> <<MhlSeries(r, options.preference)>>
         [] options.tool = "flib" -> Series(r, options.preference)
         [] options.tool = "slice" -> KeptSeries(r, options)

Told(a, i) ==
  \E r \in Range(input.records) :
    {q \in Range(input.records) : q.archive = a /\ i \in {q.index} \cup q.volumes} = {r}
EntriesOf(a) == Considered(input.archives[a].files, input.archives[a].scope)
AstrayIn(a) == Astray(input.archives[a].files, input.archives[a].scope)

\* Every entry that its archive's scope takes for a book is a record or a volume of
\* exactly one (archiveEntries, coalesceNestedVolumes); but a volume of what is itself
\* taken for a volume of another is in none.
EntriesTold ==
  \A a \in DOMAIN input.archives : \A i \in EntriesOf(a) : Told(a, i) \/ i \in AstrayIn(a)

\* Every record that is asked for has its lines, in one part of the INPX and in their
\* order; no other has any (the three WriteRecord).
RecordsListed ==
  index.run > 0 =>
    \A r \in Range(index.of.records) :
      /\ Asked(r) = <<>> => PartsWith(r) = {}
      /\ Asked(r) # <<>> => \E p \in DOMAIN index.parts :
           LET lines == LinesOf(r, index.parts[p])
           IN  PartsWith(r) = {p} /\ [k \in DOMAIN lines |-> lines[k].series] = Asked(r)

\* From an archive to the INPX no book is lost or listed twice: what a build takes for a
\* book is told of by one record, and what is asked for of a record has its lines.
BooksListed == EntriesTold /\ RecordsListed

\* MyHomeLib finds a book by the place of its line: every .inp that mhl-inpx writes has
\* one line for every entry of its archive but directories and backups, in their order.
LinesAligned ==
  options.tool = "mhl" =>
    \A p \in DOMAIN index.parts :
      LET part == index.parts[p]  files == index.of.archives[part.of].files
      IN  part.of # Online =>
            [k \in DOMAIN part.lines |-> part.lines[k].index] =
              Keep(Positions(files), {k \in DOMAIN files : ~InventoryIgnores(files, k)})

\* Two persons of the database that an INPX lists are never shown under one name; but
\* books whose entry and whose catalogue disagree on FB2 are not considered, and names
\* that are taken from files cannot be told apart.
Judged(r) ==
  /\ InDatabase(r) /\ ~FileAuthors(r, options.preference) /\ PartsWith(r) # {}
  /\ r.archive # Online => (IsFB2(r.name) <=> Typed(r.book, "fb2"))
AnyLine(r) == LinesOf(r, index.parts[CHOOSE p \in PartsWith(r) : TRUE])[1]
Shown(r) == {<<Book[r.book].authors[k], AnyLine(r).authors[k]>> : k \in DOMAIN Book[r.book].authors}
AuthorsToldApart ==
  LET judged == {r \in Range(index.of.records) : Judged(r)}
  IN  \A x, y \in UNION {Shown(r) : r \in judged} : x[1] # y[1] => x[2] # y[2]

\* What an output beside the INPX tells is of the books in that INPX, if both are of one
\* run: per archive the annotations of its listed books, in their order, and compilations
\* of listed books.  An INPX is never older than what lies beside it.
InIndex(archive, name) ==
  \E r \in Range(index.of.records) : r.archive = archive /\ r.name = name /\ PartsWith(r) # {}
NamesNoted(a) ==
  IF Holds(notes.parts, a) THEN (CHOOSE q \in Range(notes.parts) : q.of = a).lines ELSE <<>>
ToBeNoted(a) ==
  Keep(index.of.records,
       {r \in Range(index.of.records) : r.archive = a /\ Annotated(r) /\ PartsWith(r) # {}})
OutputsAgree ==
  /\ notes.run <= index.run /\ compilations.run <= index.run
  /\ notes.run = index.run /\ index.run > 0 =>
       /\ \A p, q \in DOMAIN notes.parts : notes.parts[p].of = notes.parts[q].of => p = q
       /\ \A a \in DOMAIN index.of.archives :
            LET noted == ToBeNoted(a) IN NamesNoted(a) = [k \in DOMAIN noted |-> noted[k].name]
  /\ compilations.run = index.run =>
       \A c \in compilations.found :
         InIndex(c.archive, c.name) /\ \A q \in c.parts : InIndex(q.archive, q.name)
=============================================================================
