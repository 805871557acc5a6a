----------------------------- MODULE InpxInput ------------------------------
(* What the three INPX commands read (internal/inpxutil): the records of a merged
   dataset in their order, and what each command takes from a record.  A dataset is a
   sequence of archives, [files, scope], or, without archives, the books of the database. *)
EXTENDS ArchiveListing, AuthorNames, SequencesExt

CONSTANTS
  Catalogue,      \* the books of the database in its order
  Preferences,    \* of {"ignore", "complement", "merge", "replace"}: prefer_fb2
  Contents        \* of {"fb2", "usr", "all"}: content

NoBook == "none"
NoSeries == "none"
Online == 0           \* the archive of what is in no archive

ASSUME InputBooks ==
  /\ Catalogue \in Seq(DOMAIN Book) /\ NoBook \notin DOMAIN Book
  /\ \A b \in DOMAIN Book : Book[b].series \in Seq(Range(Book[b].series))
  /\ \A n \in DOMAIN File : /\ File[n].book \in DOMAIN Book \cup {NoBook}
                           /\ File[n].series \in Seq(Range(File[n].series))

Record(archive, index, name, book, sidecar, volumes) ==
  [archive |-> archive, index |-> index, name |-> name, book |-> book,
   sidecar |-> sidecar, volumes |-> volumes]

ArchiveRecords(archives, a) ==
  LET files == archives[a].files  scope == archives[a].scope  listed == Listed(files, scope)
  IN  [k \in DOMAIN listed |->
         LET i == listed[k]
         IN  Record(a, i, files[i], File[files[i]].book, HasSidecar(files, scope, i),
                   VolumesOf(files, scope, i))]

\* An archive's entries, or all books of a dataset that is of the database alone.
Records(archives) ==
  IF archives = <<>>
  THEN [k \in DOMAIN Catalogue |-> Record(Online, k, NoBook, Catalogue[k], FALSE, {})]
  ELSE FlattenSeq([a \in DOMAIN archives |-> ArchiveRecords(archives, a)])

InDatabase(r) == r.book # NoBook
Described(r) == r.archive # Online /\ (File[r.name].described \/ r.sidecar)

\* RecordMatchesContent: an entry is judged by its name, a book without one by its type.
MatchesContent(r, content) ==
  CASE content = "all" -> TRUE
    [] r.archive = Online -> Typed(r.book, content)
    [] OTHER -> IsFB2(r.name) <=> content = "fb2"

\* PrepareRecordFields gives nothing without a title.
Titled(r) == InDatabase(r) \/ Described(r)

Preferred(ofDatabase, ofFile, preference) ==
  LET Either(a, b) == IF a # <<>> THEN a ELSE b
  IN  CASE preference = "ignore" -> ofDatabase
        [] preference = "complement" -> Either(ofDatabase, ofFile)
        [] preference = "merge" -> ofDatabase \o ofFile
        [] preference = "replace" -> Either(ofFile, ofDatabase)

\* RecordSequences: a line for each series, or one without.
Series(r, preference) ==
  LET ofDatabase == IF InDatabase(r) THEN Book[r.book].series ELSE <<>>
      ofFile == IF Described(r) THEN File[r.name].series ELSE <<>>
      chosen == Preferred(ofDatabase, ofFile, preference)
      new == {k \in DOMAIN chosen : \A j \in 1..(k - 1) : chosen[j] # chosen[k]}
      first == Keep(Positions(chosen), new)
  IN  IF chosen = <<>> THEN <<NoSeries>> ELSE [k \in DOMAIN first |-> chosen[first[k]]]

\* AuthorsString: the database's authors, told apart, or those the file names.
FileAuthors(r, preference) ==
  Described(r) /\ File[r.name].authors # <<>> /\ (preference = "replace" \/ ~InDatabase(r))
Authors(r, preference, content) ==
  IF FileAuthors(r, preference)
  THEN [k \in DOMAIN File[r.name].authors |-> <<File[r.name].authors[k], NoSuffix>>]
  ELSE IF InDatabase(r)
  THEN [k \in DOMAIN Book[r.book].authors |-> Displayed(Book[r.book].authors[k], content)]
  ELSE <<>>

\* RecordAnnotation: is there one, whosever it is?
Annotated(r) ==
  (InDatabase(r) /\ Book[r.book].annotated) \/ (Described(r) /\ File[r.name].annotated)

Line(r, series, options) ==
  [kind |-> "book", archive |-> r.archive, index |-> r.index, series |-> series,
   authors |-> Authors(r, options.preference, options.content)]
Body(r) == [archive |-> r.archive, name |-> r.name, sections |-> File[r.name].sections]

-----------------------------------------------------------------------------
(* What is being written: .inp files, folders of annotations, books for compilations *)

NoArchive == -1
NewWriter ==
  [active |-> NoArchive, open |-> FALSE,   \* the archive that is written, and has it a .inp?
   place |-> 1, pending |-> <<>>,          \* mhl-inpx: the next entry, the lines held back
   inp |-> <<>>, notes |-> <<>>, books |-> <<>>]

Holds(parts, name) == \E k \in DOMAIN parts : parts[k].of = name
Part(name, lines) == [of |-> name, lines |-> lines]
AddTo(parts, name, lines) ==
  IF Holds(parts, name)
  THEN [k \in DOMAIN parts |->
          IF parts[k].of = name THEN Part(name, parts[k].lines \o lines) ELSE parts[k]]
  ELSE Append(parts, Part(name, lines))
=============================================================================
