----------------------------- MODULE AliasIndex -----------------------------
(* The index merge makes over the records of the database manifest
   (loadDatabaseIndex in cmd/metabib/main.go), and how a record of an archive
   manifest finds its book in it.  A name is a tuple: its stem, and its extension
   where it has one.  Stems are numbers; the ones in Titles stand for words. *)
EXTENDS Integers, Sequences, SequencesExt

CONSTANTS Titles     \* the stems that are not written with digits

NoBook == 0
NoIndex == [byID |-> <<>>, byFile |-> <<>>, ambiguous |-> {}]

\* recordFileCandidates: the bare stem first, and what the name is followed by.
Candidates(rec) ==
  <<<<rec.stem>>>> \o (IF rec.ext = "" THEN <<>> ELSE <<<<rec.stem, rec.ext>>>>) \o rec.aliases

\* numericFileKey
Number(name) == IF Len(name) = 1 /\ name[1] \notin Titles THEN name[1] ELSE NoBook

\* skipDatabaseFileKey: a bare stem counts if no extension is known, or if it is the id.
Skipped(rec, name) == rec.ext # "" /\ name = <<rec.stem>> /\ Number(name) # rec.id
FileKeys(rec) == {name \in Range(Candidates(rec)) : ~Skipped(rec, name)}

\* The first pass over the records: the last one of an id stays.
IndexIDs(records) ==
  [id \in {rec.id : rec \in Range(records)} |->
     records[CHOOSE i \in DOMAIN records :
               records[i].id = id /\ \A j \in DOMAIN records : records[j].id = id => j <= i]]

Deleted(byID, id) == id \in DOMAIN byID /\ byID[id].deleted
Joined(byID, id) == id \in DOMAIN byID /\ byID[id].joined

\* resolveDatabaseFileCollision: a book that is not deleted wins over one that is, and
\* with the same state one that was joined over one that was not.
Wins(byID, a, b) ==
  \/ Deleted(byID, b) /\ ~Deleted(byID, a)
  \/ (Deleted(byID, a) <=> Deleted(byID, b)) /\ Joined(byID, a) /\ ~Joined(byID, b)

Own(index, names, id) ==
  [index EXCEPT !.byFile = [n \in DOMAIN @ \cup names |-> IF n \in names THEN id ELSE @[n]]]
Disown(index, names) ==
  [index EXCEPT !.byFile = [n \in DOMAIN @ \ names |-> @[n]]]

\* Mutant: that names were ambiguous is forgotten.
AmbiguousForgotten(index, names) == Disown(index, names)

MakeAmbiguous(index, names) == [Disown(index, names) EXCEPT !.ambiguous = @ \cup names]

\* addDatabaseFile, for every name of a record: it gets the names that nobody owns and
\* those whose owner it wins over; where neither wins, the name is nobody's for good.
AddFiles(index, rec) ==
  LET named == FileKeys(rec) \ index.ambiguous
      owned == named \cap DOMAIN index.byFile
      taken == {name \in owned : Wins(index.byID, rec.id, index.byFile[name])}
      tied == {name \in owned \ taken : /\ index.byFile[name] # rec.id
                                        /\ ~Wins(index.byID, index.byFile[name], rec.id)}
  IN MakeAmbiguous(Own(index, (named \ owned) \cup taken, rec.id), tied)

\* The second pass: the names of every record, in the order of the manifest.
IndexFiles(index, records) ==
  LET after[n \in 0..Len(records)] ==
        IF n = 0 THEN index ELSE AddFiles(after[n - 1], records[n])
  IN after[Len(records)]

-----------------------------------------------------------------------------
(* Which book a record of an archive gets: [book, method] *)

NoMatch == [book |-> NoBook, method |-> "none"]
Known(index, name) ==
  name \in DOMAIN index.byFile /\ index.byFile[name] \in DOMAIN index.byID
FirstOf(index, names) == index.byFile[names[1]]

\* preferredConflictingFilenameAlias: a longer name that belongs to another book.
Conflicting(rec, index) ==
  SelectSeq(Candidates(rec), LAMBDA name :
    name # <<rec.stem>> /\ Known(index, name) /\ index.byFile[name] # rec.id)
Aliases(rec, index) == SelectSeq(Candidates(rec), LAMBDA name : Known(index, name))

Alias(id) == [book |-> id, method |-> "filename_alias"]

Match(rec, index) ==
  IF rec.id # NoBook /\ rec.id \in DOMAIN index.byID
  THEN IF Conflicting(rec, index) # <<>>
       THEN Alias(FirstOf(index, Conflicting(rec, index)))
       ELSE [book |-> rec.id, method |-> "numeric_entry_stem"]
  ELSE IF Aliases(rec, index) # <<>>
       THEN Alias(FirstOf(index, Aliases(rec, index)))
       ELSE NoMatch
=============================================================================
