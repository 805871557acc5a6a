------------------------------ MODULE Dataset -------------------------------
(* A dataset, from both sides: how merge makes its header and its records
   (library/metadata.go, cmd/metabib/dataset_record.go), and what the commands that
   read it accept (jsonl/stream.go).  A record keeps where it comes from, what was
   observed, and the observations its claims, identities and checksums refer to. *)
EXTENDS AliasIndex, FiniteSets

\* DatasetFor: archives is a sequence of [id, entries].
Header(database, archives, records) ==
  [database |-> database, archives |-> archives, records |-> records,
   ordering |-> IF archives = <<>> THEN "database_book_id" ELSE "archive_entry"]

Observation(id, source, status) == [id |-> id, source |-> source, status |-> status]

\* appendDatabaseObservation: also when the database has no such book.
DatabaseObservation(match) ==
  Observation("db", "database", IF match = NoMatch THEN "absent" ELSE "present")

\* appendFB2Observation: what is not there is observed only of an FB2 entry.
FB2Observations(rec, archive) ==
  IF rec.fb2 = "present" THEN <<Observation("fb2", archive, "present")>>
  ELSE IF rec.ext = "fb2" THEN <<Observation("fb2", archive, rec.fb2)>> ELSE <<>>

SidecarObservations(rec, archive) ==
  IF rec.sidecar THEN <<Observation("fbd", archive, "present")>> ELSE <<>>

Refers(id, condition) == IF condition THEN {id} ELSE {}

\* datasetRecordFromRecordWithMatch, for a record of an archive.
ArchiveRecord(rec, archive, match) ==
  [locator |-> [kind |-> "archive_entry", source |-> archive, index |-> rec.index],
   match |-> match,
   observations |->
     <<Observation("archive", archive, "present"), DatabaseObservation(match)>>
     \o FB2Observations(rec, archive) \o SidecarObservations(rec, archive),
   refers |-> {"archive"} \cup Refers("db", match # NoMatch)
     \cup Refers("fb2", rec.fb2 = "present") \cup Refers("fbd", rec.sidecar)]

\* The same, for a record of a database manifest.
DatabaseRecord(rec) ==
  [locator |-> [kind |-> "database_book", source |-> "database", index |-> rec.id],
   match |-> NoMatch,
   observations |-> <<Observation("db", "database", "present")>>,
   refers |-> {"db"}]

-----------------------------------------------------------------------------
(* The reader: DatasetValues *)

ArchiveIDs(header) == {header.archives[i].id : i \in DOMAIN header.archives}
Ordinal(header, id) == CHOOSE i \in DOMAIN header.archives : header.archives[i].id = id
Entries(header, id) == header.archives[Ordinal(header, id)].entries

\* validateDatasetHeader and validateDatasetOrdering.
HeaderAccepted(header) ==
  /\ header.records >= 0
  /\ Cardinality(ArchiveIDs(header)) = Len(header.archives)
  /\ header.ordering = "archive_entry" => header.archives # <<>>

\* validateSource and validateArchiveIndex.
SourceAccepted(header, observation, index) ==
  IF observation.source = "database" THEN header.database
  ELSE observation.source \in ArchiveIDs(header) /\ index < Entries(header, observation.source)

RecordAccepted(header, rec) ==
  LET ids == {rec.observations[i].id : i \in DOMAIN rec.observations} IN
  /\ Cardinality(ids) = Len(rec.observations)
  /\ \A i \in DOMAIN rec.observations :
       SourceAccepted(header, rec.observations[i], rec.locator.index)
  /\ rec.refers \subseteq ids

\* datasetOrderValidator: within the declared order, equals allowed.
InOrder(header, a, b) ==
  IF header.ordering = "database_book_id" THEN a.index <= b.index
  ELSE LET i == Ordinal(header, a.source)  j == Ordinal(header, b.source)
       IN i < j \/ (i = j /\ a.index <= b.index)

LocatorAccepted(header, locator) ==
  IF header.ordering = "database_book_id"
  THEN locator.kind = "database_book" /\ locator.source = "database"
  ELSE locator.kind = "archive_entry" /\ locator.source \in ArchiveIDs(header)

\* A dataset is read to its end without an error.
Accepted(dataset) ==
  LET header == dataset.header  records == dataset.records IN
  /\ HeaderAccepted(header) /\ Len(records) = header.records
  /\ \A i \in DOMAIN records :
       LocatorAccepted(header, records[i].locator) /\ RecordAccepted(header, records[i])
  /\ \A i \in DOMAIN records \ {1} :
       InOrder(header, records[i - 1].locator, records[i].locator)
=============================================================================
