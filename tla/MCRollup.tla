------------------------------ MODULE MCRollup ------------------------------
(* Small libraries for Rollup: updates that overlap, one with an empty entry and
   one without a numeric name, whose entries finalize an archive in the middle of
   an update; two formats of one book; an archive directory that is empty or
   holds an archive below the target. *)
EXTENDS Rollup

Book(id, bytes) == [id |-> id, form |-> 1, bytes |-> bytes]
Format(id, form, bytes) == [id |-> id, form |-> form, bytes |-> bytes]

\* Updates of the lineage fb2.
MCUpdates == <<
  [first |-> 1, last |-> 2, entries |-> <<Book(2, 1), Book(1, 1)>>],
  [first |-> 2, last |-> 4, entries |-> <<Book(2, 1), Book(4, 0), Book(0, 1), Book(3, 1)>>],
  [first |-> 4, last |-> 6, entries |-> <<Book(4, 2), Book(5, 1), Book(6, 1)>>],
  [first |-> 7, last |-> 8, entries |-> <<Book(7, 1), Book(8, 3)>>]>>

MCShortUpdates == <<
  [first |-> 1, last |-> 2, entries |-> <<Book(1, 1), Book(2, 1)>>],
  [first |-> 2, last |-> 3, entries |-> <<Book(2, 1), Book(3, 1)>>],
  [first |-> 4, last |-> 4, entries |-> <<Book(4, 1)>>]>>

\* Updates of the lineage usr.
MCFormats == <<
  [first |-> 1, last |-> 2, entries |-> <<Format(1, 1, 1), Format(2, 1, 2), Format(2, 2, 1)>>],
  [first |-> 3, last |-> 4, entries |-> <<Format(3, 1, 1), Format(3, 2, 1), Format(4, 1, 2)>>]>>

Small == [ext |-> "zip", begin |-> 1, end |-> 1, bytes |-> 1, entries |-> <<Book(1, 1)>>]
Full == [ext |-> "zip", begin |-> 1, end |-> 1, bytes |-> 3, entries |-> <<Book(1, 3)>>]
Active == [ext |-> "merging", begin |-> 2, end |-> 2, bytes |-> 1, entries |-> <<Book(2, 1)>>]
MCLibraries == {{}, {Small}, {Full, Active}}
MCPeriodLibraries == {{}, {Small}}
MCEmptyLibrary == {{}}
=============================================================================
