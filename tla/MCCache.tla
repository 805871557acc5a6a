------------------------------- MODULE MCCache ------------------------------
(* An archive of three versions that changes its scope and comes back to it, of which the second
   has an older date than the first; dumps of two tables, in two sets that share
   a date with neither, a directory caught between the two, and one without the
   second table. *)
EXTENDS Cache, TLC

Setting(parse, nested) == [parse |-> parse, nested |-> nested]
MCSettings == {Setting(TRUE, FALSE), Setting(TRUE, TRUE)}
MCTime == <<-1, -2, 0>>
MCScope == <<"fb2", "usr", "fb2">>

DumpSet(book, author) == ("libbook" :> book) @@ ("libavtor" :> author)
MCFirstDumps == DumpSet(1, 1)
MCDumpSets == {DumpSet(1, 1), DumpSet(2, 2), DumpSet(2, 3), ("libbook" :> 2)}
MCDumpTime == <<0, -1, -2>>
MCDeclared == <<1, 1, 2>>
=============================================================================
