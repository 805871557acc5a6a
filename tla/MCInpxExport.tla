---------------------------- MODULE MCInpxExport ----------------------------
EXTENDS InpxExport

\* Persons 1, 2 and 3 share a name, 2 and 3 also a nickname, and so do 4 and 5 a name;
\* 3 and 5 wrote no FB2 book.
MCName == <<"Ivanov", "Ivanov", "Ivanov", "Petrov", "Petrov">>
MCNick == <<NoNick, "poet", "poet", NoNick, NoNick>>
B(type, authors, series, annotated) ==
  [type |-> type, authors |-> authors, series |-> series, annotated |-> annotated]
MCBook ==
  [anthology |-> B("fb2", <<1, 4>>, <<"saga", "cycle">>, TRUE),
   novel |-> B("fb2", <<2>>, <<>>, FALSE),
   atlas |-> B("pdf", <<3, 5>>, <<"cycle">>, TRUE)]
MCCatalogue == <<"anthology", "novel", "atlas">>

Plain(kind, pair) ==
  [kind |-> kind, pair |-> pair, stem |-> pair, group |-> pair, number |-> Unnumbered, book |-> NoBook,
   described |-> FALSE, authors |-> <<>>, series |-> <<>>, annotated |-> FALSE, sections |-> <<>>]
Volume(kind, stem, group, n) == [Plain(kind, stem) EXCEPT !.group = group, !.number = n]
MCFile ==
  [anthology |-> [Plain("fb2", "anthology") EXCEPT !.book = "anthology", !.described = TRUE,
                  !.series = <<"saga">>, !.sections =
                    <<Section(0, "A", FALSE), Section(1, "N", TRUE), Section(1, "P", FALSE),
                      Section(2, "T", TRUE)>>],
   novel |-> [Plain("fb2", "novel") EXCEPT !.book = "novel", !.described = TRUE, !.authors = <<"Ivanov">>,
              !.annotated = TRUE, !.sections = <<Section(0, "N", TRUE)>>],
   tale |-> [Plain("fb2", "tale") EXCEPT !.described = TRUE, !.series = <<"cycle", "saga", "cycle">>,
             !.annotated = TRUE, !.sections = <<Section(0, "T", TRUE)>>],
   atlas |-> [Plain("other", "atlas") EXCEPT !.book = "atlas"],
   map |-> [Plain("other", "map") EXCEPT !.annotated = TRUE],
   mapnotes |-> Plain("sidecar", "map"),
   tome |-> Plain("rar", "tome"), tome1 |-> Volume("rar", "tome1", "tome", 1),
   tome2 |-> Volume("rar", "tome2", "tome", 2),
   Tome |-> Plain("rar", "tome"), book |-> Plain("rar", "book_"),
   book1 |-> Volume("rar", "book1_", "book_", 1), book12 |-> Volume("rar", "book1_2", "book1_", 2),
   folder |-> Plain("dir", "folder"), backup |-> Plain("backup", "backup"),
   hidden |-> Plain("hidden", "hidden")]

MCSplitBy == [s \in {"saga", "cycle", NoSeries} |-> IF s = "cycle" THEN "cycle" ELSE "other"]
MCWhere == {"saga", "cycle"}

\* The archives of FB2 and of the others: every order of three entries, of some sets of
\* them; tome.rar in two spellings; and a chain, in which book1_.rar continues book_.rar,
\* and book1_2.rar that.
Orders(names) == {s \in [1..3 -> names] : IsInjective(s)}
FB2Orders == Orders({"anthology", "novel", "tale"}) \cup Orders({"anthology", "tale", "backup"})
UsrOrders == Orders({"map", "mapnotes", "tome1", "tome2"}) \cup Orders({"tome", "tome1", "tome2"})
Spellings == {<<"Tome", "tome1", "tome">>, <<"tome1", "tome", "Tome">>}
Chains == {<<"book12", "book", "book1">>}
Archive(scope, files) == [scope |-> scope, files |-> files]
OtherFB2 == Archive("fb2", <<"hidden", "novel", "tale">>)
OtherUsr == Archive("usr", <<"atlas", "folder", "tome2", "tome1">>)
MCDatasets ==
  {<<Archive("fb2", s), OtherUsr>> : s \in FB2Orders}
    \cup {<<OtherFB2, Archive("usr", s)>> : s \in UNION {UsrOrders, Spellings, Chains}}
    \cup {<<>>}
MCRemerged == {<<OtherFB2, OtherUsr>>}
=============================================================================
