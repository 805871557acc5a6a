---------------------------- MODULE AuthorNames -----------------------------
(* How INPX tells authors of one name apart (internal/inpxutil/
   author_disambiguation.go, authors.go): the import of the database collects the
   names that several persons share, for all books, for FB2 and for the others, and
   an INPX puts a suffix to the names that are shared in its content. *)
EXTENDS Subsequences, FiniteSets, Functions

CONSTANTS
  Book,      \* the books of the database: type, authors (persons), series, annotated
  Name,      \* per person (a number) the name of the author
  Nick       \* per person the nickname, or NoNick

ASSUME AuthorPersons ==
  /\ Name \in Seq(Range(Name)) /\ DOMAIN Nick = DOMAIN Name
  /\ \A b \in DOMAIN Book : Book[b].authors \in Seq(DOMAIN Name)

NoNick == "none"
NoSuffix == <<>>

\* RecordIsFB2Content judges a book by its type in the catalogue, as the import does.
Typed(book, content) ==
  CASE content = "fb2" -> Book[book].type = "fb2"
    [] content = "usr" -> Book[book].type # "fb2"
    [] content = "all" -> TRUE

Contributors(content) ==
  UNION {Range(Book[b].authors) : b \in {c \in DOMAIN Book : Typed(c, content)}}

\* The persons of one name among the contributors.
Namesakes(person, content) == {p \in Contributors(content) : Name[p] = Name[person]}

\* Mutant: names are told apart within FB2 and within the rest only.
ScopedGroup(person, content) ==
  IF content # "all" THEN Namesakes(person, content)
  ELSE IF person \in Contributors("fb2") THEN Namesakes(person, "fb2") ELSE Namesakes(person, "usr")
Group(person, content) == Namesakes(person, content)
Ambiguous(person, content) ==
  person \in Contributors(content) /\ Cardinality(Group(person, content)) >= 2

-----------------------------------------------------------------------------
(* NewAuthorDisambiguator: a group's persons, one after the other *)

ByNick(p) == <<"nick", Nick[p]>>
ByNickAndId(p) == <<"nick", Nick[p], p>>
ById(p) == <<"id", p>>

Candidates(p, group) ==
  LET alone == Nick[p] # NoNick /\ \A q \in group \ {p} : Nick[q] # Nick[p]
  IN  IF alone THEN <<ByNick(p), ByNickAndId(p), ById(p)>>
      ELSE IF Nick[p] # NoNick THEN <<ById(p), ByNickAndId(p), ById(p)>>
      ELSE <<ById(p)>>

\* The first candidate that no one of the group has been given, or else the number.
Choose(p, group, given) ==
  LET free == {k \in DOMAIN Candidates(p, group) : Candidates(p, group)[k] \notin Range(given)}
  IN  IF free = {} THEN ById(p)
      ELSE Candidates(p, group)[CHOOSE k \in free : \A l \in free : k <= l]

GroupSuffixes(group) ==
  LET order == Keep(Positions(Name), group)
      given[n \in 0..Len(order)] ==
        IF n = 0 THEN [q \in {} |-> NoSuffix]
        ELSE LET before == given[n - 1]
             IN  [q \in DOMAIN before \cup {order[n]} |->
                    IF q = order[n] THEN Choose(q, group, before) ELSE before[q]]
  IN  given[Len(order)]

Suffix(person, content) ==
  IF Ambiguous(person, content) THEN GroupSuffixes(Group(person, content))[person] ELSE NoSuffix
Displayed(person, content) == <<Name[person], Suffix(person, content)>>
=============================================================================
