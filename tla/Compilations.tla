---------------------------- MODULE Compilations ----------------------------
(* Which books of an INPX consist of others (CompilationCollector in
   internal/inpxutil/compilation.go).  A book is a file with the sections of its body
   in their order, each with its depth, a key of its text, and whether it is a leaf. *)
EXTENDS Subsequences, FiniteSets, Functions

Section(depth, key, leaf) == [depth |-> depth, key |-> key, leaf |-> leaf]

\* compilationSectionTree: one root, and no section deeper than below its predecessor.
IsTree(s) ==
  /\ s # <<>> /\ s[1].depth = 0
  /\ \A i \in 2..Len(s) : s[i].depth \in 1..(s[i - 1].depth + 1)
Root(book) == book.sections[1].key

\* The sections a section lies in, but the root.
Around(s, i) ==
  {j \in 2..(i - 1) : s[j].depth < s[i].depth /\ \A k \in (j + 1)..i : s[k].depth > s[j].depth}

Matches(books, key) == {b \in Range(books) : Root(b) = key}

\* The walk goes into a section if it repeats the root, or is not a leaf and no book.
Entered(books, s, i) == s[i].key = s[1].key \/ (Matches(books, s[i].key) = {} /\ ~s[i].leaf)
Reached(books, s) ==
  {i \in 2..Len(s) : s[i].key # s[1].key /\ \A j \in Around(s, i) : Entered(books, s, j)}
Found(books, s) == {i \in Reached(books, s) : Matches(books, s[i].key) # {}}
Keys(s, found) == {s[i].key : i \in found}

Parts(books, s) ==
  LET found == Found(books, s)
      Part(i) == Cardinality(Keys(s, {j \in found : j < i}))
  IN  UNION {{[part |-> Part(i), archive |-> b.archive, name |-> b.name] :
                b \in Matches(books, s[i].key)} : i \in found}

Compilation(books, owner) ==
  LET s == owner.sections
  IN  [archive |-> owner.archive, name |-> owner.name, parts |-> Parts(books, s),
       covered |-> \A i \in Reached(books, s) : s[i].leaf => i \in Found(books, s)]

\* A book in which at least two others are found.
IsCompilation(books, book) == Cardinality(Keys(book.sections, Found(books, book.sections))) >= 2

\* Write: the file's contents; none if there is none to tell of.
CompilationsOf(collected) ==
  LET books == Keep(collected, {b \in Range(collected) : IsTree(b.sections)})
  IN  {Compilation(books, b) : b \in {c \in Range(books) : IsCompilation(books, c)}}
=============================================================================
