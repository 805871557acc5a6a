--------------------------- MODULE ArchiveListing ---------------------------
(* What a build lists of an archive (archiveEntries and coalesceNestedVolumes in
   library/process.go).  An archive is a sequence of names; File tells what the code
   reads off a name. *)
EXTENDS Subsequences, FiniteSets, FiniteSetsExt

CONSTANTS
  File      \* per name: its kind, the key it pairs with a sidecar by, and, if it is a
            \* RAR or 7z file, its name without the ending, and its volume: the name
            \* without the number as well, and the number

Unnumbered == -1
Kinds == {"dir", "backup", "hidden", "sidecar", "fb2", "nested fb2", "rar", "7z", "other"}

ASSUME ListingFiles ==
  \A n \in DOMAIN File : File[n].kind \in Kinds /\ File[n].number \in Nat \cup {Unnumbered}

IsFB2(name) == File[name].kind \in {"fb2", "nested fb2"}
IsIgnored(name) == File[name].kind \in {"dir", "backup", "hidden"}

\* The entries a scope takes for books: .fb2 files, or everything that holds no FB2.
InScope(name, scope) ==
  /\ ~IsIgnored(name) /\ File[name].kind # "sidecar"
  /\ scope = "fb2" => File[name].kind = "fb2"
  /\ scope = "usr" => ~IsFB2(name)
Considered(files, scope) == {i \in DOMAIN files : InScope(files[i], scope)}

\* An FBD sidecar describes the last entry with its name, if it is the only such sidecar.
HasSidecar(files, scope, i) ==
  LET Paired(j) == File[files[j]].pair = File[files[i]].pair
  IN  /\ scope = "usr"
      /\ \A j \in Considered(files, scope) : Paired(j) => j <= i
      /\ Cardinality({j \in DOMAIN files : File[files[j]].kind = "sidecar" /\ Paired(j)}) = 1

-----------------------------------------------------------------------------
(* Multi-volume files: all but the first volume are continuations *)

IsVolume(name) == File[name].kind \in {"rar", "7z"}
Number(files, i) == File[files[i]].number
SameGroup(files, i, j) == File[files[i]].group = File[files[j]].group
Numbered(files, scope) ==
  {i \in Considered(files, scope) : IsVolume(files[i]) /\ Number(files, i) # Unnumbered}

\* name1.rar beside name.rar; of several entries with that name the last one counts.
RootsByName(files, scope, i) ==
  {j \in Considered(files, scope) : File[files[j]].kind = "rar" /\ File[files[j]].stem = File[files[i]].group}
\* Mutant: every entry with the name is the root of its volumes.
PairsWithEvery(files, scope) ==
  {p \in Considered(files, scope) \X Numbered(files, scope) :
     p[1] # p[2] /\ File[files[p[2]]].kind = "rar" /\ p[1] \in RootsByName(files, scope, p[2])}
NamedPairs(files, scope) ==
  {p \in Considered(files, scope) \X Numbered(files, scope) :
     LET roots == RootsByName(files, scope, p[2])
     IN  /\ File[files[p[2]]].kind = "rar" /\ p[1] # p[2]
         /\ p[1] \in roots /\ \A j \in roots : j <= p[1]}

\* name1, name2, ...: at least two, from 0 or 1 on, without a gap.
NumberedSets(files, scope) ==
  LET Group(i) == {j \in Numbered(files, scope) : SameGroup(files, i, j)}
      Numbers(g) == {Number(files, j) : j \in g}
  IN  {g \in {Group(i) : i \in Numbered(files, scope)} :
         /\ Cardinality(g) >= 2 /\ Min(Numbers(g)) <= 1
         /\ Max(Numbers(g)) - Min(Numbers(g)) = Cardinality(g) - 1
         /\ Cardinality(Numbers(g)) = Cardinality(g)}
First(files, g) == CHOOSE i \in g : \A j \in g : Number(files, i) <= Number(files, j)

NumberedPairs(files, scope) ==
  UNION {{First(files, g)} \X (g \ {First(files, g)}) : g \in NumberedSets(files, scope)}

\* Who continues whom; a continuation by name is not one by number as well.
Continuations(files, scope) ==
  LET named == NamedPairs(files, scope)
  IN  named \cup {p \in NumberedPairs(files, scope) : \A q \in named : q[2] # p[2]}
Skipped(files, scope) == {p[2] : p \in Continuations(files, scope)}
VolumesOf(files, scope, i) == {p[2] : p \in {q \in Continuations(files, scope) : q[1] = i}}

\* The entries that become records, in the order of the archive.
Listed(files, scope) ==
  Keep(Positions(files), Considered(files, scope) \ Skipped(files, scope))

\* Volumes of what is itself taken for a volume: they are in no record.
Astray(files, scope) ==
  LET skipped == Skipped(files, scope)
  IN  {p[2] : p \in {q \in Continuations(files, scope) : q[1] \in skipped}}

\* The inventory of a dataset knows of directories and backups only (archiveMetadata).
InventoryIgnores(files, i) == File[files[i]].kind \in {"dir", "backup"}
=============================================================================
