---------------------------- MODULE MergeProofs -----------------------------
(* Theorems about Merge, for any archives, any versions of them and of the database
   manifest, and any number of runs and replacements.  The invariant says what a
   dataset that is being written holds of the archives that were merged so far; an
   induction over the records of a manifest, who owns a file name. *)
EXTENDS Merge, FiniteSetTheorems, SequenceTheorems, TLAPS

-----------------------------------------------------------------------------
(* The inductive invariant. *)

\* The names of the archives in a header are those of archives, each once.
HeaderSound(header) ==
  /\ header = Header(header.database, header.archives, header.records)
  /\ header.archives \in Seq([id : Archives, entries : Nat])
  /\ \A p, q \in DOMAIN header.archives : header.archives[p].id = header.archives[q].id => p = q
  /\ header.archives = <<>> => header.database

\* Every observation has a name of its own, and only those are referred to.
ObservedOnce(rec) ==
  LET ids == {rec.observations[i].id : i \in DOMAIN rec.observations} IN
  Cardinality(ids) = Len(rec.observations) /\ rec.refers \subseteq ids

ObservedIn(rec, sources) ==
  \A i \in DOMAIN rec.observations : rec.observations[i].source \in sources

\* A record of one of the first archives of the header.
FromArchive(dataset, rec, done) ==
  \E p \in 1..done :
    LET archived == dataset.header.archives[p] IN
    /\ rec.locator.kind = "archive_entry" /\ rec.locator.source = archived.id
    /\ rec.locator.index \in Nat
    /\ dataset.fits => rec.locator.index < archived.entries
    /\ ObservedIn(rec, {archived.id, "database"})

FromDatabase(rec) ==
  /\ rec.locator.kind = "database_book" /\ rec.locator.source = "database"
  /\ rec.locator.index \in Int /\ ObservedIn(rec, {"database"})

\* What a dataset is when the first archives of its header were merged.
DatasetSound(dataset, done) ==
  LET header == dataset.header  records == dataset.records IN
  /\ dataset = [header |-> header, records |-> records, fits |-> dataset.fits]
  /\ HeaderSound(header) /\ dataset.fits \in BOOLEAN /\ records \in Seq(Range(records))
  /\ done \in 0..Len(header.archives)
  /\ \A i \in DOMAIN records :
       /\ ObservedOnce(records[i])
       /\ IF header.archives = <<>> THEN FromDatabase(records[i]) ELSE FromArchive(dataset, records[i], done)
  /\ \A i, j \in DOMAIN records : i < j => InOrder(header, records[i].locator, records[j].locator)
  /\ \A p \in 1..done :
       LET a == header.archives[p].id IN
       \E v \in DOMAIN ArchiveVersions[a] : HoldsEntries(records, a, ArchiveVersions[a][v].records)

\* What is there, in the directories and in the database's.
WorldSound ==
  /\ archive \in [Archives -> Nat] /\ manifest \in [Archives -> Nat]
  /\ \A a \in Archives : /\ archive[a] \in DOMAIN ArchiveVersions[a]
                         /\ manifest[a] \in DOMAIN ArchiveVersions[a] \cup {Missing}
  /\ dbManifest \in DOMAIN DatabaseVersions \cup {Missing}

Writing == {"ids", "files", "database", "archives", "commit"}

\* The archives that are still to be merged have manifests.
PlanSound ==
  pc \in Writing \cup {"declare"} =>
    /\ plan = [archives |-> plan.archives, counts |-> plan.counts, database |-> plan.database]
    /\ plan.archives \in Seq(Archives)
    /\ \A i, j \in DOMAIN plan.archives : plan.archives[i] = plan.archives[j] => i = j
    /\ \A i \in DOMAIN plan.archives : manifest[plan.archives[i]] # Missing
    /\ pc = "declare" => plan.database \/ plan.archives # <<>>

\* How many of the archives in the header were merged.
Done == Len(staged.header.archives) - Len(plan.archives)

\* What is staged is sound as far as it goes, and the rest of the plan follows.
StagedSound ==
  /\ pc \in Writing =>
       /\ DatasetSound(staged, Done)
       /\ \A i \in DOMAIN plan.archives : plan.archives[i] = staged.header.archives[Done + i].id
  /\ pc \in {"ids", "files", "database"} => staged.records = <<>>
  /\ pc \in {"ids", "files"} => staged.header.archives # <<>>
  /\ pc = "database" => staged.header.archives = <<>>
  /\ pc = "commit" => plan.archives = <<>> /\ CountMatches(staged)

\* What is published was merged to its end.
OutputSound ==
  output # NoFile => DatasetSound(output, Len(output.header.archives)) /\ CountMatches(output)

IInv == WorldSound /\ PlanSound /\ StagedSound /\ OutputSound

-----------------------------------------------------------------------------
(* Lemmas on sequences and on what the commands are given. *)

IsSequence(s) == s \in Seq(Range(s))

LEMMA SequenceFacts ==
  ASSUME NEW s, IsSequence(s)
  PROVE  /\ Len(s) \in Nat /\ DOMAIN s = 1..Len(s)
         /\ \A i \in 1..Len(s) : s[i] \in Range(s)
BY LenProperties DEF IsSequence

\* A sequence of elements of a set is one of its own elements.
LEMMA IsSequenceOf ==
  ASSUME NEW S, NEW s \in Seq(S)
  PROVE  IsSequence(s)
BY SeqDef DEF IsSequence, Range

LEMMA SequenceOf ==
  ASSUME NEW S, NEW n \in Nat, NEW f \in [1..n -> S]
  PROVE  f \in Seq(S) /\ Len(f) = n /\ DOMAIN f = 1..n
<1>1. f \in Seq(S)
  BY SeqDef
<1>2. DOMAIN f = 1..Len(f) /\ Len(f) \in Nat
  BY <1>1, LenProperties
<1> QED BY <1>1, <1>2

LEMMA ShortSequences ==
  /\ IsSequence(<<>>) /\ Len(<<>>) = 0
  /\ \A x : IsSequence(<<x>>) /\ Len(<<x>>) = 1 /\ <<x>>[1] = x
  /\ \A x, y : IsSequence(<<x, y>>) /\ Len(<<x, y>>) = 2 /\ <<x, y>>[1] = x /\ <<x, y>>[2] = y
<1>1. \A x : <<x>> \in Seq({x}) /\ Len(<<x>>) = 1 /\ <<x>>[1] = x
  OBVIOUS
<1>2. \A x, y : <<x, y>> \in Seq({x, y}) /\ Len(<<x, y>>) = 2 /\ <<x, y>>[1] = x /\ <<x, y>>[2] = y
  OBVIOUS
<1>3. IsSequence(<<>>) /\ Len(<<>>) = 0
  BY EmptySeq DEF IsSequence
<1> QED BY <1>1, <1>2, <1>3, IsSequenceOf

LEMMA Concatenation ==
  ASSUME NEW s, NEW t, IsSequence(s), IsSequence(t)
  PROVE  /\ IsSequence(s \o t) /\ Len(s \o t) = Len(s) + Len(t)
         /\ \A i \in 1..Len(s) : (s \o t)[i] = s[i]
         /\ \A i \in 1..Len(t) : (s \o t)[Len(s) + i] = t[i]
<1> DEFINE S == Range(s) \cup Range(t)
<1>1. s \in Seq(S) /\ t \in Seq(S)
  BY SeqMonotonic DEF IsSequence
<1>2. /\ s \o t \in Seq(S) /\ Len(s \o t) = Len(s) + Len(t)
      /\ \A i \in 1..Len(s) + Len(t) : (s \o t)[i] = IF i <= Len(s) THEN s[i] ELSE t[i - Len(s)]
  BY <1>1, ConcatProperties
<1>3. Len(s) \in Nat /\ Len(t) \in Nat
  BY SequenceFacts
<1>4. IsSequence(s \o t)
  BY <1>2, IsSequenceOf
<1>5. /\ \A i \in 1..Len(s) : (s \o t)[i] = s[i]
      /\ \A i \in 1..Len(t) : (s \o t)[Len(s) + i] = t[i]
  <2> HIDE DEF S
  <2> QED BY <1>2, <1>3
<1> QED BY <1>2, <1>4, <1>5

\* The elements of a sequence without repetition are as many as it is long.
LEMMA DistinctCardinality ==
  ASSUME NEW n \in Nat, NEW f, DOMAIN f = 1..n, \A i, j \in 1..n : f[i] = f[j] => i = j
  PROVE  Cardinality({f[i] : i \in 1..n}) = n
<1> DEFINE T == {f[i] : i \in 1..n}
<1> DEFINE g == [i \in 1..n |-> f[i]]
<1>1. g \in Bijection(1..n, T)
  <2>1. g \in [1..n -> T] /\ \A i \in 1..n : g[i] = f[i]
    OBVIOUS
  <2>2. \A t \in T : \E i \in 1..n : g[i] = t
    BY <2>1
  <2> HIDE DEF g, T
  <2>3. \A i, j \in 1..n : g[i] = g[j] => i = j
    BY <2>1
  <2> QED BY <2>1, <2>2, <2>3 DEF Bijection, Injection, Surjection, IsInjective
<1>2. ExistsBijection(1..n, T)
  BY <1>1 DEF ExistsBijection
<1> QED BY <1>2, FS_CountingElements

\* A set that holds 0, and with every number below n the next, holds all up to n.
LEMMA UpTo ==
  ASSUME NEW n \in Nat, NEW T, 0 \in T, \A i \in 0..n : i \in T /\ i < n => i + 1 \in T
  PROVE  0..n \subseteq T
<1> DEFINE Below(i) == {j \in 0..n : j < i}
           D == {Below(i) : i \in (0..n) \ T}
           R == StrictSubsetOrdering(0..n)
<1>1. \A i \in 0..n : Below(i) \in SUBSET (0..n)
  OBVIOUS
<1>2. \A i, j \in 0..n : i < j => Below(i) \subseteq Below(j) /\ Below(i) # Below(j)
  <2> TAKE i \in 0..n, j \in 0..n
  <2>1. i < j => Below(i) \subseteq Below(j)
    OBVIOUS
  <2>2. i < j => i \in Below(j) /\ i \notin Below(i)
    OBVIOUS
  <2> QED BY <2>1, <2>2
<1> HIDE DEF Below
<1>3. D \subseteq FiniteSubsetsOf(0..n)
  <2>1. IsFiniteSet(0..n)
    BY FS_Interval
  <2>2. FiniteSubsetsOf(0..n) = SUBSET (0..n)
    BY <2>1, FS_FiniteSubsetsOfFinite
  <2> QED BY <1>1, <2>2
<1>4. SUFFICES ASSUME D # {} PROVE FALSE
  OBVIOUS
<1>5. \E x \in D : \A y \in D : ~ (<<y, x>> \in R)
  <2> HIDE DEF D, R
  <2>1. IsWellFoundedOn(StrictSubsetOrdering(0..n), FiniteSubsetsOf(0..n))
    BY FS_StrictSubsetOrderingWellFounded
  <2> QED BY <1>3, <1>4, <2>1, WFMin DEF R
<1>6. PICK i \in (0..n) \ T : \A j \in (0..n) \ T : ~ (<<Below(j), Below(i)>> \in R)
  BY <1>5
<1>7. \A j \in (0..n) \ T : ~ (j < i)
  <2> SUFFICES ASSUME NEW j \in (0..n) \ T, j < i PROVE FALSE
    OBVIOUS
  <2>1. <<Below(j), Below(i)>> \in StrictSubsetOrdering(0..n)
    BY <1>1, <1>2 DEF StrictSubsetOrdering
  <2> QED BY <1>6, <2>1
<1>8. i # 0 /\ i - 1 \in 0..n
  OBVIOUS
<1>9. i - 1 \in T
  BY <1>7, <1>8
<1> QED BY <1>8, <1>9

LEMMA ManifestFacts ==
  ASSUME NEW a \in Archives
  PROVE  /\ 1 \in DOMAIN ArchiveVersions[a] /\ DOMAIN ArchiveVersions[a] \subseteq Nat \ {Missing}
         /\ \A v \in DOMAIN ArchiveVersions[a] :
              LET entries == ArchiveVersions[a][v].entries  records == ArchiveVersions[a][v].records IN
              /\ entries \in Nat /\ IsSequence(records)
              /\ \A i \in DOMAIN records : records[i].index \in Nat /\ records[i].index < entries
              /\ \A i, j \in DOMAIN records : i < j => records[i].index <= records[j].index
<1> DEFINE versions == ArchiveVersions[a]
<1>1. versions \in Range(ArchiveVersions)
  BY MergeArchives DEF Archives, Range
<1>2. IsSequence(versions) /\ versions # <<>>
  BY <1>1, ArchiveManifests DEF IsSequence
<1>3. DOMAIN versions = 1..Len(versions) /\ Len(versions) \in Nat \ {0}
  BY <1>2, EmptySeq, SequenceFacts DEF IsSequence
<1>4. \A v \in DOMAIN versions :
        LET entries == versions[v].entries  records == versions[v].records IN
        /\ entries \in Nat /\ IsSequence(records)
        /\ \A i \in DOMAIN records : records[i].index \in 0..(entries - 1)
        /\ \A i, j \in DOMAIN records : i < j => records[i].index <= records[j].index
  BY <1>1, ArchiveManifests DEF IsSequence
<1> QED BY <1>3, <1>4 DEF Missing

LEMMA DatabaseFacts ==
  /\ 1 \in DOMAIN DatabaseVersions
  /\ WorldSound => /\ IsSequence(DatabaseRecords)
                   /\ \A i \in DOMAIN DatabaseRecords : DatabaseRecords[i].id \in Int
                   /\ \A i, j \in DOMAIN DatabaseRecords :
                        i < j => DatabaseRecords[i].id <= DatabaseRecords[j].id
<1>1. IsSequence(DatabaseVersions) /\ DatabaseVersions # <<>>
  BY DatabaseManifests DEF IsSequence
<1>2. 1 \in DOMAIN DatabaseVersions
  BY <1>1, EmptySeq, SequenceFacts DEF IsSequence
<1>3. IsSequence(<<>>) /\ DOMAIN <<>> = {}
  <2>1. IsSequence(<<>>)
    BY EmptySeq DEF IsSequence
  <2> QED BY <2>1
<1>4. ASSUME WorldSound
      PROVE  DatabaseRecords = <<>> \/ DatabaseRecords \in Range(DatabaseVersions)
  BY <1>4 DEF WorldSound, DatabaseRecords, Range
<1> QED BY <1>2, <1>3, <1>4, DatabaseManifests DEF IsSequence

\* The names in a header tell its archives apart.
LEMMA OrdinalIs ==
  ASSUME NEW header, HeaderSound(header), NEW p \in DOMAIN header.archives
  PROVE  LET id == header.archives[p].id IN
         Ordinal(header, id) = p /\ Entries(header, id) = header.archives[p].entries
<1>1. Ordinal(header, header.archives[p].id) = p
  BY DEF Ordinal, HeaderSound
<1> QED BY <1>1 DEF Entries

-----------------------------------------------------------------------------
(* The records merge makes. *)

\* The observations of a record of an archive, which have one name each.
LEMMA ArchiveRecordFacts ==
  ASSUME NEW rec, NEW a, NEW match, NEW made, made = ArchiveRecord(rec, a, match)
  PROVE  /\ made.locator = [kind |-> "archive_entry", source |-> a, index |-> rec.index]
         /\ ObservedOnce(made) /\ ObservedIn(made, {a, "database"})
<1> DEFINE A == Observation("archive", a, "present")
           D == DatabaseObservation(match)
           F == FB2Observations(rec, a)
           S == SidecarObservations(rec, a)
<1>1. /\ made.locator = [kind |-> "archive_entry", source |-> a, index |-> rec.index]
      /\ made.observations = <<A, D>> \o F \o S
      /\ made.refers = {"archive"} \cup Refers("db", match # NoMatch)
                       \cup Refers("fb2", rec.fb2 = "present") \cup Refers("fbd", rec.sidecar)
  BY DEF ArchiveRecord
<1>2. made.refers \subseteq {"archive", "db"} \cup (IF rec.fb2 = "present" THEN {"fb2"} ELSE {})
                            \cup (IF rec.sidecar THEN {"fbd"} ELSE {})
  BY <1>1 DEF Refers
<1>3. A.id = "archive" /\ A.source = a /\ D.id = "db" /\ D.source = "database"
  BY DEF Observation, DatabaseObservation
<1>4. \/ F = <<>> /\ rec.fb2 # "present"
      \/ \E f : F = <<f>> /\ f.id = "fb2" /\ f.source = a
  BY DEF FB2Observations, Observation
<1>5. \/ S = <<>> /\ ~rec.sidecar
      \/ \E f : S = <<f>> /\ f.id = "fbd" /\ f.source = a
  BY DEF SidecarObservations, Observation
<1> HIDE DEF A, D, F, S
<1>6. ASSUME NEW n \in Nat, NEW obs, obs = made.observations, DOMAIN obs = 1..n, Len(obs) = n,
             \A i, j \in 1..n : obs[i].id = obs[j].id => i = j,
             \A i \in 1..n : obs[i].source \in {a, "database"},
             \A id \in made.refers : \E i \in 1..n : obs[i].id = id
      PROVE  ObservedOnce(made) /\ ObservedIn(made, {a, "database"})
  <2> DEFINE names == [i \in 1..n |-> obs[i].id]
  <2>1. DOMAIN names = 1..n /\ \A i, j \in 1..n : names[i] = names[j] => i = j
    BY <1>6
  <2>2. Cardinality({names[i] : i \in 1..n}) = n
    <3> HIDE DEF names
    <3> QED BY <2>1, DistinctCardinality
  <2>3. {names[i] : i \in 1..n} = {obs[i].id : i \in 1..n}
    OBVIOUS
  <2> HIDE DEF names
  <2>4. {made.observations[i].id : i \in DOMAIN made.observations} = {obs[i].id : i \in 1..n}
    BY <1>6
  <2>5. made.refers \subseteq {obs[i].id : i \in 1..n}
    BY <1>6
  <2>6. ObservedIn(made, {a, "database"})
    BY <1>6 DEF ObservedIn
  <2> QED BY <1>6, <2>2, <2>3, <2>4, <2>5, <2>6 DEF ObservedOnce
<1>7. /\ IsSequence(F) /\ IsSequence(S) /\ IsSequence(<<A, D>>)
      /\ Len(<<A, D>>) = 2 /\ <<A, D>>[1] = A /\ <<A, D>>[2] = D
      /\ Len(F) \in {0, 1} /\ Len(S) \in {0, 1}
      /\ Len(F) = 1 => F[1].id = "fb2" /\ F[1].source = a
      /\ Len(S) = 1 => S[1].id = "fbd" /\ S[1].source = a
      /\ rec.fb2 = "present" => Len(F) = 1
      /\ rec.sidecar => Len(S) = 1
  BY <1>4, <1>5, ShortSequences
<1> DEFINE T == <<A, D>> \o F
           obs == T \o S
<1>8. /\ IsSequence(T) /\ Len(T) = 2 + Len(F) /\ T[1] = A /\ T[2] = D
      /\ Len(F) = 1 => T[3] = F[1]
  <2> HIDE DEF T
  <2>1. /\ IsSequence(T) /\ Len(T) = Len(<<A, D>>) + Len(F)
        /\ \A i \in 1..Len(<<A, D>>) : T[i] = <<A, D>>[i]
        /\ \A i \in 1..Len(F) : T[Len(<<A, D>>) + i] = F[i]
    BY <1>7, Concatenation DEF T
  <2> QED BY <1>7, <2>1
<1> HIDE DEF T
<1>9. /\ IsSequence(obs) /\ Len(obs) = Len(T) + Len(S)
      /\ \A i \in 1..Len(T) : obs[i] = T[i]
      /\ \A i \in 1..Len(S) : obs[Len(T) + i] = S[i]
  BY <1>7, <1>8, Concatenation
<1> HIDE DEF obs
<1>10. DOMAIN obs = 1..Len(obs) /\ Len(obs) \in Nat /\ obs[1] = A /\ obs[2] = D
  BY <1>7, <1>8, <1>9, SequenceFacts
<1>11. \/ Len(obs) = 2 /\ rec.fb2 # "present" /\ ~rec.sidecar
       \/ Len(obs) = 3 /\ obs[3].id = "fb2" /\ obs[3].source = a /\ ~rec.sidecar
       \/ Len(obs) = 3 /\ obs[3].id = "fbd" /\ obs[3].source = a /\ rec.fb2 # "present"
       \/ Len(obs) = 4 /\ obs[3].id = "fb2" /\ obs[3].source = a
                       /\ obs[4].id = "fbd" /\ obs[4].source = a
  <2>1. CASE Len(F) = 0 /\ Len(S) = 0
    BY <1>7, <1>8, <1>9, <2>1
  <2>2. CASE Len(F) = 1 /\ Len(S) = 0
    BY <1>7, <1>8, <1>9, <2>2
  <2>3. CASE Len(F) = 0 /\ Len(S) = 1
    BY <1>7, <1>8, <1>9, <2>3
  <2>4. CASE Len(F) = 1 /\ Len(S) = 1
    BY <1>7, <1>8, <1>9, <2>4
  <2> QED BY <1>7, <2>1, <2>2, <2>3, <2>4
<1>12. \A i \in 1..Len(obs) : obs[i].source \in {a, "database"}
  BY <1>3, <1>10, <1>11
<1>13. \A i, j \in 1..Len(obs) : obs[i].id = obs[j].id => i = j
  <2>1. \A i \in 1..Len(obs) : i \in {1, 2, 3, 4} /\ (i = 4 => Len(obs) = 4) /\ (i = 3 => Len(obs) # 2)
    <3>1. Len(obs) = 2 \/ Len(obs) = 3 \/ Len(obs) = 4
      BY <1>11
    <3> QED BY <1>10, <3>1
  <2>2. Len(obs) # 2 => obs[3].id \in {"fb2", "fbd"}
    BY <1>11
  <2>3. Len(obs) = 4 => obs[3].id = "fb2" /\ obs[4].id = "fbd"
    BY <1>11
  <2>4. obs[1].id = "archive" /\ obs[2].id = "db"
    BY <1>3, <1>10
  <2> QED BY <2>1, <2>2, <2>3, <2>4
<1>14. \A id \in made.refers : \E i \in 1..Len(obs) : obs[i].id = id
  <2>1. 1 \in 1..Len(obs) /\ 2 \in 1..Len(obs)
    BY <1>11
  <2>2. rec.fb2 = "present" => 3 \in 1..Len(obs) /\ obs[3].id = "fb2"
    BY <1>11
  <2>3. rec.sidecar => \E i \in 1..Len(obs) : obs[i].id = "fbd"
    BY <1>11
  <2> QED BY <1>2, <1>3, <1>10, <2>1, <2>2, <2>3
<1>15. made.observations = obs
  BY <1>1 DEF obs, T
<1>16. ObservedOnce(made) /\ ObservedIn(made, {a, "database"})
  BY <1>6, <1>10, <1>12, <1>13, <1>14, <1>15
<1> QED BY <1>1, <1>16

\* The same of a record of the database manifest.
LEMMA DatabaseRecordFacts ==
  ASSUME NEW rec
  PROVE  LET made == DatabaseRecord(rec) IN
         /\ made.locator = [kind |-> "database_book", source |-> "database", index |-> rec.id]
         /\ ObservedOnce(made) /\ ObservedIn(made, {"database"})
<1> DEFINE made == DatabaseRecord(rec)
           D == Observation("db", "database", "present")
<1>1. /\ made.locator = [kind |-> "database_book", source |-> "database", index |-> rec.id]
      /\ made.observations = <<D>> /\ made.refers = {"db"}
  BY DEF DatabaseRecord
<1>2. D.id = "db" /\ D.source = "database"
  BY DEF Observation
<1> HIDE DEF D, made
<1>3. {made.observations[i].id : i \in DOMAIN made.observations} = {"db"}
  BY <1>1, <1>2
<1>4. ObservedOnce(made) /\ ObservedIn(made, {"database"})
  BY <1>1, <1>2, <1>3, FS_Singleton DEF ObservedOnce, ObservedIn
<1> QED BY <1>1, <1>4 DEF made

-----------------------------------------------------------------------------
(* A dataset grows by the records of one archive. *)

\* The records of one manifest of an archive.
RecordsOf(a, v, added) ==
  LET entries == ArchiveVersions[a][v].records IN
  /\ IsSequence(added) /\ Len(added) = Len(entries)
  /\ \A i \in DOMAIN added :
       /\ added[i].locator.kind = "archive_entry" /\ added[i].locator.source = a
       /\ added[i].locator.index = entries[i].index
       /\ ObservedOnce(added[i]) /\ ObservedIn(added[i], {a, "database"})

\* The entries that an archive's records are of stay where they are.
LEMMA EntriesStay ==
  ASSUME NEW records, NEW added, NEW a, NEW entries, IsSequence(records), IsSequence(added),
         IsSequence(entries), HoldsEntries(records, a, entries),
         \A i \in DOMAIN added : added[i].locator.source # a
  PROVE  HoldsEntries(records \o added, a, entries)
<1> DEFINE all == records \o added
<1>1. /\ IsSequence(all) /\ Len(all) = Len(records) + Len(added)
      /\ \A i \in 1..Len(records) : all[i] = records[i]
      /\ \A i \in 1..Len(added) : all[Len(records) + i] = added[i]
  BY Concatenation
<1> HIDE DEF all
<1>2. /\ Len(records) \in Nat /\ Len(added) \in Nat /\ Len(entries) \in Nat
      /\ DOMAIN records = 1..Len(records) /\ DOMAIN added = 1..Len(added)
      /\ DOMAIN entries = 1..Len(entries) /\ DOMAIN all = 1..Len(all)
  BY <1>1, SequenceFacts
<1> PICK first \in 0..(Len(records) - Len(entries)) :
      /\ \A i \in DOMAIN records : records[i].locator.source = a <=> i - first \in DOMAIN entries
      /\ \A i \in DOMAIN entries : records[first + i].locator.index = entries[i].index
  BY DEF HoldsEntries
<1>3. first \in 0..(Len(all) - Len(entries))
  BY <1>1, <1>2
<1>4. ASSUME NEW i \in DOMAIN all PROVE all[i].locator.source = a <=> i - first \in DOMAIN entries
  <2>1. CASE i <= Len(records)
    BY <1>1, <1>2, <2>1
  <2>2. CASE i > Len(records)
    <3>1. i - Len(records) \in 1..Len(added) /\ i = Len(records) + (i - Len(records))
      BY <1>1, <1>2, <2>2
    <3>2. all[i] = added[i - Len(records)]
      BY <1>1, <3>1
    <3>3. i - first \notin DOMAIN entries
      BY <1>2, <2>2
    <3> QED BY <1>2, <3>1, <3>2, <3>3
  <2> QED BY <1>1, <1>2, <2>1, <2>2
<1>5. \A i \in DOMAIN entries : all[first + i].locator.index = entries[i].index
  <2> TAKE i \in DOMAIN entries
  <2>1. first + i \in 1..Len(records)
    BY <1>2
  <2> QED BY <1>1, <2>1
<1>6. HoldsEntries(all, a, entries)
  BY <1>3, <1>4, <1>5 DEF HoldsEntries
<1> QED BY <1>6 DEF all

\* What is added of an archive is together.
LEMMA EntriesAdded ==
  ASSUME NEW records, NEW added, NEW a, NEW entries, IsSequence(records), IsSequence(added),
         IsSequence(entries), Len(added) = Len(entries),
         \A i \in DOMAIN records : records[i].locator.source # a,
         \A i \in DOMAIN added : /\ added[i].locator.source = a
                                 /\ added[i].locator.index = entries[i].index
  PROVE  HoldsEntries(records \o added, a, entries)
<1> DEFINE all == records \o added
<1>1. /\ IsSequence(all) /\ Len(all) = Len(records) + Len(added)
      /\ \A i \in 1..Len(records) : all[i] = records[i]
      /\ \A i \in 1..Len(added) : all[Len(records) + i] = added[i]
  BY Concatenation
<1> HIDE DEF all
<1>2. /\ Len(records) \in Nat /\ Len(added) \in Nat
      /\ DOMAIN records = 1..Len(records) /\ DOMAIN added = 1..Len(added)
      /\ DOMAIN entries = 1..Len(entries) /\ DOMAIN all = 1..Len(all)
  BY <1>1, SequenceFacts
<1>3. Len(records) \in 0..(Len(all) - Len(entries))
  BY <1>1, <1>2
<1>4. ASSUME NEW i \in DOMAIN all
      PROVE  all[i].locator.source = a <=> i - Len(records) \in DOMAIN entries
  <2>1. CASE i <= Len(records)
    BY <1>1, <1>2, <2>1
  <2>2. CASE i > Len(records)
    <3>1. i - Len(records) \in 1..Len(added) /\ i = Len(records) + (i - Len(records))
      BY <1>1, <1>2, <2>2
    <3> QED BY <1>1, <1>2, <3>1
  <2> QED BY <1>1, <1>2, <2>1, <2>2
<1>5. \A i \in DOMAIN entries : all[Len(records) + i].locator.index = entries[i].index
  BY <1>1, <1>2
<1>6. HoldsEntries(all, a, entries)
  BY <1>3, <1>4, <1>5 DEF HoldsEntries
<1> QED BY <1>6 DEF all

\* What is declared of a header's archives.
LEMMA HeaderFacts ==
  ASSUME NEW header, HeaderSound(header)
  PROVE  /\ Len(header.archives) \in Nat /\ DOMAIN header.archives = 1..Len(header.archives)
         /\ \A p \in DOMAIN header.archives :
              header.archives[p].id \in Archives /\ header.archives[p].entries \in Nat
         /\ header.ordering = IF header.archives = <<>> THEN "database_book_id" ELSE "archive_entry"
<1>1. header.archives \in Seq([id : Archives, entries : Nat])
  BY DEF HeaderSound
<1>2. header.ordering = IF header.archives = <<>> THEN "database_book_id" ELSE "archive_entry"
  BY DEF HeaderSound, Header
<1>3. /\ Len(header.archives) \in Nat /\ DOMAIN header.archives = 1..Len(header.archives)
      /\ header.archives \in [1..Len(header.archives) -> [id : Archives, entries : Nat]]
  BY <1>1, LenProperties
<1>4. \A p \in DOMAIN header.archives : header.archives[p] \in [id : Archives, entries : Nat]
  BY <1>3
<1> QED BY <1>2, <1>3, <1>4

\* A record of one of the first archives comes before one of the next.
LEMMA FirstArchives ==
  ASSUME NEW d, NEW rec, NEW done, HeaderSound(d.header), done \in 0..Len(d.header.archives),
         FromArchive(d, rec, done)
  PROVE  /\ Ordinal(d.header, rec.locator.source) \in 1..done
         /\ \A p \in DOMAIN d.header.archives : p > done => rec.locator.source # d.header.archives[p].id
<1> PICK q \in 1..done : rec.locator.source = d.header.archives[q].id
  BY DEF FromArchive
<1>1. q \in DOMAIN d.header.archives
  BY HeaderFacts
<1>2. Ordinal(d.header, rec.locator.source) = q
  BY <1>1, OrdinalIs
<1> QED BY <1>1, <1>2 DEF HeaderSound

LEMMA ArchiveAdded ==
  ASSUME NEW d, NEW p, DatasetSound(d, p - 1), p \in DOMAIN d.header.archives,
         NEW a, a = d.header.archives[p].id, NEW v \in DOMAIN ArchiveVersions[a],
         NEW added, RecordsOf(a, v, added),
         NEW e, e = [header |-> d.header, records |-> d.records \o added,
                     fits |-> d.fits /\ ArchiveVersions[a][v].entries <= Entries(d.header, a)]
  PROVE  DatasetSound(e, p)
<1> DEFINE header == d.header
           version == ArchiveVersions[a][v]
           all == d.records \o added
<1>0. header.archives # <<>>
  BY ShortSequences, SequenceFacts
<1>1. /\ HeaderSound(header) /\ d.fits \in BOOLEAN /\ IsSequence(d.records)
      /\ p - 1 \in 0..Len(header.archives)
      /\ \A i \in DOMAIN d.records : ObservedOnce(d.records[i]) /\ FromArchive(d, d.records[i], p - 1)
      /\ \A i, j \in DOMAIN d.records :
           i < j => InOrder(header, d.records[i].locator, d.records[j].locator)
      /\ \A q \in 1..(p - 1) :
           LET b == header.archives[q].id IN
           \E w \in DOMAIN ArchiveVersions[b] : HoldsEntries(d.records, b, ArchiveVersions[b][w].records)
  <2>1. DatasetSound(d, p - 1) /\ header.archives # <<>>
    BY <1>0
  <2> QED BY <2>1 DEF DatasetSound, IsSequence
<1>2. /\ p \in 1..Len(header.archives) /\ Len(header.archives) \in Nat /\ a \in Archives
      /\ header.archives[p].entries \in Nat /\ header.ordering = "archive_entry"
      /\ Entries(header, a) = header.archives[p].entries /\ Ordinal(header, a) = p
  BY <1>1, HeaderFacts, OrdinalIs
<1>3. /\ version.entries \in Nat /\ IsSequence(version.records)
      /\ \A i \in DOMAIN version.records :
           version.records[i].index \in Nat /\ version.records[i].index < version.entries
      /\ \A i, j \in DOMAIN version.records : i < j => version.records[i].index <= version.records[j].index
  BY <1>2, ManifestFacts
<1>4. /\ IsSequence(added) /\ Len(added) = Len(version.records)
      /\ \A i \in DOMAIN added :
           /\ added[i].locator.kind = "archive_entry" /\ added[i].locator.source = a
           /\ added[i].locator.index = version.records[i].index
           /\ ObservedOnce(added[i]) /\ ObservedIn(added[i], {a, "database"})
  BY DEF RecordsOf
<1>5. /\ e = [header |-> e.header, records |-> e.records, fits |-> e.fits]
      /\ e.header = header /\ e.records = all /\ e.fits \in BOOLEAN
      /\ e.fits => d.fits /\ version.entries <= header.archives[p].entries
  BY <1>1, <1>2
<1>6. /\ IsSequence(all) /\ Len(all) = Len(d.records) + Len(added)
      /\ \A i \in 1..Len(d.records) : all[i] = d.records[i]
      /\ \A i \in 1..Len(added) : all[Len(d.records) + i] = added[i]
  <2>1. IsSequence(d.records) /\ IsSequence(added)
    BY <1>1, <1>4
  <2> QED BY <2>1, Concatenation
<1> HIDE DEF header, version, all
<1>7. /\ Len(d.records) \in Nat /\ Len(added) \in Nat /\ DOMAIN d.records = 1..Len(d.records)
      /\ DOMAIN added = 1..Len(added) /\ DOMAIN version.records = 1..Len(version.records)
      /\ DOMAIN all = 1..Len(all)
  BY <1>1, <1>3, <1>4, <1>6, SequenceFacts
\* A record of the whole is an old one or a new one.
<1>8. \A i \in DOMAIN all :
        \/ i \in DOMAIN d.records /\ all[i] = d.records[i]
        \/ i - Len(d.records) \in DOMAIN added /\ all[i] = added[i - Len(d.records)]
  <2> TAKE i \in DOMAIN all
  <2>1. CASE i <= Len(d.records)
    BY <1>6, <1>7, <2>1
  <2>2. CASE i > Len(d.records)
    <3>1. i - Len(d.records) \in 1..Len(added) /\ i = Len(d.records) + (i - Len(d.records))
      BY <1>6, <1>7, <2>2
    <3> QED BY <1>6, <1>7, <3>1
  <2> QED BY <1>6, <1>7, <2>1, <2>2
<1>9. \A i \in DOMAIN d.records : FromArchive(e, d.records[i], p)
  <2> TAKE i \in DOMAIN d.records
  <2> PICK q \in 1..(p - 1) :
        LET archived == header.archives[q] IN
        /\ d.records[i].locator.kind = "archive_entry" /\ d.records[i].locator.source = archived.id
        /\ d.records[i].locator.index \in Nat
        /\ d.fits => d.records[i].locator.index < archived.entries
        /\ ObservedIn(d.records[i], {archived.id, "database"})
    BY <1>1 DEF FromArchive, header
  <2>1. q \in 1..p
    BY <1>2
  <2> QED BY <1>5, <2>1 DEF FromArchive
<1>10. \A i \in DOMAIN added : FromArchive(e, added[i], p)
  <2> TAKE i \in DOMAIN added
  <2>1. /\ added[i].locator.index \in Nat /\ added[i].locator.index < version.entries
    BY <1>3, <1>4, <1>7
  <2>2. ASSUME e.fits PROVE added[i].locator.index < header.archives[p].entries
    <3>1. version.entries <= header.archives[p].entries
      BY <1>5, <2>2
    <3>2. version.entries \in Nat /\ header.archives[p].entries \in Nat
      BY <1>2, <1>3
    <3> QED BY <2>1, <3>1, <3>2
  <2>3. p \in 1..p /\ a = header.archives[p].id
    BY <1>2 DEF header
  <2> QED BY <1>4, <1>5, <2>1, <2>2, <2>3 DEF FromArchive
<1>11. \A i \in DOMAIN all : ObservedOnce(all[i]) /\ FromArchive(e, all[i], p)
  BY <1>1, <1>4, <1>8, <1>9, <1>10
\* The old records are of earlier archives than the new ones.
<1>12. \A i \in DOMAIN d.records : /\ Ordinal(header, d.records[i].locator.source) \in 1..(p - 1)
                                   /\ d.records[i].locator.source # a
  BY <1>1, <1>2, FirstArchives DEF header
<1>13. \A i, j \in DOMAIN all : i < j => InOrder(header, all[i].locator, all[j].locator)
  <2> SUFFICES ASSUME NEW i \in DOMAIN all, NEW j \in DOMAIN all, i < j
               PROVE  InOrder(header, all[i].locator, all[j].locator)
    OBVIOUS
  <2>1. CASE j \in DOMAIN d.records
    <3>1. i \in DOMAIN d.records
      BY <1>7, <2>1
    <3> QED BY <1>1, <1>6, <1>7, <2>1, <3>1 DEF header
  <2>2. CASE j \notin DOMAIN d.records /\ i \in DOMAIN d.records
    <3>1. Ordinal(header, all[j].locator.source) = p
      BY <1>2, <1>4, <1>8, <2>2
    <3>2. Ordinal(header, all[i].locator.source) < p
      <4>1. all[i] = d.records[i] /\ p \in Int
        BY <1>2, <1>6, <1>7, <2>2
      <4> QED BY <1>12, <2>2, <4>1
    <3> QED BY <1>2, <3>1, <3>2 DEF InOrder
  <2>3. CASE j \notin DOMAIN d.records /\ i \notin DOMAIN d.records
    <3>1. /\ i - Len(d.records) \in DOMAIN added /\ all[i] = added[i - Len(d.records)]
          /\ j - Len(d.records) \in DOMAIN added /\ all[j] = added[j - Len(d.records)]
          /\ i - Len(d.records) < j - Len(d.records)
      BY <1>6, <1>7, <1>8, <2>3
    <3>2. /\ all[i].locator.source = a /\ all[j].locator.source = a
          /\ all[i].locator.index <= all[j].locator.index
      BY <1>3, <1>4, <1>7, <3>1
    <3> QED BY <1>2, <3>2 DEF InOrder
  <2> QED BY <2>1, <2>2, <2>3
<1>14. \A q \in 1..p :
         LET b == header.archives[q].id IN
         \E w \in DOMAIN ArchiveVersions[b] : HoldsEntries(all, b, ArchiveVersions[b][w].records)
  <2> TAKE q \in 1..p
  <2>1. CASE q = p
    <3>1. HoldsEntries(all, a, version.records)
      BY <1>1, <1>3, <1>4, <1>12, EntriesAdded DEF all
    <3> QED BY <2>1, <3>1 DEF header, version
  <2>2. CASE q # p
    <3> DEFINE b == header.archives[q].id
    <3>1. q \in 1..(p - 1) /\ q \in DOMAIN header.archives /\ p \in DOMAIN header.archives
      BY <1>1, <1>2, <2>2, HeaderFacts
    <3>2. b # a /\ b \in Archives
      BY <1>1, <2>2, <3>1, HeaderFacts DEF HeaderSound, header
    <3> PICK w \in DOMAIN ArchiveVersions[b] : HoldsEntries(d.records, b, ArchiveVersions[b][w].records)
      BY <1>1, <3>1
    <3>3. IsSequence(ArchiveVersions[b][w].records)
      BY <3>2, ManifestFacts
    <3> HIDE DEF b
    <3>4. HoldsEntries(all, b, ArchiveVersions[b][w].records)
      BY <1>1, <1>4, <3>2, <3>3, EntriesStay DEF all
    <3> QED BY <3>4 DEF b
  <2> QED BY <2>1, <2>2
<1>15. p \in 0..Len(header.archives) /\ all \in Seq(Range(all))
  BY <1>2, <1>6 DEF IsSequence
<1> QED BY <1>0, <1>1, <1>5, <1>11, <1>13, <1>14, <1>15 DEF DatasetSound

\* The records of a dataset of the database alone.
LEMMA DatabaseAdded ==
  ASSUME NEW d, DatasetSound(d, 0), d.header.archives = <<>>, d.records = <<>>, WorldSound,
         NEW e, e = [header |-> d.header, fits |-> d.fits /\ TRUE,
                     records |-> d.records \o [i \in DOMAIN DatabaseRecords |->
                                                 DatabaseRecord(DatabaseRecords[i])]]
  PROVE  DatasetSound(e, 0)
<1> DEFINE header == d.header
           all == [i \in DOMAIN DatabaseRecords |-> DatabaseRecord(DatabaseRecords[i])]
<1>1. /\ HeaderSound(header) /\ d.fits \in BOOLEAN /\ 0 \in 0..Len(header.archives)
      /\ header.ordering = "database_book_id"
  BY HeaderFacts DEF DatasetSound
<1>2. /\ IsSequence(DatabaseRecords) /\ DOMAIN DatabaseRecords = 1..Len(DatabaseRecords)
      /\ Len(DatabaseRecords) \in Nat
      /\ \A i \in DOMAIN DatabaseRecords : DatabaseRecords[i].id \in Int
      /\ \A i, j \in DOMAIN DatabaseRecords : i < j => DatabaseRecords[i].id <= DatabaseRecords[j].id
  BY DatabaseFacts, SequenceFacts
<1>3. /\ all \in Seq(Range(all)) /\ DOMAIN all = DOMAIN DatabaseRecords
      /\ \A i \in DOMAIN all : all[i] = DatabaseRecord(DatabaseRecords[i])
  <2>1. /\ DOMAIN all = 1..Len(DatabaseRecords) /\ all \in [1..Len(DatabaseRecords) -> Range(all)]
        /\ \A i \in DOMAIN all : all[i] = DatabaseRecord(DatabaseRecords[i])
    BY <1>2 DEF Range
  <2> HIDE DEF all
  <2> QED BY <1>2, <2>1, SeqDef
<1>4. e = [header |-> header, records |-> all, fits |-> d.fits]
  <2>1. <<>> \o all = all
    BY <1>3, ConcatEmptySeq
  <2> QED BY <1>1, <2>1
<1> HIDE DEF all, header
<1>5. e = [header |-> e.header, records |-> e.records, fits |-> e.fits]
      /\ e.header = header /\ e.records = all /\ e.fits = d.fits
  BY <1>4
<1>6. \A i \in DOMAIN all :
        /\ ObservedOnce(all[i]) /\ FromDatabase(all[i])
        /\ all[i].locator.index = DatabaseRecords[i].id
  <2> TAKE i \in DOMAIN all
  <2> DEFINE rec == DatabaseRecords[i]
  <2>1. all[i] = DatabaseRecord(rec) /\ rec.id \in Int
    BY <1>2, <1>3
  <2> HIDE DEF rec
  <2>2. /\ all[i].locator = [kind |-> "database_book", source |-> "database", index |-> rec.id]
        /\ ObservedOnce(all[i]) /\ ObservedIn(all[i], {"database"})
    BY <2>1, DatabaseRecordFacts
  <2>3. /\ all[i].locator.kind = "database_book" /\ all[i].locator.source = "database"
        /\ all[i].locator.index = rec.id
    BY <2>2
  <2>4. FromDatabase(all[i])
    BY <2>1, <2>2, <2>3 DEF FromDatabase
  <2> QED BY <2>2, <2>3, <2>4 DEF rec
<1>7. \A i, j \in DOMAIN all : i < j => InOrder(header, all[i].locator, all[j].locator)
  BY <1>1, <1>2, <1>3, <1>6 DEF InOrder
<1>8. header.archives = <<>>
  BY DEF header
<1> QED BY <1>1, <1>3, <1>5, <1>6, <1>7, <1>8 DEF DatasetSound

\* Nothing was merged yet.
LEMMA NothingMerged ==
  ASSUME NEW d, HeaderSound(d.header), d.records = <<>>, d.fits \in BOOLEAN,
         d = [header |-> d.header, records |-> d.records, fits |-> d.fits]
  PROVE  DatasetSound(d, 0)
<1>1. 0 \in 0..Len(d.header.archives)
  BY HeaderFacts
<1>2. d.records \in Seq(Range(d.records)) /\ DOMAIN d.records = {}
  BY ShortSequences, SequenceFacts DEF IsSequence
<1> QED BY <1>1, <1>2 DEF DatasetSound

-----------------------------------------------------------------------------
(* A step preserves the invariant. *)

LEMMA WorldStep ==
  ASSUME WorldSound, [Next]_vars
  PROVE  WorldSound' /\ \A a \in Archives : manifest[a] # Missing => manifest'[a] # Missing
<1>1. \A a \in Archives : archive[a] # Missing /\ archive[a] \in Nat
  BY ManifestFacts DEF WorldSound
<1>2. UNCHANGED worldVars =>
        WorldSound' /\ \A a \in Archives : manifest[a] # Missing => manifest'[a] # Missing
  BY DEF worldVars, WorldSound
<1>3. ASSUME NEW a \in Archives, ReplaceArchive(a)
      PROVE  WorldSound' /\ \A b \in Archives : manifest[b] # Missing => manifest'[b] # Missing
  <2> PICK v \in DOMAIN ArchiveVersions[a] : archive' = [archive EXCEPT ![a] = v]
    BY <1>3 DEF ReplaceArchive
  <2>1. v \in Nat
    BY ManifestFacts
  <2> QED BY <1>3, <2>1 DEF ReplaceArchive, WorldSound
<1>4. ASSUME NEW a \in Archives, PublishManifest(a)
      PROVE  WorldSound' /\ \A b \in Archives : manifest[b] # Missing => manifest'[b] # Missing
  BY <1>1, <1>4 DEF PublishManifest, WorldSound
<1>5. PublishDatabaseManifest =>
        WorldSound' /\ \A b \in Archives : manifest[b] # Missing => manifest'[b] # Missing
  BY DEF PublishDatabaseManifest, WorldSound
<1>6. (\E request \in Requests : Start(request)) => UNCHANGED worldVars
  BY DEF Start, Here
<1>7. Validate \/ Declare \/ ReadIDs \/ ReadFiles \/ MergeArchive \/ MergeDatabase
        \/ StageOutput \/ Commit \/ Abort \/ UNCHANGED vars => UNCHANGED worldVars
  BY DEF Validate, Declare, ReadIDs, ReadFiles, MergeArchive, MergeDatabase, StageOutput, Commit,
     Abort, Here, vars
<1>8. \/ \E a \in Archives : ReplaceArchive(a) \/ PublishManifest(a)
      \/ PublishDatabaseManifest \/ UNCHANGED worldVars
  BY <1>6, <1>7 DEF Next
<1> QED BY <1>2, <1>3, <1>4, <1>5, <1>8

LEMMA FiniteArchives == IsFiniteSet(Archives)
<1>1. IsSequence(ArchiveNames)
  BY MergeArchives DEF IsSequence
<1>2. DOMAIN ArchiveNames = 1..Len(ArchiveNames) /\ Len(ArchiveNames) \in Nat
  BY <1>1, SequenceFacts
<1>3. ArchiveNames \in [1..Len(ArchiveNames) -> Archives]
  BY <1>2, MergeArchives, LenProperties DEF Archives
<1>4. \A a \in Archives : \E i \in 1..Len(ArchiveNames) : ArchiveNames[i] = a
  BY <1>2 DEF Archives, Range
<1>5. ArchiveNames \in Surjection(1..Len(ArchiveNames), Archives)
  BY <1>3, <1>4 DEF Surjection
<1>6. ExistsSurjection(1..Len(ArchiveNames), Archives)
  BY <1>5 DEF ExistsSurjection
<1> QED BY <1>2, <1>6, FS_NatSurjection

\* The archives that are chosen are archives with a manifest, each once.
LEMMA SelectionFacts ==
  ASSUME NEW selected \in Selections
  PROVE  /\ selected \in Seq(Archives)
         /\ \A i, j \in DOMAIN selected : selected[i] = selected[j] => i = j
         /\ \A i \in DOMAIN selected : manifest[selected[i]] # Missing
<1> DEFINE chosen == {a \in Archives : asked.archives /\ manifest[a] # Missing}
           n == Cardinality(chosen)
<1>1. selected \in [1..n -> chosen]
      /\ \A i, j \in DOMAIN selected : i < j => Position(selected[i]) < Position(selected[j])
  BY DEF Selections
<1>2. n \in Nat
  <2>1. chosen \in SUBSET Archives
    OBVIOUS
  <2>2. IsFiniteSet(chosen)
    BY <2>1, FiniteArchives, FS_Subset
  <2> QED BY <2>2, FS_CardinalityType
<1>3. chosen \subseteq Archives /\ \A a \in chosen : manifest[a] # Missing
  OBVIOUS
<1> HIDE DEF chosen, n
<1>4. selected \in [1..n -> Archives]
  BY <1>1, <1>3
<1>5. selected \in Seq(Archives)
  BY <1>2, <1>4, SeqDef
<1>6. \A a \in Archives : Position(a) \in Int
  <2> TAKE a \in Archives
  <2>1. \E i \in DOMAIN ArchiveNames : ArchiveNames[i] = a
    BY DEF Archives, Range
  <2>2. DOMAIN ArchiveNames \subseteq Int
    BY MergeArchives, LenProperties
  <2> QED BY <2>1, <2>2 DEF Position
<1>7. \A i, j \in DOMAIN selected : selected[i] = selected[j] => i = j
  <2> TAKE i, j \in DOMAIN selected
  <2>1. Position(selected[i]) \in Int /\ Position(selected[j]) \in Int /\ i \in Int /\ j \in Int
    BY <1>4, <1>6
  <2> QED BY <1>1, <2>1
<1> QED BY <1>1, <1>3, <1>5, <1>7

LEMMA PlanStep ==
  ASSUME IInv, [Next]_vars
  PROVE  PlanSound'
<1>1. WorldSound /\ PlanSound
  BY DEF IInv
<1>2. \A a \in Archives : manifest[a] # Missing => manifest'[a] # Missing
  BY <1>1, WorldStep
<1>3. ASSUME UNCHANGED plan, pc \in Writing \cup {"declare"}, pc' = pc \/ pc' \in Writing
      PROVE  PlanSound'
  <2>1. \A i \in DOMAIN plan.archives : manifest'[plan.archives[i]] # Missing
    BY <1>1, <1>2, <1>3, ElementOfSeq, LenProperties DEF PlanSound
  <2> QED BY <1>1, <1>3, <2>1 DEF PlanSound, Writing
<1>4. pc' \notin Writing \cup {"declare"} => PlanSound'
  BY DEF PlanSound
<1>5. Leave => PlanSound'
  BY <1>4 DEF Leave, Writing
<1>6. ASSUME UNCHANGED <<plan, pc>> PROVE PlanSound'
  BY <1>3, <1>4, <1>6
<1>7. CASE Validate
  <2> PICK selected \in Selections :
        \/ /\ plan' = [database |-> DatabaseReady, archives |-> selected,
                       counts |-> IF selected = <<>>
                                  THEN <<Len(DatabaseVersions[dbManifest])>>
                                  ELSE [i \in DOMAIN selected |-> Len(ManifestRecords(selected[i]))]]
           /\ pc' = "declare" /\ (DatabaseReady \/ selected # <<>>)
        \/ Leave
    BY <1>7 DEF Validate
  <2>1. ASSUME ~Leave PROVE PlanSound'
    <3>1. /\ plan' = [database |-> plan'.database, archives |-> plan'.archives, counts |-> plan'.counts]
          /\ plan'.archives = selected /\ (plan'.database \/ plan'.archives # <<>>)
          /\ manifest' = manifest
      BY <1>7, <2>1 DEF Validate, Here, worldVars
    <3> QED BY <3>1, SelectionFacts DEF PlanSound
  <2> QED BY <1>5, <2>1
<1>8. CASE MergeArchive
  <2>1. /\ pc = "archives" /\ pc' = "archives" /\ plan.archives # <<>> /\ manifest' = manifest
        /\ plan' = [plan EXCEPT !.archives = Tail(@)]
    BY <1>8 DEF MergeArchive, Here, worldVars
  <2>2. /\ plan = [archives |-> plan.archives, counts |-> plan.counts, database |-> plan.database]
        /\ plan.archives \in Seq(Archives)
        /\ \A i, j \in DOMAIN plan.archives : plan.archives[i] = plan.archives[j] => i = j
        /\ \A i \in DOMAIN plan.archives : manifest[plan.archives[i]] # Missing
    BY <1>1, <2>1 DEF PlanSound, Writing
  <2>3. /\ plan' = [archives |-> plan'.archives, counts |-> plan'.counts, database |-> plan'.database]
        /\ plan'.archives = Tail(plan.archives)
    BY <2>1, <2>2
  <2> DEFINE rest == Tail(plan.archives)
  <2>4. /\ rest \in Seq(Archives) /\ Len(rest) = Len(plan.archives) - 1
        /\ \A i \in 1..Len(rest) : rest[i] = plan.archives[i + 1]
    BY <2>1, <2>2, HeadTailProperties
  <2> HIDE DEF rest
  <2>5. DOMAIN rest = 1..Len(rest) /\ DOMAIN plan.archives = 1..Len(plan.archives)
        /\ Len(rest) \in Nat /\ Len(plan.archives) \in Nat
    BY <2>2, <2>4, LenProperties
  <2>6. \A i \in DOMAIN rest : i + 1 \in DOMAIN plan.archives
    BY <2>4, <2>5
  <2>7. /\ \A i, j \in DOMAIN rest : rest[i] = rest[j] => i = j
        /\ \A i \in DOMAIN rest : manifest[rest[i]] # Missing
    <3>1. \A i \in DOMAIN rest : rest[i] = plan.archives[i + 1] /\ i \in Int
      BY <2>4, <2>5
    <3>2. ASSUME NEW i \in DOMAIN rest, NEW j \in DOMAIN rest, rest[i] = rest[j] PROVE i = j
      <4>1. i + 1 = j + 1
        BY <2>2, <2>6, <3>1, <3>2
      <4> QED BY <3>1, <4>1
    <3>3. ASSUME NEW i \in DOMAIN rest PROVE manifest[rest[i]] # Missing
      BY <2>2, <2>6, <3>1
    <3> QED BY <3>2, <3>3
  <2>8. plan'.archives = rest
    BY <2>3 DEF rest
  <2> QED BY <2>1, <2>3, <2>4, <2>7, <2>8 DEF PlanSound
<1>9. (\E a \in Archives : ReplaceArchive(a) \/ PublishManifest(a)) \/ PublishDatabaseManifest =>
         UNCHANGED <<plan, pc>>
  BY DEF ReplaceArchive, PublishManifest, PublishDatabaseManifest, Change, runVars
<1>10. (\E request \in Requests : Start(request)) => PlanSound'
  BY <1>4 DEF Start, Writing
<1>11. Declare \/ ReadIDs \/ ReadFiles \/ MergeDatabase => PlanSound'
  BY <1>3 DEF Declare, ReadIDs, ReadFiles, MergeDatabase, Writing
<1>12. StageOutput \/ Commit \/ Abort => PlanSound'
  BY <1>3, <1>5 DEF StageOutput, Commit, Abort, Writing
<1>13. UNCHANGED vars => UNCHANGED <<plan, pc>>
  BY DEF vars, runVars
<1> QED
  BY <1>6, <1>7, <1>8, <1>9, <1>10, <1>11, <1>12, <1>13 DEF Next

\* A header is made of the archives that are planned.
LEMMA DeclareStep ==
  ASSUME IInv, Declare
  PROVE  StagedSound'
<1> DEFINE declared == DeclaredArchives
           header == Header(plan.database, declared, Total(plan.counts))
<1>1. /\ pc = "declare" /\ plan' = plan
      /\ pc' = IF plan.archives = <<>> THEN "database" ELSE "ids"
      /\ staged' = [header |-> header, records |-> <<>>, fits |-> TRUE]
  BY DEF Declare
<1>2. /\ plan.archives \in Seq(Archives) /\ WorldSound
      /\ \A i, j \in DOMAIN plan.archives : plan.archives[i] = plan.archives[j] => i = j
      /\ plan.database \/ plan.archives # <<>>
  BY <1>1 DEF IInv, PlanSound
<1>3. /\ DOMAIN plan.archives = 1..Len(plan.archives) /\ Len(plan.archives) \in Nat
      /\ \A i \in DOMAIN plan.archives : plan.archives[i] \in Archives
  BY <1>2, LenProperties, ElementOfSeq
<1>4. \A i \in DOMAIN plan.archives :
        ArchiveVersions[plan.archives[i]][archive[plan.archives[i]]].entries \in Nat
  BY <1>2, <1>3, ManifestFacts DEF WorldSound
<1>5. /\ declared \in [1..Len(plan.archives) -> [id : Archives, entries : Nat]]
      /\ \A i \in DOMAIN plan.archives : declared[i].id = plan.archives[i]
  BY <1>3, <1>4 DEF DeclaredArchives
<1> HIDE DEF declared
<1>6. /\ declared \in Seq([id : Archives, entries : Nat]) /\ Len(declared) = Len(plan.archives)
      /\ DOMAIN declared = DOMAIN plan.archives
  BY <1>3, <1>5, SequenceOf
<1>7. header = [database |-> plan.database, archives |-> declared, records |-> Total(plan.counts),
                ordering |-> IF declared = <<>> THEN "database_book_id" ELSE "archive_entry"]
  BY DEF Header
<1>8. /\ header.database = plan.database /\ header.archives = declared
      /\ header.records = Total(plan.counts)
  BY <1>7
<1>9. declared = <<>> <=> plan.archives = <<>>
  BY <1>2, <1>6, EmptySeq
<1>10. HeaderSound(header)
  <2>1. \A p, q \in DOMAIN declared : declared[p].id = declared[q].id => p = q
    BY <1>2, <1>5, <1>6
  <2> QED BY <1>2, <1>6, <1>8, <1>9, <2>1 DEF HeaderSound
<1> HIDE DEF header
<1>11. /\ staged'.header = header /\ staged'.records = <<>> /\ staged'.fits = TRUE
       /\ staged' = [header |-> staged'.header, records |-> staged'.records, fits |-> staged'.fits]
  BY <1>1
<1>12. DatasetSound(staged', 0)
  BY <1>10, <1>11, NothingMerged
<1>13. Done' = 0
  BY <1>1, <1>3, <1>6, <1>8, <1>11 DEF Done
<1>14. \A i \in DOMAIN plan.archives : plan.archives[i] = header.archives[0 + i].id
  BY <1>3, <1>5, <1>8
<1> QED BY <1>1, <1>8, <1>9, <1>11, <1>12, <1>13, <1>14 DEF StagedSound

\* Of a header's archives the first ones were merged: the next one is in it.
LEMMA NextPosition ==
  ASSUME NEW n \in Nat, NEW left \in Nat, left # 0, NEW done, done = n - left, done \in 0..n
  PROVE  done \in Nat /\ done + 1 \in 1..n /\ done = (done + 1) - 1
OBVIOUS

LEMMA SumsAgree ==
  ASSUME NEW done \in Int, NEW i \in Int, NEW p, p = done + 1
  PROVE  done + (i + 1) = p + i
OBVIOUS

\* A manifest is merged whole.
LEMMA MergeArchiveStep ==
  ASSUME IInv, MergeArchive
  PROVE  StagedSound'
<1> DEFINE a == Head(plan.archives)
           v == manifest[a]
           p == Done + 1
           added == MergedRecords(a)
           rest == Tail(plan.archives)
<1>1. /\ pc = "archives" /\ pc' = "archives" /\ plan.archives # <<>>
      /\ staged' = [staged EXCEPT !.records = @ \o added,
                      !.fits = @ /\ ArchiveVersions[a][manifest[a]].entries <= Entries(staged.header, a)]
      /\ plan' = [plan EXCEPT !.archives = Tail(@)]
  BY DEF MergeArchive, AddRecords
<1>2. /\ WorldSound /\ DatasetSound(staged, Done)
      /\ plan = [archives |-> plan.archives, counts |-> plan.counts, database |-> plan.database]
      /\ plan.archives \in Seq(Archives)
      /\ \A i \in DOMAIN plan.archives :
           manifest[plan.archives[i]] # Missing /\ plan.archives[i] = staged.header.archives[Done + i].id
  BY <1>1 DEF IInv, PlanSound, StagedSound, Writing
<1>3. /\ HeaderSound(staged.header) /\ Done \in 0..Len(staged.header.archives)
      /\ staged = [header |-> staged.header, records |-> staged.records, fits |-> staged.fits]
  BY <1>2 DEF DatasetSound
<1>4. /\ Len(plan.archives) \in Nat /\ DOMAIN plan.archives = 1..Len(plan.archives)
      /\ a = plan.archives[1] /\ a \in Archives /\ Len(plan.archives) # 0
      /\ rest \in Seq(Archives) /\ Len(rest) = Len(plan.archives) - 1
      /\ \A i \in 1..Len(rest) : rest[i] = plan.archives[i + 1]
  BY <1>1, <1>2, LenProperties, HeadTailProperties, EmptySeq
<1>5. Len(staged.header.archives) \in Nat
      /\ DOMAIN staged.header.archives = 1..Len(staged.header.archives)
  BY <1>3, HeaderFacts
<1>6. /\ Done = Len(staged.header.archives) - Len(plan.archives) /\ Done \in Nat
      /\ p \in DOMAIN staged.header.archives /\ Done = p - 1
  <2>1. Done = Len(staged.header.archives) - Len(plan.archives)
    BY DEF Done
  <2>2. /\ Done \in Nat /\ Done + 1 \in 1..Len(staged.header.archives)
        /\ Done = (Done + 1) - 1
    BY <1>3, <1>4, <1>5, <2>1, NextPosition
  <2> QED BY <1>5, <2>1, <2>2
<1>7. a = staged.header.archives[p].id
  <2>1. 1 \in DOMAIN plan.archives
    BY <1>4
  <2> QED BY <1>2, <1>4, <2>1
<1>8. v \in DOMAIN ArchiveVersions[a]
  <2>1. manifest[plan.archives[1]] # Missing
    BY <1>2, <1>4
  <2> QED BY <1>2, <1>4, <2>1 DEF WorldSound
<1>9. RecordsOf(a, v, added)
  <2> DEFINE records == ArchiveVersions[a][v].records
  <2>1. /\ IsSequence(records) /\ Len(records) \in Nat /\ DOMAIN records = 1..Len(records)
    BY <1>4, <1>8, ManifestFacts, SequenceFacts
  <2>2. added = [i \in DOMAIN records |-> ArchiveRecord(records[i], a, Match(records[i], index))]
    BY DEF MergedRecords, ManifestRecords
  <2> HIDE DEF added, records, a, v
  <2>3. /\ DOMAIN added = 1..Len(records) /\ added \in [1..Len(records) -> Range(added)]
        /\ \A i \in DOMAIN added : added[i] = ArchiveRecord(records[i], a, Match(records[i], index))
    BY <2>1, <2>2 DEF Range
  <2>4. IsSequence(added) /\ Len(added) = Len(records)
    BY <2>1, <2>3, SeqDef, LenProperties DEF IsSequence
  <2>5. ASSUME NEW i \in DOMAIN added
        PROVE  /\ added[i].locator.kind = "archive_entry" /\ added[i].locator.source = a
               /\ added[i].locator.index = records[i].index
               /\ ObservedOnce(added[i]) /\ ObservedIn(added[i], {a, "database"})
    <3>1. added[i] = ArchiveRecord(records[i], a, Match(records[i], index))
      BY <2>3
    <3>2. /\ added[i].locator = [kind |-> "archive_entry", source |-> a, index |-> records[i].index]
          /\ ObservedOnce(added[i]) /\ ObservedIn(added[i], {a, "database"})
      BY <3>1, ArchiveRecordFacts
    <3> QED BY <3>2
  <2> QED BY <2>4, <2>5 DEF RecordsOf, records
<1> HIDE DEF a, v, p, added
<1>10. staged' = [header |-> staged.header, records |-> staged.records \o added,
                  fits |-> staged.fits /\ ArchiveVersions[a][v].entries <= Entries(staged.header, a)]
  BY <1>1, <1>3 DEF v
<1>11. DatasetSound(staged', p)
  <2>1. DatasetSound(staged, p - 1)
    BY <1>2, <1>6
  <2> QED BY <1>6, <1>7, <1>8, <1>9, <1>10, <2>1, ArchiveAdded
<1>12. plan'.archives = rest /\ staged'.header = staged.header
  BY <1>1, <1>2, <1>10
<1> HIDE DEF rest
<1>13. Done' = Done + 1 /\ p = Done + 1
  <2>1. Done' = Len(staged.header.archives) - Len(rest)
    BY <1>12 DEF Done
  <2> QED BY <1>4, <1>5, <1>6, <2>1 DEF p
<1>14. ASSUME NEW i \in DOMAIN rest PROVE rest[i] = staged.header.archives[p + i].id
  <2>1. DOMAIN rest = 1..Len(rest) /\ Len(rest) \in Nat
    BY <1>4, LenProperties
  <2>2. i + 1 \in DOMAIN plan.archives /\ rest[i] = plan.archives[i + 1] /\ Done + (i + 1) = p + i
    <3>1. i \in 1..Len(rest)
      BY <2>1
    <3>2. i + 1 \in 1..Len(plan.archives)
      BY <1>4, <2>1, <3>1
    <3>3. Done + (i + 1) = p + i
      <4>1. Done \in Int /\ i \in Int /\ p = Done + 1
        BY <1>6, <1>13, <2>1, <3>1
      <4> QED BY <4>1, SumsAgree
    <3> QED BY <1>4, <3>1, <3>2, <3>3
  <2> QED BY <1>2, <2>2
<1> QED BY <1>1, <1>11, <1>12, <1>13, <1>14 DEF StagedSound

\* What is staged stays sound.
LEMMA StagedStep ==
  ASSUME IInv, [Next]_vars
  PROVE  StagedSound'
<1>1. WorldSound /\ PlanSound /\ StagedSound
  BY DEF IInv
<1>2. ASSUME UNCHANGED <<plan, staged, pc>> PROVE StagedSound'
  <2>1. Done' = Done /\ CountMatches(staged)' = CountMatches(staged)
    BY <1>2 DEF Done, CountMatches
  <2>2. DatasetSound(staged, Done)' <=> DatasetSound(staged, Done)
    BY <1>2, <2>1
  <2> QED BY <1>1, <1>2, <2>1, <2>2 DEF StagedSound
<1>3. pc' \notin Writing => StagedSound'
  BY DEF StagedSound, Writing
<1>4. Leave => StagedSound'
  BY <1>3 DEF Leave, Writing
<1>5. (\E a \in Archives : ReplaceArchive(a) \/ PublishManifest(a)) \/ PublishDatabaseManifest =>
        UNCHANGED <<plan, staged, pc>>
  BY DEF ReplaceArchive, PublishManifest, PublishDatabaseManifest, Change, runVars
<1>6. (\E request \in Requests : Start(request)) \/ Validate => StagedSound'
  BY <1>3, <1>4 DEF Start, Validate, Writing
<1>7. CASE ReadIDs \/ ReadFiles
  <2>1. /\ pc \in {"ids", "files"} /\ pc' \in {"files", "archives"}
        /\ plan' = plan /\ staged' = staged
    BY <1>7 DEF ReadIDs, ReadFiles
  <2>2. Done' = Done
    BY <2>1 DEF Done
  <2> QED BY <1>1, <2>1, <2>2 DEF StagedSound, Writing
<1>8. CASE MergeDatabase
  <2>1. /\ pc = "database" /\ pc' = "archives" /\ plan' = plan
        /\ staged' = [staged EXCEPT !.fits = @ /\ TRUE, !.records =
             @ \o [i \in DOMAIN DatabaseRecords |-> DatabaseRecord(DatabaseRecords[i])]]
    BY <1>8 DEF MergeDatabase, AddRecords
  <2>2. /\ DatasetSound(staged, Done) /\ staged.records = <<>> /\ staged.header.archives = <<>>
        /\ \A i \in DOMAIN plan.archives : plan.archives[i] = staged.header.archives[Done + i].id
        /\ plan.archives \in Seq(Archives)
    BY <1>1, <2>1 DEF StagedSound, PlanSound, Writing
  <2>3. Len(plan.archives) = 0 /\ Done = 0
    <3>1. Done \in 0..Len(staged.header.archives) /\ Len(staged.header.archives) = 0
      BY <2>2, ShortSequences DEF DatasetSound
    <3>2. Done = Len(staged.header.archives) - Len(plan.archives) /\ Len(plan.archives) \in Nat
      BY <2>2, LenProperties DEF Done
    <3>3. Done = 0
      BY <3>1
    <3> QED BY <3>1, <3>2, <3>3
  <2>4. staged = [header |-> staged.header, records |-> staged.records, fits |-> staged.fits]
    BY <2>2 DEF DatasetSound
  <2>5. staged' = [header |-> staged.header, fits |-> staged.fits /\ TRUE,
                   records |-> staged.records \o [i \in DOMAIN DatabaseRecords |->
                                                    DatabaseRecord(DatabaseRecords[i])]]
    BY <2>1, <2>4
  <2>6. DatasetSound(staged', 0)
    BY <1>1, <2>2, <2>3, <2>5, DatabaseAdded
  <2>7. Done' = Done
    BY <2>1, <2>5 DEF Done
  <2>8. staged'.header = staged.header
    BY <2>5
  <2> QED BY <2>1, <2>2, <2>3, <2>6, <2>7, <2>8 DEF StagedSound
<1>9. CASE StageOutput
  <2>1. CASE ~Leave
    <3>1. /\ pc = "archives" /\ pc' = "commit" /\ plan.archives = <<>> /\ CountMatches(staged)
          /\ plan' = plan /\ staged' = staged
      BY <1>9, <2>1 DEF StageOutput
    <3>2. Done' = Done /\ CountMatches(staged)'
      BY <3>1 DEF Done, CountMatches
    <3> QED BY <1>1, <3>1, <3>2 DEF StagedSound, Writing
  <2> QED BY <1>4, <2>1
<1>10. Commit \/ Abort => StagedSound'
  BY <1>4 DEF Commit, Abort
<1>11. UNCHANGED vars => UNCHANGED <<plan, staged, pc>>
  BY DEF vars, runVars
<1> QED
  BY <1>2, <1>5, <1>6, <1>7, <1>8, <1>9, <1>10, <1>11, DeclareStep, MergeArchiveStep DEF Next

\* A dataset is published when all of its archives were merged.
LEMMA OutputStep ==
  ASSUME IInv, [Next]_vars
  PROVE  OutputSound'
<1>1. ASSUME UNCHANGED output PROVE OutputSound'
  BY <1>1 DEF IInv, OutputSound, CountMatches
<1>2. CASE Commit
  <2>1. /\ pc = "commit" /\ output' = staged
    BY <1>2 DEF Commit
  <2>2. /\ DatasetSound(staged, Done) /\ plan.archives = <<>> /\ CountMatches(staged)
    BY <2>1 DEF IInv, StagedSound, Writing
  <2>3. Done = Len(staged.header.archives)
    <3>1. Len(staged.header.archives) \in Nat /\ Len(plan.archives) = 0
      BY <2>2, HeaderFacts, ShortSequences DEF DatasetSound
    <3> QED BY <3>1 DEF Done
  <2>4. DatasetSound(staged, Len(staged.header.archives))
    BY <2>2, <2>3
  <2> QED BY <2>1, <2>2, <2>4 DEF OutputSound, CountMatches
<1>3. Next => UNCHANGED output \/ Commit
  BY DEF Next, ReplaceArchive, PublishManifest, PublishDatabaseManifest, Change, runVars, Start,
     Validate, Declare, ReadIDs, ReadFiles, MergeArchive, MergeDatabase, StageOutput, Abort
<1>4. UNCHANGED vars => UNCHANGED output
  BY DEF vars, runVars
<1> QED BY <1>1, <1>2, <1>3, <1>4

LEMMA InitInv == Init => IInv
<1> SUFFICES ASSUME Init PROVE IInv
  OBVIOUS
<1>1. \A a \in Archives : 1 \in DOMAIN ArchiveVersions[a]
  BY ManifestFacts
<1>2. WorldSound
  BY <1>1, DatabaseFacts DEF Init, WorldSound, Missing
<1>3. pc = "idle" /\ output = NoFile
  BY DEF Init
<1> QED BY <1>2, <1>3 DEF IInv, PlanSound, StagedSound, OutputSound, Writing

\* In every state what is published was merged to its end, from the manifests of the
\* archives in its header, and what is staged is sound as far as it goes, whatever is
\* replaced and however many runs there are.
THEOREM MergeInvariance == Spec => []IInv
<1>1. IInv /\ [Next]_vars => IInv'
  BY WorldStep, PlanStep, StagedStep, OutputStep DEF IInv
<1> QED BY <1>1, InitInv, PTL DEF Spec

-----------------------------------------------------------------------------
(* What is published. *)

\* A sound dataset of all of its archives is accepted if it fits its header.
LEMMA SoundAccepted ==
  ASSUME NEW d, DatasetSound(d, Len(d.header.archives)), CountMatches(d), d.fits,
         d.header.database \/ d.header.archives = <<>>
  PROVE  Accepted(d)
<1> DEFINE header == d.header
           records == d.records
           n == Len(header.archives)
<1>1. /\ HeaderSound(header) /\ IsSequence(records)
      /\ Len(records) = header.records
      /\ \A i \in DOMAIN records :
           /\ ObservedOnce(records[i])
           /\ IF header.archives = <<>> THEN FromDatabase(records[i]) ELSE FromArchive(d, records[i], n)
      /\ \A i, j \in DOMAIN records : i < j => InOrder(header, records[i].locator, records[j].locator)
  BY DEF DatasetSound, CountMatches, IsSequence
<1>2. /\ n \in Nat /\ DOMAIN header.archives = 1..n
      /\ header.database
  BY <1>1, HeaderFacts DEF HeaderSound
\* The names of the archives are as many as the archives.
<1>3. HeaderAccepted(header)
  <2>1. header.records >= 0
    <3>1. Len(records) \in Nat
      BY <1>1, SequenceFacts
    <3> QED BY <1>1, <3>1
  <2> DEFINE names == [i \in 1..n |-> header.archives[i].id]
  <2>2. DOMAIN names = 1..n /\ \A i, j \in 1..n : names[i] = names[j] => i = j
    BY <1>1, <1>2 DEF HeaderSound
  <2>3. Cardinality({names[i] : i \in 1..n}) = n
    <3> HIDE DEF names, n
    <3> QED BY <1>2, <2>2, DistinctCardinality
  <2>4. {names[i] : i \in 1..n} = ArchiveIDs(header)
    BY <1>2 DEF ArchiveIDs
  <2>5. header.ordering = "archive_entry" => header.archives # <<>>
    BY <1>1, HeaderFacts
  <2> HIDE DEF names, n
  <2> QED BY <2>1, <2>3, <2>4, <2>5 DEF HeaderAccepted, n
<1>4. ASSUME header.archives = <<>>, NEW i \in DOMAIN records
      PROVE  LocatorAccepted(header, records[i].locator) /\ RecordAccepted(header, records[i])
  <2>1. ObservedOnce(records[i]) /\ FromDatabase(records[i]) /\ header.ordering = "database_book_id"
    BY <1>1, <1>4, HeaderFacts
  <2>2. \A o \in DOMAIN records[i].observations : records[i].observations[o].source = "database"
    BY <2>1 DEF FromDatabase, ObservedIn
  <2> QED BY <1>2, <2>1, <2>2 DEF LocatorAccepted, RecordAccepted, SourceAccepted, ObservedOnce, FromDatabase
<1>5. ASSUME header.archives # <<>>, NEW i \in DOMAIN records
      PROVE  LocatorAccepted(header, records[i].locator) /\ RecordAccepted(header, records[i])
  <2> DEFINE rec == records[i]
  <2>1. ObservedOnce(rec) /\ FromArchive(d, rec, n) /\ header.ordering = "archive_entry"
    BY <1>1, <1>5, HeaderFacts
  <2> HIDE DEF rec
  <2> PICK p \in 1..n :
        /\ rec.locator.kind = "archive_entry" /\ rec.locator.source = header.archives[p].id
        /\ rec.locator.index < header.archives[p].entries
        /\ ObservedIn(rec, {header.archives[p].id, "database"})
    BY <2>1 DEF FromArchive
  <2>2. /\ header.archives[p].id \in ArchiveIDs(header)
        /\ Entries(header, header.archives[p].id) = header.archives[p].entries
    BY <1>1, <1>2, OrdinalIs DEF ArchiveIDs
  <2>3. \A o \in DOMAIN rec.observations :
          SourceAccepted(header, rec.observations[o], rec.locator.index)
    BY <1>2, <2>2 DEF ObservedIn, SourceAccepted
  <2>4. LocatorAccepted(header, rec.locator)
    BY <2>1, <2>2 DEF LocatorAccepted
  <2>5. RecordAccepted(header, rec)
    BY <2>1, <2>3 DEF RecordAccepted, ObservedOnce
  <2> QED BY <2>4, <2>5 DEF rec
<1>6. \A i \in DOMAIN records \ {1} : InOrder(header, records[i - 1].locator, records[i].locator)
  <2> TAKE i \in DOMAIN records \ {1}
  <2>1. DOMAIN records = 1..Len(records) /\ Len(records) \in Nat
    BY <1>1, SequenceFacts
  <2>2. i - 1 \in DOMAIN records /\ i - 1 < i
    BY <2>1
  <2> QED BY <1>1, <2>2
<1> QED BY <1>1, <1>3, <1>4, <1>5, <1>6 DEF Accepted

\* A dataset that merge publishes is read to its end by the other commands, whatever
\* archives and manifests were replaced while it was made: the number, the order, the
\* indexes and the sources of its records agree with its header, as
\* jsonl.DatasetValues requires.
THEOREM PublishedDatasetsAccepted == Spec => []PublishedAccepted
<1>1. OutputSound => PublishedAccepted
  BY SoundAccepted DEF OutputSound, PublishedAccepted
<1> QED BY <1>1, MergeInvariance, PTL DEF IInv

\* What merge publishes of an archive are the entries of one of its manifests, all of
\* them, together and in their order.
THEOREM ArchiveEntriesKept == Spec => []EntriesKept
<1>1. OutputSound => EntriesKept
  <2> SUFFICES ASSUME OutputSound, output # NoFile, NEW a \in ArchiveIDs(output.header)
               PROVE  \E v \in DOMAIN ArchiveVersions[a] :
                        HoldsEntries(output.records, a, ArchiveVersions[a][v].records)
    BY DEF EntriesKept
  <2>1. DatasetSound(output, Len(output.header.archives))
    BY DEF OutputSound
  <2> PICK p \in DOMAIN output.header.archives : a = output.header.archives[p].id
    BY DEF ArchiveIDs
  <2>2. p \in 1..Len(output.header.archives)
    BY <2>1, HeaderFacts DEF DatasetSound
  <2> QED BY <2>1, <2>2 DEF DatasetSound
<1> QED BY <1>1, MergeInvariance, PTL DEF IInv

-----------------------------------------------------------------------------
(* The index of file names. *)

\* The books that have a name, among those of the first records.
Holders(records, n, name) ==
  {records[i].id : i \in {j \in 1..n : name \in FileKeys(records[j])}}

\* The index after the first records: each of their names is owned or ambiguous, and an
\* owner wins over every other holder.
IndexSound(found, byID, records, n) ==
  /\ found = [byID |-> byID, byFile |-> found.byFile, ambiguous |-> found.ambiguous]
  /\ DOMAIN found.byFile \cap found.ambiguous = {}
  /\ \A i \in 1..n : FileKeys(records[i]) \subseteq DOMAIN found.byFile \cup found.ambiguous
  /\ \A name \in DOMAIN found.byFile :
       LET owner == found.byFile[name] IN
       /\ owner \in Holders(records, n, name)
       /\ \A id \in Holders(records, n, name) \ {owner} : Wins(byID, owner, id)

\* Who wins is an order.
LEMMA WinsOrder ==
  ASSUME NEW byID
  PROVE  \A a, b, c : Wins(byID, a, b) => /\ ~Wins(byID, b, a)
                                          /\ Wins(byID, b, c) => Wins(byID, a, c)
<1> SUFFICES ASSUME NEW a, NEW b, NEW c, Wins(byID, a, b)
             PROVE  ~Wins(byID, b, a) /\ (Wins(byID, b, c) => Wins(byID, a, c))
  OBVIOUS
<1> HIDE DEF Deleted, Joined
<1> QED BY DEF Wins

LEMMA HoldersGrow ==
  ASSUME NEW records, NEW n \in Nat, NEW name
  PROVE  Holders(records, n + 1, name)
           = Holders(records, n, name)
               \cup IF name \in FileKeys(records[n + 1]) THEN {records[n + 1].id} ELSE {}
<1>1. 1..(n + 1) = (1..n) \cup {n + 1}
  OBVIOUS
<1> QED BY <1>1 DEF Holders

\* The names of a record that are looked at, and those that become ambiguous.
Named(found, rec) == FileKeys(rec) \ found.ambiguous
Tied(found, byID, rec) ==
  {name \in Named(found, rec) \cap DOMAIN found.byFile :
     /\ ~Wins(byID, rec.id, found.byFile[name])
     /\ ~Wins(byID, found.byFile[name], rec.id) /\ found.byFile[name] # rec.id}

\* What addDatabaseFile does to each name of a record.
AddedTo(found, byID, rec, next) ==
  /\ next = [byID |-> byID, byFile |-> next.byFile, ambiguous |-> next.ambiguous]
  /\ next.ambiguous = found.ambiguous \cup Tied(found, byID, rec)
  /\ DOMAIN next.byFile = (DOMAIN found.byFile \cup Named(found, rec)) \ Tied(found, byID, rec)
  /\ \A name \in DOMAIN next.byFile :
       next.byFile[name] =
         IF name \in Named(found, rec)
              /\ (name \in DOMAIN found.byFile => Wins(byID, rec.id, found.byFile[name]))
         THEN rec.id ELSE found.byFile[name]

LEMMA AddFilesIs ==
  ASSUME NEW found, NEW byID, NEW records, NEW n, IndexSound(found, byID, records, n), NEW rec,
         NEW next, next = AddFiles(found, rec)
  PROVE  AddedTo(found, byID, rec, next)
<1> DEFINE named == FileKeys(rec) \ found.ambiguous
           owned == named \cap DOMAIN found.byFile
           taken == {name \in owned : Wins(found.byID, rec.id, found.byFile[name])}
           tied == {name \in owned \ taken : /\ found.byFile[name] # rec.id
                                             /\ ~Wins(found.byID, found.byFile[name], rec.id)}
           new == (named \ owned) \cup taken
           own == Own(found, new, rec.id)
<1>1. next = MakeAmbiguous(own, tied)
  BY DEF AddFiles
<1>2. found.byID = byID /\ found = [byID |-> byID, byFile |-> found.byFile, ambiguous |-> found.ambiguous]
  BY DEF IndexSound
<1> DEFINE files == [name \in DOMAIN found.byFile \cup new |-> IF name \in new THEN rec.id ELSE found.byFile[name]]
<1> HIDE DEF named, owned, taken, tied, new
<1>3. own = [byID |-> byID, byFile |-> files, ambiguous |-> found.ambiguous]
  BY <1>2 DEF Own
<1> DEFINE left == [name \in DOMAIN files \ tied |-> files[name]]
<1>4. next = [byID |-> byID, byFile |-> left, ambiguous |-> found.ambiguous \cup tied]
  <2> HIDE DEF files, own
  <2>1. own.byFile = files /\ DOMAIN own.byFile = DOMAIN files
    BY <1>3
  <2>2. Disown(own, tied) = [byID |-> byID, byFile |-> left, ambiguous |-> found.ambiguous]
    BY <1>3, <2>1 DEF Disown
  <2>3. \A x, y, z, w : [[byID |-> x, byFile |-> y, ambiguous |-> z] EXCEPT !.ambiguous = w]
                         = [byID |-> x, byFile |-> y, ambiguous |-> w]
    OBVIOUS
  <2>4. Disown(own, tied).ambiguous = found.ambiguous
    BY <2>2
  <2>5. next = [Disown(own, tied) EXCEPT !.ambiguous = found.ambiguous \cup tied]
    BY <1>1, <2>4 DEF MakeAmbiguous
  <2> DEFINE bare == [byID |-> byID, byFile |-> left, ambiguous |-> found.ambiguous]
             A == found.ambiguous \cup tied
  <2> HIDE DEF left
  <2>6. [bare EXCEPT !.ambiguous = A] = [byID |-> byID, byFile |-> left, ambiguous |-> A]
    BY <2>3
  <2>7. Disown(own, tied) = bare
    BY <2>2
  <2> HIDE DEF bare, A
  <2>8. next = [bare EXCEPT !.ambiguous = A]
    BY <2>5, <2>7 DEF A
  <2> QED BY <2>6, <2>8 DEF A
<1>5. DOMAIN left = (DOMAIN found.byFile \cup new) \ tied
      /\ \A name \in DOMAIN left : left[name] = IF name \in new THEN rec.id ELSE found.byFile[name]
  OBVIOUS
<1> HIDE DEF left, files, own
<1>6. next.byFile = left /\ next.ambiguous = found.ambiguous \cup tied
  BY <1>4
<1>7. tied = {name \in named \cap DOMAIN found.byFile :
                /\ ~Wins(byID, rec.id, found.byFile[name])
                /\ ~Wins(byID, found.byFile[name], rec.id) /\ found.byFile[name] # rec.id}
  BY <1>2 DEF tied, taken, owned
<1>8. \A name : name \in new <=> name \in named /\ (name \in DOMAIN found.byFile => Wins(byID, rec.id, found.byFile[name]))
  BY <1>2 DEF new, taken, owned
<1>9. DOMAIN left = (DOMAIN found.byFile \cup named) \ tied
  <2>1. named \subseteq DOMAIN found.byFile \cup new
    BY <1>8
  <2>2. new \subseteq named
    BY <1>8
  <2> QED BY <1>5, <2>1, <2>2
<1>10. \A name \in DOMAIN left :
         left[name] = IF name \in named
                           /\ (name \in DOMAIN found.byFile => Wins(byID, rec.id, found.byFile[name]))
                      THEN rec.id ELSE found.byFile[name]
  BY <1>5, <1>8
<1>11. named = Named(found, rec) /\ tied = Tied(found, byID, rec)
  BY <1>7 DEF named, Named, Tied
<1> QED BY <1>4, <1>6, <1>9, <1>10, <1>11 DEF AddedTo

LEMMA AddFilesSound ==
  ASSUME NEW found, NEW byID, NEW records, NEW n \in Nat, IndexSound(found, byID, records, n)
  PROVE  IndexSound(AddFiles(found, records[n + 1]), byID, records, n + 1)
<1>0. SUFFICES ASSUME NEW rec, rec = records[n + 1], NEW next, next = AddFiles(found, rec)
               PROVE  IndexSound(next, byID, records, n + 1)
  OBVIOUS
<1>1. AddedTo(found, byID, rec, next)
  BY <1>0, AddFilesIs
<1>2. /\ DOMAIN found.byFile \cap found.ambiguous = {}
      /\ \A i \in 1..n : FileKeys(records[i]) \subseteq DOMAIN found.byFile \cup found.ambiguous
      /\ \A name \in DOMAIN found.byFile :
           /\ found.byFile[name] \in Holders(records, n, name)
           /\ \A id \in Holders(records, n, name) \ {found.byFile[name]} : Wins(byID, found.byFile[name], id)
  BY DEF IndexSound
<1>3. \A name : Holders(records, n + 1, name)
                  = Holders(records, n, name) \cup IF name \in FileKeys(rec) THEN {rec.id} ELSE {}
  BY <1>0, HoldersGrow
<1>4. DOMAIN next.byFile \cap next.ambiguous = {}
  BY <1>1, <1>2 DEF AddedTo, Named, Tied
<1>5. \A i \in 1..(n + 1) : FileKeys(records[i]) \subseteq DOMAIN next.byFile \cup next.ambiguous
  <2>1. \A i \in 1..(n + 1) : i \in 1..n \/ i = n + 1
    OBVIOUS
  <2>2. DOMAIN found.byFile \cup found.ambiguous \cup FileKeys(rec) \subseteq DOMAIN next.byFile \cup next.ambiguous
    BY <1>1 DEF AddedTo, Named, Tied
  <2> QED BY <1>0, <1>2, <2>1, <2>2
<1>6. ASSUME NEW name \in DOMAIN next.byFile
      PROVE  /\ next.byFile[name] \in Holders(records, n + 1, name)
             /\ \A id \in Holders(records, n + 1, name) \ {next.byFile[name]} :
                  Wins(byID, next.byFile[name], id)
  <2>1. name \notin Tied(found, byID, rec)
    BY <1>1 DEF AddedTo
\* A name that the record does not have keeps its owner and its holders.
  <2>2. CASE name \notin Named(found, rec)
    <3>1. name \in DOMAIN found.byFile /\ next.byFile[name] = found.byFile[name]
      BY <1>1, <2>2 DEF AddedTo
    <3>2. name \notin FileKeys(rec)
      BY <1>2, <2>2, <3>1 DEF Named
    <3> QED BY <1>2, <1>3, <3>1, <3>2
\* A name that nobody owned and that is not ambiguous was nobody's.
  <2>3. CASE name \in Named(found, rec) /\ name \notin DOMAIN found.byFile
    <3>1. next.byFile[name] = rec.id
      BY <1>1, <2>3 DEF AddedTo
    <3>2. Holders(records, n, name) = {}
      BY <1>2, <2>3 DEF Holders, Named
    <3> QED BY <1>3, <2>3, <3>1, <3>2 DEF Named
  <2>4. CASE name \in Named(found, rec) /\ name \in DOMAIN found.byFile /\ Wins(byID, rec.id, found.byFile[name])
    <3>1. next.byFile[name] = rec.id
      BY <1>1, <2>4 DEF AddedTo
    <3>2. \A id \in Holders(records, n, name) : id # rec.id => Wins(byID, rec.id, id)
      BY <1>2, <2>4, WinsOrder
    <3> QED BY <1>3, <2>4, <3>1, <3>2 DEF Named
  <2>5. CASE name \in Named(found, rec) /\ name \in DOMAIN found.byFile /\ ~Wins(byID, rec.id, found.byFile[name])
    <3>1. next.byFile[name] = found.byFile[name]
      BY <1>1, <2>5 DEF AddedTo
    <3>2. found.byFile[name] = rec.id \/ Wins(byID, found.byFile[name], rec.id)
      BY <2>1, <2>5 DEF Tied
    <3> QED BY <1>2, <1>3, <2>5, <3>1, <3>2
  <2> QED BY <2>2, <2>3, <2>4, <2>5
<1> QED BY <1>1, <1>4, <1>5, <1>6 DEF AddedTo, IndexSound

\* The index after all records, by induction over them.
LEMMA IndexFilesSound ==
  ASSUME NEW records, Len(records) \in Nat, NEW first, NEW byID, IndexSound(first, byID, records, 0)
  PROVE  IndexSound(IndexFiles(first, records), byID, records, Len(records))
<1> DEFINE N == Len(records)
           Rule(f, n) == IF n = 0 THEN first ELSE AddFiles(f[n - 1], records[n])
           T == {m \in 0..N : \E f : f = [n \in 0..m |-> Rule(f, n)]}
           after[n \in 0..N] == IF n = 0 THEN first ELSE AddFiles(after[n - 1], records[n])
           S == {m \in 0..N : IndexSound(after[m], byID, records, m)}
<1>1. N \in T
  <2>1. 0 \in T
    <3> DEFINE f == [n \in 0..0 |-> first]
    <3>1. f = [n \in 0..0 |-> Rule(f, n)]
      OBVIOUS
    <3> HIDE DEF f, Rule
    <3>2. \E h : h = [n \in 0..0 |-> Rule(h, n)]
      BY <3>1
    <3> QED BY <3>2
  <2>2. ASSUME NEW m \in 0..N, m \in T, m < N
        PROVE  m + 1 \in T
    <3> PICK f : f = [n \in 0..m |-> Rule(f, n)]
      BY <2>2
    <3> DEFINE g == [n \in 0..(m + 1) |-> IF n = m + 1 THEN AddFiles(f[m], records[m + 1]) ELSE f[n]]
    <3>1. \A n \in 0..m : f[n] = Rule(f, n)
      OBVIOUS
    <3>2. \A n \in 0..m : g[n] = f[n]
      OBVIOUS
    <3>3. g[m + 1] = AddFiles(f[m], records[m + 1])
      OBVIOUS
    <3>4. DOMAIN g = 0..(m + 1) /\ g = [n \in 0..(m + 1) |-> g[n]]
      OBVIOUS
    <3> HIDE DEF g
    <3>5. \A n \in 0..(m + 1) : g[n] = Rule(g, n)
      <4> TAKE n \in 0..(m + 1)
      <4>1. CASE n = m + 1
        BY <3>2, <3>3, <4>1
      <4>2. CASE n \in 0..m /\ n # 0
        <5>1. n - 1 \in 0..m
          BY <4>2
        <5> QED BY <3>1, <3>2, <4>2, <5>1
      <4>3. CASE n = 0
        BY <3>1, <3>2, <4>3
      <4> QED BY <4>1, <4>2, <4>3
    <3>6. g = [n \in 0..(m + 1) |-> Rule(g, n)]
      <4> HIDE DEF Rule
      <4> QED BY <3>4, <3>5
    <3>7. m + 1 \in 0..N
      BY <2>2
    <3> QED BY <3>6, <3>7
  <2> HIDE DEF T
  <2>3. 0..N \subseteq T
    BY <2>1, <2>2, UpTo
  <2> QED BY <2>3
<1>2. after = [n \in 0..N |-> IF n = 0 THEN first ELSE AddFiles(after[n - 1], records[n])]
  <2>1. \E f : f = [n \in 0..N |-> IF n = 0 THEN first ELSE AddFiles(f[n - 1], records[n])]
    BY <1>1
  <2> QED BY <2>1
<1>3. IndexFiles(first, records) = after[N]
  BY DEF IndexFiles
<1> HIDE DEF after
<1>4. after[0] = first /\ \A n \in 0..N : n < N => after[n + 1] = AddFiles(after[n], records[n + 1])
  <2>1. \A n \in 0..N : after[n] = IF n = 0 THEN first ELSE AddFiles(after[n - 1], records[n])
    BY <1>2
  <2>2. \A n \in 0..N : n < N => n + 1 \in 0..N /\ n + 1 # 0 /\ (n + 1) - 1 = n
    OBVIOUS
  <2> QED BY <2>1, <2>2
<1>5. 0 \in S
  BY <1>4
<1>6. \A m \in 0..N : m \in S /\ m < N => m + 1 \in S
  BY <1>4, AddFilesSound
<1> HIDE DEF S
<1>7. 0..N \subseteq S
  BY <1>5, <1>6, UpTo
<1> QED BY <1>3, <1>7 DEF S

-----------------------------------------------------------------------------
(* Who owns a file name. *)

\* The second pass begins with no name owned.
NoNames ==
  pc = "files" => index = [byID |-> index.byID, byFile |-> <<>>, ambiguous |-> {}]

THEOREM NamesUnowned == Spec => []NoNames
<1>1. Init => NoNames
  BY DEF Init, NoNames
<1>2. NoNames /\ [Next]_vars => NoNames'
  <2> SUFFICES ASSUME NoNames, [Next]_vars, pc' = "files"
               PROVE  index' = [byID |-> index'.byID, byFile |-> <<>>, ambiguous |-> {}]
    BY DEF NoNames
  <2>1. CASE ReadIDs
    <3>1. index' = [byID |-> IF plan.database THEN IndexIDs(DatabaseRecords) ELSE NoIndex.byID,
                    byFile |-> <<>>, ambiguous |-> {}]
      BY <2>1 DEF ReadIDs, NoIndex
    <3> QED BY <3>1
  <2>2. CASE UNCHANGED <<pc, index>>
    BY <2>2 DEF NoNames
  <2>3. Next => ReadIDs \/ UNCHANGED <<pc, index>> \/ pc' # "files"
    BY DEF Next, ReplaceArchive, PublishManifest, PublishDatabaseManifest, Change, runVars, Start,
       Validate, Leave, Declare, ReadFiles, MergeArchive, MergeDatabase, StageOutput, Commit, Abort
  <2> QED BY <2>1, <2>2, <2>3 DEF vars, runVars
<1> QED BY <1>1, <1>2, PTL DEF Spec

LEMMA IndexedSound ==
  ASSUME WorldSound, NoNames, ReadFiles, plan.database
  PROVE  IndexSound(index', index.byID, DatabaseRecords, Len(DatabaseRecords))
<1>1. IsSequence(DatabaseRecords)
  BY DatabaseFacts
<1>2. Len(DatabaseRecords) \in Nat
  BY <1>1, SequenceFacts
<1>3. IndexSound(index, index.byID, DatabaseRecords, 0)
  <2>1. index.byFile = <<>> /\ index.ambiguous = {} /\ DOMAIN <<>> = {} /\ 1..0 = {}
    BY DEF NoNames, ReadFiles
  <2> QED BY <2>1 DEF IndexSound, NoNames, ReadFiles
<1>4. index' = IndexFiles(index, DatabaseRecords)
  BY DEF ReadFiles
<1> QED BY <1>2, <1>3, <1>4, IndexFilesSound

\* In the index of any database manifest a file name is owned by a book that has it and
\* that wins over every other book that has it, whatever the order of the records
\* (addDatabaseFile, resolveDatabaseFileCollision).
THEOREM NamesHaveWinners == Spec => OwnersWin
<1> DEFINE Owned ==
      pc = "files" /\ pc' = "archives" =>
        \A name \in DOMAIN index'.byFile :
          LET owner == index'.byFile[name]
              holders == {rec.id : rec \in {r \in Range(DatabaseRecords) : name \in FileKeys(r)}}
          IN owner \in holders /\ \A id \in holders \ {owner} : Wins(index'.byID, owner, id)
<1>1. WorldSound /\ NoNames /\ [Next]_vars => Owned
  <2> SUFFICES ASSUME WorldSound, NoNames, [Next]_vars, pc = "files", pc' = "archives"
               PROVE  Owned
    OBVIOUS
  <2>1. ReadFiles
    BY DEF Next, vars, runVars, ReplaceArchive, PublishManifest, PublishDatabaseManifest, Change, Start,
       Validate, Leave, Declare, ReadIDs, MergeArchive, MergeDatabase, StageOutput, Commit, Abort
  <2>2. CASE ~plan.database
    <3>1. index'.byFile = <<>> /\ DOMAIN <<>> = {}
      BY <2>1, <2>2 DEF ReadFiles, NoNames
    <3> QED BY <3>1
  <2>3. CASE plan.database
    <3> DEFINE R == DatabaseRecords
    <3>1. IndexSound(index', index.byID, R, Len(R))
      BY <2>1, <2>3, IndexedSound
    <3>2. index'.byID = index.byID
      BY <3>1 DEF IndexSound
    <3>3. DOMAIN R = 1..Len(R)
      BY DatabaseFacts, SequenceFacts
    <3>4. \A name : {rec.id : rec \in {r \in Range(R) : name \in FileKeys(r)}} = Holders(R, Len(R), name)
      BY <3>3 DEF Holders, Range
    <3> HIDE DEF R
    <3> QED BY <3>1, <3>2, <3>4 DEF IndexSound, R
  <2> QED BY <2>2, <2>3
<1> QED BY <1>1, MergeInvariance, NamesUnowned, PTL DEF Spec, IInv, OwnersWin
=============================================================================
