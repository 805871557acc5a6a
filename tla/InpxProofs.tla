----------------------------- MODULE InpxProofs -----------------------------
(* Theorems about InpxExport, for any datasets, catalogue, options, and number of runs
   and stops.  The invariant says of each of the three writers what it has written
   after n records; lemmas say what Keep, the listing of an archive, the order of the
   records and the suffixes of names are, by inductions over sequences. *)
EXTENDS InpxExport, FiniteSetTheorems, SequenceTheorems, WellFoundedInduction, TLAPS

-----------------------------------------------------------------------------
(* What is kept of a sequence: Keep, by induction over its length *)

\* A set that holds 0, and with every number below n the next, holds all up to n.
LEMMA UpTo ==
  ASSUME NEW n \in Nat, NEW T, 0 \in T, \A i \in 0..n : i \in T /\ i < n => i + 1 \in T
  PROVE  0..n \subseteq T
<1> DEFINE Below(i) == {j \in 0..n : j < i}
           D == {Below(i) : i \in (0..n) \ T}
           R == StrictSubsetOrdering(0..n)
<1>1. \A i \in 0..n : Below(i) \in SUBSET (0..n)
  OBVIOUS
<1>2. \A i, j \in 0..n : i < j => Below(i) \subseteq Below(j) /\ Below(i) # Below(j)
  <2> TAKE i \in 0..n, j \in 0..n
  <2>1. i < j => Below(i) \subseteq Below(j)
    OBVIOUS
  <2>2. i < j => i \in Below(j) /\ i \notin Below(i)
    OBVIOUS
  <2> QED BY <2>1, <2>2
<1> HIDE DEF Below
<1>3. D \subseteq FiniteSubsetsOf(0..n)
  <2>1. IsFiniteSet(0..n)
    BY FS_Interval
  <2>2. FiniteSubsetsOf(0..n) = SUBSET (0..n)
    BY <2>1, FS_FiniteSubsetsOfFinite
  <2> QED BY <1>1, <2>2
<1>4. SUFFICES ASSUME D # {} PROVE FALSE
  OBVIOUS
<1>5. \E x \in D : \A y \in D : ~ (<<y, x>> \in R)
  <2> HIDE DEF D, R
  <2>1. IsWellFoundedOn(StrictSubsetOrdering(0..n), FiniteSubsetsOf(0..n))
    BY FS_StrictSubsetOrderingWellFounded
  <2> QED BY <1>3, <1>4, <2>1, WFMin DEF R
<1>6. PICK i \in (0..n) \ T : \A j \in (0..n) \ T : ~ (<<Below(j), Below(i)>> \in R)
  BY <1>5
<1>7. \A j \in (0..n) \ T : ~ (j < i)
  <2> SUFFICES ASSUME NEW j \in (0..n) \ T, j < i PROVE FALSE
    OBVIOUS
  <2>1. <<Below(j), Below(i)>> \in StrictSubsetOrdering(0..n)
    BY <1>1, <1>2 DEF StrictSubsetOrdering
  <2> QED BY <1>6, <2>1
<1>8. i # 0 /\ i - 1 \in 0..n
  OBVIOUS
<1>9. i - 1 \in T
  BY <1>7, <1>8
<1> QED BY <1>8, <1>9

\* So n itself is in it: an induction up to a number.
LEMMA Reaches ==
  ASSUME NEW n \in Nat, NEW T, 0 \in T, \A i \in 0..n : i \in T /\ i < n => i + 1 \in T
  PROVE  n \in T
BY UpTo

\* What a loop computes, step by step: there is such a function.
Stepwise(f, N, X, first, step) ==
  /\ f \in [0..N -> X] /\ f[0] = first
  /\ \A n \in 1..N : f[n] = step[n][f[n - 1]]

\* What a loop computes exists, for any length of it.
LEMMA Steps ==
  ASSUME NEW N \in Nat, NEW X, NEW first \in X, NEW step \in [1..N -> [X -> X]]
  PROVE  \E f : Stepwise(f, N, X, first, step)
<1> DEFINE Good(m, f) == f[0] = first /\ \A n \in 1..m : f[n] = step[n][f[n - 1]]
           T == {m \in 0..N : \E f \in [0..m -> X] : Good(m, f)}
<1>1. 0 \in T
  <2> DEFINE f == [n \in 0..0 |-> first]
  <2>1. f \in [0..0 -> X] /\ f[0] = first
    OBVIOUS
  <2> HIDE DEF f
  <2>2. Good(0, f)
    BY <2>1
  <2> QED BY <2>1, <2>2
<1>2. ASSUME NEW m \in 0..N, m \in T, m < N
      PROVE  m + 1 \in T
  <2> PICK f \in [0..m -> X] : Good(m, f)
    BY <1>2
  <2> DEFINE last == step[m + 1][f[m]]
             g == [n \in 0..(m + 1) |-> IF n = m + 1 THEN last ELSE f[n]]
  <2>1. m + 1 \in 1..N /\ f[m] \in X
    BY <1>2
  <2>2. last \in X
    BY <2>1
  <2> HIDE DEF last
  <2>3. g \in [0..(m + 1) -> X]
    BY <2>2
  <2>4. \A n \in 0..m : g[n] = f[n]
    OBVIOUS
  <2>5. g[m + 1] = last
    OBVIOUS
  <2> HIDE DEF g
  <2>6. ASSUME NEW n \in 1..(m + 1) PROVE g[n] = step[n][g[n - 1]]
    <3>1. CASE n = m + 1
      <4>1. g[n - 1] = f[m]
        BY <2>4, <3>1
      <4> QED BY <2>5, <3>1, <4>1 DEF last
    <3>2. CASE n \in 1..m
      <4>1. g[n] = f[n] /\ g[n - 1] = f[n - 1]
        BY <2>4, <3>2
      <4> QED BY <3>2, <4>1
    <3> QED BY <3>1, <3>2
  <2>7. Good(m + 1, g)
    BY <2>4, <2>6
  <2>8. m + 1 \in 0..N
    BY <1>2
  <2> QED BY <2>3, <2>7, <2>8
<1> HIDE DEF T
<1>3. 0..N \subseteq T
  BY <1>1, <1>2, UpTo
<1>4. N \in T
  BY <1>3
<1> QED BY <1>4 DEF T, Stepwise

\* How Keep goes through a sequence.
KeepStep(s, S, f) ==
  /\ f[0] = <<>>
  /\ \A n \in 1..Len(s) : f[n] = IF s[n] \in S THEN Append(f[n - 1], s[n]) ELSE f[n - 1]

\* Keep, as the last value of the loop of process.go:1529.
LEMMA KeepIs ==
  ASSUME NEW T, NEW s \in Seq(T), NEW S
  PROVE  \E f \in [0..Len(s) -> Seq(T)] : KeepStep(s, S, f) /\ Keep(s, S) = f[Len(s)]
<1> DEFINE N == Len(s)
           Rule(f, n) == IF n = 0 THEN <<>>
                         ELSE IF s[n] \in S THEN Append(f[n - 1], s[n]) ELSE f[n - 1]
           step == [n \in 1..N |-> [x \in Seq(T) |-> IF s[n] \in S THEN Append(x, s[n]) ELSE x]]
           kept == CHOOSE f : f = [n \in 0..N |-> Rule(f, n)]
<1>1. N \in Nat /\ <<>> \in Seq(T) /\ \A n \in 1..N : s[n] \in T
  OBVIOUS
<1>2. step \in [1..N -> [Seq(T) -> Seq(T)]]
  <2> SUFFICES ASSUME NEW n \in 1..N, NEW x \in Seq(T)
               PROVE  (IF s[n] \in S THEN Append(x, s[n]) ELSE x) \in Seq(T)
    OBVIOUS
  <2>1. Append(x, s[n]) \in Seq(T)
    BY <1>1
  <2> QED BY <2>1
<1>3. \A n \in 1..N, x \in Seq(T) : step[n][x] = IF s[n] \in S THEN Append(x, s[n]) ELSE x
  OBVIOUS
<1> HIDE DEF step, N
<1>4. PICK f \in [0..N -> Seq(T)] : f[0] = <<>> /\ \A n \in 1..N : f[n] = step[n][f[n - 1]]
  <2> DEFINE X == Seq(T)
             first == <<>>
  <2>1. first \in X /\ step \in [1..N -> [X -> X]] /\ N \in Nat
    BY <1>1, <1>2
  <2> HIDE DEF X, first
  <2>2. \E f : Stepwise(f, N, X, first, step)
    BY <2>1, Steps
  <2> QED BY <2>2 DEF X, first, Stepwise
<1>5. \A n \in 1..N : f[n] = IF s[n] \in S THEN Append(f[n - 1], s[n]) ELSE f[n - 1]
  <2> TAKE n \in 1..N
  <2>1. n - 1 \in 0..N
    BY <1>1
  <2>2. f[n - 1] \in Seq(T)
    BY <2>1
  <2> QED BY <1>3, <1>4, <2>2
<1>6. f = [n \in 0..N |-> Rule(f, n)]
  <2>1. \A n \in 0..N : f[n] = Rule(f, n)
    <3> TAKE n \in 0..N
    <3>1. n = 0 \/ n \in 1..N
      BY <1>1
    <3>2. CASE n = 0
      BY <1>4, <3>2
    <3>3. CASE n \in 1..N
      <4>1. n # 0
        BY <3>3, <1>1
      <4> QED BY <1>5, <3>3, <4>1
    <3> QED BY <3>1, <3>2, <3>3
  <2>2. f = [n \in 0..N |-> f[n]]
    BY <1>4
  <2> HIDE DEF Rule
  <2> QED BY <2>1, <2>2
<1>7. kept = [n \in 0..N |-> Rule(kept, n)]
  <2> HIDE DEF Rule
  <2> QED BY <1>6
<1>8. Keep(s, S) = kept[N]
  BY DEF Keep, N
<1> HIDE DEF kept
<1>9. \A n \in 0..N : kept[n] = Rule(kept, n)
  <2> HIDE DEF Rule
  <2> QED BY <1>7
<1>10. kept[0] = <<>> /\ \A n \in 1..N : kept[n] = IF s[n] \in S THEN Append(kept[n - 1], s[n]) ELSE kept[n - 1]
  <2>1. 0 \in 0..N /\ \A n \in 1..N : n \in 0..N /\ n # 0
    BY <1>1
  <2> QED BY <1>9, <2>1
<1>11. 0..N \subseteq {n \in 0..N : kept[n] = f[n]}
  <2> DEFINE Z == {n \in 0..N : kept[n] = f[n]}
  <2>1. 0 \in Z
    BY <1>1, <1>4, <1>10
  <2>2. ASSUME NEW m \in 0..N, m \in Z, m < N PROVE m + 1 \in Z
    <3>1. m + 1 \in 1..N /\ (m + 1) - 1 = m /\ m + 1 \in 0..N
      BY <1>1, <2>2
    <3> QED BY <1>5, <1>10, <2>2, <3>1
  <2> HIDE DEF Z
  <2> QED BY <1>1, <2>1, <2>2, UpTo DEF Z
<1>12. kept[N] = f[N]
  BY <1>1, <1>11
<1> QED BY <1>4, <1>5, <1>8, <1>12 DEF KeepStep, N

\* Of nothing, nothing is kept.
LEMMA KeepEmpty == ASSUME NEW S PROVE Keep(<<>>, S) = <<>>
<1>1. <<>> \in Seq({}) /\ Len(<<>>) = 0
  OBVIOUS
<1>2. PICK f \in [0..Len(<<>>) -> Seq({})] : KeepStep(<<>>, S, f) /\ Keep(<<>>, S) = f[Len(<<>>)]
  BY <1>1, KeepIs
<1> QED BY <1>1, <1>2 DEF KeepStep

\* The elements of a sequence with one more.
LEMMA RangeAppend ==
  ASSUME NEW T, NEW s \in Seq(T), NEW x \in T
  PROVE  Range(Append(s, x)) = Range(s) \cup {x}
<1>1. DOMAIN Append(s, x) = 1..(Len(s) + 1) /\ DOMAIN s = 1..Len(s) /\ Len(s) \in Nat
  OBVIOUS
<1>2. \A k \in 1..Len(s) : Append(s, x)[k] = s[k]
  OBVIOUS
<1>3. Append(s, x)[Len(s) + 1] = x
  OBVIOUS
<1>4. 1..(Len(s) + 1) = 1..Len(s) \cup {Len(s) + 1}
  BY <1>1
<1> QED BY <1>1, <1>2, <1>3, <1>4 DEF Range

\* What Keep keeps.
LEMMA KeepRange ==
  ASSUME NEW T, NEW s \in Seq(T), NEW S
  PROVE  Keep(s, S) \in Seq(T) /\ Range(Keep(s, S)) = Range(s) \cap S
<1>1. PICK f \in [0..Len(s) -> Seq(T)] : KeepStep(s, S, f) /\ Keep(s, S) = f[Len(s)]
  BY KeepIs
<1> DEFINE Z == {n \in 0..Len(s) : Range(f[n]) = {s[k] : k \in 1..n} \cap S}
<1>2. Len(s) \in Nat /\ \A n \in 0..Len(s) : f[n] \in Seq(T)
  BY <1>1
<1>3. 0 \in Z
  <2>1. Range(<<>>) = {} /\ {s[k] : k \in 1..0} = {}
    BY DEF Range
  <2> QED BY <1>1, <1>2, <2>1 DEF KeepStep
<1>4. ASSUME NEW n \in 0..Len(s), n \in Z, n < Len(s) PROVE n + 1 \in Z
  <2>1. n + 1 \in 1..Len(s) /\ (n + 1) - 1 = n /\ f[n] \in Seq(T) /\ s[n + 1] \in T
    BY <1>2, <1>4
  <2>2. f[n + 1] = IF s[n + 1] \in S THEN Append(f[n], s[n + 1]) ELSE f[n]
    BY <1>1, <2>1 DEF KeepStep
  <2>3. {s[k] : k \in 1..(n + 1)} = {s[k] : k \in 1..n} \cup {s[n + 1]}
    BY <1>4
  <2>4. CASE s[n + 1] \in S
    <3>1. Range(Append(f[n], s[n + 1])) = Range(f[n]) \cup {s[n + 1]}
      BY <2>1, RangeAppend
    <3>2. f[n + 1] = Append(f[n], s[n + 1])
      BY <2>2, <2>4
    <3>3. Range(f[n]) = {s[k] : k \in 1..n} \cap S
      BY <1>4
    <3>4. Range(f[n + 1]) = {s[k] : k \in 1..(n + 1)} \cap S
      BY <2>3, <2>4, <3>1, <3>2, <3>3
    <3> QED BY <2>1, <3>4
  <2>5. CASE s[n + 1] \notin S
    BY <1>4, <2>1, <2>2, <2>3, <2>5
  <2> QED BY <2>4, <2>5
<1> HIDE DEF Z
<1>5. Len(s) \in Z
  BY <1>2, <1>3, <1>4, Reaches
<1>6. Range(s) = {s[k] : k \in 1..Len(s)}
  BY DEF Range
<1> QED BY <1>1, <1>2, <1>5, <1>6 DEF Z

Associates(a, b, c) == Append(a \o b, c) = a \o Append(b, c)

\* Appending after joining is joining with what was appended to.
LEMMA AppendConcat ==
  ASSUME NEW T, NEW a, NEW b, NEW c, a \in Seq(T), b \in Seq(T), c \in T
  PROVE  Associates(a, b, c)
<1>1. a \o b \in Seq(T) /\ Append(b, c) \in Seq(T)
  OBVIOUS
<1>2. Append(a \o b, c) = (a \o b) \o <<c>>
  BY <1>1, AppendIsConcat
<1>3. Append(b, c) = b \o <<c>>
  BY <1>1, AppendIsConcat
<1>4. <<c>> \in Seq(T)
  OBVIOUS
<1>5. (a \o b) \o <<c>> = a \o (b \o <<c>>)
  BY <1>4, ConcatAssociative
<1> QED BY <1>2, <1>3, <1>5 DEF Associates

\* What is at most n + 1 is n + 1 or at most n.
LEMMA LastOr == ASSUME NEW n \in Nat, NEW k \in 1..(n + 1) PROVE k = n + 1 \/ k \in 1..n
OBVIOUS

\* What is kept of two sequences joined.
LEMMA KeepConcat ==
  ASSUME NEW T, NEW s \in Seq(T), NEW t \in Seq(T), NEW S
  PROVE  Keep(s \o t, S) = Keep(s, S) \o Keep(t, S)
<1>1. s \o t \in Seq(T) /\ Len(s \o t) = Len(s) + Len(t) /\ Len(s) \in Nat /\ Len(t) \in Nat
  OBVIOUS
<1>2. PICK f \in [0..Len(s) -> Seq(T)] : KeepStep(s, S, f) /\ Keep(s, S) = f[Len(s)]
  BY KeepIs
<1>3. PICK g \in [0..Len(t) -> Seq(T)] : KeepStep(t, S, g) /\ Keep(t, S) = g[Len(t)]
  BY KeepIs
<1>4. PICK h \in [0..Len(s \o t) -> Seq(T)] : KeepStep(s \o t, S, h) /\ Keep(s \o t, S) = h[Len(s \o t)]
  BY <1>1, KeepIs
<1>5. \A k \in 1..Len(s) : (s \o t)[k] = s[k]
  OBVIOUS
<1>6. \A k \in 1..Len(t) : (s \o t)[Len(s) + k] = t[k]
  OBVIOUS
<1> DEFINE st == s \o t
           Y == {n \in 0..Len(s) : h[n] = f[n]}
           Z == {n \in 0..Len(t) : h[Len(s) + n] = f[Len(s)] \o g[n]}
<1>7. /\ h[0] = <<>> /\ f[0] = <<>> /\ g[0] = <<>>
      /\ \A n \in 1..Len(s) : f[n] = IF s[n] \in S THEN Append(f[n - 1], s[n]) ELSE f[n - 1]
      /\ \A n \in 1..Len(t) : g[n] = IF t[n] \in S THEN Append(g[n - 1], t[n]) ELSE g[n - 1]
      /\ \A n \in 1..(Len(s) + Len(t)) : h[n] = IF st[n] \in S THEN Append(h[n - 1], st[n]) ELSE h[n - 1]
  BY <1>1, <1>2, <1>3, <1>4 DEF KeepStep
<1>8. \A k \in 1..Len(s) : st[k] = s[k]
  BY <1>5
<1>9. \A k \in 1..Len(t) : st[Len(s) + k] = t[k]
  BY <1>6
<1> HIDE DEF st
<1>10. Len(s) \in Y
  <2>1. 0 \in Y
    BY <1>1, <1>7
  <2>2. ASSUME NEW n \in 0..Len(s), n \in Y, n < Len(s) PROVE n + 1 \in Y
    <3>1. n + 1 \in 1..Len(s) /\ n + 1 \in 1..(Len(s) + Len(t)) /\ (n + 1) - 1 = n
      BY <1>1, <2>2
    <3>2. h[n + 1] = f[n + 1]
      BY <1>7, <1>8, <2>2, <3>1
    <3> QED BY <3>1, <3>2
  <2> HIDE DEF Y
  <2> QED BY <1>1, <2>1, <2>2, Reaches
<1>11. Len(t) \in Z
  <2>1. f[Len(s)] \in Seq(T) /\ \A n \in 0..Len(t) : g[n] \in Seq(T)
    <3>1. f[Len(s)] \in Seq(T)
      BY <1>1, <1>2
    <3>2. \A n \in 0..Len(t) : g[n] \in Seq(T)
      BY <1>1, <1>3
    <3> QED BY <3>1, <3>2
  <2>2. 0 \in Z
    <3>1. f[Len(s)] \o <<>> = f[Len(s)]
      BY <2>1
    <3>2. h[Len(s)] = f[Len(s)] /\ Len(s) + 0 = Len(s) /\ 0 \in 0..Len(t)
      BY <1>1, <1>10
    <3> QED BY <1>7, <3>1, <3>2
  <2>3. ASSUME NEW n \in 0..Len(t), n \in Z, n < Len(t) PROVE n + 1 \in Z
    <3>1. /\ n + 1 \in 1..Len(t) /\ (n + 1) - 1 = n
          /\ Len(s) + (n + 1) \in 1..(Len(s) + Len(t)) /\ (Len(s) + (n + 1)) - 1 = Len(s) + n
      BY <1>1, <2>3
    <3>2. st[Len(s) + (n + 1)] = t[n + 1] /\ h[Len(s) + n] = f[Len(s)] \o g[n]
      BY <1>9, <2>3, <3>1
    <3>3. h[Len(s) + (n + 1)] = IF t[n + 1] \in S THEN Append(f[Len(s)] \o g[n], t[n + 1]) ELSE f[Len(s)] \o g[n]
      BY <1>7, <3>1, <3>2
    <3>4. g[n + 1] = IF t[n + 1] \in S THEN Append(g[n], t[n + 1]) ELSE g[n]
      BY <1>7, <3>1
    <3>5. Append(f[Len(s)] \o g[n], t[n + 1]) = f[Len(s)] \o Append(g[n], t[n + 1])
      <4>1. t[n + 1] \in T
        BY <3>1
      <4>2. f[Len(s)] \in Seq(T) /\ g[n] \in Seq(T)
        BY <2>1
      <4> DEFINE a == f[Len(s)]
                 b == g[n]
                 x == t[n + 1]
      <4>3. a \in Seq(T) /\ b \in Seq(T) /\ x \in T
        BY <4>1, <4>2
      <4> HIDE DEF a, b, x
      <4>4. Append(a \o b, x) = a \o Append(b, x)
        <5>1. Associates(a, b, x)
          BY <4>3, AppendConcat
        <5> QED BY <5>1 DEF Associates
      <4> QED BY <4>4 DEF a, b, x
    <3>6. h[Len(s) + (n + 1)] = f[Len(s)] \o g[n + 1]
      BY <3>3, <3>4, <3>5
    <3>7. n + 1 \in 0..Len(t)
      BY <1>1, <2>3
    <3> QED BY <3>6, <3>7
  <2> HIDE DEF Z
  <2> QED BY <1>1, <2>2, <2>3, Reaches
<1> QED BY <1>1, <1>2, <1>3, <1>4, <1>11

\* Only what is in the sequence matters of what is to be kept.
LEMMA KeepSame ==
  ASSUME NEW T, NEW s \in Seq(T), NEW S, NEW U, \A k \in 1..Len(s) : s[k] \in S <=> s[k] \in U
  PROVE  Keep(s, S) = Keep(s, U)
<1>1. PICK f \in [0..Len(s) -> Seq(T)] : KeepStep(s, S, f) /\ Keep(s, S) = f[Len(s)]
  BY KeepIs
<1>2. PICK g \in [0..Len(s) -> Seq(T)] : KeepStep(s, U, g) /\ Keep(s, U) = g[Len(s)]
  BY KeepIs
<1> DEFINE Z == {n \in 0..Len(s) : f[n] = g[n]}
<1>3. 0 \in Z
  BY <1>1, <1>2 DEF KeepStep
<1>4. ASSUME NEW n \in 0..Len(s), n \in Z, n < Len(s) PROVE n + 1 \in Z
  <2>1. n + 1 \in 1..Len(s) /\ (n + 1) - 1 = n
    BY <1>4
  <2> QED BY <1>1, <1>2, <1>4, <2>1 DEF KeepStep
<1> HIDE DEF Z
<1>5. Len(s) \in Z
  BY <1>3, <1>4, Reaches
<1> QED BY <1>1, <1>2, <1>5 DEF Z

\* Where all is to be kept, nothing changes.
LEMMA KeepAll ==
  ASSUME NEW T, NEW s \in Seq(T), NEW S, \A k \in 1..Len(s) : s[k] \in S
  PROVE  Keep(s, S) = s
<1>1. PICK f \in [0..Len(s) -> Seq(T)] : KeepStep(s, S, f) /\ Keep(s, S) = f[Len(s)]
  BY KeepIs
<1> DEFINE Z == {n \in 0..Len(s) : Len(f[n]) = n /\ \A k \in 1..n : f[n][k] = s[k]}
<1>2. Len(s) \in Nat /\ \A n \in 0..Len(s) : f[n] \in Seq(T)
  BY <1>1
<1>3. 0 \in Z
  BY <1>1, <1>2 DEF KeepStep
<1>4. ASSUME NEW n \in 0..Len(s), n \in Z, n < Len(s) PROVE n + 1 \in Z
  <2>1. n + 1 \in 1..Len(s) /\ (n + 1) - 1 = n /\ f[n] \in Seq(T) /\ s[n + 1] \in T
    BY <1>2, <1>4
  <2>2. f[n + 1] = Append(f[n], s[n + 1])
    BY <1>1, <2>1 DEF KeepStep
  <2> DEFINE g == f[n]
             x == s[n + 1]
  <2>3. g \in Seq(T) /\ x \in T /\ Len(g) = n /\ \A k \in 1..n : g[k] = s[k]
    BY <1>4, <2>1
  <2>4. f[n + 1] = Append(g, x)
    BY <2>2
  <2> HIDE DEF g
  <2>5. Len(Append(g, x)) = n + 1 /\ (\A k \in 1..n : Append(g, x)[k] = g[k]) /\ Append(g, x)[n + 1] = x
    BY <2>3
  <2>6. \A k \in 1..(n + 1) : f[n + 1][k] = s[k]
    BY <2>3, <2>4, <2>5
  <2>7. Len(f[n + 1]) = n + 1 /\ n + 1 \in 0..Len(s)
    BY <1>2, <1>4, <2>4, <2>5
  <2> QED BY <2>6, <2>7
<1> HIDE DEF Z
<1>5. Len(s) \in Z
  BY <1>2, <1>3, <1>4, Reaches
<1>6. Len(Keep(s, S)) = Len(s) /\ Keep(s, S) \in Seq(T) /\ \A k \in 1..Len(s) : Keep(s, S)[k] = s[k]
  BY <1>1, <1>2, <1>5 DEF Z
<1> QED BY <1>6

\* Nothing is kept exactly of a sequence without anything to keep.
LEMMA KeepNone ==
  ASSUME NEW T, NEW s \in Seq(T), NEW S
  PROVE  Keep(s, S) = <<>> <=> \A k \in 1..Len(s) : s[k] \notin S
<1>1. Keep(s, S) \in Seq(T) /\ Range(Keep(s, S)) = Range(s) \cap S
  BY KeepRange
<1>2. Keep(s, S) = <<>> <=> Range(Keep(s, S)) = {}
  <2>1. Keep(s, S) = <<>> => Range(Keep(s, S)) = {}
    BY DEF Range
  <2>2. Keep(s, S) # <<>> => Keep(s, S)[1] \in Range(Keep(s, S))
    BY <1>1 DEF Range
  <2> QED BY <2>1, <2>2
<1>3. Range(s) \cap S = {} <=> \A k \in 1..Len(s) : s[k] \notin S
  BY DEF Range
<1> QED BY <1>1, <1>2, <1>3

\* What is kept of a single element.
LEMMA KeepOne ==
  ASSUME NEW x, NEW S
  PROVE  Keep(<<x>>, S) = IF x \in S THEN <<x>> ELSE <<>>
<1> DEFINE s == <<x>>
<1>1. s \in Seq({x}) /\ Len(s) = 1 /\ s[1] = x
  OBVIOUS
<1> HIDE DEF s
<1>2. \A k \in 1..Len(s) : s[k] = x
  BY <1>1
<1>3. x \in S => Keep(s, S) = s
  BY <1>1, <1>2, KeepAll
<1>4. x \notin S => Keep(s, S) = <<>>
  BY <1>1, <1>2, KeepNone
<1> QED BY <1>3, <1>4 DEF s

\* What is kept with one element more.
LEMMA KeepAppend ==
  ASSUME NEW T, NEW s \in Seq(T), NEW x \in T, NEW S
  PROVE  Keep(Append(s, x), S) = IF x \in S THEN Append(Keep(s, S), x) ELSE Keep(s, S)
<1> DEFINE t == <<x>>
<1>1. Append(s, x) = s \o t /\ t \in Seq(T)
  OBVIOUS
<1>2. Keep(s \o t, S) = Keep(s, S) \o Keep(t, S)
  <2> HIDE DEF t
  <2> QED BY <1>1, KeepConcat
<1>3. Keep(s, S) \in Seq(T)
  BY KeepRange
<1>4. Keep(s, S) \o <<>> = Keep(s, S) /\ Keep(s, S) \o <<x>> = Append(Keep(s, S), x)
  BY <1>3
<1> QED BY <1>1, <1>2, <1>4, KeepOne

Increasing(s) == \A j, k \in DOMAIN s : j < k => s[j] < s[k]

\* Keeping preserves the order of numbers.
LEMMA KeepIncreasing ==
  ASSUME NEW s \in Seq(Int), NEW S, Increasing(s)
  PROVE  Increasing(Keep(s, S))
<1>1. PICK f \in [0..Len(s) -> Seq(Int)] : KeepStep(s, S, f) /\ Keep(s, S) = f[Len(s)]
  BY KeepIs
<1> DEFINE Below(n) == \A k \in DOMAIN f[n] : \E j \in 1..n : f[n][k] = s[j]
           Z == {n \in 0..Len(s) : Increasing(f[n]) /\ Below(n)}
<1>2. Len(s) \in Nat /\ \A n \in 0..Len(s) : f[n] \in Seq(Int)
  BY <1>1
<1>3. 0 \in Z
  BY <1>1, <1>2 DEF KeepStep, Increasing
<1>4. ASSUME NEW n \in 0..Len(s), n \in Z, n < Len(s) PROVE n + 1 \in Z
  <2>1. n + 1 \in 1..Len(s) /\ (n + 1) - 1 = n /\ s[n + 1] \in Int
    BY <1>2, <1>4
  <2>2. CASE s[n + 1] \in S
    <3> DEFINE g == f[n]
               x == s[n + 1]
    <3>1. g \in Seq(Int) /\ x \in Int /\ f[n + 1] = Append(g, x)
      BY <1>1, <1>2, <2>1, <2>2 DEF KeepStep
    <3>2. \A k \in DOMAIN g : \E j \in 1..n : g[k] = s[j]
      BY <1>4
    <3>3. \A k \in DOMAIN g : g[k] < x
      <4> TAKE k \in DOMAIN g
      <4> PICK j \in 1..n : g[k] = s[j]
        BY <3>2
      <4>1. j < n + 1 /\ j \in DOMAIN s /\ n + 1 \in DOMAIN s
        BY <1>2, <2>1
      <4> QED BY <4>1 DEF Increasing
    <3>4. Increasing(g)
      BY <1>4
    <3>5. \A j \in 1..n : j \in 1..(n + 1)
      OBVIOUS
    <3> HIDE DEF g
    <3>6. DOMAIN g = 1..Len(g) /\ DOMAIN Append(g, x) = 1..(Len(g) + 1) /\ Len(g) \in Nat
      BY <3>1
    <3>10. Len(g) \in Nat
      BY <3>6
    <3>7. (\A k \in 1..Len(g) : Append(g, x)[k] = g[k]) /\ Append(g, x)[Len(g) + 1] = x
      BY <3>1
    <3>8. Increasing(Append(g, x))
      <4> SUFFICES ASSUME NEW j \in 1..(Len(g) + 1), NEW k \in 1..(Len(g) + 1), j < k
                   PROVE  Append(g, x)[j] < Append(g, x)[k]
        BY <3>6 DEF Increasing
      <4>1. j \in 1..Len(g)
        BY <3>6
      <4>2. CASE k = Len(g) + 1
        BY <3>3, <3>6, <3>7, <4>1, <4>2
      <4>3. CASE k \in 1..Len(g)
        <5>1. g[j] < g[k]
          BY <3>4, <3>6, <4>1, <4>3 DEF Increasing
        <5> QED BY <3>7, <4>1, <4>3, <5>1
      <4>4. k = Len(g) + 1 \/ k \in 1..Len(g)
        BY <3>10, LastOr
      <4> QED BY <4>2, <4>3, <4>4
    <3>9. \A k \in DOMAIN Append(g, x) : \E j \in 1..(n + 1) : Append(g, x)[k] = s[j]
      <4> TAKE k \in 1..(Len(g) + 1)
      <4>1. CASE k = Len(g) + 1
        BY <2>1, <3>7, <4>1
      <4>2. CASE k \in 1..Len(g)
        <5> PICK i \in 1..n : g[k] = s[i]
          BY <3>2, <3>6, <4>2
        <5>1. i \in 1..(n + 1) /\ Append(g, x)[k] = s[i]
          BY <3>5, <3>7, <4>2
        <5> QED BY <5>1
      <4>3. k = Len(g) + 1 \/ k \in 1..Len(g)
        BY <3>10, LastOr
      <4> QED BY <4>1, <4>2, <4>3
    <3>11. n + 1 \in 0..Len(s)
      BY <2>1
    <3> QED BY <3>1, <3>8, <3>9, <3>11
  <2>3. CASE s[n + 1] \notin S
    <3>1. f[n + 1] = f[n]
      BY <1>1, <2>1, <2>3 DEF KeepStep
    <3>2. \A j \in 1..n : j \in 1..(n + 1)
      OBVIOUS
    <3> QED BY <1>4, <2>1, <3>1, <3>2
  <2> QED BY <2>2, <2>3
<1> HIDE DEF Z
<1>5. Len(s) \in Z
  BY <1>2, <1>3, <1>4, Reaches
<1> QED BY <1>1, <1>5 DEF Z

\* The positions of a sequence, in their order.
LEMMA PositionsAre ==
  ASSUME NEW T, NEW s \in Seq(T)
  PROVE  Positions(s) \in Seq(DOMAIN s) /\ Positions(s) \in Seq(Int) /\ Len(Positions(s)) = Len(s)
         /\ Range(Positions(s)) = DOMAIN s /\ Increasing(Positions(s))
         /\ \A k \in DOMAIN s : Positions(s)[k] = k
<1>1. DOMAIN s = 1..Len(s) /\ Len(s) \in Nat
  OBVIOUS
<1>2. Positions(s) = [k \in 1..Len(s) |-> k]
  BY <1>1 DEF Positions
<1> QED BY <1>1, <1>2 DEF Increasing, Range

-----------------------------------------------------------------------------
(* Which entries of an archive are listed (ArchiveListing) *)

\* A set of numbers has a least one.
LEMMA Least ==
  ASSUME NEW S \in SUBSET Nat, S # {}
  PROVE  \E m \in S : \A s \in S : m <= s
<1> SUFFICES ASSUME ~\E m \in S : \A s \in S : m <= s PROVE FALSE
  OBVIOUS
<1> PICK m \in S : TRUE
  OBVIOUS
<1> DEFINE T == {n \in Nat : \A s \in S : n <= s}
<1>1. 0 \in T
  OBVIOUS
<1>2. ASSUME NEW n \in 0..m, n \in T, n < m PROVE n + 1 \in T
  <2>1. n \notin S
    BY <1>2
  <2> QED BY <1>2, <2>1
<1> HIDE DEF T
<1>3. m \in T
  BY <1>1, <1>2, Reaches
<1> QED BY <1>3 DEF T

\* The first volume of a numbered set is one of it.
LEMMA FirstIsIn ==
  ASSUME NEW files, NEW g, g # {}, \A i \in g : Number(files, i) \in Nat
  PROVE  First(files, g) \in g /\ \A j \in g : Number(files, First(files, g)) <= Number(files, j)
<1> DEFINE Numbers == {Number(files, j) : j \in g}
<1>1. Numbers \in SUBSET Nat /\ Numbers # {}
  OBVIOUS
<1>2. PICK m \in Numbers : \A s \in Numbers : m <= s
  <2> HIDE DEF Numbers
  <2> QED BY <1>1, Least
<1>3. \E i \in g : \A j \in g : Number(files, i) <= Number(files, j)
  BY <1>2
<1> QED BY <1>3 DEF First

GroupOf(files, scope, i) == {j \in Numbered(files, scope) : SameGroup(files, i, j)}

\* A numbered continuation and its root are of one group, which the continuation tells.
LEMMA NumberedGroups ==
  ASSUME NEW files, NEW scope, NEW p \in NumberedPairs(files, scope)
  PROVE  p[2] \in Numbered(files, scope) /\ p[1] = First(files, GroupOf(files, scope, p[2]))
         /\ p[2] \in GroupOf(files, scope, p[2])
         /\ p = <<p[1], p[2]>>
<1> PICK g \in NumberedSets(files, scope) : p \in {First(files, g)} \X (g \ {First(files, g)})
  BY DEF NumberedPairs
<1>1. PICK i \in Numbered(files, scope) : g = GroupOf(files, scope, i)
  BY DEF NumberedSets, GroupOf
<1>2. p[2] \in g /\ p[1] = First(files, g) /\ p = <<p[1], p[2]>>
  OBVIOUS
<1>3. g = GroupOf(files, scope, p[2])
  BY <1>1, <1>2 DEF GroupOf, SameGroup
<1> QED BY <1>1, <1>2, <1>3 DEF GroupOf

\* A volume and its root are considered entries (groupVolumes).
LEMMA ContinuationPairs ==
  ASSUME NEW files \in Seq(DOMAIN File), NEW scope, NEW p \in Continuations(files, scope)
  PROVE  p = <<p[1], p[2]>> /\ p[1] \in Considered(files, scope) /\ p[2] \in Considered(files, scope)
<1>1. CASE p \in NamedPairs(files, scope)
  BY <1>1 DEF NamedPairs, Numbered
<1>2. CASE p \in NumberedPairs(files, scope)
  <2> DEFINE g == GroupOf(files, scope, p[2])
  <2>1. p[2] \in g /\ p[1] = First(files, g) /\ p[2] \in Numbered(files, scope) /\ p = <<p[1], p[2]>>
    BY <1>2, NumberedGroups
  <2>2. \A j \in g : j \in DOMAIN files /\ files[j] \in DOMAIN File /\ Number(files, j) # Unnumbered
        /\ j \in Considered(files, scope)
    BY DEF GroupOf, Numbered, Considered
  <2>3. \A j \in g : Number(files, j) \in Nat
    BY <2>2, ListingFiles DEF Number
  <2> HIDE DEF g
  <2>4. First(files, g) \in g
    BY <2>1, <2>3, FirstIsIn
  <2> QED BY <2>1, <2>2, <2>4
<1> QED BY <1>1, <1>2 DEF Continuations

\* Nothing is a volume of two.
LEMMA OneRoot ==
  ASSUME NEW files \in Seq(DOMAIN File), NEW scope,
         NEW p \in Continuations(files, scope), NEW q \in Continuations(files, scope), p[2] = q[2]
  PROVE  p = q
<1> DEFINE named == NamedPairs(files, scope)
<1>1. p = <<p[1], p[2]>> /\ q = <<q[1], q[2]>> /\ p[1] \in Int /\ q[1] \in Int
  <2>1. Considered(files, scope) \subseteq DOMAIN files
    BY DEF Considered
  <2>2. DOMAIN files = 1..Len(files) /\ Len(files) \in Nat
    OBVIOUS
  <2> QED BY <2>1, <2>2, ContinuationPairs
<1>2. p \in named <=> q \in named
  <2>1. \A x \in Continuations(files, scope) : x \notin named => \A y \in named : y[2] # x[2]
    BY DEF Continuations
  <2> HIDE DEF named
  <2> QED BY <2>1
<1>3. CASE p \in named
  <2>1. q \in named
    BY <1>2, <1>3
  <2>2. p[1] \in RootsByName(files, scope, p[2]) /\ \A j \in RootsByName(files, scope, p[2]) : j <= p[1]
    BY <1>3 DEF NamedPairs
  <2>3. q[1] \in RootsByName(files, scope, q[2]) /\ \A j \in RootsByName(files, scope, q[2]) : j <= q[1]
    BY <2>1 DEF NamedPairs
  <2>4. p[1] = q[1]
    BY <1>1, <2>2, <2>3
  <2> QED BY <1>1, <2>4
<1>4. CASE p \notin named
  <2>1. p \in NumberedPairs(files, scope) /\ q \in NumberedPairs(files, scope)
    BY <1>2, <1>4 DEF Continuations
  <2>2. p[1] = First(files, GroupOf(files, scope, p[2])) /\ q[1] = First(files, GroupOf(files, scope, q[2]))
    BY <2>1, NumberedGroups
  <2> QED BY <1>1, <2>2
<1> QED BY <1>3, <1>4

\* What is listed of an archive: the considered entries that are no volumes, in their order.
LEMMA ListedIs ==
  ASSUME NEW files \in Seq(DOMAIN File), NEW scope
  PROVE  /\ Listed(files, scope) \in Seq(DOMAIN files) /\ Increasing(Listed(files, scope))
         /\ Range(Listed(files, scope)) = Considered(files, scope) \ Skipped(files, scope)
<1> DEFINE P == Positions(files)
           S == Considered(files, scope) \ Skipped(files, scope)
           D == DOMAIN files
<1>1. P \in Seq(D) /\ P \in Seq(Int) /\ Range(P) = D /\ Increasing(P)
  BY PositionsAre
<1>2. S \subseteq D
  BY DEF Considered
<1> HIDE DEF P, S, D
<1>3. Keep(P, S) \in Seq(D) /\ Range(Keep(P, S)) = Range(P) \cap S
  BY <1>1, KeepRange
<1>4. Increasing(Keep(P, S))
  BY <1>1, KeepIncreasing
<1> QED BY <1>1, <1>2, <1>3, <1>4 DEF P, S, D, Listed

-----------------------------------------------------------------------------
(* The records of a dataset (InpxInput) *)

\* How FlattenSeq goes through its sequences.
FlattenStep(seqs, f) == f[0] = <<>> /\ \A n \in 1..Len(seqs) : f[n] = f[n - 1] \o seqs[n]

\* A sequence of sequences joined, as the last value of a loop.
LEMMA FlattenIs ==
  ASSUME NEW T, NEW seqs \in Seq(Seq(T))
  PROVE  \E f \in [0..Len(seqs) -> Seq(T)] : FlattenStep(seqs, f) /\ FlattenSeq(seqs) = f[Len(seqs)]
<1> DEFINE N == Len(seqs)
           X == Seq(T)
           first == <<>>
           step == [n \in 1..N |-> [x \in X |-> x \o seqs[n]]]
           Rule(f, n) == IF n = 1 THEN seqs[n] ELSE f[n - 1] \o seqs[n]
           flat == CHOOSE f : f = [n \in 1..N |-> Rule(f, n)]
<1>1. N \in Nat /\ first \in X /\ \A n \in 1..N : seqs[n] \in X
  OBVIOUS
<1>2. step \in [1..N -> [X -> X]]
  <2> SUFFICES ASSUME NEW n \in 1..N, NEW x \in X PROVE x \o seqs[n] \in X
    OBVIOUS
  <2> QED BY <1>1
<1>3. \A n \in 1..N, x \in X : step[n][x] = x \o seqs[n]
  OBVIOUS
<1>4. FlattenSeq(seqs) = IF N = 0 THEN seqs ELSE flat[N]
  BY DEF FlattenSeq
<1>5. N = 0 => seqs = <<>>
  OBVIOUS
<1> HIDE DEF step, N, first, X
<1>6. PICK f : Stepwise(f, N, X, first, step)
  BY <1>1, <1>2, Steps
<1>7. f \in [0..N -> X] /\ f[0] = first
  BY <1>6 DEF Stepwise
<1>8. \A n \in 1..N : f[n] = f[n - 1] \o seqs[n]
  <2> TAKE n \in 1..N
  <2>1. n - 1 \in 0..N
    BY <1>1
  <2>2. f[n - 1] \in X
    BY <1>7, <2>1
  <2>3. f[n] = step[n][f[n - 1]]
    BY <1>6 DEF Stepwise
  <2> QED BY <1>3, <2>2, <2>3
<1> DEFINE g == [n \in 1..N |-> f[n]]
<1>9. g = [n \in 1..N |-> Rule(g, n)]
  <2>1. \A n \in 1..N : g[n] = Rule(g, n)
    <3> TAKE n \in 1..N
    <3>1. CASE n = 1
      <4>1. first \o seqs[1] = seqs[1]
        BY <1>1, <3>1 DEF first, X
      <4>2. g[1] = f[1] /\ f[1] = f[0] \o seqs[1]
        <5>1. 1 - 1 = 0 /\ 1 \in 1..N
          BY <3>1
        <5>2. f[1] = f[1 - 1] \o seqs[1]
          BY <1>8, <5>1
        <5> QED BY <5>1, <5>2
      <4> QED BY <1>7, <3>1, <4>1, <4>2
    <3>2. CASE n # 1
      <4>1. n - 1 \in 1..N
        BY <1>1, <3>2
      <4>2. g[n - 1] = f[n - 1] /\ g[n] = f[n]
        BY <4>1
      <4> HIDE DEF g
      <4> QED BY <1>8, <3>2, <4>2
    <3> QED BY <3>1, <3>2
  <2>2. g = [n \in 1..N |-> g[n]]
    OBVIOUS
  <2> HIDE DEF Rule, g
  <2> QED BY <2>1, <2>2
<1>10. flat = [n \in 1..N |-> Rule(flat, n)]
  <2> HIDE DEF Rule, g
  <2> QED BY <1>9
<1> HIDE DEF flat
<1>11. \A n \in 1..N : flat[n] = Rule(flat, n)
  <2> HIDE DEF Rule
  <2> QED BY <1>10
<1> DEFINE Z == {n \in 0..N : n # 0 => flat[n] = f[n]}
<1>12. 0 \in Z
  BY <1>1
<1>13. ASSUME NEW m \in 0..N, m \in Z, m < N PROVE m + 1 \in Z
  <2>1. m + 1 \in 1..N /\ (m + 1) - 1 = m
    <3>1. m \in Nat /\ m < N
      BY <1>1, <1>13
    <3> QED BY <1>1, <3>1
  <2>2. CASE m = 0
    <3>1. first \o seqs[1] = seqs[1]
      BY <1>1, <2>1, <2>2 DEF first, X
    <3>2. flat[1] = seqs[1]
      BY <1>11, <2>1, <2>2
    <3>3. f[1] = first \o seqs[1]
      <4>1. f[m + 1] = f[(m + 1) - 1] \o seqs[m + 1]
        BY <1>8, <2>1
      <4>2. m + 1 = 1 /\ f[(m + 1) - 1] = first
        BY <1>7, <2>1, <2>2
      <4> QED BY <4>1, <4>2
    <3>4. m + 1 = 1 /\ m + 1 \in 0..N
      BY <2>1, <2>2
    <3> QED BY <3>1, <3>2, <3>3, <3>4
  <2>3. CASE m # 0
    <3>1. flat[m + 1] = flat[m] \o seqs[m + 1]
      <4>1. m + 1 # 1
        BY <2>3
      <4>2. flat[m + 1] = flat[(m + 1) - 1] \o seqs[m + 1]
        BY <1>11, <2>1, <4>1
      <4> QED BY <2>1, <4>2
    <3>2. f[m + 1] = f[m] \o seqs[m + 1]
      <4>1. f[m + 1] = f[(m + 1) - 1] \o seqs[m + 1]
        BY <1>8, <2>1
      <4> QED BY <2>1, <4>1
    <3>3. flat[m] = f[m]
      BY <1>13, <2>3
    <3>4. m + 1 \in 0..N
      BY <2>1
    <3> QED BY <3>1, <3>2, <3>3, <3>4
  <2> QED BY <2>2, <2>3
<1> HIDE DEF Z
<1>14. N \in Z
  BY <1>1, <1>12, <1>13, Reaches
<1>15. FlattenSeq(seqs) = f[N]
  BY <1>4, <1>5, <1>7, <1>14 DEF Z, first
<1> QED BY <1>7, <1>8, <1>15 DEF FlattenStep, N, X, first

RecordOf(archives, a, i) ==
  Record(a, i, archives[a].files[i], File[archives[a].files[i]].book,
         HasSidecar(archives[a].files, archives[a].scope, i),
         VolumesOf(archives[a].files, archives[a].scope, i))
ListedIn(archives, a) ==
  Considered(archives[a].files, archives[a].scope) \ Skipped(archives[a].files, archives[a].scope)
OnlineRecord(k) == Record(Online, k, NoBook, Catalogue[k], FALSE, {})
RecordSet(archives) ==
  IF archives = <<>> THEN {OnlineRecord(k) : k \in DOMAIN Catalogue}
  ELSE UNION {{RecordOf(archives, a, i) : i \in ListedIn(archives, a)} : a \in DOMAIN archives}

IsDataset(archives) ==
  archives \in Seq(Range(archives)) /\ \A a \in DOMAIN archives : archives[a].files \in Seq(DOMAIN File)

\* Records come archive after archive, and within one in its order.
Before(r, q) == r.archive < q.archive \/ (r.archive = q.archive /\ r.index < q.index)
InOrder(s) == \A j, k \in DOMAIN s : j < k => Before(s[j], s[k])

\* The records of one archive: its listed entries, in their order (archiveEntries).
LEMMA ArchiveRecordsAre ==
  ASSUME NEW archives, IsDataset(archives), NEW a \in DOMAIN archives
  PROVE  /\ ArchiveRecords(archives, a) \in Seq(RecordSet(archives))
         /\ Range(ArchiveRecords(archives, a)) = {RecordOf(archives, a, i) : i \in ListedIn(archives, a)}
         /\ InOrder(ArchiveRecords(archives, a))
         /\ \A r \in Range(ArchiveRecords(archives, a)) : r.archive = a
<1> DEFINE files == archives[a].files
           scope == archives[a].scope
           listed == Listed(files, scope)
           R(i) == RecordOf(archives, a, i)
           D == DOMAIN files
<1>1. listed \in Seq(D) /\ Increasing(listed) /\ Range(listed) = ListedIn(archives, a)
  <2>1. files \in Seq(DOMAIN File)
    BY DEF IsDataset
  <2> HIDE DEF files, scope
  <2> QED BY <2>1, ListedIs DEF ListedIn, files, scope
<1>2. ArchiveRecords(archives, a) = [k \in DOMAIN listed |-> R(listed[k])]
  BY DEF ArchiveRecords, RecordOf
<1>3. archives # <<>>
  BY DEF IsDataset
<1>4. \A i : R(i).archive = a /\ R(i).index = i
  BY DEF RecordOf, Record
<1>5. RecordSet(archives) = UNION {{RecordOf(archives, b, i) : i \in ListedIn(archives, b)} : b \in DOMAIN archives}
  BY <1>3 DEF RecordSet
<1> HIDE DEF listed, files, scope, D, R
<1>6. DOMAIN listed = 1..Len(listed) /\ Len(listed) \in Nat
  BY <1>1
<1>7. \A k \in DOMAIN listed : listed[k] \in ListedIn(archives, a)
  BY <1>1 DEF Range
<1>8. \A k \in DOMAIN listed : R(listed[k]) \in RecordSet(archives)
  BY <1>5, <1>7 DEF R
<1>9. ArchiveRecords(archives, a) \in Seq(RecordSet(archives))
  BY <1>2, <1>6, <1>8
<1>10. Range(ArchiveRecords(archives, a)) = {RecordOf(archives, a, i) : i \in ListedIn(archives, a)}
  BY <1>1, <1>2 DEF Range, R
<1>11. InOrder(ArchiveRecords(archives, a))
  BY <1>1, <1>2, <1>4 DEF InOrder, Before, Increasing
<1> QED BY <1>4, <1>9, <1>10, <1>11 DEF R

\* The elements of two sequences joined.
LEMMA RangeConcat ==
  ASSUME NEW T, NEW s \in Seq(T), NEW t \in Seq(T)
  PROVE  Range(s \o t) = Range(s) \cup Range(t)
<1>1. DOMAIN (s \o t) = 1..(Len(s) + Len(t)) /\ DOMAIN s = 1..Len(s) /\ DOMAIN t = 1..Len(t)
      /\ Len(s) \in Nat /\ Len(t) \in Nat
  OBVIOUS
<1>2. \A k \in 1..Len(s) : k \in 1..(Len(s) + Len(t)) /\ (s \o t)[k] = s[k]
  OBVIOUS
<1>3. \A k \in 1..Len(t) : Len(s) + k \in 1..(Len(s) + Len(t)) /\ (s \o t)[Len(s) + k] = t[k]
  OBVIOUS
<1>4. \A k \in 1..(Len(s) + Len(t)) : k \in 1..Len(s) \/ (k - Len(s) \in 1..Len(t) /\ k = Len(s) + (k - Len(s)))
  BY <1>1
<1> DEFINE st == s \o t
<1> HIDE DEF st
<1>5. Range(st) \subseteq Range(s) \cup Range(t)
  <2> SUFFICES ASSUME NEW k \in 1..(Len(s) + Len(t)) PROVE st[k] \in Range(s) \cup Range(t)
    BY <1>1 DEF Range, st
  <2>1. CASE k \in 1..Len(s)
    BY <1>1, <1>2, <2>1 DEF Range, st
  <2>2. CASE k - Len(s) \in 1..Len(t) /\ k = Len(s) + (k - Len(s))
    BY <1>1, <1>3, <2>2 DEF Range, st
  <2> QED BY <1>4, <2>1, <2>2
<1>6. Range(s) \subseteq Range(st)
  BY <1>1, <1>2 DEF Range, st
<1>7. Range(t) \subseteq Range(st)
  BY <1>1, <1>3 DEF Range, st
<1> QED BY <1>5, <1>6, <1>7 DEF st

\* Two ordered sequences, one before the other, are ordered when joined.
LEMMA OrderConcat ==
  ASSUME NEW T, NEW s \in Seq(T), NEW t \in Seq(T), InOrder(s), InOrder(t),
         \A x \in Range(s), y \in Range(t) : Before(x, y)
  PROVE  InOrder(s \o t)
<1>1. DOMAIN (s \o t) = 1..(Len(s) + Len(t)) /\ DOMAIN s = 1..Len(s) /\ DOMAIN t = 1..Len(t)
      /\ Len(s) \in Nat /\ Len(t) \in Nat
  OBVIOUS
<1>2. \A k \in 1..Len(s) : (s \o t)[k] = s[k]
  OBVIOUS
<1>3. \A k \in 1..Len(t) : (s \o t)[Len(s) + k] = t[k]
  OBVIOUS
<1>4. \A k \in 1..(Len(s) + Len(t)) : k \in 1..Len(s) \/ (k - Len(s) \in 1..Len(t) /\ k = Len(s) + (k - Len(s)))
  BY <1>1
<1> DEFINE st == s \o t
<1>5. DOMAIN st = 1..(Len(s) + Len(t))
  BY <1>1
<1>6. (\A k \in 1..Len(s) : st[k] = s[k]) /\ \A k \in 1..Len(t) : st[Len(s) + k] = t[k]
  BY <1>2, <1>3
<1> HIDE DEF st
<1>7. ASSUME NEW j \in DOMAIN st, NEW k \in DOMAIN st, j < k PROVE Before(st[j], st[k])
  <2>1. CASE k \in 1..Len(s)
    <3>1. j \in 1..Len(s)
      BY <1>1, <1>5, <1>7, <2>1
    <3>2. Before(s[j], s[k])
      BY <1>1, <1>7, <2>1, <3>1 DEF InOrder
    <3> QED BY <1>6, <2>1, <3>1, <3>2
  <2>2. CASE k - Len(s) \in 1..Len(t) /\ k = Len(s) + (k - Len(s)) /\ j \in 1..Len(s)
    BY <1>1, <1>6, <2>2 DEF Range
  <2>3. CASE k - Len(s) \in 1..Len(t) /\ k = Len(s) + (k - Len(s))
             /\ j - Len(s) \in 1..Len(t) /\ j = Len(s) + (j - Len(s))
    <3>1. j - Len(s) < k - Len(s)
      BY <1>1, <1>5, <1>7
    <3>2. Before(t[j - Len(s)], t[k - Len(s)])
      BY <1>1, <2>3, <3>1 DEF InOrder
    <3>3. st[k] = t[k - Len(s)] /\ st[j] = t[j - Len(s)]
      BY <1>6, <2>3
    <3> QED BY <3>2, <3>3
  <2> QED BY <1>4, <1>5, <2>1, <2>2, <2>3
<1> QED BY <1>7 DEF InOrder, st

\* The records of a dataset: each listed entry once, in the order of the archives.
LEMMA RecordsAre ==
  ASSUME NEW archives, IsDataset(archives)
  PROVE  /\ Records(archives) \in Seq(RecordSet(archives))
         /\ Range(Records(archives)) = RecordSet(archives)
         /\ InOrder(Records(archives))
<1>1. CASE archives = <<>>
  <2>1. Records(archives) = [k \in DOMAIN Catalogue |-> OnlineRecord(k)]
    BY <1>1 DEF Records, OnlineRecord
  <2>2. RecordSet(archives) = {OnlineRecord(k) : k \in DOMAIN Catalogue}
    BY <1>1 DEF RecordSet
  <2>3. DOMAIN Catalogue = 1..Len(Catalogue) /\ Len(Catalogue) \in Nat
    BY InputBooks
  <2>4. \A k : OnlineRecord(k).archive = Online /\ OnlineRecord(k).index = k
    BY DEF OnlineRecord, Record
  <2>5. Range(Records(archives)) = RecordSet(archives)
    BY <2>1, <2>2 DEF Range
  <2>6. InOrder(Records(archives))
    <3> DEFINE s == Records(archives)
    <3>1. DOMAIN s = DOMAIN Catalogue /\ \A k \in DOMAIN s : s[k] = OnlineRecord(k)
      BY <2>1
    <3> HIDE DEF s
    <3>2. InOrder(s)
      BY <2>4, <3>1 DEF InOrder, Before
    <3> QED BY <3>2 DEF s
  <2> QED BY <2>1, <2>2, <2>3, <2>5, <2>6
<1>2. CASE archives # <<>>
  <2> DEFINE N == Len(archives)
             T == RecordSet(archives)
             seqs == [a \in DOMAIN archives |-> ArchiveRecords(archives, a)]
             Of(a) == {RecordOf(archives, a, i) : i \in ListedIn(archives, a)}
  <2>1. DOMAIN archives = 1..N /\ N \in Nat
    BY DEF IsDataset
  <2>2. \A a \in 1..N : /\ seqs[a] \in Seq(T) /\ Range(seqs[a]) = Of(a) /\ InOrder(seqs[a])
                        /\ \A r \in Of(a) : r.archive = a
    <3> TAKE a \in 1..N
    <3>1. seqs[a] = ArchiveRecords(archives, a)
      BY <2>1
    <3>2. /\ ArchiveRecords(archives, a) \in Seq(RecordSet(archives))
          /\ Range(ArchiveRecords(archives, a)) = {RecordOf(archives, a, i) : i \in ListedIn(archives, a)}
          /\ InOrder(ArchiveRecords(archives, a))
          /\ \A r \in Range(ArchiveRecords(archives, a)) : r.archive = a
      BY <2>1, ArchiveRecordsAre
    <3> QED BY <3>1, <3>2
  <2>3. Records(archives) = FlattenSeq(seqs) /\ T = UNION {Of(a) : a \in 1..N}
    BY <1>2, <2>1 DEF Records, RecordSet
  <2>4. DOMAIN seqs = 1..N
    BY <2>1
  <2> HIDE DEF T, Of, N
  <2>5. seqs \in Seq(Seq(T)) /\ Len(seqs) = N
    BY <2>1, <2>2, <2>4
  <2> HIDE DEF seqs
  <2>6. PICK f \in [0..N -> Seq(T)] : FlattenStep(seqs, f) /\ FlattenSeq(seqs) = f[N]
    BY <2>5, FlattenIs
  <2>7. f[0] = <<>> /\ \A n \in 1..N : f[n] = f[n - 1] \o seqs[n]
    BY <2>5, <2>6 DEF FlattenStep
  <2> DEFINE Z == {n \in 0..N : Range(f[n]) = UNION {Of(a) : a \in 1..n} /\ InOrder(f[n])}
  <2>8. 0 \in Z
    <3>1. Range(<<>>) = {} /\ InOrder(<<>>) /\ UNION {Of(a) : a \in 1..0} = {}
      BY DEF Range, InOrder
    <3> QED BY <2>1, <2>7, <3>1
  <2>9. ASSUME NEW n \in 0..N, n \in Z, n < N PROVE n + 1 \in Z
    <3>1. n + 1 \in 1..N /\ (n + 1) - 1 = n /\ n + 1 \in 0..N
      BY <2>1, <2>9
    <3> DEFINE g == f[n]
               s == seqs[n + 1]
    <3>2. f[n + 1] = g \o s
      BY <2>7, <3>1
    <3>3. g \in Seq(T) /\ s \in Seq(T) /\ Range(g) = UNION {Of(a) : a \in 1..n} /\ InOrder(g)
          /\ Range(s) = Of(n + 1) /\ InOrder(s)
      BY <2>2, <2>9, <3>1
    <3> HIDE DEF g, s
    <3>4. Range(g \o s) = Range(g) \cup Range(s)
      BY <3>3, RangeConcat
    <3>5. 1..(n + 1) = 1..n \cup {n + 1}
      BY <3>1
    <3>6. UNION {Of(a) : a \in 1..(n + 1)} = (UNION {Of(a) : a \in 1..n}) \cup Of(n + 1)
      BY <3>5
    <3>7. \A x \in Range(g), y \in Range(s) : Before(x, y)
      <4> TAKE x \in Range(g), y \in Range(s)
      <4>1. PICK a \in 1..n : x \in Of(a)
        BY <3>3
      <4>2. x.archive = a /\ y.archive = n + 1
        <5>1. a \in 1..N /\ y \in Of(n + 1)
          BY <2>1, <3>1, <3>3
        <5> QED BY <2>2, <3>1, <4>1, <5>1
      <4> QED BY <4>2 DEF Before
    <3>8. InOrder(g \o s)
      BY <3>3, <3>7, OrderConcat
    <3> QED BY <3>1, <3>2, <3>3, <3>4, <3>6, <3>8
  <2> HIDE DEF Z
  <2>10. N \in Z
    BY <2>1, <2>8, <2>9, Reaches
  <2> QED BY <2>1, <2>3, <2>6, <2>10 DEF Z, T
<1> QED BY <1>1, <1>2

-----------------------------------------------------------------------------
(* Every entry is told of once *)

ToldOnce(archives, a, i) ==
  \E r \in RecordSet(archives) :
    {q \in RecordSet(archives) : q.archive = a /\ i \in {q.index} \cup q.volumes} = {r}

\* What a record of an archive's entry holds.
LEMMA RecordFields ==
  ASSUME NEW archives, NEW a, NEW i
  PROVE  /\ RecordOf(archives, a, i).archive = a /\ RecordOf(archives, a, i).index = i
         /\ RecordOf(archives, a, i).name = archives[a].files[i]
         /\ RecordOf(archives, a, i).book = File[archives[a].files[i]].book
         /\ RecordOf(archives, a, i).volumes = VolumesOf(archives[a].files, archives[a].scope, i)
BY DEF RecordOf, Record

\* An entry is told of by one record: its own, or, if it is a volume, that of its only root.
LEMMA EntriesOnce ==
  ASSUME NEW archives, IsDataset(archives), NEW a \in DOMAIN archives,
         NEW i \in Considered(archives[a].files, archives[a].scope)
                     \ Astray(archives[a].files, archives[a].scope)
  PROVE  ToldOnce(archives, a, i)
<1> DEFINE files == archives[a].files
           scope == archives[a].scope
           Pairs == Continuations(files, scope)
           Of(q) == i \in {q.index} \cup q.volumes
<1>1. files \in Seq(DOMAIN File)
  BY DEF IsDataset
<1>2. archives # <<>>
  BY DEF IsDataset
<1>3. \A q \in RecordSet(archives) : q.archive = a =>
         \E j \in Considered(files, scope) \ Skipped(files, scope) : q = RecordOf(archives, a, j)
  BY <1>2, RecordFields DEF RecordSet, ListedIn
<1>4. \A j \in Considered(files, scope) \ Skipped(files, scope) : RecordOf(archives, a, j) \in RecordSet(archives)
  BY <1>2 DEF RecordSet, ListedIn
<1>5. \A j \in Considered(files, scope) \ Skipped(files, scope) :
        Of(RecordOf(archives, a, j)) <=> i = j \/ \E p \in Pairs : p[1] = j /\ p[2] = i
  BY RecordFields DEF VolumesOf
<1>6. Skipped(files, scope) = {p[2] : p \in Pairs}
  BY DEF Skipped
<1>7. i \in Considered(files, scope) /\ ~\E p \in Pairs : p[1] \in Skipped(files, scope) /\ p[2] = i
  BY DEF Astray
<1>8. \A p \in Pairs : p[1] \in Considered(files, scope)
  BY <1>1, ContinuationPairs
<1>9. \A p, q \in Pairs : p[2] = q[2] => p = q
  BY <1>1, OneRoot
<1> HIDE DEF files, scope, Pairs, Of
<1>10. ASSUME NEW j \in Considered(files, scope) \ Skipped(files, scope), Of(RecordOf(archives, a, j)),
              \A m \in Considered(files, scope) \ Skipped(files, scope) : Of(RecordOf(archives, a, m)) => m = j
       PROVE  ToldOnce(archives, a, i)
  <2> DEFINE r == RecordOf(archives, a, j)
  <2>1. r \in RecordSet(archives) /\ r.archive = a
    BY <1>4, RecordFields
  <2>2. {q \in RecordSet(archives) : q.archive = a /\ Of(q)} = {r}
    BY <1>3, <1>10, <2>1
  <2> HIDE DEF r
  <2> QED BY <2>1, <2>2 DEF ToldOnce, Of
<1>11. CASE i \notin Skipped(files, scope)
  <2>1. \A m \in Considered(files, scope) \ Skipped(files, scope) : Of(RecordOf(archives, a, m)) => m = i
    BY <1>5, <1>6, <1>11
  <2>2. Of(RecordOf(archives, a, i))
    BY <1>5, <1>7, <1>11
  <2> QED BY <1>7, <1>10, <1>11, <2>1, <2>2
<1>12. CASE i \in Skipped(files, scope)
  <2> PICK p \in Pairs : p[2] = i
    BY <1>6, <1>12
  <2>1. p[1] \in Considered(files, scope) \ Skipped(files, scope)
    BY <1>7, <1>8
  <2>2. Of(RecordOf(archives, a, p[1]))
    BY <1>5, <2>1
  <2>3. \A m \in Considered(files, scope) \ Skipped(files, scope) : Of(RecordOf(archives, a, m)) => m = p[1]
    BY <1>5, <1>9, <1>12
  <2> QED BY <1>10, <2>1, <2>2, <2>3
<1> QED BY <1>11, <1>12

-----------------------------------------------------------------------------
(* How authors are told apart (AuthorNames) *)

\* What may be put after the name of a person of a group.
Alone(p, group) == Nick[p] # NoNick /\ \A q \in group \ {p} : Nick[q] # Nick[p]
Fitting(p, group) ==
  {ByNickAndId(p), ById(p)} \cup {s \in {ByNick(p)} : Alone(p, group)}

\* No suffix fits two persons of a group.
LEMMA FittingDiffer ==
  ASSUME NEW group, NEW p \in group, NEW q \in group, p # q
  PROVE  Fitting(p, group) \cap Fitting(q, group) = {}
<1>1. \A x \in {p, q}, y \in {p, q} : ByNick(x) # ByNickAndId(y) /\ ByNick(x) # ById(y) /\ ByNickAndId(x) # ById(y)
  BY DEF ByNick, ByNickAndId, ById
<1>2. ByNickAndId(p) # ByNickAndId(q) /\ ById(p) # ById(q)
  BY DEF ByNickAndId, ById
<1>3. Nick[p] # Nick[q] => ByNick(p) # ByNick(q)
  BY DEF ByNick
<1>4. Alone(p, group) => Nick[p] # Nick[q]
  BY DEF Alone
<1> HIDE DEF ByNick, ByNickAndId, ById
<1> QED BY <1>1, <1>2, <1>3, <1>4 DEF Fitting

\* The suffix a person gets fits the person, whatever the others were given.
LEMMA ChooseFits ==
  ASSUME NEW p, NEW group, NEW given
  PROVE  Choose(p, group, given) \in Fitting(p, group)
<1> DEFINE c == Candidates(p, group)
           free == {k \in DOMAIN c : c[k] \notin Range(given)}
<1>1. \A k \in DOMAIN c : k \in Nat /\ c[k] \in Fitting(p, group)
  BY DEF Candidates, Fitting, Alone, ByNick, ByNickAndId, ById
<1>2. CASE free = {}
  BY <1>2 DEF Choose, Fitting
<1>3. CASE free # {}
  <2>1. free \in SUBSET Nat
    BY <1>1
  <2>2. \E k \in free : \A l \in free : k <= l
    <3> HIDE DEF free
    <3> QED BY <1>3, <2>1, Least
  <2>3. (CHOOSE k \in free : \A l \in free : k <= l) \in DOMAIN c
    BY <2>2
  <2>4. Choose(p, group, given) = c[CHOOSE k \in free : \A l \in free : k <= l]
    BY <1>3 DEF Choose
  <2> QED BY <1>1, <2>3, <2>4
<1> QED BY <1>2, <1>3

GivenStep(group, before, p) ==
  [q \in DOMAIN before \cup {p} |-> IF q = p THEN Choose(q, group, before) ELSE before[q]]
GivenSteps(group, order, f) ==
  f[0] = [q \in {} |-> NoSuffix] /\ \A n \in 1..Len(order) : f[n] = GivenStep(group, f[n - 1], order[n])

\* The suffixes of a group, as the last value of the loop over its persons.
LEMMA GivenIs ==
  ASSUME NEW T, NEW group, NEW order \in Seq(T), order = Keep(Positions(Name), group)
  PROVE  \E f : DOMAIN f = 0..Len(order) /\ GivenSteps(group, order, f) /\ GroupSuffixes(group) = f[Len(order)]
<1> DEFINE N == Len(order)
           V == UNION {Fitting(p, group) : p \in T}
           X == UNION {[D -> V] : D \in SUBSET T}
           first == [q \in {} |-> NoSuffix]
           step == [n \in 1..N |-> [x \in X |-> GivenStep(group, x, order[n])]]
           Rule(f, n) == IF n = 0 THEN first ELSE GivenStep(group, f[n - 1], order[n])
           given == CHOOSE f : f = [n \in 0..N |-> Rule(f, n)]
<1>1. N \in Nat /\ \A n \in 1..N : order[n] \in T
  OBVIOUS
<1>2. first \in X
  <2>1. first \in [{} -> V] /\ {} \in SUBSET T
    OBVIOUS
  <2> HIDE DEF V, first
  <2> QED BY <2>1
<1>3. ASSUME NEW n \in 1..N, NEW x \in X PROVE GivenStep(group, x, order[n]) \in X
  <2> PICK D \in SUBSET T : x \in [D -> V]
    OBVIOUS
  <2> DEFINE p == order[n]
             c == Choose(p, group, x)
  <2>1. p \in T
    BY <1>1
  <2>2. c \in V
    BY <2>1, ChooseFits
  <2>3. GivenStep(group, x, p) = [q \in D \cup {p} |-> IF q = p THEN c ELSE x[q]]
    BY DEF GivenStep
  <2> HIDE DEF c, V, p
  <2>4. GivenStep(group, x, p) \in [D \cup {p} -> V]
    BY <2>2, <2>3
  <2> QED BY <2>1, <2>4 DEF p
<1>4. step \in [1..N -> [X -> X]] /\ \A n \in 1..N, x \in X : step[n][x] = GivenStep(group, x, order[n])
  <2> HIDE DEF N, X
  <2> QED BY <1>3
<1>5. GroupSuffixes(group) = given[N]
  BY DEF GroupSuffixes, GivenStep
<1> HIDE DEF N, X, first, step
<1>6. PICK f : Stepwise(f, N, X, first, step)
  BY <1>1, <1>2, <1>4, Steps
<1>7. f \in [0..N -> X] /\ f[0] = first
  BY <1>6 DEF Stepwise
<1>8. \A n \in 1..N : f[n] = GivenStep(group, f[n - 1], order[n])
  <2> TAKE n \in 1..N
  <2>1. n - 1 \in 0..N
    BY <1>1
  <2>2. f[n - 1] \in X
    BY <1>7, <2>1
  <2>3. f[n] = step[n][f[n - 1]]
    BY <1>6 DEF Stepwise
  <2> QED BY <1>4, <2>2, <2>3
<1>9. f = [n \in 0..N |-> Rule(f, n)]
  <2>1. \A n \in 0..N : f[n] = Rule(f, n)
    <3> TAKE n \in 0..N
    <3>1. n = 0 \/ (n \in 1..N /\ n # 0)
      BY <1>1
    <3> QED BY <1>7, <1>8, <3>1
  <2> HIDE DEF Rule
  <2> QED BY <1>7, <2>1
<1>10. given = [n \in 0..N |-> Rule(given, n)]
  <2> HIDE DEF Rule
  <2> QED BY <1>9
<1> HIDE DEF given
<1>11. \A n \in 0..N : given[n] = Rule(given, n)
  <2> HIDE DEF Rule
  <2> QED BY <1>10
<1>12. given[0] = first /\ \A n \in 1..N : given[n] = GivenStep(group, given[n - 1], order[n])
  <2>1. 0 \in 0..N /\ \A n \in 1..N : n \in 0..N /\ n # 0
    BY <1>1
  <2> QED BY <1>11, <2>1
<1>13. DOMAIN given = 0..N
  <2> HIDE DEF Rule
  <2> QED BY <1>10
<1> QED BY <1>5, <1>12, <1>13 DEF GivenSteps, N, first

\* No two persons of a group get the same suffix.
LEMMA SuffixesDiffer ==
  ASSUME NEW group \in SUBSET DOMAIN Name, NEW p \in group, NEW q \in group, p # q
  PROVE  GroupSuffixes(group)[p] # GroupSuffixes(group)[q]
<1> DEFINE order == Keep(Positions(Name), group)
           D == DOMAIN Name
           N == Len(order)
           P == Positions(Name)
<1>1. order \in Seq(D) /\ Range(order) = group
  <2>1. P \in Seq(D) /\ Range(P) = D
    BY AuthorPersons, PositionsAre
  <2> HIDE DEF P
  <2>2. Keep(P, group) \in Seq(D) /\ Range(Keep(P, group)) = Range(P) \cap group
    BY <2>1, KeepRange
  <2> QED BY <2>1, <2>2 DEF P
<1>2. PICK f : DOMAIN f = 0..N /\ GivenSteps(group, order, f) /\ GroupSuffixes(group) = f[N]
  BY <1>1, GivenIs
<1> HIDE DEF order
<1>3. N \in Nat /\ Range(order) = {order[k] : k \in 1..N}
  BY <1>1 DEF Range
<1>4. f[0] = [x \in {} |-> NoSuffix] /\ \A n \in 1..N : f[n] = GivenStep(group, f[n - 1], order[n])
  BY <1>2 DEF GivenSteps
<1> HIDE DEF N
<1> DEFINE Z == {n \in 0..N : /\ DOMAIN f[n] = {order[k] : k \in 1..n}
                              /\ \A x \in DOMAIN f[n] : f[n][x] \in Fitting(x, group)}
<1>5. 0 \in Z
  <2>1. 0 \in 0..N /\ {order[k] : k \in 1..0} = {}
    BY <1>3
  <2> QED BY <1>4, <2>1
<1>6. ASSUME NEW n \in 0..N, n \in Z, n < N PROVE n + 1 \in Z
  <2>1. n + 1 \in 1..N /\ (n + 1) - 1 = n /\ n + 1 \in 0..N /\ 1..(n + 1) = 1..n \cup {n + 1}
    BY <1>3, <1>6
  <2>2. f[n + 1] = GivenStep(group, f[n], order[n + 1])
    BY <1>4, <2>1
  <2>3. DOMAIN f[n] = {order[k] : k \in 1..n} /\ \A x \in DOMAIN f[n] : f[n][x] \in Fitting(x, group)
    BY <1>6
  <2>4. DOMAIN f[n + 1] = {order[k] : k \in 1..(n + 1)}
    BY <2>1, <2>2, <2>3 DEF GivenStep
  <2>5. \A x \in DOMAIN f[n + 1] : f[n + 1][x] \in Fitting(x, group)
    <3> TAKE x \in DOMAIN f[n + 1]
    <3>1. CASE x = order[n + 1]
      <4>1. f[n + 1][x] = Choose(x, group, f[n])
        BY <2>2, <3>1 DEF GivenStep
      <4> QED BY <4>1, ChooseFits
    <3>2. CASE x # order[n + 1]
      BY <2>2, <2>3, <3>2 DEF GivenStep
    <3> QED BY <3>1, <3>2
  <2> QED BY <2>1, <2>4, <2>5
<1> HIDE DEF Z
<1>7. N \in Z
  BY <1>3, <1>5, <1>6, Reaches
<1>8. DOMAIN f[N] = group /\ \A x \in group : f[N][x] \in Fitting(x, group)
  BY <1>1, <1>3, <1>7 DEF Z
<1>9. f[N][p] \in Fitting(p, group) /\ f[N][q] \in Fitting(q, group)
  BY <1>8
<1>10. Fitting(p, group) \cap Fitting(q, group) = {}
  BY FittingDiffer
<1> QED BY <1>2, <1>9, <1>10

\* Two contributors are never shown alike.
LEMMA DisplayedDiffer ==
  ASSUME NEW content, NEW p \in Contributors(content), NEW q \in Contributors(content), p # q
  PROVE  Displayed(p, content) # Displayed(q, content)
<1> SUFFICES ASSUME Displayed(p, content) = Displayed(q, content) PROVE FALSE
  OBVIOUS
<1>1. Name[p] = Name[q] /\ Suffix(p, content) = Suffix(q, content)
  BY DEF Displayed
<1> DEFINE group == Group(p, content)
<1>2. p \in group /\ q \in group /\ Group(q, content) = group
  BY <1>1 DEF Group, Namesakes
<1>3. Contributors(content) \subseteq DOMAIN Name
  <2> SUFFICES ASSUME NEW b \in DOMAIN Book, NEW x \in Range(Book[b].authors) PROVE x \in DOMAIN Name
    BY DEF Contributors
  <2>1. Book[b].authors \in Seq(DOMAIN Name)
    BY AuthorPersons
  <2> QED BY <2>1 DEF Range
<1>4. group \in SUBSET DOMAIN Name
  BY <1>3 DEF Group, Namesakes
<1> HIDE DEF group
<1>5. IsFiniteSet(group)
  <2>1. DOMAIN Name = 1..Len(Name) /\ Len(Name) \in Nat
    BY AuthorPersons
  <2>2. IsFiniteSet(DOMAIN Name)
    BY <2>1, FS_Interval
  <2> QED BY <1>4, <2>2, FS_Subset
<1>6. Cardinality(group) >= 2
  <2> DEFINE two == {p, q}
  <2>1. IsFiniteSet({p}) /\ Cardinality({p}) = 1
    BY FS_Singleton
  <2>2. IsFiniteSet({p} \cup {q}) /\ Cardinality({p} \cup {q}) = 2
    BY <2>1, FS_AddElement
  <2>3. {p} \cup {q} \in SUBSET group
    BY <1>2
  <2>4. Cardinality({p} \cup {q}) <= Cardinality(group)
    BY <1>5, <2>3, FS_Subset
  <2>5. Cardinality(group) \in Nat
    BY <1>5, FS_CardinalityType
  <2> QED BY <2>2, <2>4, <2>5
<1>7. Suffix(p, content) = GroupSuffixes(group)[p] /\ Suffix(q, content) = GroupSuffixes(group)[q]
  BY <1>2, <1>6 DEF Suffix, Ambiguous, group
<1> QED BY <1>1, <1>2, <1>4, <1>7, SuffixesDiffer

-----------------------------------------------------------------------------
(* What is listed of a record, and what further lines change *)

AskedBy(o, r) ==
  IF ~MatchesContent(r, o.content) \/ ~Titled(r) THEN <<>>
  ELSE CASE o.tool = "mhl" -> <<MhlSeries(r, o.preference)>>
         [] o.tool = "flib" -> Series(r, o.preference)
         [] o.tool = "slice" -> KeptSeries(r, o)

\* The lines there may be, and the parts that hold them.
SeriesSet(o, r) == Range(Series(r, o.preference)) \cup {MhlSeries(r, o.preference)}
BookLines(o, r) == {Line(r, s, o) : s \in SeriesSet(o, r)}
DummyLines == [kind : {"dummy"}, archive : Int, index : Int]
LineSet(o, records) == (UNION {BookLines(o, r) : r \in Range(records)}) \cup DummyLines
PartNames == Int \cup {SplitBy[s] : s \in Where}
PartSet(T) == [of : PartNames, lines : Seq(T)]

OfRecord(T, r) == {l \in T : IsLineOf(l, r)}
Entries(T, r, parts, p) == Keep(parts[p].lines, OfRecord(T, r))
Titles(lines) == [k \in DOMAIN lines |-> lines[k].series]

Unlisted(T, r, parts) == \A p \in DOMAIN parts : Entries(T, r, parts, p) = <<>>
ListedAs(T, r, parts, series) ==
  \E p \in DOMAIN parts : /\ Titles(Entries(T, r, parts, p)) = series
                          /\ \A q \in DOMAIN parts : q # p => Entries(T, r, parts, q) = <<>>
\* The first n records have the lines that are asked for; the others have none.
Covered(T, o, records, parts, n) ==
  \A k \in DOMAIN records :
    IF k <= n /\ AskedBy(o, records[k]) # <<>>
    THEN ListedAs(T, records[k], parts, AskedBy(o, records[k]))
    ELSE Unlisted(T, records[k], parts)

\* A part has got new lines, and may be new itself.
LinesBefore(parts, p) == IF p \in DOMAIN parts THEN parts[p].lines ELSE <<>>
Grown(parts, more, j, new) ==
  /\ DOMAIN parts \subseteq DOMAIN more /\ j \in DOMAIN more
  /\ \A p \in DOMAIN more : more[p].lines = IF p = j THEN LinesBefore(parts, p) \o new ELSE LinesBefore(parts, p)

\* What a line of a record holds.
LEMMA LineFields ==
  ASSUME NEW o, NEW r, NEW s
  PROVE  /\ Line(r, s, o).kind = "book" /\ Line(r, s, o).archive = r.archive /\ Line(r, s, o).index = r.index
         /\ Line(r, s, o).series = s /\ Line(r, s, o).authors = Authors(r, o.preference, o.content)
         /\ \A q : IsLineOf(Line(r, s, o), q) <=> q.archive = r.archive /\ q.index = r.index
BY DEF Line, IsLineOf

Joined(s, a, b) == s = a \o b

\* What a part that has grown holds of a record.
LEMMA Growth ==
  ASSUME NEW T, NEW parts \in Seq(PartSet(T)), NEW more \in Seq(PartSet(T)), NEW j, NEW new \in Seq(T),
         Grown(parts, more, j, new), NEW r, NEW p \in DOMAIN more
  PROVE  /\ p # j /\ p \in DOMAIN parts => Entries(T, r, more, p) = Entries(T, r, parts, p)
         /\ p # j /\ p \notin DOMAIN parts => Entries(T, r, more, p) = <<>>
         /\ p = j /\ p \in DOMAIN parts =>
              Joined(Entries(T, r, more, p), Entries(T, r, parts, p), Keep(new, OfRecord(T, r)))
         /\ p = j /\ p \notin DOMAIN parts => Entries(T, r, more, p) = Keep(new, OfRecord(T, r))
<1>1. CASE p # j
  BY <1>1, KeepEmpty DEF Grown, LinesBefore, Entries
<1>2. CASE p = j /\ p \in DOMAIN parts
  <2> DEFINE old == parts[p].lines
             S == OfRecord(T, r)
  <2>1. old \in Seq(T) /\ more[p].lines = old \o new
    <3>1. parts[p] \in PartSet(T)
      BY <1>2
    <3>2. parts[p].lines \in Seq(T)
      BY <3>1 DEF PartSet
    <3> QED BY <1>2, <3>2 DEF Grown, LinesBefore
  <2> HIDE DEF old, S
  <2>2. Keep(old \o new, S) = Keep(old, S) \o Keep(new, S)
    BY <2>1, KeepConcat
  <2> QED BY <1>2, <2>1, <2>2 DEF Entries, old, S, Joined
<1>3. CASE p = j /\ p \notin DOMAIN parts
  <2>1. <<>> \o new = new
    OBVIOUS
  <2>2. more[p].lines = new
    BY <1>3, <2>1 DEF Grown, LinesBefore
  <2> QED BY <1>3, <2>2 DEF Entries
<1> QED BY <1>1, <1>2, <1>3

\* What is not of a record does not change what is of it.
LEMMA GrowthOfOthers ==
  ASSUME NEW T, NEW parts \in Seq(PartSet(T)), NEW more \in Seq(PartSet(T)), NEW j, NEW new \in Seq(T),
         Grown(parts, more, j, new), NEW r, Keep(new, OfRecord(T, r)) = <<>>
  PROVE  /\ \A p \in DOMAIN more : p \in DOMAIN parts => Entries(T, r, more, p) = Entries(T, r, parts, p)
         /\ \A p \in DOMAIN more : p \notin DOMAIN parts => Entries(T, r, more, p) = <<>>
<1> SUFFICES ASSUME NEW p \in DOMAIN more
             PROVE  /\ p \in DOMAIN parts => Entries(T, r, more, p) = Entries(T, r, parts, p)
                    /\ p \notin DOMAIN parts => Entries(T, r, more, p) = <<>>
  OBVIOUS
<1>1. CASE p = j /\ p \in DOMAIN parts
  <2> DEFINE old == Entries(T, r, parts, p)
             lines == parts[p].lines
  <2>1. lines \in Seq(T)
    <3>1. parts[p] \in PartSet(T)
      BY <1>1
    <3> QED BY <3>1 DEF PartSet
  <2>2. old \in Seq(T)
    <3> HIDE DEF lines
    <3>1. Keep(lines, OfRecord(T, r)) \in Seq(T)
      BY <2>1, KeepRange
    <3> QED BY <3>1 DEF Entries, lines
  <2>3. Entries(T, r, more, p) = old \o <<>>
    <3> HIDE DEF lines, old
    <3>1. Joined(Entries(T, r, more, p), Entries(T, r, parts, p), Keep(new, OfRecord(T, r)))
      BY <1>1, Growth
    <3> QED BY <3>1 DEF Joined, old
  <2> HIDE DEF old
  <2>4. old \o <<>> = old
    BY <2>2
  <2> QED BY <1>1, <2>3, <2>4 DEF old
<1>2. CASE ~(p = j /\ p \in DOMAIN parts)
  BY <1>2, Growth
<1> QED BY <1>1, <1>2

\* Lines of others change nothing for a record.
LEMMA GrownUnlisted ==
  ASSUME NEW T, NEW parts \in Seq(PartSet(T)), NEW more \in Seq(PartSet(T)), NEW j, NEW new \in Seq(T),
         Grown(parts, more, j, new), NEW r, Keep(new, OfRecord(T, r)) = <<>>
  PROVE  /\ Unlisted(T, r, parts) => Unlisted(T, r, more)
         /\ \A series : ListedAs(T, r, parts, series) => ListedAs(T, r, more, series)
<1>1. /\ \A p \in DOMAIN more : p \in DOMAIN parts => Entries(T, r, more, p) = Entries(T, r, parts, p)
      /\ \A p \in DOMAIN more : p \notin DOMAIN parts => Entries(T, r, more, p) = <<>>
  BY GrowthOfOthers
<1>2. DOMAIN parts \subseteq DOMAIN more
  BY DEF Grown
<1>3. Unlisted(T, r, parts) => Unlisted(T, r, more)
  BY <1>1 DEF Unlisted
<1>4. ASSUME NEW series, ListedAs(T, r, parts, series) PROVE ListedAs(T, r, more, series)
  <2> PICK p \in DOMAIN parts : /\ Titles(Entries(T, r, parts, p)) = series
                                /\ \A q \in DOMAIN parts : q # p => Entries(T, r, parts, q) = <<>>
    BY <1>4 DEF ListedAs
  <2>1. p \in DOMAIN more /\ Titles(Entries(T, r, more, p)) = series
    BY <1>1, <1>2
  <2>2. \A q \in DOMAIN more : q # p => Entries(T, r, more, q) = <<>>
    BY <1>1
  <2> QED BY <2>1, <2>2 DEF ListedAs
<1> QED BY <1>3, <1>4

\* A record without lines is listed by the first lines of it, in one part.
LEMMA GrownListed ==
  ASSUME NEW T, NEW parts \in Seq(PartSet(T)), NEW more \in Seq(PartSet(T)), NEW j, NEW new \in Seq(T),
         Grown(parts, more, j, new), NEW r, Unlisted(T, r, parts),
         \A k \in 1..Len(new) : new[k] \in OfRecord(T, r)
  PROVE  ListedAs(T, r, more, Titles(new))
<1>1. Keep(new, OfRecord(T, r)) = new
  BY KeepAll
<1>2. j \in DOMAIN more
  BY DEF Grown
<1>3. Entries(T, r, more, j) = new
  <2>1. <<>> \o new = new
    OBVIOUS
  <2>2. j \in DOMAIN parts => Joined(Entries(T, r, more, j), Entries(T, r, parts, j), new)
    BY <1>1, <1>2, Growth
  <2>3. j \notin DOMAIN parts => Entries(T, r, more, j) = new
    BY <1>1, <1>2, Growth
  <2>4. j \in DOMAIN parts => Entries(T, r, parts, j) = <<>>
    BY DEF Unlisted
  <2> QED BY <2>1, <2>2, <2>3, <2>4 DEF Joined
<1>4. \A q \in DOMAIN more : q # j => Entries(T, r, more, q) = <<>>
  <2> TAKE q \in DOMAIN more
  <2>1. q # j /\ q \in DOMAIN parts => Entries(T, r, more, q) = Entries(T, r, parts, q)
    BY Growth
  <2>2. q # j /\ q \notin DOMAIN parts => Entries(T, r, more, q) = <<>>
    BY Growth
  <2> QED BY <2>1, <2>2 DEF Unlisted
<1> QED BY <1>2, <1>3, <1>4 DEF ListedAs

\* The places of records are their own.
Distinct(records) == \A j, k \in DOMAIN records :
  records[j].archive = records[k].archive /\ records[j].index = records[k].index => j = k

\* Lines that are of no book change nothing of what is listed.
LEMMA CoveredStill ==
  ASSUME NEW o, NEW R, NEW records \in Seq(R), NEW T, NEW parts \in Seq(PartSet(T)), NEW more \in Seq(PartSet(T)),
         NEW j, NEW new \in Seq(T), Grown(parts, more, j, new), \A k \in 1..Len(new) : new[k].kind # "book",
         NEW n, Covered(T, o, records, parts, n)
  PROVE  Covered(T, o, records, more, n)
<1> SUFFICES ASSUME NEW k \in DOMAIN records
             PROVE  IF k <= n /\ AskedBy(o, records[k]) # <<>>
                    THEN ListedAs(T, records[k], more, AskedBy(o, records[k]))
                    ELSE Unlisted(T, records[k], more)
  BY DEF Covered
<1>1. Keep(new, OfRecord(T, records[k])) = <<>>
  <2>1. \A m \in 1..Len(new) : new[m] \notin OfRecord(T, records[k])
    BY DEF OfRecord, IsLineOf
  <2> QED BY <2>1, KeepNone
<1>2. /\ Unlisted(T, records[k], parts) => Unlisted(T, records[k], more)
      /\ \A series : ListedAs(T, records[k], parts, series) => ListedAs(T, records[k], more, series)
  BY <1>1, GrownUnlisted
<1> QED BY <1>2 DEF Covered

\* With the lines that are asked for of the next record, one more record is listed.
LEMMA CoveredNext ==
  ASSUME NEW o, NEW R, NEW records \in Seq(R), Distinct(records), NEW T,
         NEW parts \in Seq(PartSet(T)), NEW more \in Seq(PartSet(T)),
         NEW j, NEW new \in Seq(T), Grown(parts, more, j, new),
         NEW n \in 0..(Len(records) - 1), Covered(T, o, records, parts, n),
         \A k \in 1..Len(new) : IsLineOf(new[k], records[n + 1]),
         Titles(new) = AskedBy(o, records[n + 1])
  PROVE  Covered(T, o, records, more, n + 1)
<1>1. DOMAIN records = 1..Len(records) /\ Len(records) \in Nat /\ n + 1 \in DOMAIN records
  OBVIOUS
<1> SUFFICES ASSUME NEW k \in DOMAIN records
             PROVE  IF k <= n + 1 /\ AskedBy(o, records[k]) # <<>>
                    THEN ListedAs(T, records[k], more, AskedBy(o, records[k]))
                    ELSE Unlisted(T, records[k], more)
  BY DEF Covered
<1>2. CASE k = n + 1 /\ new # <<>>
  <2>1. ~(k <= n)
    BY <1>1, <1>2
  <2>2. Unlisted(T, records[k], parts)
    BY <2>1 DEF Covered
  <2>3. \A m \in 1..Len(new) : new[m] \in OfRecord(T, records[k])
    BY <1>2 DEF OfRecord
  <2>4. ListedAs(T, records[k], more, Titles(new))
    BY <2>2, <2>3, GrownListed
  <2>5. Titles(new) # <<>>
    <3>1. DOMAIN Titles(new) = DOMAIN new /\ 1 \in DOMAIN new
      BY <1>2 DEF Titles
    <3> QED BY <3>1
  <2> QED BY <1>1, <1>2, <2>4, <2>5
<1>3. CASE k # n + 1 \/ new = <<>>
  <2>1. Keep(new, OfRecord(T, records[k])) = <<>>
    <3>1. k # n + 1 => \A m \in 1..Len(new) : new[m] \notin OfRecord(T, records[k])
      BY <1>1 DEF OfRecord, IsLineOf, Distinct
    <3>2. new = <<>> => \A m \in 1..Len(new) : new[m] \notin OfRecord(T, records[k])
      OBVIOUS
    <3> QED BY <1>3, <3>1, <3>2, KeepNone
  <2>2. /\ Unlisted(T, records[k], parts) => Unlisted(T, records[k], more)
        /\ \A series : ListedAs(T, records[k], parts, series) => ListedAs(T, records[k], more, series)
    BY <2>1, GrownUnlisted
  <2>3. k # n + 1 => (k <= n + 1 <=> k <= n)
    BY <1>1
  <2>4. new = <<>> => Titles(new) = <<>>
    BY DEF Titles
  <2>5. CASE k # n + 1
    BY <2>2, <2>3, <2>5 DEF Covered
  <2>6. CASE k = n + 1 /\ new = <<>>
    <3>1. ~(k <= n) /\ AskedBy(o, records[k]) = <<>>
      BY <1>1, <2>4, <2>6
    <3> QED BY <2>2, <3>1 DEF Covered
  <2> QED BY <1>3, <2>5, <2>6
<1> QED BY <1>2, <1>3

\* With nothing asked for of the next record, one more record is done.
LEMMA CoveredSame ==
  ASSUME NEW o, NEW R, NEW records \in Seq(R), NEW T, NEW parts,
         NEW n \in 0..(Len(records) - 1), Covered(T, o, records, parts, n), AskedBy(o, records[n + 1]) = <<>>
  PROVE  Covered(T, o, records, parts, n + 1)
<1>1. \A k \in DOMAIN records : k <= n + 1 => k <= n \/ k = n + 1
  OBVIOUS
<1>2. \A k \in DOMAIN records : k <= n => k <= n + 1
  OBVIOUS
<1> QED BY <1>1, <1>2 DEF Covered

-----------------------------------------------------------------------------
(* What is known of the records of a dataset *)

RecordOK(archives, r) ==
  /\ r.book \in DOMAIN Book \cup {NoBook} /\ r.index \in Nat \ {0} /\ r.archive \in Nat
  /\ archives = <<>> => r.archive = Online
  /\ archives # <<>> =>
       /\ r.archive \in DOMAIN archives /\ r.archive # Online
       /\ r.index \in DOMAIN archives[r.archive].files
       /\ ~InventoryIgnores(archives[r.archive].files, r.index)
       /\ r.name \in DOMAIN File
InputOK(in) ==
  /\ IsDataset(in.archives) /\ in.records \in Seq(RecordSet(in.archives))
  /\ Range(in.records) = RecordSet(in.archives) /\ InOrder(in.records) /\ Distinct(in.records)
  /\ \A k \in DOMAIN in.records : RecordOK(in.archives, in.records[k])

\* A record is of an entry that is not ignored, or of a book of the catalogue.
LEMMA RecordsOK ==
  ASSUME NEW archives, IsDataset(archives), NEW r \in RecordSet(archives)
  PROVE  RecordOK(archives, r)
<1>1. CASE archives = <<>>
  <2> PICK k \in DOMAIN Catalogue : r = OnlineRecord(k)
    BY <1>1 DEF RecordSet
  <2>1. k \in Nat \ {0} /\ Catalogue[k] \in DOMAIN Book
    <3>1. DOMAIN Catalogue = 1..Len(Catalogue) /\ Len(Catalogue) \in Nat
      BY InputBooks
    <3> QED BY <3>1, InputBooks
  <2> QED BY <1>1, <2>1 DEF RecordOK, OnlineRecord, Record, Online
<1>2. CASE archives # <<>>
  <2> PICK a \in DOMAIN archives : r \in {RecordOf(archives, a, i) : i \in ListedIn(archives, a)}
    BY <1>2 DEF RecordSet
  <2> PICK i \in ListedIn(archives, a) : r = RecordOf(archives, a, i)
    OBVIOUS
  <2> DEFINE files == archives[a].files
  <2>1. a \in Nat \ {0} /\ files \in Seq(DOMAIN File)
    BY DEF IsDataset
  <2>2. i \in DOMAIN files /\ InScope(files[i], archives[a].scope)
    BY DEF ListedIn, Considered
  <2>3. i \in Nat \ {0} /\ files[i] \in DOMAIN File
    BY <2>1, <2>2
  <2>4. ~InventoryIgnores(files, i)
    BY <2>2 DEF InScope, IsIgnored, InventoryIgnores
  <2>5. File[files[i]].book \in DOMAIN Book \cup {NoBook}
    BY <2>3, InputBooks
  <2>6. r.archive = a /\ r.index = i /\ r.name = files[i] /\ r.book = File[files[i]].book
    BY RecordFields
  <2> HIDE DEF files
  <2> QED BY <1>2, <2>1, <2>2, <2>3, <2>4, <2>5, <2>6 DEF RecordOK, Online, files
<1> QED BY <1>1, <1>2

\* What the INPX commands read of a dataset: distinct records, archive by archive, each in order.
LEMMA InputsOK ==
  ASSUME NEW archives, IsDataset(archives)
  PROVE  InputOK(Input(archives)) /\ Input(archives).archives = archives
<1> DEFINE in == Input(archives)
<1>1. in.archives = archives /\ in.records = Records(archives)
  BY DEF Input
<1> HIDE DEF in
<1>2. in.records \in Seq(RecordSet(archives)) /\ Range(in.records) = RecordSet(archives) /\ InOrder(in.records)
  BY <1>1, RecordsAre
<1>3. \A k \in DOMAIN in.records : in.records[k] \in RecordSet(archives)
  BY <1>2 DEF Range
<1>4. \A k \in DOMAIN in.records : RecordOK(archives, in.records[k])
  BY <1>3, RecordsOK
<1>5. Distinct(in.records)
  <2>1. DOMAIN in.records = 1..Len(in.records)
    BY <1>2
  <2> SUFFICES ASSUME NEW j \in DOMAIN in.records, NEW k \in DOMAIN in.records, j < k
               PROVE  ~(in.records[j].archive = in.records[k].archive /\ in.records[j].index = in.records[k].index)
    BY <2>1 DEF Distinct
  <2>2. Before(in.records[j], in.records[k])
    BY <1>2 DEF InOrder
  <2>3. in.records[j].archive \in Nat /\ in.records[j].index \in Nat
        /\ in.records[k].archive \in Nat /\ in.records[k].index \in Nat
    BY <1>4 DEF RecordOK
  <2> QED BY <2>2, <2>3 DEF Before
<1> QED BY <1>1, <1>2, <1>4, <1>5 DEF InputOK, in

Preference == {"ignore", "complement", "merge", "replace"}

\* A record has at least one series, if only NoSeries (RecordSequences).
LEMMA SeriesAre ==
  ASSUME NEW archives, NEW r, RecordOK(archives, r),
         NEW preference \in Preference
  PROVE  /\ Series(r, preference) \in Seq(Range(Series(r, preference)))
         /\ Series(r, preference) # <<>>
<1> DEFINE ofDatabase == IF InDatabase(r) THEN Book[r.book].series ELSE <<>>
           ofFile == IF Described(r) THEN File[r.name].series ELSE <<>>
           T == Range(ofDatabase) \cup Range(ofFile)
           chosen == Preferred(ofDatabase, ofFile, preference)
           new == {k \in DOMAIN chosen : \A j \in 1..(k - 1) : chosen[j] # chosen[k]}
           P == Positions(chosen)
           first == Keep(P, new)
<1>1. ofDatabase \in Seq(Range(ofDatabase))
  <2>1. CASE InDatabase(r)
    BY <2>1, InputBooks DEF RecordOK, InDatabase
  <2>2. CASE ~InDatabase(r)
    BY <2>2
  <2> QED BY <2>1, <2>2
<1>2. ofFile \in Seq(Range(ofFile))
  <2>1. CASE Described(r)
    <3>1. r.name \in DOMAIN File
      BY <2>1 DEF Described, RecordOK
    <3> QED BY <2>1, <3>1, InputBooks
  <2>2. CASE ~Described(r)
    BY <2>2
  <2> QED BY <2>1, <2>2
<1>3. ofDatabase \in Seq(T) /\ ofFile \in Seq(T)
  <2>1. Range(ofDatabase) \subseteq T /\ Range(ofFile) \subseteq T
    OBVIOUS
  <2> HIDE DEF ofDatabase, ofFile, T
  <2> QED BY <1>1, <1>2, <2>1, SeqMonotonic
<1>4. Series(r, preference) = IF chosen = <<>> THEN <<NoSeries>> ELSE [k \in DOMAIN first |-> chosen[first[k]]]
  BY DEF Series
<1> HIDE DEF ofDatabase, ofFile, T
<1>5. chosen \in Seq(T)
  BY <1>3 DEF Preferred, Preference
<1> HIDE DEF chosen
<1>6. CASE chosen = <<>>
  <2>1. Series(r, preference) = <<NoSeries>>
    BY <1>4, <1>6
  <2>2. <<NoSeries>> \in Seq(Range(<<NoSeries>>)) /\ <<NoSeries>> # <<>>
    BY DEF Range
  <2> QED BY <2>1, <2>2
<1>7. CASE chosen # <<>>
  <2>1. P \in Seq(DOMAIN chosen) /\ Range(P) = DOMAIN chosen
    BY <1>5, PositionsAre
  <2>2. 1 \in DOMAIN chosen /\ 1 \in new
    BY <1>5, <1>7
  <2> HIDE DEF P, new
  <2>3. first \in Seq(DOMAIN chosen) /\ Range(first) = Range(P) \cap new
    BY <2>1, KeepRange
  <2>4. 1 \in Range(first)
    BY <2>1, <2>2, <2>3
  <2> HIDE DEF first
  <2>5. DOMAIN first = 1..Len(first) /\ Len(first) \in Nat /\ first # <<>>
    BY <2>3, <2>4 DEF Range
  <2>6. Series(r, preference) = [k \in 1..Len(first) |-> chosen[first[k]]]
    BY <1>4, <1>7, <2>5
  <2> DEFINE s == Series(r, preference)
  <2>7. DOMAIN s = 1..Len(first) /\ \A k \in DOMAIN s : s[k] \in Range(s)
    BY <2>6 DEF Range
  <2>8. s = [k \in 1..Len(first) |-> s[k]] /\ Len(first) # 0
    BY <2>5, <2>6, <2>7
  <2> HIDE DEF s
  <2>9. s \in Seq(Range(s)) /\ s # <<>>
    BY <2>5, <2>7, <2>8
  <2> QED BY <2>9 DEF s
<1> QED BY <1>6, <1>7

-----------------------------------------------------------------------------
(* Parts that grow (AddTo) *)

Unique(parts) == \A p, q \in DOMAIN parts : parts[p].of = parts[q].of => p = q
LinesUnder(parts, name) ==
  IF Holds(parts, name) THEN (CHOOSE q \in Range(parts) : q.of = name).lines ELSE <<>>
Extended(parts, lines) == [parts EXCEPT ![Len(parts)].lines = @ \o lines]

\* Where names are unique, the lines under a name are those of its part.
LEMMA LinesUnderIs ==
  ASSUME NEW parts, Unique(parts), NEW p \in DOMAIN parts
  PROVE  LinesUnder(parts, parts[p].of) = parts[p].lines
<1> DEFINE name == parts[p].of
<1>1. Holds(parts, name)
  BY DEF Holds
<1>2. \A q \in Range(parts) : q.of = name => q = parts[p]
  BY DEF Range, Unique
<1>3. parts[p] \in Range(parts) /\ parts[p].of = name
  BY DEF Range
<1> HIDE DEF name
<1>4. (CHOOSE q \in Range(parts) : q.of = name) = parts[p]
  BY <1>2, <1>3
<1> QED BY <1>1, <1>4 DEF LinesUnder, name

\* Under a name without a part there are no lines.
LEMMA NoLinesUnder ==
  ASSUME NEW parts, NEW name, \A p \in DOMAIN parts : parts[p].of # name
  PROVE  LinesUnder(parts, name) = <<>>
BY DEF LinesUnder, Holds

\* What a part is made of.
LEMMA PartFields ==
  ASSUME NEW T, NEW name \in PartNames, NEW lines \in Seq(T)
  PROVE  Part(name, lines) \in PartSet(T) /\ Part(name, lines).of = name /\ Part(name, lines).lines = lines
BY DEF Part, PartSet

AppendedTo(T, parts, name, lines, more) ==
  /\ more \in Seq(PartSet(T)) /\ Len(more) = Len(parts) + 1 /\ more # <<>>
  /\ DOMAIN more = 1..(Len(parts) + 1) /\ DOMAIN parts = 1..Len(parts) /\ Len(parts) \in Nat
  /\ \A p \in DOMAIN parts : more[p] = parts[p]
  /\ more[Len(parts) + 1].of = name /\ more[Len(parts) + 1].lines = lines
  /\ \A p \in DOMAIN more : p \in DOMAIN parts \/ p = Len(parts) + 1
  /\ Len(parts) + 1 \notin DOMAIN parts
  /\ Grown(parts, more, Len(parts) + 1, lines)

\* A part is added at the end.
LEMMA PartAppended ==
  ASSUME NEW T, NEW parts \in Seq(PartSet(T)), NEW name \in PartNames, NEW lines \in Seq(T)
  PROVE  AppendedTo(T, parts, name, lines, Append(parts, Part(name, lines)))
<1> DEFINE more == Append(parts, Part(name, lines))
           e == Part(name, lines)
           n == Len(parts)
<1>1. e \in PartSet(T) /\ e.of = name /\ e.lines = lines
  BY PartFields
<1> HIDE DEF e
<1>2. more \in Seq(PartSet(T)) /\ Len(more) = n + 1 /\ n \in Nat
  BY <1>1 DEF e
<1>3. DOMAIN more = 1..(n + 1) /\ DOMAIN parts = 1..n
  BY <1>2
<1>4. (\A p \in 1..n : more[p] = parts[p]) /\ more[n + 1] = e
  BY <1>1 DEF e
<1> HIDE DEF n, more
<1>5. \A p \in 1..(n + 1) : p \in 1..n \/ p = n + 1
  BY <1>2
<1>6. n + 1 \notin 1..n /\ n + 1 \in 1..(n + 1) /\ 1..n \subseteq 1..(n + 1)
  BY <1>2
<1>7. <<>> \o lines = lines
  OBVIOUS
<1>8. Grown(parts, more, n + 1, lines)
  BY <1>1, <1>3, <1>4, <1>5, <1>6, <1>7 DEF Grown, LinesBefore
<1>9. more # <<>>
  BY <1>2
<1>10. AppendedTo(T, parts, name, lines, more)
  BY <1>1, <1>2, <1>3, <1>4, <1>5, <1>6, <1>8, <1>9 DEF n, AppendedTo
<1> QED BY <1>10 DEF more

ExtendedTo(T, parts, lines, more) ==
  /\ more \in Seq(PartSet(T)) /\ Len(more) = Len(parts) /\ DOMAIN more = DOMAIN parts
  /\ Len(parts) \in DOMAIN parts
  /\ \A p \in DOMAIN parts : more[p].of = parts[p].of
  /\ \A p \in DOMAIN parts : p # Len(parts) => more[p] = parts[p]
  /\ Joined(more[Len(parts)].lines, parts[Len(parts)].lines, lines)
  /\ Grown(parts, more, Len(parts), lines)

\* The last part gets more lines.
LEMMA PartExtended ==
  ASSUME NEW T, NEW parts \in Seq(PartSet(T)), parts # <<>>, NEW lines \in Seq(T)
  PROVE  ExtendedTo(T, parts, lines, Extended(parts, lines))
<1> DEFINE more == Extended(parts, lines)
           n == Len(parts)
           old == parts[n].lines
           e == [parts[n] EXCEPT !.lines = @ \o lines]
<1>1. n \in DOMAIN parts /\ DOMAIN parts = 1..n /\ n \in Nat
  OBVIOUS
<1>2. parts[n] \in PartSet(T)
  BY <1>1
<1>3. parts[n].lines \in Seq(T)
  BY <1>2 DEF PartSet
<1>4. e \in PartSet(T) /\ e.of = parts[n].of /\ e.lines = parts[n].lines \o lines
  <2> DEFINE x == parts[n]
             joined == x.lines \o lines
  <2>1. joined \in Seq(T)
    BY <1>3
  <2>2. e = [x EXCEPT !.lines = joined]
    OBVIOUS
  <2> HIDE DEF joined, e, n
  <2>3. x \in [of : PartNames, lines : Seq(T)]
    BY <1>2 DEF PartSet
  <2> HIDE DEF x
  <2>4. e \in [of : PartNames, lines : Seq(T)] /\ e.of = x.of /\ e.lines = joined
    BY <2>1, <2>2, <2>3
  <2> QED BY <2>4 DEF PartSet, x, joined
<1>5. more = [parts EXCEPT ![n] = e]
  BY DEF Extended
<1> HIDE DEF e
<1>6. more \in Seq(PartSet(T)) /\ Len(more) = Len(parts)
  BY <1>1, <1>4, <1>5, ExceptSeq
<1>7. DOMAIN more = DOMAIN parts /\ more[n] = e /\ \A p \in DOMAIN parts : p # n => more[p] = parts[p]
  BY <1>1, <1>5
<1> HIDE DEF n
<1>8. Grown(parts, more, n, lines)
  BY <1>1, <1>4, <1>7 DEF Grown, LinesBefore
<1> QED BY <1>1, <1>4, <1>6, <1>7, <1>8 DEF n, Joined, ExtendedTo

\* A part that is there gets more lines, wherever it is.
LEMMA AddToHeld ==
  ASSUME NEW T, NEW parts \in Seq(PartSet(T)), Unique(parts), NEW lines \in Seq(T), NEW j \in DOMAIN parts,
         NEW more, more = AddTo(parts, parts[j].of, lines)
  PROVE  /\ more \in Seq(PartSet(T)) /\ DOMAIN more = DOMAIN parts
         /\ \A p \in DOMAIN parts : more[p].of = parts[p].of
         /\ \A p \in DOMAIN parts : p # j => more[p] = parts[p]
         /\ Joined(more[j].lines, parts[j].lines, lines)
         /\ Grown(parts, more, j, lines)
<1> DEFINE name == parts[j].of
           e == Part(name, parts[j].lines \o lines)
<1>1. parts[j] \in PartSet(T)
  OBVIOUS
<1>2. name \in PartNames /\ parts[j].lines \in Seq(T)
  BY <1>1 DEF PartSet
<1>3. parts[j].lines \o lines \in Seq(T)
  BY <1>2
<1>4. e \in PartSet(T) /\ e.of = name /\ e.lines = parts[j].lines \o lines
  BY <1>2, <1>3, PartFields
<1>5. Holds(parts, name)
  BY DEF Holds
<1>6. \A p \in DOMAIN parts : parts[p].of = name <=> p = j
  BY DEF Unique
<1>7. more = [k \in DOMAIN parts |-> IF parts[k].of = name THEN Part(name, parts[k].lines \o lines) ELSE parts[k]]
  BY <1>5 DEF AddTo
<1>8. more[j] = e /\ DOMAIN more = DOMAIN parts /\ \A p \in DOMAIN parts : p # j => more[p] = parts[p]
  BY <1>6, <1>7
<1> HIDE DEF e, name
<1>9. \A p \in DOMAIN parts : more[p] \in PartSet(T)
  BY <1>4, <1>8
<1>10. more = [k \in 1..Len(parts) |-> more[k]] /\ DOMAIN parts = 1..Len(parts) /\ Len(parts) \in Nat
  BY <1>7
<1>11. more \in Seq(PartSet(T))
  BY <1>9, <1>10
<1>12. Grown(parts, more, j, lines)
  BY <1>4, <1>8 DEF Grown, LinesBefore
<1> QED BY <1>4, <1>8, <1>11, <1>12 DEF name, Joined

\* AddTo: the part of a name grows, no other does, and names stay unique.
LEMMA AddToIs ==
  ASSUME NEW T, NEW parts \in Seq(PartSet(T)), Unique(parts), NEW name \in PartNames, NEW lines \in Seq(T),
         NEW more, more = AddTo(parts, name, lines)
  PROVE  /\ more \in Seq(PartSet(T)) /\ Unique(more)
         /\ \E j : Grown(parts, more, j, lines)
         /\ \A a : a # name => LinesUnder(more, a) = LinesUnder(parts, a)
         /\ Joined(LinesUnder(more, name), LinesUnder(parts, name), lines)
<1>1. CASE Holds(parts, name)
  <2> PICK j \in DOMAIN parts : parts[j].of = name
    BY <1>1 DEF Holds
  <2>1. /\ more \in Seq(PartSet(T)) /\ DOMAIN more = DOMAIN parts
        /\ \A p \in DOMAIN parts : more[p].of = parts[p].of
        /\ \A p \in DOMAIN parts : p # j => more[p] = parts[p]
        /\ Joined(more[j].lines, parts[j].lines, lines)
        /\ Grown(parts, more, j, lines)
    BY AddToHeld
  <2>2. Unique(more)
    BY <2>1 DEF Unique
  <2>3. ASSUME NEW a, a # name PROVE LinesUnder(more, a) = LinesUnder(parts, a)
    <3>1. CASE \E p \in DOMAIN parts : parts[p].of = a
      <4> PICK p \in DOMAIN parts : parts[p].of = a
        BY <3>1
      <4>1. LinesUnder(parts, a) = parts[p].lines
        BY LinesUnderIs
      <4>2. LinesUnder(more, more[p].of) = more[p].lines
        BY <2>1, <2>2, LinesUnderIs
      <4>3. p # j
        BY <2>3
      <4> QED BY <2>1, <4>1, <4>2, <4>3
    <3>2. CASE \A p \in DOMAIN parts : parts[p].of # a
      <4>1. LinesUnder(parts, a) = <<>> /\ LinesUnder(more, a) = <<>>
        BY <2>1, <3>2, NoLinesUnder
      <4> QED BY <4>1
    <3> QED BY <3>1, <3>2
  <2>4. LinesUnder(parts, name) = parts[j].lines
    BY LinesUnderIs
  <2>5. LinesUnder(more, more[j].of) = more[j].lines
    BY <2>1, <2>2, LinesUnderIs
  <2> QED BY <2>1, <2>2, <2>3, <2>4, <2>5
<1>2. CASE ~Holds(parts, name)
  <2>1. more = Append(parts, Part(name, lines))
    BY <1>2 DEF AddTo
  <2> DEFINE n == Len(parts)
  <2>2. /\ more \in Seq(PartSet(T))
        /\ DOMAIN more = 1..(n + 1) /\ DOMAIN parts = 1..n /\ n \in Nat
        /\ \A p \in DOMAIN parts : more[p] = parts[p]
        /\ more[n + 1].of = name /\ more[n + 1].lines = lines
        /\ \A p \in DOMAIN more : p \in DOMAIN parts \/ p = n + 1
        /\ n + 1 \notin DOMAIN parts
        /\ Grown(parts, more, n + 1, lines)
    <3>1. AppendedTo(T, parts, name, lines, more)
      BY <2>1, PartAppended
    <3> QED BY <3>1 DEF AppendedTo
  <2> HIDE DEF n
  <2>3. \A p \in DOMAIN parts : parts[p].of # name
    BY <1>2 DEF Holds
  <2>4. Unique(more)
    BY <2>2, <2>3 DEF Unique
  <2>5. ASSUME NEW a, a # name PROVE LinesUnder(more, a) = LinesUnder(parts, a)
    <3>1. CASE \E p \in DOMAIN parts : parts[p].of = a
      <4> PICK p \in DOMAIN parts : parts[p].of = a
        BY <3>1
      <4>1. LinesUnder(parts, a) = parts[p].lines
        BY LinesUnderIs
      <4>2. p \in DOMAIN more
        BY <2>2
      <4>3. LinesUnder(more, more[p].of) = more[p].lines
        BY <2>4, <4>2, LinesUnderIs
      <4> QED BY <2>2, <4>1, <4>3
    <3>2. CASE \A p \in DOMAIN parts : parts[p].of # a
      <4>1. \A p \in DOMAIN more : more[p].of # a
        BY <2>2, <2>5, <3>2
      <4>2. LinesUnder(parts, a) = <<>> /\ LinesUnder(more, a) = <<>>
        BY <3>2, <4>1, NoLinesUnder
      <4> QED BY <4>2
    <3> QED BY <3>1, <3>2
  <2>6. LinesUnder(parts, name) = <<>>
    BY <2>3, NoLinesUnder
  <2>7. n + 1 \in DOMAIN more
    BY <2>2
  <2>8. LinesUnder(more, more[n + 1].of) = more[n + 1].lines
    BY <2>4, <2>7, LinesUnderIs
  <2>9. <<>> \o lines = lines
    OBVIOUS
  <2>10. Joined(LinesUnder(more, name), LinesUnder(parts, name), lines)
    BY <2>2, <2>6, <2>8, <2>9 DEF Joined
  <2> QED BY <2>2, <2>4, <2>5, <2>10
<1> QED BY <1>1, <1>2

-----------------------------------------------------------------------------
(* What the writers keep of annotations and books *)

BodySet(records) == {Body(r) : r \in Range(records)}
Writers(o, records) ==
  [active : Int, open : BOOLEAN, place : Int, pending : Seq(Int),
   inp : Seq(PartSet(LineSet(o, records))), notes : Seq(PartSet(DOMAIN File)),
   books : Seq(BodySet(records))]

NamesOf(rs) == [k \in DOMAIN rs |-> rs[k].name]
Prefix(s, n) == [k \in 1..n |-> s[k]]
NotedOf(o, records, a) == {r \in Range(records) : r.archive = a /\ Annotated(r) /\ AskedBy(o, r) # <<>>}
NamesToNote(o, records, n, a) == NamesOf(Keep(Prefix(records, n), NotedOf(o, records, a)))
Noted(o, records, folders, n) ==
  Unique(folders) /\ \A a \in Nat : LinesUnder(folders, a) = NamesToNote(o, records, n, a)
Booked(o, records, books, n) ==
  \A b \in Range(books) : \E k \in 1..n : AskedBy(o, records[k]) # <<>> /\ b = Body(records[k])

\* The first n + 1 elements are the first n and one more.
LEMMA PrefixNext ==
  ASSUME NEW R, NEW s \in Seq(R), NEW n \in 0..(Len(s) - 1)
  PROVE  /\ Prefix(s, n + 1) = Append(Prefix(s, n), s[n + 1])
         /\ Prefix(s, n) \in Seq(R) /\ s[n + 1] \in R /\ n + 1 \in DOMAIN s
<1>1. Len(s) \in Nat /\ n + 1 \in 1..Len(s) /\ n \in Nat
  OBVIOUS
<1>2. \A k \in 1..n : k \in 1..Len(s)
  BY <1>1
<1>3. s[n + 1] \in R /\ \A k \in 1..n : s[k] \in R
  BY <1>1, <1>2
<1> DEFINE p == Prefix(s, n)
           x == s[n + 1]
<1>4. p \in Seq(R) /\ Len(p) = n /\ \A k \in 1..n : p[k] = s[k]
  BY <1>1, <1>3 DEF Prefix
<1> DEFINE q == Prefix(s, n + 1)
<1>5. q \in Seq(R) /\ Len(q) = n + 1 /\ \A k \in 1..(n + 1) : q[k] = s[k]
  <2>1. n + 1 \in Nat /\ \A k \in 1..(n + 1) : s[k] \in R
    BY <1>1, <1>3, LastOr
  <2> QED BY <2>1 DEF Prefix
<1>6. x \in R
  BY <1>3
<1> HIDE DEF p, q, x
<1> DEFINE t == Append(p, x)
<1>7. t \in Seq(R) /\ Len(t) = n + 1 /\ (\A k \in 1..n : t[k] = p[k]) /\ t[n + 1] = x
  BY <1>1, <1>4, <1>6
<1> HIDE DEF t
<1>8. \A k \in 1..Len(q) : q[k] = t[k]
  <2> SUFFICES ASSUME NEW k \in 1..(n + 1) PROVE q[k] = t[k]
    BY <1>5
  <2>1. k = n + 1 \/ k \in 1..n
    BY <1>1, LastOr
  <2> QED BY <1>4, <1>5, <1>7, <2>1 DEF x
<1>9. q = t
  BY <1>5, <1>7, <1>8, SeqEqual
<1> QED BY <1>1, <1>3, <1>4, <1>9 DEF p, q, t, x

\* The names of records with one more record.
LEMMA NamesOfAppend ==
  ASSUME NEW R, NEW s \in Seq(R), NEW r \in R
  PROVE  Joined(NamesOf(Append(s, r)), NamesOf(s), <<r.name>>)
<1> DEFINE N == {x.name : x \in R}
           n == Len(s)
           t == Append(s, r)
           a == NamesOf(s)
           b == NamesOf(t)
           y == r.name
<1>1. n \in Nat /\ DOMAIN s = 1..n /\ DOMAIN t = 1..(n + 1) /\ (\A k \in 1..n : t[k] = s[k] /\ s[k] \in R) /\ t[n + 1] = r
  OBVIOUS
<1> HIDE DEF t, n
<1>2. y \in N /\ \A k \in 1..n : s[k].name \in N
  BY <1>1
<1>3. a = [k \in 1..n |-> s[k].name] /\ b = [k \in 1..(n + 1) |-> t[k].name]
  BY <1>1 DEF NamesOf
<1>4. \A k \in 1..(n + 1) : k = n + 1 \/ k \in 1..n
  BY <1>1
<1>5. \A k \in 1..(n + 1) : t[k].name \in N
  BY <1>1, <1>2, <1>4
<1>6. a \in Seq(N) /\ Len(a) = n /\ \A k \in 1..n : a[k] = s[k].name
  <2> HIDE DEF N
  <2> QED BY <1>1, <1>2, <1>3
<1>7. b \in Seq(N) /\ Len(b) = n + 1 /\ \A k \in 1..(n + 1) : b[k] = t[k].name
  <2>1. n + 1 \in Nat
    BY <1>1
  <2> HIDE DEF N
  <2> QED BY <1>3, <1>5, <2>1
<1> HIDE DEF a, b, N, y
<1> DEFINE c == Append(a, y)
<1>8. c \in Seq(N) /\ Len(c) = n + 1 /\ (\A k \in 1..n : c[k] = a[k]) /\ c[n + 1] = y
  BY <1>1, <1>2, <1>6
<1>9. c = a \o <<y>>
  BY <1>2, <1>6, AppendIsConcat
<1> HIDE DEF c
<1>10. \A k \in 1..Len(b) : b[k] = c[k]
  BY <1>1, <1>4, <1>6, <1>7, <1>8 DEF y
<1>11. b = c
  BY <1>7, <1>8, <1>10, SeqEqual
<1> QED BY <1>9, <1>11 DEF Joined, a, b, t, y

\* One record further the annotations are complete, if its own was added exactly when it has to be.
LEMMA NotedNext ==
  ASSUME NEW o, NEW R, NEW records \in Seq(R), NEW n \in 0..(Len(records) - 1), NEW folders,
         Noted(o, records, folders, n), NEW more, Unique(more), records[n + 1].archive \in Nat,
         \A a \in Nat : a # records[n + 1].archive => LinesUnder(more, a) = LinesUnder(folders, a),
         LET r == records[n + 1]
         IN  IF Annotated(r) /\ AskedBy(o, r) # <<>>
             THEN Joined(LinesUnder(more, r.archive), LinesUnder(folders, r.archive), <<r.name>>)
             ELSE LinesUnder(more, r.archive) = LinesUnder(folders, r.archive)
  PROVE  Noted(o, records, more, n + 1)
<1> DEFINE r == records[n + 1]
<1> SUFFICES ASSUME NEW a \in Nat PROVE LinesUnder(more, a) = NamesToNote(o, records, n + 1, a)
  BY DEF Noted
<1> DEFINE S == NotedOf(o, records, a)
           p == Prefix(records, n)
           kept == Keep(p, S)
<1>1. Prefix(records, n + 1) = Append(p, r) /\ p \in Seq(R) /\ r \in R /\ n + 1 \in DOMAIN records
  BY PrefixNext
<1>2. LinesUnder(folders, a) = NamesOf(kept)
  BY DEF Noted, NamesToNote
<1>3. r \in S <=> a = r.archive /\ Annotated(r) /\ AskedBy(o, r) # <<>>
  BY <1>1 DEF NotedOf, Range
<1> HIDE DEF p, S, r
<1>4. Keep(Append(p, r), S) = IF r \in S THEN Append(kept, r) ELSE kept
  BY <1>1, KeepAppend
<1>5. kept \in Seq(R)
  BY <1>1, KeepRange
<1> HIDE DEF kept
<1>6. CASE r \in S
  <2>1. Joined(NamesOf(Append(kept, r)), NamesOf(kept), <<r.name>>)
    BY <1>1, <1>5, NamesOfAppend
  <2>2. Joined(LinesUnder(more, a), LinesUnder(folders, a), <<r.name>>)
    BY <1>3, <1>6 DEF r
  <2>3. LinesUnder(more, a) = NamesOf(Append(kept, r))
    BY <1>2, <2>1, <2>2 DEF Joined
  <2> QED BY <1>1, <1>4, <1>6, <2>3 DEF NamesToNote, S
<1>7. CASE r \notin S
  <2>1. LinesUnder(more, a) = LinesUnder(folders, a)
    BY <1>3, <1>7 DEF r
  <2> QED BY <1>1, <1>2, <1>4, <1>7, <2>1 DEF NamesToNote, S
<1> QED BY <1>6, <1>7

\* One record further all books that were collected are listed ones.
LEMMA BookedNext ==
  ASSUME NEW o, NEW R, NEW records \in Seq(R), NEW n \in 0..(Len(records) - 1),
         NEW books \in Seq(BodySet(records)), Booked(o, records, books, n), NEW more,
         more = books \/ (AskedBy(o, records[n + 1]) # <<>> /\ more = Append(books, Body(records[n + 1])))
  PROVE  Booked(o, records, more, n + 1) /\ more \in Seq(BodySet(records))
<1> DEFINE r == records[n + 1]
<1>1. n + 1 \in DOMAIN records /\ n \in Nat
  OBVIOUS
<1>2. Body(r) \in BodySet(records)
  BY <1>1 DEF BodySet, Range
<1>3. \A k \in 1..n : k \in 1..(n + 1)
  BY <1>1
<1>4. n + 1 \in 1..(n + 1)
  BY <1>1
<1>5. CASE more = books
  BY <1>3, <1>5 DEF Booked
<1>6. CASE AskedBy(o, r) # <<>> /\ more = Append(books, Body(r))
  <2> DEFINE body == Body(r)
             B == BodySet(records)
  <2>1. body \in B /\ books \in Seq(B)
    BY <1>2
  <2> HIDE DEF body, B
  <2>2. Range(Append(books, body)) = Range(books) \cup {body} /\ Append(books, body) \in Seq(B)
    BY <2>1, RangeAppend
  <2>3. more = Append(books, body)
    BY <1>6 DEF body
  <2>4. \A b \in Range(more) : b \in Range(books) \/ b = Body(r)
    BY <2>2, <2>3 DEF body
  <2>5. Booked(o, records, more, n + 1)
    BY <1>3, <1>4, <1>6, <2>4 DEF Booked
  <2> QED BY <2>2, <2>3, <2>5 DEF B
<1> QED BY <1>5, <1>6

-----------------------------------------------------------------------------
(* sliceinpx, record by record *)

LinesFor(o, records, r, series, lines) ==
  /\ lines \in Seq(LineSet(o, records)) /\ Titles(lines) = series
  /\ \A k \in 1..Len(lines) : IsLineOf(lines[k], r)

\* Lines of a record are lines there may be.
LEMMA LinesOfRecord ==
  ASSUME NEW o, NEW records, NEW r \in Range(records), NEW T,
         NEW series \in Seq(T), \A k \in 1..Len(series) : series[k] \in SeriesSet(o, r)
  PROVE  LinesFor(o, records, r, series, [k \in DOMAIN series |-> Line(r, series[k], o)])
<1> DEFINE lines == [k \in DOMAIN series |-> Line(r, series[k], o)]
<1>1. DOMAIN series = 1..Len(series) /\ Len(series) \in Nat
  OBVIOUS
<1>2. \A k \in DOMAIN series : Line(r, series[k], o) \in LineSet(o, records)
  <2> TAKE k \in DOMAIN series
  <2>1. Line(r, series[k], o) \in BookLines(o, r)
    BY <1>1 DEF BookLines
  <2> QED BY <2>1 DEF LineSet
<1> DEFINE L == LineSet(o, records)
<1> HIDE DEF L
<1>3. lines \in Seq(L) /\ Len(lines) = Len(series)
  BY <1>1, <1>2 DEF L
<1>4. \A k \in DOMAIN series : lines[k].series = series[k] /\ IsLineOf(lines[k], r)
  BY LineFields
<1>5. DOMAIN lines = DOMAIN series
  OBVIOUS
<1>6. Titles(lines) = series
  <2>1. series = [k \in DOMAIN series |-> series[k]]
    OBVIOUS
  <2> HIDE DEF L
  <2> QED BY <1>4, <1>5, <2>1 DEF Titles
<1>7. \A k \in 1..Len(lines) : IsLineOf(lines[k], r)
  BY <1>1, <1>3, <1>4, <1>5
<1> QED BY <1>3, <1>6, <1>7 DEF L, LinesFor

Tool(o, tool) == o \in Options /\ o.tool = tool

\* What the options of a run can be.
LEMMA OptionTypes ==
  ASSUME NEW o \in Options
  PROVE  o.tool \in {"mhl", "flib", "slice"} /\ o.preference \in Preference /\ o.content \in {"fb2", "usr", "all"}
BY ExportOptions DEF Options, Preference

Noting(o, records, folders, additional, n) == additional => Noted(o, records, folders, n)

SliceInv(o, records, w, additional, n) ==
  /\ w \in Writers(o, records) /\ Unique(w.inp)
  /\ Covered(LineSet(o, records), o, records, w.inp, n)
  /\ Noting(o, records, w.notes, additional, n) /\ Booked(o, records, w.books, n)

\* WriteRecord of sliceinpx keeps the invariant of its writer, one record further.
LEMMA SliceStep ==
  ASSUME NEW o, Tool(o, "slice"), NEW in, InputOK(in), in.archives # <<>>,
         NEW w, NEW additional \in BOOLEAN, NEW compiling \in BOOLEAN,
         NEW n \in 0..(Len(in.records) - 1), SliceInv(o, in.records, w, additional, n)
  PROVE  SliceInv(o, in.records, SliceRecord(w, in.records[n + 1], o, additional, compiling), additional, n + 1)
<1> DEFINE records == in.records
           r == records[n + 1]
           T == LineSet(o, records)
           R == RecordSet(in.archives)
           series == KeptSeries(r, o)
           lines == SliceLines(r, o)
           name == SplitOf(r, o)
           w2 == SliceRecord(w, r, o, additional, compiling)
<1>1. records \in Seq(R) /\ Distinct(records) /\ n + 1 \in DOMAIN records /\ r \in Range(records)
  BY DEF InputOK, Range
<1>2. RecordOK(in.archives, r)
  BY <1>1 DEF InputOK
<1>3. r.archive \in Nat /\ r.archive # Online /\ r.name \in DOMAIN File
  BY <1>2 DEF RecordOK
<1>4. /\ w \in Writers(o, records) /\ Unique(w.inp) /\ Covered(T, o, records, w.inp, n)
      /\ Noting(o, records, w.notes, additional, n) /\ Booked(o, records, w.books, n)
  BY DEF SliceInv
<1>5. w.inp \in Seq(PartSet(T)) /\ w.notes \in Seq(PartSet(DOMAIN File)) /\ w.books \in Seq(BodySet(records))
  BY <1>4 DEF Writers
<1>6. o.tool = "slice" /\ o.preference \in Preference
  BY OptionTypes DEF Tool
<1>7. AskedBy(o, r) = IF ~MatchesContent(r, o.content) \/ ~Titled(r) THEN <<>> ELSE series
  BY <1>6 DEF AskedBy
<1>8. Selected(r, o) <=> Titled(r) /\ series # <<>>
  BY DEF Selected
<1> HIDE DEF records, r
<1>9. series \in Seq(SeriesSet(o, r)) /\ Range(series) \subseteq Where
  <2> DEFINE s == Series(r, o.preference)
  <2>1. s \in Seq(Range(s))
    BY <1>2, <1>6, SeriesAre
  <2> HIDE DEF s
  <2>2. Keep(s, Where) \in Seq(Range(s)) /\ Range(Keep(s, Where)) = Range(s) \cap Where
    BY <2>1, KeepRange
  <2>3. Range(s) \subseteq SeriesSet(o, r)
    BY DEF SeriesSet, s
  <2>4. series = Keep(s, Where)
    BY DEF KeptSeries, s
  <2> HIDE DEF series
  <2>5. series \in Seq(SeriesSet(o, r))
    BY <2>2, <2>3, <2>4, SeqMonotonic
  <2> QED BY <2>2, <2>4, <2>5
<1>10. \A k \in 1..Len(series) : series[k] \in SeriesSet(o, r)
  BY <1>9
<1>11. lines \in Seq(T) /\ Titles(lines) = series /\ \A k \in 1..Len(lines) : IsLineOf(lines[k], r)
  <2>1. lines = [k \in DOMAIN series |-> Line(r, series[k], o)]
    BY DEF SliceLines
  <2> HIDE DEF series, lines, T
  <2>2. LinesFor(o, records, r, series, lines)
    BY <1>1, <1>9, <1>10, <2>1, LinesOfRecord
  <2> QED BY <2>2 DEF T, LinesFor
<1>12. series # <<>> => name \in PartNames
  <2>1. series # <<>> => Head(series) \in Range(series)
    BY <1>9 DEF Range
  <2>2. name = SplitBy[Head(series)]
    BY DEF SplitOf
  <2> QED BY <1>9, <2>1, <2>2 DEF PartNames
<1> HIDE DEF T, R, series, lines, name
<1>13. CASE ~MatchesContent(r, o.content)
  <2>1. w2 = w /\ AskedBy(o, r) = <<>>
    BY <1>7, <1>13 DEF SliceRecord
  <2>2. Covered(T, o, records, w.inp, n + 1)
    BY <1>1, <1>4, <2>1, CoveredSame DEF records, r
  <2>3. additional => Noted(o, records, w.notes, n + 1)
    <3> SUFFICES ASSUME additional PROVE Noted(o, records, w.notes, n + 1)
      OBVIOUS
    <3>1. Noted(o, records, w.notes, n) /\ Unique(w.notes)
      BY <1>4 DEF Noting, Noted
    <3> QED BY <1>1, <1>3, <2>1, <3>1, NotedNext DEF records, r
  <2>4. Booked(o, records, w.books, n + 1)
    BY <1>1, <1>4, <1>5, BookedNext DEF records, r
  <2> QED BY <1>4, <2>1, <2>2, <2>3, <2>4 DEF SliceInv, T, records, r, Noting
<1>14. CASE MatchesContent(r, o.content)
  <2> DEFINE inp == IF Selected(r, o) THEN AddTo(w.inp, name, lines) ELSE w.inp
             folders == IF additional /\ SliceNotes(r, o) THEN AddTo(w.notes, r.archive, <<r.name>>) ELSE w.notes
             books == IF compiling /\ Selected(r, o) THEN Append(w.books, Body(r)) ELSE w.books
  <2>1. w2 = [w EXCEPT !.inp = inp, !.notes = folders, !.books = books]
    BY <1>3, <1>14 DEF SliceRecord, name, lines
  <2>2. Selected(r, o) <=> AskedBy(o, r) # <<>>
    BY <1>7, <1>8, <1>14
  <2>3. inp \in Seq(PartSet(T)) /\ Unique(inp) /\ Covered(T, o, records, inp, n + 1)
    <3>1. CASE Selected(r, o)
      <4>1. inp = AddTo(w.inp, name, lines) /\ name \in PartNames /\ series = AskedBy(o, r)
        BY <1>7, <1>8, <1>12, <1>14, <3>1
      <4> HIDE DEF inp
      <4>2. inp \in Seq(PartSet(T)) /\ Unique(inp) /\ \E j : Grown(w.inp, inp, j, lines)
        BY <1>4, <1>5, <1>11, <4>1, AddToIs
      <4> PICK j : Grown(w.inp, inp, j, lines)
        BY <4>2
      <4>3. Covered(T, o, records, inp, n + 1)
        BY <1>1, <1>4, <1>5, <1>11, <4>1, <4>2, CoveredNext DEF records, r
      <4> QED BY <4>2, <4>3
    <3>2. CASE ~Selected(r, o)
      <4>1. Covered(T, o, records, w.inp, n + 1)
        BY <1>1, <1>4, <2>2, <3>2, CoveredSame DEF records, r
      <4> QED BY <1>4, <1>5, <3>2, <4>1
    <3> QED BY <3>1, <3>2
  <2>4. folders \in Seq(PartSet(DOMAIN File)) /\ Noting(o, records, folders, additional, n + 1)
    <3>1. CASE additional /\ SliceNotes(r, o)
      <4> DEFINE single == <<r.name>>
      <4>1. folders = AddTo(w.notes, r.archive, single) /\ Annotated(r) /\ AskedBy(o, r) # <<>>
        BY <2>2, <3>1 DEF SliceNotes
      <4>2. single \in Seq(DOMAIN File) /\ r.archive \in PartNames
        BY <1>3 DEF PartNames
      <4>3. Noted(o, records, w.notes, n) /\ Unique(w.notes)
        BY <1>4, <3>1 DEF Noting, Noted
      <4> HIDE DEF folders, single
      <4>4. /\ folders \in Seq(PartSet(DOMAIN File)) /\ Unique(folders)
            /\ \A a : a # r.archive => LinesUnder(folders, a) = LinesUnder(w.notes, a)
            /\ Joined(LinesUnder(folders, r.archive), LinesUnder(w.notes, r.archive), single)
        BY <1>5, <4>1, <4>2, <4>3, AddToIs
      <4>5. Noted(o, records, folders, n + 1)
        BY <1>1, <1>3, <4>1, <4>3, <4>4, NotedNext DEF records, r, single
      <4> QED BY <4>4, <4>5 DEF Noting
    <3>2. CASE additional /\ ~SliceNotes(r, o)
      <4>1. folders = w.notes /\ ~(Annotated(r) /\ AskedBy(o, r) # <<>>)
        BY <2>2, <3>2 DEF SliceNotes
      <4>2. Noted(o, records, w.notes, n) /\ Unique(w.notes)
        BY <1>4, <3>2 DEF Noting, Noted
      <4> HIDE DEF folders
      <4>3. Noted(o, records, folders, n + 1)
        BY <1>1, <1>3, <4>1, <4>2, NotedNext DEF records, r
      <4> QED BY <1>5, <4>1, <4>3 DEF Noting
    <3>3. CASE ~additional
      BY <1>5, <3>3 DEF Noting
    <3> QED BY <3>1, <3>2, <3>3
  <2>5. Booked(o, records, books, n + 1) /\ books \in Seq(BodySet(records))
    <3>1. books = w.books \/ (AskedBy(o, r) # <<>> /\ books = Append(w.books, Body(r)))
      BY <2>2
    <3> HIDE DEF books
    <3> QED BY <1>1, <1>4, <1>5, <3>1, BookedNext DEF records, r
  <2> HIDE DEF inp, folders, books
  <2>6. w2 \in Writers(o, records) /\ w2.inp = inp /\ w2.notes = folders /\ w2.books = books
    <3>1. w \in Writers(o, records)
      BY <1>4
    <3> HIDE DEF w2
    <3> QED BY <2>1, <2>3, <2>4, <2>5, <3>1 DEF Writers, T
  <2> QED BY <2>3, <2>4, <2>5, <2>6 DEF SliceInv, T, records, r
<1> QED BY <1>13, <1>14

-----------------------------------------------------------------------------
(* flibinpx, record by record *)

\* The folders of annotations of flib-inpx: only the one of the open archive is written.
Folders(folders, active, open) ==
  /\ \A p \in DOMAIN folders : /\ folders[p].of \in Int /\ folders[p].of <= active
                               /\ folders[p].of = active => open /\ p = Len(folders)
  /\ open => folders # <<>> /\ folders[Len(folders)].of = active

Lines(folders, more) == \A a : LinesUnder(more, a) = LinesUnder(folders, a)

FolderOpened(T, active, more, folders) ==
  more \in Seq(PartSet(T)) /\ Unique(more) /\ Folders(more, active, TRUE) /\ Lines(folders, more)

\* A new folder of flib-inpx is the last one and takes nothing from the others.
LEMMA FolderOpens ==
  ASSUME NEW T, NEW folders \in Seq(PartSet(T)), Unique(folders), NEW active \in Int, Folders(folders, active, FALSE)
  PROVE  FolderOpened(T, active, Append(folders, Part(active, <<>>)), folders)
<1> DEFINE more == Append(folders, Part(active, <<>>))
           n == Len(folders)
<1>1. /\ more \in Seq(PartSet(T)) /\ Len(more) = n + 1 /\ more # <<>>
      /\ DOMAIN more = 1..(n + 1) /\ DOMAIN folders = 1..n /\ n \in Nat
      /\ \A p \in DOMAIN folders : more[p] = folders[p]
      /\ more[n + 1].of = active /\ more[n + 1].lines = <<>>
      /\ \A p \in DOMAIN more : p \in DOMAIN folders \/ p = n + 1
      /\ n + 1 \notin DOMAIN folders
  <2>1. active \in PartNames /\ <<>> \in Seq(T)
    BY DEF PartNames
  <2>2. AppendedTo(T, folders, active, <<>>, more)
    BY <2>1, PartAppended
  <2> HIDE DEF more
  <2> QED BY <2>2 DEF AppendedTo
<1> HIDE DEF more, n
<1>2. \A p \in DOMAIN folders : folders[p].of \in Int /\ folders[p].of < active
  BY DEF Folders
<1>3. Unique(more)
  BY <1>1, <1>2 DEF Unique
<1>4. Folders(more, active, TRUE)
  BY <1>1, <1>2 DEF Folders
<1>5. ASSUME NEW a PROVE LinesUnder(more, a) = LinesUnder(folders, a)
  <2>1. CASE \E p \in DOMAIN folders : folders[p].of = a
    <3> PICK p \in DOMAIN folders : folders[p].of = a
      BY <2>1
    <3>1. LinesUnder(folders, a) = folders[p].lines
      BY LinesUnderIs
    <3>2. p \in DOMAIN more
      BY <1>1
    <3>3. LinesUnder(more, more[p].of) = more[p].lines
      BY <1>3, <3>2, LinesUnderIs
    <3> QED BY <1>1, <3>1, <3>3
  <2>2. CASE \A p \in DOMAIN folders : folders[p].of # a
    <3>1. LinesUnder(folders, a) = <<>>
      BY <2>2, NoLinesUnder
    <3>2. CASE a = active
      <4>1. n + 1 \in DOMAIN more
        BY <1>1
      <4>2. LinesUnder(more, more[n + 1].of) = more[n + 1].lines
        BY <1>3, <4>1, LinesUnderIs
      <4> QED BY <1>1, <3>1, <3>2, <4>2
    <3>3. CASE a # active
      <4>1. \A p \in DOMAIN more : more[p].of # a
        BY <1>1, <2>2, <3>3
      <4> QED BY <3>1, <4>1, NoLinesUnder
    <3> QED BY <3>2, <3>3
  <2> QED BY <2>1, <2>2
<1> QED BY <1>1, <1>3, <1>4, <1>5 DEF FolderOpened, more, Lines

FolderFilled(T, active, name, more, folders) ==
  /\ more \in Seq(PartSet(T)) /\ Unique(more) /\ Folders(more, active, TRUE)
  /\ \A a : a # active => LinesUnder(more, a) = LinesUnder(folders, a)
  /\ Joined(LinesUnder(more, active), LinesUnder(folders, active), <<name>>)

\* A name goes to the last folder, which is that of the active archive.
LEMMA FolderFills ==
  ASSUME NEW T, NEW folders \in Seq(PartSet(T)), Unique(folders), NEW active \in Int, Folders(folders, active, TRUE),
         NEW name \in T
  PROVE  FolderFilled(T, active, name, Extended(folders, <<name>>), folders)
<1> DEFINE more == Extended(folders, <<name>>)
           n == Len(folders)
           single == <<name>>
<1>1. folders # <<>> /\ folders[n].of = active
  BY DEF Folders
<1>2. /\ more \in Seq(PartSet(T)) /\ DOMAIN more = DOMAIN folders /\ n \in DOMAIN folders /\ Len(more) = n
      /\ \A p \in DOMAIN folders : more[p].of = folders[p].of
      /\ \A p \in DOMAIN folders : p # n => more[p] = folders[p]
      /\ Joined(more[n].lines, folders[n].lines, single)
  <2>1. single \in Seq(T)
    OBVIOUS
  <2> HIDE DEF single
  <2>2. ExtendedTo(T, folders, single, Extended(folders, single))
    BY <1>1, <2>1, PartExtended
  <2>3. ExtendedTo(T, folders, single, more)
    BY <2>2 DEF single
  <2> HIDE DEF more
  <2> QED BY <2>3 DEF ExtendedTo
<1> HIDE DEF more, n, single
<1>3. Unique(more)
  BY <1>2 DEF Unique
<1>4. Folders(more, active, TRUE)
  <2>1. more # <<>>
    BY <1>2
  <2>2. more[Len(more)].of = active
    BY <1>1, <1>2
  <2>3. \A p \in DOMAIN more : /\ more[p].of \in Int /\ more[p].of <= active
                               /\ more[p].of = active => p = Len(more)
    BY <1>2 DEF Folders, n
  <2> QED BY <2>1, <2>2, <2>3 DEF Folders
<1>5. ASSUME NEW a, a # active PROVE LinesUnder(more, a) = LinesUnder(folders, a)
  <2>1. CASE \E p \in DOMAIN folders : folders[p].of = a
    <3> PICK p \in DOMAIN folders : folders[p].of = a
      BY <2>1
    <3>1. LinesUnder(folders, a) = folders[p].lines
      BY LinesUnderIs
    <3>2. p \in DOMAIN more
      BY <1>2
    <3>3. LinesUnder(more, more[p].of) = more[p].lines
      BY <1>3, <3>2, LinesUnderIs
    <3>4. p # n
      BY <1>1, <1>5
    <3> QED BY <1>2, <3>1, <3>3, <3>4
  <2>2. CASE \A p \in DOMAIN folders : folders[p].of # a
    <3>1. \A p \in DOMAIN more : more[p].of # a
      BY <1>2, <2>2
    <3> QED BY <2>2, <3>1, NoLinesUnder
  <2> QED BY <2>1, <2>2
<1>6. Joined(LinesUnder(more, active), LinesUnder(folders, active), single)
  <2>1. n \in DOMAIN more
    BY <1>2
  <2>2. LinesUnder(more, more[n].of) = more[n].lines
    BY <1>3, <2>1, LinesUnderIs
  <2>3. LinesUnder(folders, folders[n].of) = folders[n].lines
    BY <1>2, LinesUnderIs
  <2> QED BY <1>1, <1>2, <2>2, <2>3
<1> QED BY <1>2, <1>3, <1>4, <1>5, <1>6 DEF FolderFilled, more, single

Foldering(w, additional) == additional => Folders(w.notes, w.active, w.open)
Followed(w, records, n) ==
  /\ w.active = NoArchive \/ \E k \in 1..n : records[k].archive = w.active
  /\ w.open => w.inp # <<>>

FlibInv(o, records, w, additional, n) ==
  /\ w \in Writers(o, records) /\ Followed(w, records, n)
  /\ Covered(LineSet(o, records), o, records, w.inp, n)
  /\ Noting(o, records, w.notes, additional, n) /\ Foldering(w, additional)
  /\ Booked(o, records, w.books, n)

\* Nothing is read twice, and archives are read one after the other.
LEMMA Ascending ==
  ASSUME NEW in, InputOK(in), NEW n \in 0..(Len(in.records) - 1), NEW active \in Int,
         active = NoArchive \/ \E k \in 1..n : in.records[k].archive = active
  PROVE  active <= in.records[n + 1].archive /\ in.records[n + 1].archive \in Nat
<1> DEFINE records == in.records
<1>1. DOMAIN records = 1..Len(records) /\ Len(records) \in Nat
  BY DEF InputOK
<1>2. n + 1 \in DOMAIN records /\ \A k \in 1..n : k \in DOMAIN records /\ k < n + 1
  BY <1>1
<1>3. \A k \in DOMAIN records : records[k].archive \in Nat
  BY DEF InputOK, RecordOK
<1>4. CASE active = NoArchive
  BY <1>2, <1>3, <1>4 DEF NoArchive
<1>5. CASE \E k \in 1..n : records[k].archive = active
  <2> PICK k \in 1..n : records[k].archive = active
    BY <1>5
  <2>1. Before(records[k], records[n + 1])
    BY <1>2 DEF InputOK, InOrder
  <2> QED BY <1>2, <1>3, <2>1 DEF Before
<1> QED BY <1>4, <1>5

FlibAt(o, in, w, additional, n, at) ==
  /\ at \in Writers(o, in.records) /\ at.inp = w.inp /\ at.notes = w.notes /\ at.books = w.books
  /\ at.active = in.records[n + 1].archive /\ Foldering(at, additional)
  /\ (at.open => at.inp # <<>>)

\* flib-inpx advances to the archive of the record: what it has written stays.
LEMMA FlibAdvances ==
  ASSUME NEW o, NEW in, InputOK(in), NEW n \in 0..(Len(in.records) - 1), NEW additional \in BOOLEAN,
         NEW w, FlibInv(o, in.records, w, additional, n),
         NEW at, at = FlibAdvancedTo(w, in.records[n + 1].archive)
  PROVE  FlibAt(o, in, w, additional, n, at)
<1> DEFINE a == in.records[n + 1].archive
<1>1. w \in Writers(o, in.records) /\ Followed(w, in.records, n) /\ Foldering(w, additional)
  BY DEF FlibInv
<1>2. w.active \in Int /\ w.open \in BOOLEAN
  BY <1>1 DEF Writers
<1>3. w.active <= a /\ a \in Nat
  BY <1>1, <1>2, Ascending DEF Followed
<1> HIDE DEF a
<1>4. CASE w.active = a
  BY <1>1, <1>4 DEF FlibAdvancedTo, Followed, a, FlibAt
<1>5. CASE w.active # a
  <2>1. at = [w EXCEPT !.active = a, !.open = FALSE]
    BY <1>5 DEF FlibAdvancedTo, FlibFinishedActive, a
  <2>2. /\ at \in Writers(o, in.records) /\ at.inp = w.inp /\ at.notes = w.notes /\ at.books = w.books
        /\ at.active = a /\ at.open = FALSE
    <3>1. w \in Writers(o, in.records) /\ a \in Int
      BY <1>1, <1>3
    <3>2. at \in Writers(o, in.records)
      BY <2>1, <3>1 DEF Writers
    <3>3. at.inp = w.inp /\ at.notes = w.notes /\ at.books = w.books
      BY <2>1, <3>1 DEF Writers
    <3>4. at.active = a /\ at.open = FALSE
      BY <2>1, <3>1 DEF Writers
    <3> QED BY <3>2, <3>3, <3>4
  <2>3. Foldering(at, additional)
    <3> SUFFICES ASSUME additional PROVE Folders(w.notes, a, FALSE)
      BY <2>2 DEF Foldering
    <3>1. Folders(w.notes, w.active, w.open)
      BY <1>1 DEF Foldering
    <3>2. \A p \in DOMAIN w.notes : w.notes[p].of \in Int /\ w.notes[p].of <= a /\ w.notes[p].of # a
      BY <1>2, <1>3, <1>5, <3>1 DEF Folders
    <3> QED BY <3>2 DEF Folders
  <2> QED BY <2>2, <2>3 DEF a, FlibAt
<1> QED BY <1>4, <1>5

\* After FlibOpened.
FlibThere(o, in, w, additional, n, there) ==
  /\ there \in Writers(o, in.records) /\ there.active = in.records[n + 1].archive /\ there.open = TRUE
  /\ there.inp # <<>> /\ Covered(LineSet(o, in.records), o, in.records, there.inp, n)
  /\ there.books = w.books
  /\ additional => Folders(there.notes, there.active, TRUE) /\ Noted(o, in.records, there.notes, n)

\* flib-inpx opens the .inp and the folder of an archive at its first record.
LEMMA FlibOpens ==
  ASSUME NEW o, NEW in, InputOK(in), NEW n \in 0..(Len(in.records) - 1), NEW additional \in BOOLEAN,
         NEW w, FlibInv(o, in.records, w, additional, n),
         NEW at, at = FlibAdvancedTo(w, in.records[n + 1].archive)
  PROVE  FlibThere(o, in, w, additional, n, FlibOpened(at, additional))
<1> DEFINE records == in.records
           T == LineSet(o, records)
           a == records[n + 1].archive
           there == FlibOpened(at, additional)
           R == RecordSet(in.archives)
           D == DOMAIN File
<1>1. /\ at \in Writers(o, records) /\ at.inp = w.inp /\ at.notes = w.notes /\ at.books = w.books
      /\ at.active = a /\ Foldering(at, additional) /\ (at.open => at.inp # <<>>)
  <2>1. FlibAt(o, in, w, additional, n, at)
    BY FlibAdvances
  <2> QED BY <2>1 DEF FlibAt
<1>2. at.inp \in Seq(PartSet(T)) /\ at.notes \in Seq(PartSet(D)) /\ at.open \in BOOLEAN /\ at.active \in Int
  BY <1>1 DEF Writers
<1>3. Covered(T, o, records, at.inp, n) /\ (additional => Noted(o, records, at.notes, n))
  BY <1>1 DEF FlibInv, Noting
<1>4. records \in Seq(R)
  BY DEF InputOK
<1> HIDE DEF a, R, T, D, records
<1>5. CASE at.open = TRUE
  <2>1. there = at
    BY <1>5 DEF FlibOpened
  <2> HIDE DEF there
  <2>2. additional => Folders(at.notes, at.active, TRUE)
    BY <1>1, <1>5 DEF Foldering, Folders
  <2>3. at.inp # <<>>
    BY <1>1, <1>5
  <2> QED BY <1>1, <1>3, <1>5, <2>1, <2>2, <2>3 DEF FlibThere, records, a, T, there
<1>6. CASE at.open = FALSE
  <2> DEFINE inp == Append(at.inp, Part(at.active, <<>>))
             folders == IF additional THEN Append(at.notes, Part(at.active, <<>>)) ELSE at.notes
  <2>1. there = [at EXCEPT !.open = TRUE, !.inp = inp, !.notes = folders]
    BY <1>6 DEF FlibOpened
  <2>2. inp \in Seq(PartSet(T)) /\ inp # <<>> /\ Grown(at.inp, inp, Len(at.inp) + 1, <<>>)
    <3>1. at.active \in PartNames /\ <<>> \in Seq(T)
      BY <1>2 DEF PartNames
    <3>2. AppendedTo(T, at.inp, at.active, <<>>, inp)
      BY <1>2, <3>1, PartAppended
    <3> HIDE DEF inp
    <3> QED BY <3>2 DEF AppendedTo
  <2>3. Covered(T, o, records, inp, n)
    <3> DEFINE new == <<>>
               j == Len(at.inp) + 1
    <3>1. new \in Seq(T) /\ \A k \in 1..Len(new) : new[k].kind # "book"
      OBVIOUS
    <3>2. Grown(at.inp, inp, j, new)
      BY <2>2
    <3> HIDE DEF new, inp, j
    <3> QED BY <1>2, <1>3, <1>4, <2>2, <3>1, <3>2, CoveredStill
  <2>4. folders \in Seq(PartSet(D)) /\ (additional => Folders(folders, a, TRUE) /\ Noted(o, records, folders, n))
    <3>1. CASE additional
      <4>1. Unique(at.notes) /\ Folders(at.notes, at.active, FALSE) /\ Noted(o, records, at.notes, n)
        BY <1>1, <1>3, <1>6, <3>1 DEF Foldering, Noted
      <4>2. folders = Append(at.notes, Part(at.active, <<>>))
        BY <3>1
      <4> HIDE DEF folders
      <4>3. FolderOpened(D, at.active, folders, at.notes)
        BY <1>2, <4>1, <4>2, FolderOpens
      <4>4. Noted(o, records, folders, n)
        BY <4>1, <4>3 DEF Noted, FolderOpened, Lines
      <4> QED BY <1>1, <4>3, <4>4 DEF FolderOpened
    <3>2. CASE ~additional
      BY <1>2, <3>2
    <3> QED BY <3>1, <3>2
  <2> HIDE DEF inp, folders, there
  <2>5. at \in Writers(o, records)
    BY <1>1
  <2>6. there \in Writers(o, records)
    BY <2>1, <2>2, <2>4, <2>5 DEF Writers, T, D
  <2>7. there.open = TRUE /\ there.inp = inp /\ there.notes = folders
    BY <2>1, <2>5 DEF Writers
  <2>8. there.active = at.active /\ there.books = at.books
    BY <2>1, <2>5 DEF Writers
  <2> QED BY <1>1, <2>2, <2>3, <2>4, <2>6, <2>7, <2>8 DEF FlibThere, records, a, T, there
<1> QED BY <1>2, <1>5, <1>6

\* After IntoFolder.
FlibNoted(o, in, w, additional, n, there, noted) ==
  /\ noted \in Writers(o, in.records) /\ noted.active = there.active /\ noted.open = TRUE
  /\ noted.inp = there.inp /\ noted.books = there.books
  /\ additional => Folders(noted.notes, noted.active, TRUE) /\ Noted(o, in.records, noted.notes, n + 1)

\* flib-inpx notes the annotation of a listed book in the open folder.
LEMMA FlibNotes ==
  ASSUME NEW o, NEW in, InputOK(in), in.archives # <<>>, NEW n \in 0..(Len(in.records) - 1),
         NEW w, NEW there, FlibThere(o, in, w, TRUE, n, there),
         AskedBy(o, in.records[n + 1]) # <<>>
  PROVE  FlibNoted(o, in, w, TRUE, n, there, IntoFolder(there, in.records[n + 1]))
<1> DEFINE records == in.records
           r == records[n + 1]
           R == RecordSet(in.archives)
           D == DOMAIN File
           noted == IntoFolder(there, r)
<1>1. records \in Seq(R) /\ n + 1 \in DOMAIN records
  BY DEF InputOK
<1>2. r.archive \in Nat /\ r.name \in D
  BY <1>1 DEF InputOK, RecordOK
<1>3. /\ there \in Writers(o, records) /\ there.active = r.archive /\ there.open = TRUE
      /\ Folders(there.notes, there.active, TRUE) /\ Noted(o, records, there.notes, n)
  BY DEF FlibThere
<1>4. there.notes \in Seq(PartSet(D)) /\ Unique(there.notes) /\ there.active \in Int
  BY <1>3 DEF Writers, Noted
<1>5. AskedBy(o, r) # <<>>
  OBVIOUS
<1> HIDE DEF records, r, R, D
<1>6. CASE Annotated(r)
  <2> DEFINE folders == Extended(there.notes, <<r.name>>)
             old == there.notes
             name == r.name
  <2>1. FolderFilled(D, there.active, name, Extended(old, <<name>>), old)
    BY <1>2, <1>3, <1>4, FolderFills
  <2>2. /\ folders \in Seq(PartSet(D)) /\ Unique(folders) /\ Folders(folders, there.active, TRUE)
        /\ \A a : a # there.active => LinesUnder(folders, a) = LinesUnder(old, a)
        /\ Joined(LinesUnder(folders, there.active), LinesUnder(old, there.active), <<r.name>>)
    <3>1. FolderFilled(D, there.active, r.name, folders, old)
      BY <2>1
    <3> HIDE DEF folders, old
    <3> QED BY <3>1 DEF FolderFilled
  <2>3. Noted(o, records, folders, n + 1)
    <3> HIDE DEF folders
    <3>1. \A a \in Nat : a # r.archive => LinesUnder(folders, a) = LinesUnder(old, a)
      BY <1>3, <2>2
    <3>2. Joined(LinesUnder(folders, r.archive), LinesUnder(old, r.archive), <<r.name>>)
      BY <1>3, <2>2
    <3> QED BY <1>1, <1>2, <1>3, <1>5, <1>6, <2>2, <3>1, <3>2, NotedNext DEF records, r
  <2>4. noted = [there EXCEPT !.notes = folders]
    <3>1. noted = [there EXCEPT !.notes[Len(there.notes)].lines = Append(@, r.name)]
      BY <1>6 DEF IntoFolder
    <3>2. Len(old) \in DOMAIN old
      BY <1>3, <1>4 DEF Folders
    <3>3. old[Len(old)] \in PartSet(D)
      BY <1>4, <3>2
    <3>4. old[Len(old)].lines \in Seq(D)
      BY <3>3 DEF PartSet
    <3> DEFINE lines == old[Len(old)].lines
               e == Append(lines, name)
    <3>5. e = lines \o <<name>>
      <4>1. lines \in Seq(D) /\ name \in D
        BY <1>2, <3>4
      <4> HIDE DEF lines, name
      <4> QED BY <4>1, AppendIsConcat
    <3>6. folders = [old EXCEPT ![Len(old)].lines = e]
      BY <3>5 DEF Extended
    <3>7. noted = [there EXCEPT !.notes = [old EXCEPT ![Len(old)].lines = e]]
      BY <3>1
    <3> QED BY <3>6, <3>7
  <2> HIDE DEF folders, noted
  <2>5. there \in Writers(o, records)
    BY <1>3
  <2>6. noted \in Writers(o, records)
    BY <2>2, <2>4, <2>5 DEF Writers, D
  <2>7. noted.notes = folders /\ noted.active = there.active /\ noted.open = TRUE
    BY <1>3, <2>4, <2>5 DEF Writers
  <2>8. noted.inp = there.inp /\ noted.books = there.books
    BY <2>4, <2>5 DEF Writers
  <2>9. FlibNoted(o, in, w, TRUE, n, there, noted)
    BY <2>2, <2>3, <2>6, <2>7, <2>8 DEF FlibNoted, records
  <2> QED BY <2>9 DEF noted, r, records
<1>7. CASE ~Annotated(r)
  <2>1. noted = there
    BY <1>7 DEF IntoFolder
  <2>2. Noted(o, records, there.notes, n + 1)
    BY <1>1, <1>2, <1>3, <1>4, <1>7, NotedNext DEF records, r
  <2> QED BY <1>3, <2>1, <2>2 DEF FlibNoted, records, r
<1> QED BY <1>6, <1>7

\* WriteRecord of flibinpx keeps the invariant of its writer, one record further.
LEMMA FlibStep ==
  ASSUME NEW o, Tool(o, "flib"), NEW in, InputOK(in),
         NEW w, NEW additional \in BOOLEAN, NEW compiling \in BOOLEAN, additional => in.archives # <<>>,
         NEW n \in 0..(Len(in.records) - 1), FlibInv(o, in.records, w, additional, n)
  PROVE  FlibInv(o, in.records, FlibRecord(w, in.records[n + 1], o, additional, compiling), additional, n + 1)
<1> DEFINE records == in.records
           r == records[n + 1]
           T == LineSet(o, records)
           R == RecordSet(in.archives)
           w2 == FlibRecord(w, r, o, additional, compiling)
           at == FlibAdvancedTo(w, r.archive)
           there == FlibOpened(at, additional)
           noted == IF additional THEN IntoFolder(there, r) ELSE there
           added == IF compiling THEN [noted EXCEPT !.books = Append(@, Body(r))] ELSE noted
           series == Series(r, o.preference)
           lines == FlibLines(r, o)
<1>1. records \in Seq(R) /\ Distinct(records) /\ n + 1 \in DOMAIN records /\ r \in Range(records) /\ n \in Nat
      /\ n + 1 \in 1..(n + 1) /\ \A k \in 1..n : k \in 1..(n + 1)
  BY DEF InputOK, Range
<1>0. n \in 0..(Len(records) - 1)
  OBVIOUS
<1>2. RecordOK(in.archives, r)
  BY <1>1 DEF InputOK
<1>3. r.archive \in Nat
  BY <1>2 DEF RecordOK
<1>4. /\ w \in Writers(o, records) /\ Followed(w, records, n) /\ Covered(T, o, records, w.inp, n)
      /\ Noting(o, records, w.notes, additional, n) /\ Foldering(w, additional) /\ Booked(o, records, w.books, n)
  BY DEF FlibInv
<1>5. w.books \in Seq(BodySet(records))
  BY <1>4 DEF Writers
<1>6. o.tool = "flib" /\ o.preference \in Preference
  BY OptionTypes DEF Tool
<1>7. AskedBy(o, r) = IF ~MatchesContent(r, o.content) \/ ~Titled(r) THEN <<>> ELSE series
  BY <1>6 DEF AskedBy
<1>8. w2 = IF ~MatchesContent(r, o.content) THEN w ELSE IF ~Titled(r) THEN at
           ELSE [added EXCEPT !.inp[Len(added.inp)].lines = @ \o lines]
  BY DEF FlibRecord
<1>9. series \in Seq(Range(series)) /\ series # <<>>
  BY <1>2, <1>6, SeriesAre
<1>10. FlibAt(o, in, w, additional, n, at)
  BY FlibAdvances
<1>11. FlibThere(o, in, w, additional, n, there)
  BY FlibOpens
\* What is not asked for changes nothing but the archive that is active.
<1>12. ASSUME AskedBy(o, r) = <<>> PROVE Covered(T, o, records, w.inp, n + 1) /\ Noting(o, records, w.notes, additional, n + 1)
              /\ Booked(o, records, w.books, n + 1)
  <2>1. Covered(T, o, records, w.inp, n + 1)
    <3> HIDE DEF T, R, records
    <3> QED BY <1>1, <1>4, <1>12, CoveredSame DEF r
  <2>2. additional => Noted(o, records, w.notes, n + 1)
    <3> SUFFICES ASSUME additional PROVE Noted(o, records, w.notes, n + 1)
      OBVIOUS
    <3>1. Noted(o, records, w.notes, n) /\ Unique(w.notes)
      BY <1>4 DEF Noting, Noted
    <3> HIDE DEF T, R, records
    <3> QED BY <1>0, <1>1, <1>3, <1>12, <3>1, NotedNext DEF r
  <2>3. Booked(o, records, w.books, n + 1)
    <3> HIDE DEF T, R, records
    <3> QED BY <1>1, <1>4, <1>5, BookedNext
  <2> QED BY <2>1, <2>2, <2>3 DEF Noting
<1>13. CASE ~MatchesContent(r, o.content)
  <2>1. AskedBy(o, r) = <<>> /\ w2 = w
    BY <1>7, <1>8, <1>13
  <2>2. Followed(w, records, n + 1)
    BY <1>1, <1>4 DEF Followed
  <2> HIDE DEF w2
  <2>3. FlibInv(o, records, w2, additional, n + 1)
    BY <1>4, <1>12, <2>1, <2>2 DEF FlibInv, T
  <2> QED BY <2>3 DEF w2
<1>14. CASE MatchesContent(r, o.content) /\ ~Titled(r)
  <2>1. AskedBy(o, r) = <<>> /\ w2 = at
    BY <1>7, <1>8, <1>14
  <2>2. /\ at \in Writers(o, records) /\ at.inp = w.inp /\ at.notes = w.notes /\ at.books = w.books
        /\ at.active = r.archive /\ Foldering(at, additional) /\ (at.open => at.inp # <<>>)
    <3> HIDE DEF at
    <3> QED BY <1>10 DEF FlibAt
  <2>3. Followed(at, records, n + 1)
    <3> HIDE DEF at
    <3> QED BY <1>1, <2>2 DEF Followed
  <2> HIDE DEF w2, at
  <2>4. FlibInv(o, records, w2, additional, n + 1)
    BY <1>12, <2>1, <2>2, <2>3 DEF FlibInv, T
  <2> QED BY <2>4 DEF w2
<1>15. CASE MatchesContent(r, o.content) /\ Titled(r)
  <2>1. AskedBy(o, r) = series /\ w2 = [added EXCEPT !.inp[Len(added.inp)].lines = @ \o lines]
    BY <1>7, <1>8, <1>15
  <2> HIDE DEF at, w2
  <2>2. /\ there \in Writers(o, records) /\ there.active = r.archive /\ there.open = TRUE
        /\ there.inp # <<>> /\ Covered(T, o, records, there.inp, n) /\ there.books = w.books
        /\ additional => Folders(there.notes, there.active, TRUE) /\ Noted(o, records, there.notes, n)
    <3> HIDE DEF there
    <3> QED BY <1>11 DEF FlibThere
  <2> HIDE DEF there
  <2>3. /\ noted \in Writers(o, records) /\ noted.active = r.archive /\ noted.open = TRUE
        /\ noted.inp = there.inp /\ noted.books = w.books
        /\ additional => Folders(noted.notes, r.archive, TRUE) /\ Noted(o, records, noted.notes, n + 1)
    <3>1. CASE additional
      <4>1. noted = IntoFolder(there, r) /\ FlibThere(o, in, w, TRUE, n, there)
        BY <1>11, <3>1
      <4>2. FlibNoted(o, in, w, TRUE, n, there, noted)
        BY <1>9, <2>1, <3>1, <4>1, FlibNotes DEF r, records
      <4> HIDE DEF noted
      <4> QED BY <2>2, <4>2 DEF FlibNoted
    <3>2. CASE ~additional
      BY <2>2, <3>2
    <3> QED BY <3>1, <3>2
  <2> HIDE DEF noted, series, lines
  <2> DEFINE books == IF compiling THEN Append(noted.books, Body(r)) ELSE noted.books
  <2>4. Booked(o, records, books, n + 1) /\ books \in Seq(BodySet(records))
    <3>1. books = w.books \/ (AskedBy(o, r) # <<>> /\ books = Append(w.books, Body(r)))
      BY <1>9, <2>1, <2>3
    <3> HIDE DEF books, records, R
    <3> QED BY <1>0, <1>1, <1>4, <1>5, <3>1, BookedNext DEF r
  <2>5. added = [noted EXCEPT !.books = books]
    <3>1. noted \in Writers(o, records)
      BY <2>3
    <3>2. ~compiling => noted = [noted EXCEPT !.books = noted.books]
      BY <3>1 DEF Writers
    <3> QED BY <3>2
  <2>6. added \in Writers(o, records) /\ added.inp = there.inp /\ added.notes = noted.notes /\ added.books = books
        /\ added.active = r.archive /\ added.open = TRUE
    <3>1. noted \in Writers(o, records)
      BY <2>3
    <3> HIDE DEF books, added, records, r
    <3>2. added \in Writers(o, records)
      BY <2>4, <2>5, <3>1 DEF Writers
    <3>3. added.inp = there.inp /\ added.notes = noted.notes /\ added.books = books
      BY <2>3, <2>5, <3>1 DEF Writers
    <3>4. added.active = r.archive /\ added.open = TRUE
      BY <2>3, <2>5, <3>1 DEF Writers
    <3> QED BY <3>2, <3>3, <3>4
  <2> HIDE DEF added, books
  <2>7. LinesFor(o, records, r, series, lines)
    <3>1. \A k \in 1..Len(series) : series[k] \in SeriesSet(o, r)
      BY <1>9 DEF SeriesSet, Range, series
    <3>2. lines = [k \in DOMAIN series |-> Line(r, series[k], o)]
      BY DEF lines, FlibLines, series
    <3> HIDE DEF records, r
    <3> QED BY <1>1, <1>9, <3>1, <3>2, LinesOfRecord
  <2> DEFINE inp == Extended(there.inp, lines)
  <2>8. there.inp \in Seq(PartSet(T)) /\ lines \in Seq(T)
    BY <2>2, <2>7 DEF Writers, LinesFor
  <2>9. inp \in Seq(PartSet(T)) /\ Len(inp) = Len(there.inp) /\ Grown(there.inp, inp, Len(there.inp), lines)
    <3> HIDE DEF T
    <3>1. ExtendedTo(T, there.inp, lines, inp)
      BY <2>2, <2>8, PartExtended
    <3> HIDE DEF inp
    <3> QED BY <3>1 DEF ExtendedTo
  <2>10. inp # <<>>
    <3> HIDE DEF inp
    <3> QED BY <2>2, <2>8, <2>9
  <2>11. w2 = [added EXCEPT !.inp = inp]
    BY <2>1, <2>6 DEF Extended
  <2> HIDE DEF inp, T, records, r
  <2>12. Covered(T, o, records, inp, n + 1)
    <3>1. \A k \in 1..Len(lines) : IsLineOf(lines[k], records[n + 1])
      BY <2>7 DEF LinesFor, r
    <3>2. Titles(lines) = AskedBy(o, records[n + 1])
      BY <2>1, <2>7 DEF LinesFor, r
    <3>3. n \in 0..(Len(records) - 1)
      BY DEF records
    <3> HIDE DEF R
    <3> QED BY <1>1, <2>2, <2>8, <2>9, <3>1, <3>2, <3>3, CoveredNext
  <2>13. w2 \in Writers(o, records) /\ w2.inp = inp /\ w2.notes = noted.notes /\ w2.books = books
         /\ w2.active = r.archive /\ w2.open = TRUE
    <3>1. added \in Writers(o, records)
      BY <2>6
    <3>2. w2 \in Writers(o, records)
      BY <2>9, <2>11, <3>1 DEF Writers, T
    <3>3. w2.inp = inp /\ w2.notes = noted.notes /\ w2.books = books
      BY <2>6, <2>11, <3>1 DEF Writers
    <3>4. w2.active = r.archive /\ w2.open = TRUE
      BY <2>6, <2>11, <3>1 DEF Writers
    <3> QED BY <3>2, <3>3, <3>4
  <2>14. Followed(w2, records, n + 1)
    BY <1>1, <2>10, <2>13 DEF Followed, r
  <2>15. Noting(o, records, w2.notes, additional, n + 1) /\ Foldering(w2, additional)
    <3>1. Folders(w2.notes, w2.active, TRUE) => Folders(w2.notes, w2.active, w2.open)
      BY <2>13 DEF Folders
    <3> QED BY <2>3, <2>13, <3>1 DEF Noting, Foldering
  <2> QED BY <2>4, <2>12, <2>13, <2>14, <2>15 DEF FlibInv, T, w2, records, r
<1> QED BY <1>13, <1>14, <1>15

-----------------------------------------------------------------------------
(* The places of the lines of mhl-inpx *)

Numbering(m) == [k \in 1..m |-> k]
Following(m, i) == [k \in 1..(i - m) |-> m + k]
WithLine(files) == {k \in DOMAIN files : ~InventoryIgnores(files, k)}
Places(files, m) == Keep(Numbering(m), WithLine(files))
Indexes(lines) == [k \in DOMAIN lines |-> lines[k].index]

\* The entries of lines joined are the entries of both, joined.
LEMMA IndexesJoin ==
  ASSUME NEW T, NEW a \in Seq(T), NEW b \in Seq(T), NEW c, Joined(c, a, b)
  PROVE  Joined(Indexes(c), Indexes(a), Indexes(b))
<1> DEFINE N == {x.index : x \in T}
           ia == Indexes(a)
           ib == Indexes(b)
           ic == Indexes(c)
           m == Len(a)
           n == Len(b)
<1>1. /\ c \in Seq(T) /\ Len(c) = m + n /\ m \in Nat /\ n \in Nat
      /\ \A k \in 1..(m + n) : c[k] = IF k <= m THEN a[k] ELSE b[k - m]
  BY ConcatProperties DEF Joined
<1>2. DOMAIN a = 1..m /\ DOMAIN b = 1..n /\ DOMAIN c = 1..(m + n)
  BY <1>1
<1>3. (\A k \in 1..m : a[k] \in T) /\ (\A k \in 1..n : b[k] \in T) /\ \A k \in 1..(m + n) : c[k] \in T
  BY <1>1, <1>2
<1> HIDE DEF m, n
<1>4. ia = [k \in 1..m |-> a[k].index] /\ ib = [k \in 1..n |-> b[k].index] /\ ic = [k \in 1..(m + n) |-> c[k].index]
  BY <1>2 DEF Indexes
<1>5. (\A k \in 1..m : a[k].index \in N) /\ (\A k \in 1..n : b[k].index \in N) /\ \A k \in 1..(m + n) : c[k].index \in N
  BY <1>3
<1> HIDE DEF ia, ib, ic, N
<1>6. ia \in Seq(N) /\ Len(ia) = m
  BY <1>1, <1>4, <1>5
<1>7. ib \in Seq(N) /\ Len(ib) = n
  BY <1>1, <1>4, <1>5
<1>8. ic \in Seq(N) /\ Len(ic) = m + n
  <2> DEFINE t == m + n
  <2>1. t \in Nat /\ ic = [k \in 1..t |-> c[k].index] /\ \A k \in 1..t : c[k].index \in N
    BY <1>1, <1>4, <1>5
  <2> HIDE DEF t
  <2>2. ic \in Seq(N) /\ Len(ic) = t
    BY <2>1
  <2> QED BY <2>2 DEF t
<1> DEFINE j == ia \o ib
<1>9. j \in Seq(N) /\ Len(j) = m + n /\ \A k \in 1..(m + n) : j[k] = IF k <= m THEN ia[k] ELSE ib[k - m]
  BY <1>6, <1>7, ConcatProperties
<1> HIDE DEF j
<1>10. \A k \in 1..(m + n) : ic[k] = j[k]
  <2> TAKE k \in 1..(m + n)
  <2>1. CASE k <= m
    <3>1. k \in 1..m
      BY <1>1, <2>1
    <3> QED BY <1>1, <1>4, <1>9, <2>1, <3>1
  <2>2. CASE ~(k <= m)
    <3>1. k - m \in 1..n
      BY <1>1, <2>2
    <3> QED BY <1>1, <1>4, <1>9, <2>2, <3>1
  <2> QED BY <2>1, <2>2
<1>11. ic = j
  BY <1>8, <1>9, <1>10, SeqEqual
<1> QED BY <1>11 DEF Joined, ia, ib, ic, j

\* The entries with a line up to i are those up to m and those after it.
LEMMA PlacesGrow ==
  ASSUME NEW files, NEW m \in Nat, NEW i \in Nat, m <= i
  PROVE  /\ Joined(Places(files, i), Places(files, m), Keep(Following(m, i), WithLine(files)))
         /\ Places(files, m) \in Seq(Int) /\ Following(m, i) \in Seq(Int)
         /\ Keep(Following(m, i), WithLine(files)) \in Seq(Int)
<1> DEFINE a == Numbering(m)
           b == Following(m, i)
           c == Numbering(i)
           S == WithLine(files)
<1>1. a \in Seq(Int) /\ Len(a) = m /\ \A k \in 1..m : a[k] = k
  BY DEF Numbering
<1>2. b \in Seq(Int) /\ Len(b) = i - m /\ \A k \in 1..(i - m) : b[k] = m + k
  <2>1. i - m \in Nat
    OBVIOUS
  <2> QED BY <2>1 DEF Following
<1>3. c \in Seq(Int) /\ Len(c) = i /\ \A k \in 1..i : c[k] = k
  BY DEF Numbering
<1> HIDE DEF a, b, c, S
<1> DEFINE j == a \o b
<1>4. j \in Seq(Int) /\ Len(j) = i /\ \A k \in 1..i : j[k] = IF k <= m THEN a[k] ELSE b[k - m]
  <2>1. /\ j \in Seq(Int) /\ Len(j) = Len(a) + Len(b)
        /\ \A k \in 1..(Len(a) + Len(b)) : j[k] = IF k <= Len(a) THEN a[k] ELSE b[k - Len(a)]
    BY <1>1, <1>2, ConcatProperties
  <2>2. Len(a) + Len(b) = i
    BY <1>1, <1>2
  <2> HIDE DEF j
  <2>3. Len(j) = i /\ \A k \in 1..i : j[k] = IF k <= Len(a) THEN a[k] ELSE b[k - Len(a)]
    BY <2>1, <2>2
  <2> QED BY <2>1, <2>3, <1>1
<1>5. \A k \in 1..i : j[k] = c[k]
  <2> HIDE DEF j
  <2> TAKE k \in 1..i
  <2>1. CASE k <= m
    <3>1. k \in 1..m
      BY <2>1
    <3> QED BY <1>1, <1>3, <1>4, <2>1, <3>1
  <2>2. CASE ~(k <= m)
    <3>1. k - m \in 1..(i - m) /\ m + (k - m) = k
      BY <2>2
    <3> QED BY <1>2, <1>3, <1>4, <2>2, <3>1
  <2> QED BY <2>1, <2>2
<1>6. j = c
  <2> HIDE DEF j
  <2> QED BY <1>3, <1>4, <1>5, SeqEqual
<1>7. Keep(a \o b, S) = Keep(a, S) \o Keep(b, S)
  BY <1>1, <1>2, KeepConcat
<1>8. Keep(a, S) \in Seq(Int) /\ Keep(b, S) \in Seq(Int)
  BY <1>1, <1>2, KeepRange
<1> QED BY <1>2, <1>6, <1>7, <1>8 DEF Joined, Places, a, b, c, S

\* There is no entry before the first.
LEMMA PlacesStart == ASSUME NEW files PROVE Places(files, 0) = <<>>
<1>1. Numbering(0) = <<>>
  BY DEF Numbering
<1> QED BY <1>1, KeepEmpty DEF Places

\* An entry that has a line is the last one with a line up to its place.
LEMMA PlacesNext ==
  ASSUME NEW files, NEW i \in Nat \ {0}, i \in WithLine(files)
  PROVE  Joined(Places(files, i), Places(files, i - 1), <<i>>)
<1>1. i - 1 \in Nat /\ i - 1 <= i /\ i - (i - 1) = 1 /\ (i - 1) + 1 = i
  OBVIOUS
<1>2. Joined(Places(files, i), Places(files, i - 1), Keep(Following(i - 1, i), WithLine(files)))
  BY <1>1, PlacesGrow
<1>3. Following(i - 1, i) = <<i>>
  <2>1. Following(i - 1, i) = [k \in 1..1 |-> (i - 1) + k]
    BY <1>1 DEF Following
  <2>2. [k \in 1..1 |-> (i - 1) + k] = <<i>>
    BY <1>1
  <2> QED BY <2>1, <2>2
<1>4. Keep(<<i>>, WithLine(files)) = <<i>>
  BY KeepOne
<1> QED BY <1>2, <1>3, <1>4

\* The entries with a line up to the end are all those with a line.
LEMMA PlacesEnd ==
  ASSUME NEW T, NEW files \in Seq(T)
  PROVE  Places(files, Len(files)) = Keep(Positions(files), WithLine(files))
<1>1. Numbering(Len(files)) = Positions(files)
  BY DEF Numbering, Positions
<1> QED BY <1>1 DEF Places

Missing(archives, w, entry) ==
  Keep([k \in 1..(entry - w.place) |-> w.place + k - 1],
       {i \in w.place..(entry - 1) : ~IgnoresEntry(archives, w, i)})

\* FillTo, with what lies between: as lines, or held back.
LEMMA FillToIs ==
  ASSUME NEW archives, NEW w, NEW entry
  PROVE  FillTo(archives, w, entry) =
           IF w.open THEN AppendLines([w EXCEPT !.place = entry], Dummies(w, Missing(archives, w, entry)))
           ELSE [[w EXCEPT !.place = entry] EXCEPT !.pending = @ \o Missing(archives, w, entry)]
BY DEF FillTo, Missing

\* What lies between are numbers of entries.
LEMMA MissingNumbers ==
  ASSUME NEW archives, NEW w, NEW entry \in Nat, w.place \in Nat, w.place <= entry
  PROVE  Missing(archives, w, entry) \in Seq(Int)
<1> DEFINE p == w.place
           passed == [k \in 1..(entry - p) |-> p + k - 1]
<1>1. passed \in Seq(Int)
  <2>1. entry - p \in Nat /\ \A k \in 1..(entry - p) : p + k - 1 \in Int
    OBVIOUS
  <2> HIDE DEF p
  <2> QED BY <2>1
<1> HIDE DEF passed
<1>2. Keep(passed, {i \in p..(entry - 1) : ~IgnoresEntry(archives, w, i)}) \in Seq(Int)
  BY <1>1, KeepRange
<1> QED BY <1>2 DEF Missing, passed

\* What lies between are exactly the entries with a line there (writeMissing).
LEMMA MissingAre ==
  ASSUME NEW archives, IsDataset(archives), NEW w, w.active \in DOMAIN archives, w.active # Online,
         NEW entry \in Nat, w.place \in Nat \ {0}, w.place <= entry,
         entry <= Len(archives[w.active].files) + 1
  PROVE  Joined(Places(archives[w.active].files, entry - 1), Places(archives[w.active].files, w.place - 1),
                Missing(archives, w, entry))
<1> DEFINE files == archives[w.active].files
           p == w.place
           S == {i \in p..(entry - 1) : ~IgnoresEntry(archives, w, i)}
           b == Following(p - 1, entry - 1)
<1>1. files \in Seq(DOMAIN File)
  BY DEF IsDataset
<1>2. DOMAIN files = 1..Len(files) /\ Len(files) \in Nat /\ p \in Nat \ {0} /\ p <= entry /\ entry <= Len(files) + 1
  BY <1>1
<1>3. \A i : IgnoresEntry(archives, w, i) <=> InventoryIgnores(files, i)
  BY DEF IgnoresEntry
<1>4. \A i : i \in WithLine(files) <=> i \in 1..Len(files) /\ ~InventoryIgnores(files, i)
  BY <1>2 DEF WithLine
<1>5. Missing(archives, w, entry) = Keep([k \in 1..(entry - p) |-> p + k - 1], S)
  BY DEF Missing
<1> HIDE DEF files, p
<1>6. p - 1 \in Nat /\ entry - 1 \in Nat /\ p - 1 <= entry - 1 /\ (entry - 1) - (p - 1) = entry - p
  BY <1>2
<1>7. /\ Joined(Places(files, entry - 1), Places(files, p - 1), Keep(b, WithLine(files)))
      /\ b \in Seq(Int)
  BY <1>6, PlacesGrow
<1>8. b = [k \in 1..(entry - p) |-> p + k - 1] /\ \A k \in 1..(entry - p) : b[k] \in p..(entry - 1)
  <2>1. b = [k \in 1..(entry - p) |-> (p - 1) + k]
    BY <1>6 DEF Following
  <2>2. \A k \in 1..(entry - p) : (p - 1) + k = p + k - 1 /\ p + k - 1 \in p..(entry - 1)
    BY <1>2
  <2>3. [k \in 1..(entry - p) |-> (p - 1) + k] = [k \in 1..(entry - p) |-> p + k - 1]
    BY <2>2
  <2> HIDE DEF b
  <2>4. b = [k \in 1..(entry - p) |-> p + k - 1]
    BY <2>1, <2>3
  <2>5. \A k \in 1..(entry - p) : b[k] = p + k - 1
    BY <2>4
  <2> QED BY <2>2, <2>4, <2>5
<1>9. Len(b) = entry - p
  <2>1. entry - p \in Nat
    BY <1>2
  <2> HIDE DEF b
  <2> QED BY <1>7, <1>8, <2>1
<1>10. p..(entry - 1) \subseteq 1..Len(files)
  BY <1>2
<1> HIDE DEF b
<1>11. \A k \in 1..Len(b) : b[k] \in WithLine(files) <=> b[k] \in S
  <2> TAKE k \in 1..Len(b)
  <2>1. b[k] \in p..(entry - 1)
    BY <1>8, <1>9
  <2> QED BY <1>3, <1>4, <1>10, <2>1
<1> HIDE DEF S
<1>12. Keep(b, WithLine(files)) = Keep(b, S)
  BY <1>7, <1>11, KeepSame
<1> QED BY <1>5, <1>7, <1>8, <1>12 DEF files, p

-----------------------------------------------------------------------------
(* mhlinpx, record by record *)

Complete(archives, part) ==
  part.of # Online =>
    /\ part.of \in DOMAIN archives
    /\ Indexes(part.lines) = Places(archives[part.of].files, Len(archives[part.of].files))

MhlWrote(o, in, w, n) ==
  w \in Writers(o, in.records) /\ Covered(LineSet(o, in.records), o, in.records, w.inp, n)
MhlClosed(in, w) ==
  w.open = FALSE /\ w.pending = <<>> /\ \A p \in DOMAIN w.inp : Complete(in.archives, w.inp[p])
AlignedTo(archives, part, place) ==
  part.of # Online =>
    /\ part.of \in DOMAIN archives /\ place <= Len(archives[part.of].files) + 1
    /\ Indexes(part.lines) = Places(archives[part.of].files, place - 1)
MhlOpen(in, w) ==
  /\ w.open = TRUE /\ w.pending = <<>> /\ w.inp # <<>> /\ w.active \in Nat /\ w.place \in Nat \ {0}
  /\ \A p \in DOMAIN w.inp : p # Len(w.inp) => Complete(in.archives, w.inp[p])
  /\ w.inp[Len(w.inp)].of = w.active
  /\ AlignedTo(in.archives, w.inp[Len(w.inp)], w.place)
Behind(in, w, n) ==
  w.active # Online =>
    \E k \in 1..n : in.records[k].archive = w.active /\ in.records[k].index = w.place - 1
MhlInv(o, in, w, n) ==
  /\ MhlWrote(o, in, w, n)
  /\ \/ w.active = NoArchive /\ MhlClosed(in, w)
     \/ MhlOpen(in, w) /\ Behind(in, w, n)

\* What a dummy line is.
LEMMA DummyIs ==
  ASSUME NEW w, w.active \in Int, NEW i \in Int
  PROVE  Dummy(w, i) \in DummyLines /\ Dummy(w, i).index = i /\ Dummy(w, i).kind = "dummy"
<1>1. Dummy(w, i) = [kind |-> "dummy", archive |-> w.active, index |-> i]
  BY DEF Dummy
<1> DEFINE a == w.active
<1> HIDE DEF a
<1>2. [kind |-> "dummy", archive |-> a, index |-> i] \in DummyLines
  <2>1. a \in Int
    BY DEF a
  <2> QED BY <2>1 DEF DummyLines
<1> QED BY <1>1, <1>2 DEF a

\* Dummy lines are for the entries they were made for, in their order, and of no book.
LEMMA DummiesAre ==
  ASSUME NEW o, NEW records, NEW w, w.active \in Int, NEW ms \in Seq(Int)
  PROVE  /\ Dummies(w, ms) \in Seq(LineSet(o, records)) /\ Indexes(Dummies(w, ms)) = ms
         /\ \A k \in 1..Len(Dummies(w, ms)) : Dummies(w, ms)[k].kind # "book"
<1> DEFINE d == Dummies(w, ms)
           L == LineSet(o, records)
           n == Len(ms)
<1>1. DOMAIN ms = 1..n /\ n \in Nat /\ ms = [k \in 1..n |-> ms[k]] /\ \A k \in 1..n : ms[k] \in Int
  OBVIOUS
<1> HIDE DEF n
<1>2. d = [k \in 1..n |-> Dummy(w, ms[k])]
  BY <1>1 DEF Dummies
<1>3. \A k \in 1..n : Dummy(w, ms[k]).index = ms[k] /\ Dummy(w, ms[k]).kind = "dummy"
  BY <1>1 DEF Dummy
<1>7. \A k \in 1..n : Dummy(w, ms[k]) \in L
  <2> TAKE k \in 1..n
  <2>1. Dummy(w, ms[k]) \in DummyLines
    <3>1. ms[k] \in Int
      BY <1>1
    <3> HIDE DEF d, L
    <3> QED BY <3>1, DummyIs
  <2> QED BY <2>1 DEF LineSet, L
<1> HIDE DEF d, L
<1>8. d = [k \in 1..n |-> d[k]] /\ (\A k \in 1..n : d[k] \in L) /\ n \in Nat
  BY <1>1, <1>2, <1>7
<1>4. d \in Seq(L) /\ Len(d) = n /\ DOMAIN d = 1..n
  BY <1>8
<1>5. \A k \in 1..n : d[k].index = ms[k] /\ d[k].kind # "book"
  BY <1>2, <1>3
<1>6. Indexes(d) = ms
  <2>1. Indexes(d) = [k \in 1..n |-> d[k].index]
    BY <1>4 DEF Indexes
  <2>2. [k \in 1..n |-> d[k].index] = [k \in 1..n |-> ms[k]]
    BY <1>5
  <2> QED BY <1>1, <2>1, <2>2
<1> QED BY <1>4, <1>5, <1>6 DEF d, L

MhlExtended(o, in, w, new, to, f) ==
  /\ MhlOpen(in, f) /\ f \in Writers(o, in.records) /\ f.active = w.active /\ f.place = to
  /\ f.inp \in Seq(PartSet(LineSet(o, in.records))) /\ Grown(w.inp, f.inp, Len(w.inp), new)

\* The part that is open gets lines up to a place.
LEMMA MhlExtends ==
  ASSUME NEW o, NEW in, NEW w \in Writers(o, in.records), MhlOpen(in, w),
         NEW new \in Seq(LineSet(o, in.records)), NEW to \in Nat \ {0},
         w.active # Online =>
           /\ to <= Len(in.archives[w.active].files) + 1
           /\ Joined(Places(in.archives[w.active].files, to - 1), Places(in.archives[w.active].files, w.place - 1),
                     Indexes(new)),
         NEW f, f = [w EXCEPT !.place = to, !.inp = Extended(w.inp, new)]
  PROVE  MhlExtended(o, in, w, new, to, f)
<1> DEFINE T == LineSet(o, in.records)
           more == Extended(w.inp, new)
           m == Len(w.inp)
<1>1. w.inp \in Seq(PartSet(T)) /\ w.inp # <<>>
  BY DEF Writers, MhlOpen
<1> HIDE DEF T
<1>2. ExtendedTo(T, w.inp, new, more)
  BY <1>1, PartExtended DEF T
<1> HIDE DEF more
<1>3. /\ more \in Seq(PartSet(T)) /\ DOMAIN more = DOMAIN w.inp /\ m \in DOMAIN w.inp /\ Len(more) = m
      /\ \A p \in DOMAIN w.inp : more[p].of = w.inp[p].of
      /\ \A p \in DOMAIN w.inp : p # m => more[p] = w.inp[p]
      /\ Joined(more[m].lines, w.inp[m].lines, new)
      /\ Grown(w.inp, more, m, new)
  BY <1>2 DEF ExtendedTo
<1>4. f \in Writers(o, in.records)
  <2>1. f = [w EXCEPT !.place = to, !.inp = more] /\ to \in Int
    BY DEF more
  <2>2. more \in Seq(PartSet(LineSet(o, in.records)))
    BY <1>3 DEF T
  <2> QED BY <2>1, <2>2 DEF Writers
<1>5. f.place = to /\ f.inp = more /\ f.active = w.active /\ f.open = w.open /\ f.pending = w.pending
  BY DEF Writers, more
<1>6. more # <<>>
  BY <1>1, <1>3
<1>7. \A p \in DOMAIN more : p # Len(more) => Complete(in.archives, more[p])
  BY <1>3 DEF MhlOpen
<1>8. more[m].of = w.active
  BY <1>3 DEF MhlOpen
<1>9. AlignedTo(in.archives, more[m], to)
  <2> SUFFICES ASSUME w.active # Online PROVE AlignedTo(in.archives, more[m], to)
    BY <1>8 DEF AlignedTo
  <2> DEFINE files == in.archives[w.active].files
  <2>1. w.inp[m].of = w.active /\ w.active \in DOMAIN in.archives /\ Indexes(w.inp[m].lines) = Places(files, w.place - 1)
    BY DEF MhlOpen, AlignedTo
  <2>2. w.inp[m].lines \in Seq(T)
    <3>1. w.inp[m] \in PartSet(T)
      BY <1>1, <1>3
    <3> QED BY <3>1 DEF PartSet
  <2>3. Joined(Indexes(more[m].lines), Indexes(w.inp[m].lines), Indexes(new))
    BY <1>3, <2>2, IndexesJoin DEF T
  <2>4. Indexes(more[m].lines) = Places(files, to - 1)
    BY <2>1, <2>3 DEF Joined
  <2> QED BY <1>8, <2>1, <2>4 DEF AlignedTo
<1>10. MhlOpen(in, f)
  <2>1. Len(f.inp) = m /\ f.inp[Len(f.inp)].of = f.active /\ AlignedTo(in.archives, f.inp[Len(f.inp)], f.place)
    BY <1>3, <1>5, <1>8, <1>9
  <2>2. \A p \in DOMAIN f.inp : p # Len(f.inp) => Complete(in.archives, f.inp[p])
    BY <1>5, <1>7
  <2> QED BY <1>5, <1>6, <2>1, <2>2 DEF MhlOpen
<1> QED BY <1>3, <1>4, <1>5, <1>10 DEF MhlExtended, T

MhlReady(o, in, n, w, active, place) ==
  MhlWrote(o, in, w, n) /\ MhlOpen(in, w) /\ w.active = active /\ w.place = place

\* What lies between gets dummy lines in the part that is open.
LEMMA MhlFills ==
  ASSUME NEW o, NEW in, InputOK(in), NEW n, NEW w, MhlWrote(o, in, w, n), MhlOpen(in, w),
         NEW entry \in Nat \ {0}, w.place <= entry,
         w.active # Online => entry <= Len(in.archives[w.active].files) + 1
  PROVE  MhlReady(o, in, n, FillTo(in.archives, w, entry), w.active, entry)
<1> DEFINE f == FillTo(in.archives, w, entry)
           missing == Missing(in.archives, w, entry)
           new == Dummies(w, missing)
           T == LineSet(o, in.records)
           moved == [w EXCEPT !.place = entry]
<1>1. w \in Writers(o, in.records) /\ w.inp \in Seq(PartSet(T)) /\ w.active \in Nat /\ w.place \in Nat \ {0} /\ w.open = TRUE
  BY DEF MhlWrote, Writers, MhlOpen
<1>2. missing \in Seq(Int)
  BY <1>1, MissingNumbers
<1>3. f = AppendLines(moved, Dummies(w, missing))
  BY <1>1, FillToIs
<1> HIDE DEF missing, T
<1>4. new \in Seq(T) /\ Indexes(new) = missing /\ \A k \in 1..Len(new) : new[k].kind # "book"
  BY <1>1, <1>2, DummiesAre DEF T
<1>5. f = [w EXCEPT !.place = entry, !.inp = Extended(w.inp, new)]
  <2>1. moved.inp = w.inp
    BY <1>1 DEF Writers
  <2> HIDE DEF new
  <2>2. f = [moved EXCEPT !.inp[Len(w.inp)].lines = @ \o new]
    BY <1>3, <2>1 DEF AppendLines, new
  <2> QED BY <1>1, <2>1, <2>2 DEF Writers, Extended
<1> HIDE DEF f, new
<1>6. ASSUME w.active # Online
      PROVE  Joined(Places(in.archives[w.active].files, entry - 1), Places(in.archives[w.active].files, w.place - 1),
                    Indexes(new))
  <2>1. w.active \in DOMAIN in.archives
    BY <1>6 DEF MhlOpen, AlignedTo
  <2>2. IsDataset(in.archives)
    BY DEF InputOK
  <2> QED BY <1>1, <1>4, <1>6, <2>1, <2>2, MissingAre DEF missing
<1>7. MhlExtended(o, in, w, new, entry, f)
  BY <1>1, <1>4, <1>5, <1>6, MhlExtends DEF T
<1>8. /\ MhlOpen(in, f) /\ f \in Writers(o, in.records) /\ f.active = w.active /\ f.place = entry
      /\ f.inp \in Seq(PartSet(T)) /\ Grown(w.inp, f.inp, Len(w.inp), new)
  BY <1>7 DEF MhlExtended, T
<1>9. Covered(T, o, in.records, f.inp, n)
  <2>1. Covered(T, o, in.records, w.inp, n)
    BY DEF MhlWrote, T
  <2>2. in.records \in Seq(RecordSet(in.archives))
    BY DEF InputOK
  <2> QED BY <1>1, <1>4, <1>8, <2>1, <2>2, CoveredStill
<1> QED BY <1>8, <1>9 DEF MhlReady, MhlWrote, f, T

\* finishActive: what has been opened is complete.
LEMMA MhlFinishes ==
  ASSUME NEW o, NEW in, InputOK(in), NEW n, NEW w, MhlInv(o, in, w, n)
  PROVE  /\ MhlWrote(o, in, FinishedActive(in.archives, w), n) /\ MhlClosed(in, FinishedActive(in.archives, w))
         /\ FinishedActive(in.archives, w).active = NoArchive
<1> DEFINE filled == IF w.active \in {NoArchive, Online} THEN w
                     ELSE FillTo(in.archives, w, Len(in.archives[w.active].files) + 1)
           f == FinishedActive(in.archives, w)
           T == LineSet(o, in.records)
<1>1. f = [filled EXCEPT !.active = NoArchive, !.open = FALSE, !.pending = <<>>]
  BY DEF FinishedActive
<1>2. w \in Writers(o, in.records) /\ MhlWrote(o, in, w, n)
  BY DEF MhlInv, MhlWrote
<1>3. MhlWrote(o, in, filled, n) /\ \A p \in DOMAIN filled.inp : Complete(in.archives, filled.inp[p])
  <2>1. CASE w.active = NoArchive
    <3>1. filled = w
      BY <2>1
    <3>2. MhlClosed(in, w)
      BY <2>1 DEF MhlInv, MhlOpen, NoArchive
    <3> QED BY <1>2, <3>1, <3>2 DEF MhlClosed
  <2>2. CASE w.active = Online
    <3>1. filled = w
      BY <2>2
    <3>2. MhlOpen(in, w)
      BY <2>2 DEF MhlInv, NoArchive, Online
    <3>3. \A p \in DOMAIN w.inp : p = Len(w.inp) => Complete(in.archives, w.inp[p])
      BY <2>2, <3>2 DEF MhlOpen, Complete
    <3> QED BY <1>2, <3>1, <3>2, <3>3 DEF MhlOpen
  <2>3. CASE w.active # NoArchive /\ w.active # Online
    <3> DEFINE files == in.archives[w.active].files
               last == Len(files) + 1
    <3>1. filled = FillTo(in.archives, w, last)
      BY <2>3
    <3>2. MhlOpen(in, w)
      BY <2>3 DEF MhlInv
    <3>3. w.active \in DOMAIN in.archives /\ w.place <= last
      BY <2>3, <3>2 DEF MhlOpen, AlignedTo
    <3>4. files \in Seq(DOMAIN File)
      BY <3>3 DEF InputOK, IsDataset
    <3>5. Len(files) \in Nat /\ last \in Nat \ {0} /\ last - 1 = Len(files)
      BY <3>4
    <3>9. last <= Len(files) + 1
      BY <3>5
    <3> HIDE DEF filled, last
    <3>6. MhlReady(o, in, n, filled, w.active, last)
      BY <1>2, <3>1, <3>2, <3>3, <3>5, <3>9, MhlFills
    <3>7. MhlWrote(o, in, filled, n) /\ MhlOpen(in, filled) /\ filled.active = w.active /\ filled.place = last
      BY <3>6 DEF MhlReady
    <3>8. \A p \in DOMAIN filled.inp : p = Len(filled.inp) => Complete(in.archives, filled.inp[p])
      BY <3>5, <3>7 DEF MhlOpen, AlignedTo, Complete
    <3> QED BY <3>7, <3>8 DEF MhlOpen
  <2> QED BY <2>1, <2>2, <2>3
<1> HIDE DEF filled, f, T
<1>4. filled \in Writers(o, in.records) /\ Covered(T, o, in.records, filled.inp, n)
  BY <1>3 DEF MhlWrote, T
<1>5. f \in Writers(o, in.records)
  <2>1. <<>> \in Seq(Int) /\ NoArchive \in Int
    BY DEF NoArchive
  <2> QED BY <1>1, <1>4, <2>1 DEF Writers
<1>6. f.active = NoArchive /\ f.open = FALSE /\ f.pending = <<>> /\ f.inp = filled.inp
  BY <1>1, <1>4 DEF Writers
<1> QED BY <1>3, <1>4, <1>5, <1>6 DEF f, MhlWrote, MhlClosed, T

\* What is opened begins with the lines that were held back.
LEMMA MhlOpens ==
  ASSUME NEW o, NEW in, InputOK(in), NEW n, NEW at, MhlWrote(o, in, at, n), MhlClosed(in, at), at.place = 1,
         at.active \in Nat, NEW entry \in Nat \ {0},
         at.active # Online => at.active \in DOMAIN in.archives /\ entry <= Len(in.archives[at.active].files) + 1
  PROVE  MhlReady(o, in, n, Opened(FillTo(in.archives, at, entry)), at.active, entry)
<1> DEFINE missing == Missing(in.archives, at, entry)
           there == FillTo(in.archives, at, entry)
           f == Opened(there)
           new == Dummies(there, missing)
           T == LineSet(o, in.records)
           more == Append(at.inp, Part(at.active, new))
           m == Len(at.inp)
<1>1. at \in Writers(o, in.records) /\ at.inp \in Seq(PartSet(T)) /\ at.open = FALSE /\ at.pending = <<>>
  BY DEF MhlWrote, Writers, MhlClosed
<1>2. missing \in Seq(Int)
  BY MissingNumbers
<1>3. there = [[at EXCEPT !.place = entry] EXCEPT !.pending = @ \o missing]
  BY <1>1, FillToIs
<1> HIDE DEF missing, T
<1>4. <<>> \o missing = missing
  BY <1>2
<1>5. /\ there.place = entry /\ there.pending = missing /\ there.inp = at.inp /\ there.open = FALSE
      /\ there.active = at.active /\ there = [at EXCEPT !.place = entry, !.pending = missing]
  BY <1>1, <1>3, <1>4 DEF Writers
<1> HIDE DEF there
<1>6. new \in Seq(T) /\ Indexes(new) = missing /\ \A k \in 1..Len(new) : new[k].kind # "book"
  <2>1. there.active \in Int
    BY <1>5
  <2> QED BY <1>2, <2>1, DummiesAre DEF T
<1>7. f = [there EXCEPT !.open = TRUE, !.pending = <<>>, !.inp = more]
  BY <1>5 DEF Opened
<1> HIDE DEF new, f
<1>8. AppendedTo(T, at.inp, at.active, new, more)
  <2>1. at.active \in PartNames
    BY DEF PartNames
  <2> QED BY <1>1, <1>6, <2>1, PartAppended
<1> HIDE DEF more
<1>9. /\ more \in Seq(PartSet(T)) /\ Len(more) = m + 1 /\ more # <<>> /\ m \in Nat
      /\ DOMAIN more = 1..(m + 1) /\ DOMAIN at.inp = 1..m
      /\ \A p \in DOMAIN at.inp : more[p] = at.inp[p]
      /\ more[m + 1].of = at.active /\ more[m + 1].lines = new
      /\ \A p \in DOMAIN more : p \in DOMAIN at.inp \/ p = m + 1
      /\ Grown(at.inp, more, m + 1, new)
  BY <1>8 DEF AppendedTo
<1>10. f \in Writers(o, in.records) /\ f.inp = more /\ f.open = TRUE /\ f.pending = <<>> /\ f.place = entry
       /\ f.active = at.active
  <2>1. f = [at EXCEPT !.place = entry, !.open = TRUE, !.pending = <<>>, !.inp = more]
    BY <1>1, <1>5, <1>7 DEF Writers
  <2>2. <<>> \in Seq(Int) /\ entry \in Int
    OBVIOUS
  <2>3. more \in Seq(PartSet(LineSet(o, in.records)))
    BY <1>9 DEF T
  <2>4. f \in Writers(o, in.records)
    BY <1>1, <2>1, <2>2, <2>3 DEF Writers
  <2> QED BY <1>1, <2>1, <2>4 DEF Writers
<1>11. Covered(T, o, in.records, more, n)
  <2>1. Covered(T, o, in.records, at.inp, n)
    BY DEF MhlWrote, T
  <2>2. in.records \in Seq(RecordSet(in.archives))
    BY DEF InputOK
  <2> QED BY <1>1, <1>6, <1>9, <2>1, <2>2, CoveredStill
<1>12. AlignedTo(in.archives, more[m + 1], entry)
  <2> SUFFICES ASSUME at.active # Online PROVE AlignedTo(in.archives, more[m + 1], entry)
    BY <1>9 DEF AlignedTo
  <2> DEFINE files == in.archives[at.active].files
             a == Places(files, entry - 1)
             b == Places(files, at.place - 1)
  <2>1. IsDataset(in.archives) /\ at.active \in DOMAIN in.archives /\ entry <= Len(files) + 1 /\ at.place <= entry
    BY DEF InputOK
  <2>2. Joined(a, b, missing)
    BY <2>1, MissingAre DEF missing
  <2>3. b = <<>>
    BY PlacesStart
  <2> HIDE DEF a, b
  <2>4. a = missing
    BY <1>4, <2>2, <2>3 DEF Joined
  <2> QED BY <1>6, <1>9, <2>1, <2>4 DEF AlignedTo, a
<1>13. MhlOpen(in, f)
  <2>1. \A p \in DOMAIN at.inp : Complete(in.archives, at.inp[p])
    BY DEF MhlClosed
  <2>2. \A p \in DOMAIN more : p # Len(more) => Complete(in.archives, more[p])
    BY <1>9, <2>1
  <2> QED BY <1>9, <1>10, <1>12, <2>2 DEF MhlOpen
<1> QED BY <1>10, <1>11, <1>13 DEF MhlReady, MhlWrote, f, T, there

\* The archive of a record is open up to the record's entry.
LEMMA MhlReaches ==
  ASSUME NEW o, NEW in, InputOK(in), NEW n \in 0..(Len(in.records) - 1), NEW w, MhlInv(o, in, w, n),
         NEW r, r = in.records[n + 1], NEW at, at = AdvancedTo(in.archives, w, r.archive),
         NEW entry, entry = IF r.archive = Online THEN at.place ELSE r.index
  PROVE  MhlReady(o, in, n, Opened(FillTo(in.archives, at, entry)), r.archive, entry) /\ entry \in Nat \ {0}
         /\ FillTo(in.archives, at, entry).active = r.archive
<1>1. n + 1 \in DOMAIN in.records /\ n \in Nat /\ DOMAIN in.records = 1..Len(in.records) /\ Len(in.records) \in Nat
  BY DEF InputOK
<1>2. RecordOK(in.archives, r)
  BY <1>1 DEF InputOK
<1>3. r.archive \in Nat /\ r.index \in Nat \ {0} /\ r.archive # NoArchive
  BY <1>2 DEF RecordOK, NoArchive
<1>4. r.archive # Online => r.archive \in DOMAIN in.archives /\ r.index <= Len(in.archives[r.archive].files)
  <2> SUFFICES ASSUME r.archive # Online
               PROVE  r.archive \in DOMAIN in.archives /\ r.index <= Len(in.archives[r.archive].files)
    OBVIOUS
  <2> DEFINE files == in.archives[r.archive].files
  <2>1. r.archive \in DOMAIN in.archives /\ r.index \in DOMAIN files
    BY <1>2 DEF RecordOK
  <2>2. files \in Seq(DOMAIN File)
    BY <2>1 DEF InputOK, IsDataset
  <2> HIDE DEF files
  <2>3. r.index <= Len(files)
    BY <2>1, <2>2
  <2> QED BY <2>1, <2>3 DEF files
<1>5. r.archive # Online => r.index <= Len(in.archives[r.archive].files) + 1
  <2> SUFFICES ASSUME r.archive # Online PROVE r.index <= Len(in.archives[r.archive].files) + 1
    OBVIOUS
  <2>1. Len(in.archives[r.archive].files) \in Nat
    <3>1. in.archives[r.archive].files \in Seq(DOMAIN File)
      BY <1>4 DEF InputOK, IsDataset
    <3> QED BY <3>1
  <2> DEFINE l == Len(in.archives[r.archive].files)
             i == r.index
  <2>2. l \in Nat /\ i \in Nat /\ i <= l
    BY <1>3, <1>4, <2>1
  <2> HIDE DEF l, i
  <2>3. i <= l + 1
    BY <2>2
  <2> QED BY <2>3 DEF l, i
<1>6. CASE w.active = r.archive
  <2>1. at = w
    BY <1>6 DEF AdvancedTo
  <2>2. MhlWrote(o, in, w, n) /\ MhlOpen(in, w) /\ Behind(in, w, n)
    BY <1>3, <1>6 DEF MhlInv
  <2>3. w.open = TRUE /\ w.place \in Nat \ {0} /\ w.active = r.archive
    BY <1>6, <2>2 DEF MhlOpen
  <2>4. entry \in Nat \ {0} /\ w.place <= entry
    <3>1. CASE r.archive = Online
      BY <2>1, <2>3, <3>1
    <3>2. CASE r.archive # Online
      <4> PICK k \in 1..n : in.records[k].archive = w.active /\ in.records[k].index = w.place - 1
        BY <1>6, <2>2, <3>2 DEF Behind
      <4>1. k \in DOMAIN in.records /\ k < n + 1
        BY <1>1
      <4>2. Before(in.records[k], in.records[n + 1])
        BY <1>1, <4>1 DEF InputOK, InOrder
      <4>3. w.place - 1 < r.index
        BY <1>3, <1>6, <2>3, <4>2 DEF Before
      <4> QED BY <1>3, <2>3, <3>2, <4>3
    <3> QED BY <3>1, <3>2
  <2>5. w.active # Online => entry <= Len(in.archives[w.active].files) + 1
    BY <1>5, <1>6
  <2>6. MhlReady(o, in, n, FillTo(in.archives, w, entry), w.active, entry)
    BY <2>2, <2>4, <2>5, MhlFills
  <2> DEFINE f == FillTo(in.archives, w, entry)
  <2> HIDE DEF f
  <2>7. Opened(f) = f /\ f.active = r.archive
    <3>1. MhlReady(o, in, n, f, w.active, entry)
      BY <2>6 DEF f
    <3>2. f.open = TRUE /\ f.active = w.active
      BY <3>1 DEF MhlReady, MhlOpen
    <3> QED BY <1>6, <3>2 DEF Opened
  <2> QED BY <1>6, <2>1, <2>4, <2>6, <2>7 DEF f
<1>7. CASE w.active # r.archive
  <2> DEFINE g == FinishedActive(in.archives, w)
  <2>1. at = [g EXCEPT !.active = r.archive, !.place = 1]
    BY <1>7 DEF AdvancedTo
  <2>2. MhlWrote(o, in, g, n) /\ MhlClosed(in, g)
    BY MhlFinishes
  <2> HIDE DEF g
  <2>3. g \in Writers(o, in.records)
    BY <2>2 DEF MhlWrote
  <2>4. at \in Writers(o, in.records) /\ at.inp = g.inp /\ at.open = g.open /\ at.pending = g.pending
        /\ at.active = r.archive /\ at.place = 1
    <3>1. r.archive \in Int /\ 1 \in Int
      BY <1>3
    <3>2. at \in Writers(o, in.records)
      BY <2>1, <2>3, <3>1 DEF Writers
    <3> QED BY <2>1, <2>3, <3>2 DEF Writers
  <2>5. MhlWrote(o, in, at, n) /\ MhlClosed(in, at)
    BY <2>2, <2>4 DEF MhlWrote, MhlClosed
  <2>6. entry \in Nat \ {0}
    BY <1>3, <2>4
  <2>7. r.archive # Online => r.archive \in DOMAIN in.archives /\ entry <= Len(in.archives[r.archive].files) + 1
    BY <1>4, <1>5
  <2>8. MhlReady(o, in, n, Opened(FillTo(in.archives, at, entry)), at.active, entry)
    BY <1>3, <2>4, <2>5, <2>6, <2>7, MhlOpens
  <2>9. FillTo(in.archives, at, entry).active = at.active
    <3> DEFINE ms == Missing(in.archives, at, entry)
    <3>1. at.open = FALSE
      BY <2>5 DEF MhlClosed
    <3>2. FillTo(in.archives, at, entry) = [[at EXCEPT !.place = entry] EXCEPT !.pending = @ \o ms]
      BY <3>1, FillToIs
    <3> HIDE DEF ms
    <3> QED BY <2>4, <3>2 DEF Writers
  <2> QED BY <2>4, <2>6, <2>8, <2>9
<1> QED BY <1>6, <1>7

LineIs(o, records, r, line) ==
  /\ line \in LineSet(o, records) /\ line.index = r.index
  /\ Titled(r) => IsLineOf(line, r) /\ line.series = MhlSeries(r, o.preference)
  /\ ~Titled(r) => line.kind # "book"

\* The line that a record leaves: a book's with the series asked for, or a dummy, for its own entry.
LEMMA MhlLineIs ==
  ASSUME NEW o, NEW records, NEW archives, NEW r \in Range(records), RecordOK(archives, r),
         NEW w, w.active = r.archive
  PROVE  LineIs(o, records, r, MhlLine(w, r, o))
<1> DEFINE line == MhlLine(w, r, o)
<1>1. CASE Titled(r)
  <2> DEFINE s == MhlSeries(r, o.preference)
  <2>1. line = Line(r, s, o)
    BY <1>1 DEF MhlLine
  <2>2. Line(r, s, o) \in BookLines(o, r)
    BY DEF BookLines, SeriesSet
  <2>3. line \in LineSet(o, records)
    BY <2>1, <2>2 DEF LineSet
  <2> HIDE DEF s
  <2> HIDE DEF line
  <2>4. line.index = r.index /\ line.series = s /\ IsLineOf(line, r)
    BY <2>1, LineFields
  <2> QED BY <1>1, <2>3, <2>4 DEF s, line, LineIs
<1>2. CASE ~Titled(r)
  <2>1. line = Dummy(w, r.index)
    BY <1>2 DEF MhlLine
  <2>2. w.active \in Int /\ r.index \in Int
    BY DEF RecordOK
  <2>3. line \in DummyLines /\ line.index = r.index /\ line.kind = "dummy"
    BY <2>1, <2>2, DummyIs
  <2>4. line \in LineSet(o, records)
    BY <2>3 DEF LineSet
  <2> HIDE DEF line
  <2>5. LineIs(o, records, r, line)
    BY <1>2, <2>3, <2>4 DEF LineIs
  <2> QED BY <2>5 DEF line
<1> QED BY <1>1, <1>2

\* WriteRecord of mhlinpx keeps the invariant of its writer, one record further.
LEMMA MhlStep ==
  ASSUME NEW o, Tool(o, "mhl"), NEW in, InputOK(in), NEW n \in 0..(Len(in.records) - 1), NEW w, MhlInv(o, in, w, n)
  PROVE  MhlInv(o, in, MhlRecord(in.archives, w, in.records[n + 1], o), n + 1)
<1> DEFINE records == in.records
           r == records[n + 1]
           T == LineSet(o, records)
           w2 == MhlRecord(in.archives, w, r, o)
           at == AdvancedTo(in.archives, w, r.archive)
           entry == IF r.archive = Online THEN at.place ELSE r.index
           there == FillTo(in.archives, at, entry)
           ready == Opened(there)
           line == MhlLine(there, r, o)
           new == <<line>>
           f == [AppendLines(ready, new) EXCEPT !.place = entry + 1]
<1>1. records \in Seq(RecordSet(in.archives)) /\ Distinct(records) /\ n + 1 \in DOMAIN records
      /\ r \in Range(records) /\ n \in Nat /\ n + 1 \in 1..(n + 1) /\ (\A k \in 1..n : k \in 1..(n + 1))
      /\ n \in 0..(Len(records) - 1)
  BY DEF InputOK, Range
<1>2. RecordOK(in.archives, r)
  BY <1>1 DEF InputOK
<1>3. r.archive \in Nat /\ r.index \in Nat \ {0}
  BY <1>2 DEF RecordOK
<1>4. MhlWrote(o, in, w, n) /\ Covered(T, o, records, w.inp, n)
  BY DEF MhlInv, MhlWrote
<1>5. AskedBy(o, r) = IF ~MatchesContent(r, o.content) \/ ~Titled(r) THEN <<>> ELSE <<MhlSeries(r, o.preference)>>
  BY OptionTypes DEF Tool, AskedBy
<1>6. w2 = IF ~MatchesContent(r, o.content) THEN w
           ELSE [(IF IgnoresEntry(in.archives, there, entry) THEN there ELSE AppendLines(ready, new))
                   EXCEPT !.place = entry + 1]
  BY DEF MhlRecord
<1> HIDE DEF w2
<1>7. CASE ~MatchesContent(r, o.content)
  <2>1. w2 = w /\ AskedBy(o, r) = <<>>
    BY <1>5, <1>6, <1>7
  <2>2. Covered(T, o, records, w.inp, n + 1)
    <3> HIDE DEF T, records
    <3> QED BY <1>1, <1>4, <2>1, CoveredSame DEF r
  <2>3. Behind(in, w, n) => Behind(in, w, n + 1)
    BY <1>1 DEF Behind
  <2>4. MhlInv(o, in, w, n + 1)
    BY <1>4, <2>2, <2>3 DEF MhlInv, MhlWrote
  <2> QED BY <2>1, <2>4 DEF w2
<1>8. CASE MatchesContent(r, o.content)
  <2>1. MhlReady(o, in, n, ready, r.archive, entry) /\ entry \in Nat \ {0} /\ there.active = r.archive
    <3> HIDE DEF at, ready, there
    <3>1. MhlReady(o, in, n, Opened(FillTo(in.archives, at, entry)), r.archive, entry) /\ entry \in Nat \ {0}
          /\ FillTo(in.archives, at, entry).active = r.archive
      <4> HIDE DEF entry
      <4> QED BY MhlReaches DEF at, entry
    <3> QED BY <3>1 DEF ready, there
  <2>2. r.archive # Online => entry = r.index
    OBVIOUS
  <2> HIDE DEF at, entry, there
  <2>3. ~IgnoresEntry(in.archives, there, entry)
    BY <1>2, <2>1, <2>2 DEF IgnoresEntry, RecordOK
  <2>4. w2 = f
    BY <1>6, <1>8, <2>3
  <2> HIDE DEF ready
  <2>5. /\ ready \in Writers(o, records) /\ Covered(T, o, records, ready.inp, n) /\ MhlOpen(in, ready)
        /\ ready.active = r.archive /\ ready.place = entry /\ ready.inp \in Seq(PartSet(T))
    BY <2>1 DEF MhlReady, MhlWrote, Writers
  <2>6. /\ line \in T /\ line.index = r.index
        /\ Titled(r) => IsLineOf(line, r) /\ line.series = MhlSeries(r, o.preference)
        /\ ~Titled(r) => line.kind # "book"
    <3>1. line = MhlLine(there, r, o) /\ r \in Range(in.records)
      BY <1>1
    <3> HIDE DEF line, r
    <3>2. RecordOK(in.archives, r) /\ there.active = r.archive /\ r \in Range(in.records)
      BY <1>2, <2>1, <3>1
    <3> HIDE DEF records
    <3>3. LineIs(o, in.records, r, MhlLine(there, r, o))
      BY <3>2, MhlLineIs
    <3> QED BY <3>1, <3>3 DEF T, records, LineIs
  <2> HIDE DEF line, T
  <2>7. /\ new \in Seq(T) /\ Indexes(new) = <<r.index>> /\ Len(new) = 1 /\ Titles(new) = <<line.series>>
        /\ \A k \in 1..Len(new) : new[k] = line
    BY <2>6 DEF Indexes, Titles
  <2>8. f = [ready EXCEPT !.place = entry + 1, !.inp = Extended(ready.inp, new)]
    <3> HIDE DEF new
    <3> QED BY <2>5 DEF AppendLines, Writers, Extended
  <2> HIDE DEF f, new
  <2>9. ASSUME r.archive # Online
        PROVE  /\ entry + 1 <= Len(in.archives[r.archive].files) + 1
               /\ Joined(Places(in.archives[r.archive].files, (entry + 1) - 1),
                         Places(in.archives[r.archive].files, ready.place - 1), Indexes(new))
    <3> DEFINE files == in.archives[r.archive].files
    <3>1. r.archive \in DOMAIN in.archives /\ entry \in DOMAIN files /\ ~InventoryIgnores(files, entry)
      BY <1>2, <2>2, <2>9 DEF RecordOK
    <3>2. files \in Seq(DOMAIN File)
      BY <3>1 DEF InputOK, IsDataset
    <3> HIDE DEF files
    <3>3. entry \in WithLine(files)
      BY <3>1 DEF WithLine
    <3>4. entry + 1 <= Len(files) + 1 /\ (entry + 1) - 1 = entry
      BY <2>1, <3>1, <3>2
    <3>5. Joined(Places(files, entry), Places(files, entry - 1), <<entry>>)
      BY <2>1, <3>3, PlacesNext
    <3> QED BY <2>2, <2>5, <2>7, <2>9, <3>4, <3>5 DEF files
  <2>10. MhlExtended(o, in, ready, new, entry + 1, f)
    <3>1. entry + 1 \in Nat \ {0}
      BY <2>1
    <3>2. ready.active # Online =>
            /\ entry + 1 <= Len(in.archives[ready.active].files) + 1
            /\ Joined(Places(in.archives[ready.active].files, (entry + 1) - 1),
                      Places(in.archives[ready.active].files, ready.place - 1), Indexes(new))
      BY <2>5, <2>9
    <3> DEFINE to == entry + 1
    <3> HIDE DEF to
    <3>3. to \in Nat \ {0} /\ new \in Seq(LineSet(o, in.records)) /\ ready \in Writers(o, in.records)
          /\ f = [ready EXCEPT !.place = to, !.inp = Extended(ready.inp, new)]
      BY <2>5, <2>7, <2>8, <3>1 DEF to, T
    <3>4. ready.active # Online =>
            /\ to <= Len(in.archives[ready.active].files) + 1
            /\ Joined(Places(in.archives[ready.active].files, to - 1),
                      Places(in.archives[ready.active].files, ready.place - 1), Indexes(new))
      BY <3>2 DEF to
    <3>5. MhlExtended(o, in, ready, new, to, f)
      BY <2>5, <3>3, <3>4, MhlExtends
    <3> QED BY <3>5 DEF to
  <2>11. /\ MhlOpen(in, f) /\ f \in Writers(o, records) /\ f.active = r.archive /\ f.place = entry + 1
         /\ f.inp \in Seq(PartSet(T)) /\ Grown(ready.inp, f.inp, Len(ready.inp), new)
    BY <2>5, <2>10 DEF MhlExtended, T
  <2>12. Covered(T, o, records, f.inp, n + 1)
    <3>1. CASE Titled(r)
      <4>1. Titles(new) = AskedBy(o, records[n + 1]) /\ \A k \in 1..Len(new) : IsLineOf(new[k], records[n + 1])
        BY <1>5, <1>8, <2>6, <2>7, <3>1
      <4> HIDE DEF records
      <4> QED BY <1>1, <2>5, <2>7, <2>11, <4>1, CoveredNext
    <3>2. CASE ~Titled(r)
      <4>1. AskedBy(o, records[n + 1]) = <<>> /\ \A k \in 1..Len(new) : new[k].kind # "book"
        BY <1>5, <2>6, <2>7, <3>2
      <4> HIDE DEF records
      <4>2. Covered(T, o, records, f.inp, n)
        BY <1>1, <2>5, <2>7, <2>11, <4>1, CoveredStill
      <4> QED BY <1>1, <4>1, <4>2, CoveredSame
    <3> QED BY <3>1, <3>2
  <2>13. Behind(in, f, n + 1)
    <3> SUFFICES ASSUME f.active # Online
                 PROVE  \E k \in 1..(n + 1) : in.records[k].archive = f.active /\ in.records[k].index = f.place - 1
      BY DEF Behind
    <3>1. f.place - 1 = entry
      BY <2>1, <2>11
    <3>2. in.records[n + 1].archive = f.active /\ in.records[n + 1].index = f.place - 1
      BY <2>2, <2>11, <3>1
    <3> QED BY <1>1, <3>2
  <2>14. MhlInv(o, in, f, n + 1)
    BY <2>11, <2>12, <2>13 DEF MhlInv, MhlWrote, T
  <2> QED BY <2>4, <2>14 DEF w2
<1> QED BY <1>7, <1>8

-----------------------------------------------------------------------------
(* What a run has written, what it replaces, and what is published *)

AdditionalOf(o, in) == o.tool # "mhl" /\ in.archives # <<>>

Wrote(o, in, w, n) ==
  /\ o.tool = "mhl" => MhlInv(o, in, w, n)
  /\ o.tool = "flib" => FlibInv(o, in.records, w, AdditionalOf(o, in), n)
  /\ o.tool = "slice" => SliceInv(o, in.records, w, AdditionalOf(o, in), n) /\ in.archives # <<>>

Published(o, in, parts) ==
  /\ parts \in Seq(PartSet(LineSet(o, in.records)))
  /\ Covered(LineSet(o, in.records), o, in.records, parts, Len(in.records))
  /\ o.tool = "mhl" => \A p \in DOMAIN parts : Complete(in.archives, parts[p])

InBooks(o, in, archive, name) ==
  \E r \in Range(in.records) : AskedBy(o, r) # <<>> /\ r.archive = archive /\ r.name = name
Compiled(o, in, found) ==
  \A c \in found : InBooks(o, in, c.archive, c.name) /\ \A q \in c.parts : InBooks(o, in, q.archive, q.name)

Finished(o, in, w) ==
  /\ Published(o, in, w.inp)
  /\ AdditionalOf(o, in) => /\ Noted(o, in.records, w.notes, Len(in.records))
                            /\ w.books \in Seq(BodySet(in.records))
                            /\ Booked(o, in.records, w.books, Len(in.records))

\* A new writer satisfies the invariants of all three.
LEMMA NothingWritten ==
  ASSUME NEW o \in Options, NEW in, InputOK(in), o.tool = "slice" => in.archives # <<>>
  PROVE  Wrote(o, in, NewWriter, 0)
<1> DEFINE records == in.records
           T == LineSet(o, records)
           none == <<>>
<1>1. NewWriter = [active |-> NoArchive, open |-> FALSE, place |-> 1, pending |-> none,
                   inp |-> none, notes |-> none, books |-> none]
  BY DEF NewWriter
<1>2. NewWriter \in Writers(o, records)
  <2>1. none \in Seq(Int) /\ none \in Seq(PartSet(T)) /\ none \in Seq(PartSet(DOMAIN File)) /\ none \in Seq(BodySet(records))
    OBVIOUS
  <2> HIDE DEF none
  <2> QED BY <1>1, <2>1 DEF Writers, NoArchive, T
<1>3. /\ NewWriter.active = NoArchive /\ NewWriter.open = FALSE /\ NewWriter.pending = none /\ NewWriter.inp = none
      /\ NewWriter.notes = none /\ NewWriter.books = none
  BY <1>1
<1>4. DOMAIN none = {} /\ Range(none) = {}
  BY DEF Range
<1>5. Covered(T, o, records, none, 0)
  <2>1. \A k \in DOMAIN records : ~(k <= 0)
    BY DEF InputOK
  <2> HIDE DEF none
  <2> QED BY <1>4, <2>1 DEF Covered, Unlisted
<1>6. Noted(o, records, none, 0)
  <2>1. \A a : LinesUnder(none, a) = none
    <3> HIDE DEF none
    <3> QED BY <1>4, NoLinesUnder DEF none
  <2>2. \A a : NamesToNote(o, records, 0, a) = none
    <3> TAKE a
    <3>1. Prefix(records, 0) = none
      BY DEF Prefix
    <3>2. Keep(none, NotedOf(o, records, a)) = none
      BY KeepEmpty
    <3>3. NamesOf(none) = none
      BY DEF NamesOf
    <3> HIDE DEF none
    <3> QED BY <3>1, <3>2, <3>3 DEF NamesToNote
  <2> HIDE DEF none
  <2> QED BY <1>4, <2>1, <2>2 DEF Noted, Unique
<1>7. Booked(o, records, none, 0)
  <2> HIDE DEF none
  <2> QED BY <1>4 DEF Booked
<1> HIDE DEF none
<1>8. MhlInv(o, in, NewWriter, 0)
  BY <1>2, <1>3, <1>4, <1>5 DEF MhlInv, MhlWrote, MhlClosed, T, none
<1>9. ASSUME NEW additional \in BOOLEAN PROVE FlibInv(o, records, NewWriter, additional, 0)
  <2>1. Folders(none, NoArchive, FALSE)
    BY <1>4 DEF Folders
  <2>2. Folders(NewWriter.notes, NewWriter.active, NewWriter.open)
    BY <1>3, <2>1
  <2> QED BY <1>2, <1>3, <1>5, <1>6, <1>7, <2>2 DEF FlibInv, Followed, Noting, Foldering, T
<1>10. ASSUME NEW additional \in BOOLEAN PROVE SliceInv(o, records, NewWriter, additional, 0)
  BY <1>2, <1>3, <1>4, <1>5, <1>6, <1>7 DEF SliceInv, Unique, Noting, T
<1>11. AdditionalOf(o, in) \in BOOLEAN
  BY DEF AdditionalOf
<1> QED BY <1>8, <1>9, <1>10, <1>11 DEF Wrote

WrittenBy(o, in, w, r, additional, compiling) ==
  CASE o.tool = "mhl" -> MhlRecord(in.archives, w, r, o)
    [] o.tool = "flib" -> FlibRecord(w, r, o, additional, compiling)
    [] o.tool = "slice" -> SliceRecord(w, r, o, additional, compiling)

\* WriteRecord of whichever command keeps what it has written in order.
LEMMA WroteNext ==
  ASSUME NEW o \in Options, NEW in, InputOK(in), NEW n \in 0..(Len(in.records) - 1), NEW w, Wrote(o, in, w, n),
         NEW compiling \in BOOLEAN
  PROVE  Wrote(o, in, WrittenBy(o, in, w, in.records[n + 1], AdditionalOf(o, in), compiling), n + 1)
<1> DEFINE additional == AdditionalOf(o, in)
           r == in.records[n + 1]
           w2 == WrittenBy(o, in, w, r, additional, compiling)
<1>1. additional \in BOOLEAN /\ (additional => in.archives # <<>>)
  BY DEF AdditionalOf
<1>2. o.tool \in {"mhl", "flib", "slice"}
  BY OptionTypes
<1> HIDE DEF additional, r
<1>3. CASE o.tool = "mhl"
  <2>1. w2 = MhlRecord(in.archives, w, r, o)
    BY <1>3 DEF WrittenBy
  <2>2. Tool(o, "mhl") /\ MhlInv(o, in, w, n)
    BY <1>3 DEF Tool, Wrote
  <2>3. MhlInv(o, in, MhlRecord(in.archives, w, r, o), n + 1)
    BY <2>2, MhlStep DEF r
  <2> HIDE DEF w2
  <2>4. Wrote(o, in, w2, n + 1)
    BY <1>3, <2>1, <2>3 DEF Wrote
  <2> QED BY <2>4 DEF w2, additional, r
<1>4. CASE o.tool = "flib"
  <2>1. w2 = FlibRecord(w, r, o, additional, compiling)
    BY <1>4 DEF WrittenBy
  <2>2. Tool(o, "flib") /\ FlibInv(o, in.records, w, additional, n)
    BY <1>4 DEF Tool, Wrote, additional
  <2>3. FlibInv(o, in.records, FlibRecord(w, r, o, additional, compiling), additional, n + 1)
    BY <1>1, <2>2, FlibStep DEF r
  <2> HIDE DEF w2
  <2>4. Wrote(o, in, w2, n + 1)
    BY <1>4, <2>1, <2>3 DEF Wrote, additional
  <2> QED BY <2>4 DEF w2, additional, r
<1>5. CASE o.tool = "slice"
  <2>1. w2 = SliceRecord(w, r, o, additional, compiling)
    BY <1>5 DEF WrittenBy
  <2>2. Tool(o, "slice") /\ SliceInv(o, in.records, w, additional, n) /\ in.archives # <<>>
    BY <1>5 DEF Tool, Wrote, additional
  <2>3. SliceInv(o, in.records, SliceRecord(w, r, o, additional, compiling), additional, n + 1)
    BY <1>1, <2>2, SliceStep DEF r
  <2> HIDE DEF w2
  <2>4. Wrote(o, in, w2, n + 1)
    BY <1>5, <2>1, <2>2, <2>3 DEF Wrote, additional
  <2> QED BY <2>4 DEF w2, additional, r
<1> QED BY <1>2, <1>3, <1>4, <1>5

\* A writer that has read all records has written an INPX, and the rest for it.
LEMMA WroteAll ==
  ASSUME NEW o \in Options, NEW in, InputOK(in), NEW w, Wrote(o, in, w, Len(in.records))
  PROVE  Finished(o, in, IF o.tool = "mhl" THEN FinishedActive(in.archives, w) ELSE w)
<1> DEFINE n == Len(in.records)
           f == IF o.tool = "mhl" THEN FinishedActive(in.archives, w) ELSE w
<1>1. o.tool \in {"mhl", "flib", "slice"}
  BY OptionTypes
<1>2. CASE o.tool = "mhl"
  <2>1. f = FinishedActive(in.archives, w) /\ MhlInv(o, in, w, n) /\ ~AdditionalOf(o, in)
    BY <1>2 DEF Wrote, AdditionalOf
  <2> HIDE DEF n
  <2>2. MhlWrote(o, in, FinishedActive(in.archives, w), n) /\ MhlClosed(in, FinishedActive(in.archives, w))
    BY <2>1, MhlFinishes
  <2> HIDE DEF f
  <2>3. MhlWrote(o, in, f, n) /\ MhlClosed(in, f)
    BY <2>1, <2>2
  <2>4. f.inp \in Seq(PartSet(LineSet(o, in.records)))
    BY <2>3 DEF MhlWrote, Writers
  <2>5. Published(o, in, f.inp)
    BY <2>3, <2>4 DEF MhlWrote, MhlClosed, Published, n
  <2> QED BY <2>1, <2>5 DEF Finished, f
<1>3. CASE o.tool # "mhl"
  <2>1. f = w
    BY <1>3
  <2>2. /\ w \in Writers(o, in.records) /\ Covered(LineSet(o, in.records), o, in.records, w.inp, n)
        /\ AdditionalOf(o, in) => Noted(o, in.records, w.notes, n)
        /\ Booked(o, in.records, w.books, n)
    <3> HIDE DEF n
    <3>1. CASE o.tool = "flib"
      <4>1. FlibInv(o, in.records, w, AdditionalOf(o, in), n)
        BY <3>1 DEF Wrote, n
      <4> QED BY <4>1 DEF FlibInv, Noting
    <3>2. CASE o.tool = "slice"
      <4>1. SliceInv(o, in.records, w, AdditionalOf(o, in), n)
        BY <3>2 DEF Wrote, n
      <4> QED BY <4>1 DEF SliceInv, Noting
    <3> QED BY <1>1, <1>3, <3>1, <3>2
  <2>3. w.inp \in Seq(PartSet(LineSet(o, in.records))) /\ w.books \in Seq(BodySet(in.records))
    BY <2>2 DEF Writers
  <2> QED BY <1>3, <2>1, <2>2, <2>3 DEF Finished, Published
<1> QED BY <1>2, <1>3

\* A compilation is a book that has been collected, and consists of such books.
CompilationFrom(collected, c) ==
  /\ \E b \in Range(collected) : c.archive = b.archive /\ c.name = b.name
  /\ \A q \in c.parts : \E b \in Range(collected) : q.archive = b.archive /\ q.name = b.name

\* Owners and parts of compilations are collected books (CompilationCollector.Write).
LEMMA CompilationsFrom ==
  ASSUME NEW B, NEW collected \in Seq(B), NEW c \in CompilationsOf(collected)
  PROVE  CompilationFrom(collected, c)
<1> DEFINE books == Keep(collected, {b \in Range(collected) : IsTree(b.sections)})
<1>1. Range(books) \subseteq Range(collected)
  BY KeepRange
<1>2. CompilationsOf(collected) = {Compilation(books, b) : b \in {x \in Range(books) : IsCompilation(books, x)}}
  BY DEF CompilationsOf
<1> HIDE DEF books
<1> PICK owner \in Range(books) : c = Compilation(books, owner)
  BY <1>2
<1>3. c.archive = owner.archive /\ c.name = owner.name /\ c.parts = Parts(books, owner.sections)
  BY DEF Compilation
<1>4. ASSUME NEW q \in c.parts PROVE \E b \in Range(collected) : q.archive = b.archive /\ q.name = b.name
  <2> DEFINE s == owner.sections
  <2> HIDE DEF s
  <2>1. q \in Parts(books, s)
    BY <1>3, <1>4 DEF s
  <2>2. \E i \in Found(books, s) : \E b \in Matches(books, s[i].key) : q.archive = b.archive /\ q.name = b.name
    <3> DEFINE P(i) == Cardinality(Keys(s, {j \in Found(books, s) : j < i}))
               F(i) == {[part |-> P(i), archive |-> b.archive, name |-> b.name] : b \in Matches(books, s[i].key)}
    <3>1. q \in UNION {F(i) : i \in Found(books, s)}
      BY <2>1 DEF Parts
    <3> HIDE DEF F
    <3> PICK i \in Found(books, s) : q \in F(i)
      BY <3>1
    <3> HIDE DEF P
    <3>2. \E b \in Matches(books, s[i].key) : q = [part |-> P(i), archive |-> b.archive, name |-> b.name]
      BY DEF F
    <3> QED BY <3>2
  <2>3. \A key : Matches(books, key) \subseteq Range(books)
    BY DEF Matches
  <2> QED BY <1>1, <2>2, <2>3
<1>5. \E b \in Range(collected) : c.archive = b.archive /\ c.name = b.name
  BY <1>1, <1>3
<1> QED BY <1>4, <1>5 DEF CompilationFrom

\* So they are books that the INPX lists.
LEMMA BooksCompiled ==
  ASSUME NEW o, NEW in, InputOK(in), NEW books \in Seq(BodySet(in.records)),
         Booked(o, in.records, books, Len(in.records))
  PROVE  Compiled(o, in, CompilationsOf(books))
<1>1. ASSUME NEW b \in Range(books) PROVE InBooks(o, in, b.archive, b.name)
  <2> PICK k \in 1..Len(in.records) : AskedBy(o, in.records[k]) # <<>> /\ b = Body(in.records[k])
    BY <1>1 DEF Booked
  <2>1. k \in DOMAIN in.records
    BY DEF InputOK
  <2>2. in.records[k] \in Range(in.records)
    BY <2>1 DEF Range
  <2>3. b.archive = in.records[k].archive /\ b.name = in.records[k].name
    BY DEF Body
  <2> QED BY <2>2, <2>3 DEF InBooks
<1>2. ASSUME NEW c \in CompilationsOf(books)
      PROVE  InBooks(o, in, c.archive, c.name) /\ \A q \in c.parts : InBooks(o, in, q.archive, q.name)
  <2>1. CompilationFrom(books, c)
    BY <1>2, CompilationsFrom
  <2> QED BY <1>1, <2>1 DEF CompilationFrom
<1> QED BY <1>2 DEF Compiled

-----------------------------------------------------------------------------
(* The invariant *)

Given == Datasets \cup Remerged
IsInput(in) == \E archives \in Given : in = Input(archives)

TypeOK ==
  /\ dataset \in Given /\ IsInput(input) /\ options \in Options /\ read \in 0..Len(input.records)
  /\ pc \in {"idle", "writing", "index", "notes", "compilations"}
  /\ run \in Nat /\ index.run \in Nat /\ notes.run \in Nat /\ compilations.run \in Nat
  /\ index.run <= run /\ notes.run <= index.run /\ compilations.run <= index.run
  /\ IsInput(index.of)
Running ==
  /\ pc # "idle" => run > 0
  /\ pc \in {"writing", "index"} => index.run < run
  /\ pc = "writing" => Wrote(options, input, writer, read)
  /\ pc \in {"index", "notes", "compilations"} => Finished(options, input, writer)
  /\ pc \in {"notes", "compilations"} => Additional /\ index.run = run /\ index.of = input
Replaced ==
  /\ index.run = 0 => index.parts = <<>>
  /\ index.run > 0 => Published(options, index.of, index.parts)
  /\ notes.run = index.run /\ index.run > 0 =>
       Noted(options, index.of.records, notes.parts, Len(index.of.records))
  /\ compilations.run = 0 => compilations.found = {}
  /\ compilations.run = index.run /\ index.run > 0 => Compiled(options, index.of, compilations.found)
IInv == TypeOK /\ Running /\ Replaced

\* What a run opens is in order.
LEMMA OpenedOK == ASSUME NEW in, IsInput(in) PROVE InputOK(in)
<1> PICK archives \in Given : in = Input(archives)
  BY DEF IsInput
<1>1. IsDataset(archives)
  BY ExportDatasets DEF IsDataset, Given
<1> QED BY <1>1, InputsOK

\* A dataset has a number of records.
LEMMA LengthOK == ASSUME NEW in, InputOK(in) PROVE Len(in.records) \in Nat
BY DEF InputOK

\* The invariant holds at first.
LEMMA InitIInv == Init => IInv
<1> SUFFICES ASSUME Init PROVE IInv
  OBVIOUS
<1>1. dataset \in Given /\ IsInput(input) /\ options \in Options /\ index.of = input
  BY DEF Init, Given, IsInput
<1>2. Len(input.records) \in Nat
  BY <1>1, OpenedOK, LengthOK
<1>3. TypeOK
  BY <1>1, <1>2 DEF Init, TypeOK, NoOutput
<1>4. Running
  BY DEF Init, Running
<1>5. Replaced
  BY DEF Init, Replaced
<1> QED BY <1>3, <1>4, <1>5 DEF IInv

\* What is published stays as it is in most steps.
LEMMA ReplacedStays ==
  ASSUME IInv, options' = options, UNCHANGED outputs
  PROVE  Replaced'
BY DEF IInv, Replaced, outputs, Published, Noted, Compiled

\* Every step keeps the invariant, action by action.
LEMMA NextIInv == IInv /\ [Next]_vars => IInv'
<1> SUFFICES ASSUME IInv, [Next]_vars PROVE IInv'
  OBVIOUS
<1> USE DEF IInv
<1>1. InputOK(input) /\ Len(input.records) \in Nat
  BY OpenedOK, LengthOK DEF TypeOK
<1>2. CASE Remerge
  <2>1. TypeOK'
    BY <1>2 DEF Remerge, TypeOK, Given, IsInput
  <2>2. Running'
    BY <1>2 DEF Remerge, Running
  <2>3. Replaced'
    BY <1>2, ReplacedStays DEF Remerge, outputs
  <2> QED BY <2>1, <2>2, <2>3
<1>3. CASE Begin
  <2>1. IsInput(input') /\ InputOK(input') /\ input'.archives = dataset
    <3>1. dataset \in Given /\ input' = Input(dataset)
      BY <1>3 DEF Begin, TypeOK
    <3>2. IsDataset(dataset)
      BY <3>1, ExportDatasets DEF IsDataset, Given
    <3> QED BY <3>1, <3>2, InputsOK DEF IsInput
  <2>2. Len(input'.records) \in Nat
    BY <2>1, LengthOK
  <2>3. TypeOK'
    BY <1>3, <2>1, <2>2 DEF Begin, TypeOK, outputs, IsInput
  <2>4. Wrote(options, input', NewWriter, 0)
    BY <1>3, <2>1, NothingWritten DEF Begin, TypeOK
  <2>5. index'.run < run' /\ run' > 0
    BY <1>3 DEF Begin, TypeOK, outputs
  <2>6. Running'
    BY <1>3, <2>4, <2>5 DEF Begin, Running
  <2>7. Replaced'
    BY <1>3, ReplacedStays DEF Begin
  <2> QED BY <2>3, <2>6, <2>7
<1>4. CASE WriteRecord
  <2>1. read \in 0..(Len(input.records) - 1) /\ read + 1 \in 0..Len(input.records)
    BY <1>1, <1>4 DEF WriteRecord, TypeOK
  <2>2. TypeOK'
    BY <1>4, <2>1 DEF WriteRecord, TypeOK, outputs, IsInput
  <2>3. Wrote(options, input, writer', read + 1)
    <3>1. Additional = AdditionalOf(options, input) /\ Compiling \in BOOLEAN
      BY DEF Additional, AdditionalOf, Compiling
    <3>2. Written(input.records[read + 1]) =
            WrittenBy(options, input, writer, input.records[read + 1], AdditionalOf(options, input), Compiling)
      BY <3>1 DEF Written, WrittenBy
    <3>3. Wrote(options, input, writer, read) /\ options \in Options
      BY <1>4 DEF WriteRecord, Running, TypeOK
    <3>4. Wrote(options, input, WrittenBy(options, input, writer, input.records[read + 1],
                                          AdditionalOf(options, input), Compiling), read + 1)
      BY <1>1, <2>1, <3>1, <3>3, WroteNext
    <3> QED BY <1>4, <3>2, <3>4 DEF WriteRecord
  <2>4. Running'
    BY <1>4, <2>3 DEF WriteRecord, Running, outputs
  <2>5. Replaced'
    BY <1>4, ReplacedStays DEF WriteRecord
  <2> QED BY <2>2, <2>4, <2>5
<1>5. CASE Finish
  <2>1. TypeOK'
    BY <1>5 DEF Finish, TypeOK, outputs, IsInput
  <2>2. Finished(options, input, writer')
    <3>1. Wrote(options, input, writer, Len(input.records)) /\ options \in Options
      BY <1>5 DEF Finish, Running, TypeOK
    <3>2. Finished(options, input,
                   IF options.tool = "mhl" THEN FinishedActive(input.archives, writer) ELSE writer)
      BY <1>1, <3>1, WroteAll
    <3> QED BY <1>5, <3>2 DEF Finish
  <2>3. Running'
    BY <1>5, <2>2 DEF Finish, Running, outputs
  <2>4. Replaced'
    BY <1>5, ReplacedStays DEF Finish
  <2> QED BY <2>1, <2>3, <2>4
<1>6. CASE ReplaceIndex
  <2>1. /\ pc = "index" /\ pc' \in {"notes", "idle"} /\ (pc' = "notes" => Additional)
        /\ dataset' = dataset /\ input' = input /\ options' = options /\ read' = read /\ writer' = writer /\ run' = run
        /\ index'.run = run /\ index'.of = input /\ index'.parts = writer.inp
        /\ notes' = notes /\ compilations' = compilations
    BY <1>6 DEF ReplaceIndex, Replace
  <2>2. index.run < run /\ Finished(options, input, writer)
    BY <2>1 DEF Running
  <2>3. notes.run < run /\ compilations.run < run /\ run > 0
    BY <2>2 DEF TypeOK
  <2>4. TypeOK'
    BY <2>1, <2>3 DEF TypeOK, IsInput
  <2>5. Running'
    BY <2>1, <2>2 DEF Running, Additional
  <2>6. Replaced'
    BY <2>1, <2>2, <2>3 DEF Replaced, Finished, TypeOK
  <2> QED BY <2>4, <2>5, <2>6
<1>7. CASE ReplaceNotes
  <2>1. /\ pc = "notes" /\ pc' \in {"compilations", "idle"}
        /\ dataset' = dataset /\ input' = input /\ options' = options /\ read' = read /\ writer' = writer /\ run' = run
        /\ notes'.run = run /\ notes'.parts = writer.notes /\ index' = index /\ compilations' = compilations
    BY <1>7 DEF ReplaceNotes, Replace
  <2>2. Additional /\ index.run = run /\ index.of = input /\ Finished(options, input, writer)
    BY <2>1 DEF Running
  <2>3. TypeOK'
    BY <2>1, <2>2 DEF TypeOK, IsInput
  <2>4. Running'
    BY <2>1, <2>2 DEF Running, Additional
  <2>5. Noted(options, input.records, writer.notes, Len(input.records))
    BY <2>2 DEF Finished, Additional, AdditionalOf
  <2>6. Replaced'
    BY <2>1, <2>2, <2>5 DEF Replaced
  <2> QED BY <2>3, <2>4, <2>6
<1>8. CASE ReplaceCompilations
  <2> DEFINE found == CompilationsOf(writer.books)
  <2>1. /\ pc = "compilations" /\ pc' = "idle"
        /\ dataset' = dataset /\ input' = input /\ options' = options /\ read' = read /\ writer' = writer /\ run' = run
        /\ index' = index /\ notes' = notes
        /\ \/ compilations' = compilations
           \/ compilations' = [run |-> run, found |-> found]
    BY <1>8 DEF ReplaceCompilations, Replace
  <2>2. Additional /\ index.run = run /\ index.of = input /\ Finished(options, input, writer) /\ run > 0
    BY <2>1 DEF Running
  <2>3. Compiled(options, input, found)
    BY <1>1, <2>2, BooksCompiled DEF Finished, Additional, AdditionalOf
  <2> HIDE DEF found
  <2>4. CASE compilations' = compilations
    <3>1. TypeOK'
      BY <2>1, <2>4 DEF TypeOK, IsInput
    <3>2. Running'
      BY <2>1 DEF Running
    <3>3. Replaced'
      BY <2>1, <2>4, ReplacedStays DEF outputs
    <3> QED BY <3>1, <3>2, <3>3
  <2>5. CASE compilations' = [run |-> run, found |-> found]
    <3>1. compilations'.run = run /\ compilations'.found = found
      BY <2>5
    <3>2. TypeOK'
      BY <2>1, <2>2, <3>1 DEF TypeOK, IsInput
    <3>3. Running'
      BY <2>1 DEF Running
    <3>4. compilations'.run = 0 => index'.run = 0
      BY <2>1, <2>2, <3>1
    <3>5. Replaced'
      BY <2>1, <2>2, <2>3, <3>1 DEF Replaced
    <3> QED BY <3>2, <3>3, <3>5
  <2> QED BY <2>1, <2>4, <2>5
<1>9. CASE Stop
  <2>1. TypeOK'
    BY <1>9 DEF Stop, TypeOK, outputs, IsInput
  <2>2. Running'
    BY <1>9 DEF Stop, Running, outputs
  <2>3. Replaced'
    BY <1>9, ReplacedStays DEF Stop
  <2> QED BY <2>1, <2>2, <2>3
<1>10. CASE UNCHANGED vars
  <2>1. TypeOK'
    BY <1>10 DEF vars, TypeOK, IsInput
  <2>2. Running'
    BY <1>10 DEF vars, Running, Additional
  <2>3. Replaced'
    BY <1>10, ReplacedStays DEF vars, outputs
  <2> QED BY <2>1, <2>2, <2>3
<1> QED BY <1>2, <1>3, <1>4, <1>5, <1>6, <1>7, <1>8, <1>9, <1>10 DEF Next

-----------------------------------------------------------------------------
(* The properties *)

\* The inductive invariant of the INPX commands: what a writer has written after n records, what a run
\* that goes on relies on, and what the published outputs hold, each of its own run.
THEOREM ExportInvariance == Spec => []IInv
<1>1. Init => IInv
  BY InitIInv
<1>2. IInv /\ [Next]_vars => IInv'
  BY NextIInv
<1> QED BY <1>1, <1>2, PTL DEF Spec

\* A record is listed if it is asked for, with what is asked.
LEMMA LinesOfIs ==
  ASSUME NEW T, NEW part \in PartSet(T), NEW r
  PROVE  LinesOf(r, part) = Keep(part.lines, OfRecord(T, r)) /\ part.lines \in Seq(T)
<1> DEFINE lines == part.lines
           S == {l \in Range(lines) : IsLineOf(l, r)}
<1>1. lines \in Seq(T)
  BY DEF PartSet
<1>2. LinesOf(r, part) = Keep(lines, S)
  BY DEF LinesOf
<1>3. \A k \in 1..Len(lines) : lines[k] \in S <=> lines[k] \in OfRecord(T, r)
  BY <1>1 DEF OfRecord, Range
<1> HIDE DEF lines, S
<1>4. Keep(lines, S) = Keep(lines, OfRecord(T, r))
  BY <1>1, <1>3, KeepSame
<1> QED BY <1>1, <1>2, <1>4 DEF lines

\* The parts of the INPX that hold a record.
LEMMA PublishedLines ==
  ASSUME Published(options, index.of, index.parts), InputOK(index.of), NEW r \in Range(index.of.records)
  PROVE  /\ Asked(r) = <<>> => PartsWith(r) = {}
         /\ Asked(r) # <<>> => \E p \in DOMAIN index.parts :
              PartsWith(r) = {p} /\ Titles(LinesOf(r, index.parts[p])) = Asked(r)
<1> DEFINE parts == index.parts
           records == index.of.records
           T == LineSet(options, records)
           asked == AskedBy(options, r)
<1>1. Asked(r) = asked
  BY DEF Asked, AskedBy
<1>2. parts \in Seq(PartSet(T)) /\ Covered(T, options, records, parts, Len(records))
  BY DEF Published
<1> HIDE DEF T
<1>3. \A p \in DOMAIN parts : LinesOf(r, parts[p]) = Entries(T, r, parts, p)
  <2> TAKE p \in DOMAIN parts
  <2>1. parts[p] \in PartSet(T)
    BY <1>2
  <2> HIDE DEF parts
  <2> QED BY <2>1, LinesOfIs DEF Entries
<1>4. PartsWith(r) = {p \in DOMAIN parts : Entries(T, r, parts, p) # <<>>}
  BY <1>3 DEF PartsWith
<1> PICK k \in DOMAIN records : r = records[k]
  BY DEF Range
<1>5. k <= Len(records)
  BY DEF InputOK
<1> HIDE DEF parts, records, asked
<1>6. IF asked # <<>> THEN ListedAs(T, r, parts, asked) ELSE Unlisted(T, r, parts)
  BY <1>2, <1>5 DEF Covered, asked
<1>7. CASE asked = <<>>
  BY <1>1, <1>4, <1>6, <1>7 DEF Unlisted
<1>8. CASE asked # <<>>
  <2> PICK p \in DOMAIN parts : /\ Titles(Entries(T, r, parts, p)) = asked
                                /\ \A q \in DOMAIN parts : q # p => Entries(T, r, parts, q) = <<>>
    BY <1>6, <1>8 DEF ListedAs
  <2>1. Entries(T, r, parts, p) # <<>>
    <3>1. Titles(<<>>) = <<>>
      BY DEF Titles
    <3> QED BY <1>8, <3>1
  <2>2. PartsWith(r) = {p}
    BY <1>4, <2>1
  <2> QED BY <1>1, <1>3, <1>8, <2>2 DEF parts
<1> QED BY <1>7, <1>8

\* A published INPX has lines of exactly the records that are asked for; without one nothing is listed.
LEMMA Listing ==
  ASSUME IInv, NEW r \in Range(index.of.records)
  PROVE  /\ index.run > 0 => Published(options, index.of, index.parts) /\ InputOK(index.of)
         /\ index.run > 0 => (PartsWith(r) # {} <=> AskedBy(options, r) # <<>>)
         /\ index.run = 0 => PartsWith(r) = {}
<1>1. InputOK(index.of)
  BY OpenedOK DEF IInv, TypeOK
<1>2. Asked(r) = AskedBy(options, r)
  BY DEF Asked, AskedBy
<1>3. index.run > 0 => Published(options, index.of, index.parts)
  BY DEF IInv, Replaced
<1>4. index.run > 0 => (PartsWith(r) # {} <=> AskedBy(options, r) # <<>>)
  BY <1>1, <1>2, <1>3, PublishedLines
<1>5. index.run = 0 => PartsWith(r) = {}
  <2>1. DOMAIN <<>> = {}
    OBVIOUS
  <2> QED BY <2>1 DEF IInv, Replaced, PartsWith
<1> QED BY <1>1, <1>3, <1>4, <1>5

\* EntriesTold, for any archives and scopes: no entry is lost, listed twice or a volume of two roots
\* (archiveEntries, coalesceNestedVolumes).
THEOREM EntriesAreTold == Spec => []EntriesTold
<1>1. IInv => EntriesTold
  <2> SUFFICES ASSUME IInv, NEW a \in DOMAIN input.archives, NEW i \in EntriesOf(a) \ AstrayIn(a) PROVE Told(a, i)
    BY DEF EntriesTold
  <2> PICK archives \in Given : input = Input(archives)
    BY DEF IInv, TypeOK, IsInput
  <2>1. IsDataset(archives)
    BY ExportDatasets DEF IsDataset, Given
  <2>2. input.archives = archives /\ Range(input.records) = RecordSet(archives)
    BY <2>1, InputsOK DEF InputOK
  <2>3. ToldOnce(archives, a, i)
    BY <2>1, <2>2, EntriesOnce DEF EntriesOf, AstrayIn
  <2> QED BY <2>2, <2>3 DEF Told, ToldOnce
<1> QED BY <1>1, ExportInvariance, PTL

\* RecordsListed, for any datasets, options and number of runs and stops: the three commands list every
\* record they are asked for once, completely, in one part, and nothing else.
THEOREM RecordsAreListed == Spec => []RecordsListed
<1>1. IInv => RecordsListed
  <2> SUFFICES ASSUME IInv, index.run > 0, NEW r \in Range(index.of.records)
               PROVE  /\ Asked(r) = <<>> => PartsWith(r) = {}
                      /\ Asked(r) # <<>> => \E p \in DOMAIN index.parts :
                           LET lines == LinesOf(r, index.parts[p])
                           IN  PartsWith(r) = {p} /\ [k \in DOMAIN lines |-> lines[k].series] = Asked(r)
    BY DEF RecordsListed
  <2>1. Published(options, index.of, index.parts) /\ InputOK(index.of)
    BY Listing
  <2> QED BY <2>1, PublishedLines DEF Titles
<1> QED BY <1>1, ExportInvariance, PTL

\* BooksListed, for any archives, catalogue, options and number of runs and stops: from an archive to
\* the INPX no book is lost or listed twice.
THEOREM BooksAreListed == Spec => []BooksListed
BY EntriesAreTold, RecordsAreListed, PTL DEF BooksListed

\* LinesAligned, for archives of any length: every .inp of mhl-inpx has its lines where MyHomeLib
\* looks for them.
THEOREM LinesAreAligned == Spec => []LinesAligned
<1>1. IInv => LinesAligned
  <2> SUFFICES ASSUME IInv, options.tool = "mhl", NEW p \in DOMAIN index.parts, index.parts[p].of # Online
               PROVE  [k \in DOMAIN index.parts[p].lines |-> index.parts[p].lines[k].index] =
                        Keep(Positions(index.of.archives[index.parts[p].of].files),
                             {k \in DOMAIN index.of.archives[index.parts[p].of].files :
                                ~InventoryIgnores(index.of.archives[index.parts[p].of].files, k)})
    BY DEF LinesAligned
  <2> DEFINE part == index.parts[p]
             files == index.of.archives[part.of].files
  <2>1. index.run > 0
    <3>1. DOMAIN <<>> = {}
      OBVIOUS
    <3> QED BY <3>1 DEF IInv, TypeOK, Replaced
  <2>2. Complete(index.of.archives, part)
    BY <2>1 DEF IInv, Replaced, Published
  <2>3. part.of \in DOMAIN index.of.archives /\ Indexes(part.lines) = Places(files, Len(files))
    BY <2>2 DEF Complete
  <2>4. files \in Seq(DOMAIN File)
    <3>1. InputOK(index.of)
      BY OpenedOK DEF IInv, TypeOK
    <3> QED BY <2>3, <3>1 DEF InputOK, IsDataset
  <2> HIDE DEF files, part
  <2>5. Places(files, Len(files)) = Keep(Positions(files), WithLine(files))
    BY <2>4, PlacesEnd
  <2>6. Indexes(part.lines) = Keep(Positions(files), WithLine(files))
    BY <2>3, <2>5
  <2> QED BY <2>6 DEF Indexes, WithLine, part, files
<1> QED BY <1>1, ExportInvariance, PTL

\* The line of a record shows the authors of the record.
LEMMA LineShows ==
  ASSUME IInv, NEW r \in Range(index.of.records), PartsWith(r) # {}
  PROVE  AnyLine(r).authors = Authors(r, options.preference, options.content)
<1> DEFINE parts == index.parts
           records == index.of.records
           T == LineSet(options, records)
           p == CHOOSE q \in PartsWith(r) : TRUE
           lines == LinesOf(r, parts[p])
<1>1. /\ index.run > 0 \/ index.run = 0
      /\ index.run > 0 => Published(options, index.of, parts) /\ InputOK(index.of)
      /\ index.run = 0 => PartsWith(r) = {}
  BY Listing DEF IInv, TypeOK
<1>2. parts \in Seq(PartSet(T)) /\ Distinct(records)
  BY <1>1 DEF Published, InputOK
<1>3. p \in PartsWith(r)
  OBVIOUS
<1> HIDE DEF p
<1>4. p \in DOMAIN parts /\ lines # <<>>
  BY <1>3 DEF PartsWith
<1> HIDE DEF T
<1>5. parts[p] \in PartSet(T)
  BY <1>2, <1>4
<1>6. lines = Keep(parts[p].lines, OfRecord(T, r)) /\ parts[p].lines \in Seq(T)
  <2> HIDE DEF parts
  <2> QED BY <1>5, LinesOfIs
<1> HIDE DEF lines, parts
<1>7. lines \in Seq(T) /\ Range(lines) = Range(parts[p].lines) \cap OfRecord(T, r)
  BY <1>6, KeepRange
<1> DEFINE l == lines[1]
<1>8. l \in Range(lines)
  <2>1. 1 \in DOMAIN lines
    BY <1>4, <1>7
  <2> QED BY <2>1 DEF Range
<1> HIDE DEF l
<1>9. l \in T /\ IsLineOf(l, r)
  BY <1>7, <1>8 DEF OfRecord
<1>10. l \notin DummyLines
  BY <1>9 DEF IsLineOf, DummyLines
<1> PICK q \in Range(records) : l \in BookLines(options, q)
  BY <1>9, <1>10 DEF T, LineSet
<1> PICK s : l = Line(q, s, options)
  BY DEF BookLines
<1>11. l.archive = q.archive /\ l.index = q.index /\ l.authors = Authors(q, options.preference, options.content)
  BY LineFields
<1>12. q.archive = r.archive /\ q.index = r.index
  BY <1>9, <1>11 DEF IsLineOf
<1>13. q = r
  <2> HIDE DEF T
  <2> PICK j \in DOMAIN records : q = records[j]
    BY DEF Range
  <2> PICK k \in DOMAIN records : r = records[k]
    BY DEF Range
  <2> HIDE DEF records
  <2> QED BY <1>2, <1>12 DEF Distinct
<1>14. AnyLine(r) = l
  BY DEF AnyLine, l, lines, parts, p
<1> QED BY <1>11, <1>13, <1>14

\* Who is judged contributes to what the INPX is of.
LEMMA JudgedContribute ==
  ASSUME IInv, NEW r \in Range(index.of.records), Judged(r), NEW k \in DOMAIN Book[r.book].authors
  PROVE  /\ Book[r.book].authors[k] \in Contributors(options.content)
         /\ AnyLine(r).authors[k] = Displayed(Book[r.book].authors[k], options.content)
<1> DEFINE content == options.content
           authors == Book[r.book].authors
<1>1. InDatabase(r) /\ ~FileAuthors(r, options.preference) /\ PartsWith(r) # {}
      /\ (r.archive # Online => (IsFB2(r.name) <=> Typed(r.book, "fb2")))
  BY DEF Judged
<1>2. /\ index.run > 0 \/ index.run = 0
      /\ index.run > 0 => (PartsWith(r) # {} <=> AskedBy(options, r) # <<>>)
      /\ index.run > 0 => InputOK(index.of)
      /\ index.run = 0 => PartsWith(r) = {}
  BY Listing DEF IInv, TypeOK
<1>3. MatchesContent(r, content)
  BY <1>1, <1>2 DEF AskedBy
<1>4. content \in {"fb2", "usr", "all"}
  BY OptionTypes DEF IInv, TypeOK
<1>5. Typed(r.book, content)
  BY <1>1, <1>3, <1>4 DEF MatchesContent, Typed
<1>6. r.book \in DOMAIN Book
  <2>1. InputOK(index.of)
    BY <1>1, <1>2
  <2> PICK j \in DOMAIN index.of.records : r = index.of.records[j]
    BY DEF Range
  <2>2. RecordOK(index.of.archives, r)
    BY <2>1 DEF InputOK
  <2> QED BY <1>1, <2>2 DEF RecordOK, InDatabase
<1>7. authors[k] \in Range(authors)
  BY DEF Range
<1>8. authors[k] \in Contributors(content)
  BY <1>5, <1>6, <1>7 DEF Contributors
<1>9. AnyLine(r).authors = Authors(r, options.preference, content)
  BY <1>1, LineShows
<1>10. Authors(r, options.preference, content) = [j \in DOMAIN authors |-> Displayed(authors[j], content)]
  BY <1>1 DEF Authors
<1> HIDE DEF authors
<1>11. AnyLine(r).authors[k] = Displayed(authors[k], content)
  BY <1>9, <1>10 DEF authors
<1> QED BY <1>8, <1>11 DEF authors

\* AuthorsToldApart, for any persons and books: whom an INPX tells apart nobody can confuse.
THEOREM AuthorsDiffer == Spec => []AuthorsToldApart
<1>1. IInv => AuthorsToldApart
  <2> SUFFICES ASSUME IInv,
                      NEW r \in Range(index.of.records), Judged(r), NEW q \in Range(index.of.records), Judged(q),
                      NEW x \in Shown(r), NEW y \in Shown(q), x[1] # y[1]
               PROVE  x[2] # y[2]
    BY DEF AuthorsToldApart
  <2> PICK j \in DOMAIN Book[r.book].authors : x = <<Book[r.book].authors[j], AnyLine(r).authors[j]>>
    BY DEF Shown
  <2> PICK k \in DOMAIN Book[q.book].authors : y = <<Book[q.book].authors[k], AnyLine(q).authors[k]>>
    BY DEF Shown
  <2>1. x[1] \in Contributors(options.content) /\ x[2] = Displayed(x[1], options.content)
    BY JudgedContribute
  <2>2. y[1] \in Contributors(options.content) /\ y[2] = Displayed(y[1], options.content)
    BY JudgedContribute
  <2> QED BY <2>1, <2>2, DisplayedDiffer
<1> QED BY <1>1, ExportInvariance, PTL

\* The first elements up to the length are the sequence.
LEMMA PrefixAll ==
  ASSUME NEW T, NEW s \in Seq(T)
  PROVE  Prefix(s, Len(s)) = s
BY DEF Prefix

\* The annotations of a folder are those of the listed books of its archive, in their order.
LEMMA NotesAgree ==
  ASSUME IInv, notes.run = index.run, index.run > 0, NEW a \in DOMAIN index.of.archives
  PROVE  NamesNoted(a) = [k \in DOMAIN ToBeNoted(a) |-> ToBeNoted(a)[k].name]
<1> DEFINE records == index.of.records
           S == {r \in Range(records) : r.archive = a /\ Annotated(r) /\ PartsWith(r) # {}}
<1>1. Noted(options, records, notes.parts, Len(records))
  BY DEF IInv, Replaced
<1>2. InputOK(index.of)
  BY OpenedOK DEF IInv, TypeOK
<1>3. records \in Seq(RecordSet(index.of.archives)) /\ a \in Nat
  BY <1>2 DEF InputOK, IsDataset
<1>4. S = NotedOf(options, records, a)
  BY Listing DEF NotedOf
<1>5. ToBeNoted(a) = Keep(records, S)
  BY DEF ToBeNoted
<1>6. NamesNoted(a) = LinesUnder(notes.parts, a)
  BY DEF NamesNoted, LinesUnder
<1> HIDE DEF S, records
<1>7. NamesNoted(a) = NamesOf(Keep(Prefix(records, Len(records)), NotedOf(options, records, a)))
  BY <1>1, <1>3, <1>6 DEF Noted, NamesToNote
<1>8. Prefix(records, Len(records)) = records
  BY <1>3, PrefixAll
<1> QED BY <1>4, <1>5, <1>7, <1>8 DEF NamesOf

\* OutputsAgree, for any runs and stops: annotations and compilations beside an INPX of the same run
\* are those of the books it lists.
THEOREM OutputsAreOfOneRun == Spec => []OutputsAgree
<1>1. IInv => OutputsAgree
  <2> SUFFICES ASSUME IInv PROVE OutputsAgree
    OBVIOUS
  <2>1. notes.run <= index.run /\ compilations.run <= index.run /\ (index.run > 0 \/ index.run = 0)
    BY DEF IInv, TypeOK
  <2>2. ASSUME notes.run = index.run, index.run > 0
        PROVE  \A p, q \in DOMAIN notes.parts : notes.parts[p].of = notes.parts[q].of => p = q
    BY <2>2 DEF IInv, Replaced, Noted, Unique
  <2>3. ASSUME notes.run = index.run, index.run > 0, NEW a \in DOMAIN index.of.archives
        PROVE  LET noted == ToBeNoted(a) IN NamesNoted(a) = [k \in DOMAIN noted |-> noted[k].name]
    BY <2>3, NotesAgree
  <2>4. ASSUME index.run > 0, NEW archive, NEW name, InBooks(options, index.of, archive, name)
        PROVE  InIndex(archive, name)
    <3> PICK r \in Range(index.of.records) : AskedBy(options, r) # <<>> /\ r.archive = archive /\ r.name = name
      BY <2>4 DEF InBooks
    <3>1. PartsWith(r) # {}
      BY <2>4, Listing
    <3> QED BY <3>1 DEF InIndex
  <2>5. ASSUME compilations.run = index.run, NEW c \in compilations.found
        PROVE  InIndex(c.archive, c.name) /\ \A q \in c.parts : InIndex(q.archive, q.name)
    <3>1. index.run > 0
      BY <2>1, <2>5 DEF IInv, Replaced
    <3>2. Compiled(options, index.of, compilations.found)
      BY <2>5, <3>1 DEF IInv, Replaced
    <3>3. InBooks(options, index.of, c.archive, c.name) /\ \A q \in c.parts : InBooks(options, index.of, q.archive, q.name)
      BY <2>5, <3>2 DEF Compiled
    <3> QED BY <2>4, <3>1, <3>3
  <2> QED BY <2>1, <2>2, <2>3, <2>5 DEF OutputsAgree
<1> QED BY <1>1, ExportInvariance, PTL

=============================================================================
