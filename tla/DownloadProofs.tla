--------------------------- MODULE DownloadProofs ---------------------------
(* Theorems about Download, for any versions of the file, any servers, and any
   number of attempts, failures and interrupted runs.  The invariant says of which
   version the bytes are that the sidecar, or the run, takes for the beginning of
   the file; the server may have moved on to another version meanwhile. *)
EXTENDS Download, TLAPS

-----------------------------------------------------------------------------
(* The inductive invariant. *)

\* The bytes are the first ones of a version.
Begins(bytes, v) == Len(bytes) <= Length[v] /\ \A i \in 1..Len(bytes) : bytes[i] = v

\* What came of a version: its first bytes, or all where the server announces lengths.
Got(bytes, v) == Begins(bytes, v) /\ (server.sized => bytes = Whole(v))

\* Validators are sent by servers that send them; a server is known not to do ranges
\* only after a range was asked of it.
Origin(state) == state.validator # NoValidator \/ state.noRanges => server.tagged
Origins ==
  /\ Origin(st) /\ Origin(meta) /\ Origin(aside.meta)
  /\ st.noRanges => continue

\* What a sidecar says of its partial file.
Describes(state, bytes) ==
  /\ state.validator # NoValidator /\ bytes # NoPart => Begins(bytes, state.validator)
  /\ state.complete => state.total >= 0 /\ (server.sized => state.total > 0)
  /\ state.complete /\ bytes # NoPart /\ Len(bytes) = state.total =>
       \E v \in Versions : Got(bytes, v) /\ (state.validator # NoValidator => state.validator = v)

\* It is true at every step of a run and between runs, also of files that are put aside.
SidecarSound == Describes(meta, part) /\ Describes(aside.meta, aside.part)

\* What an attempt is going to ask for continues the bytes that are there.
RequestSound ==
  pc = "request" =>
    /\ ~st.complete
    /\ st.validator # NoValidator =>
         /\ Begins(part, st.validator) /\ (st.total >= 0 => Len(part) <= st.total)
         /\ continue /\ ~st.noRanges => start = Len(part)

\* The bytes that come and the bytes that are there are of one version, whose length the
\* total is, if there is one.
BodySound ==
  pc \in {"describe", "copy"} =>
    /\ ~st.complete /\ start <= Len(part) /\ (server.tagged => st.validator # NoValidator)
    /\ \E v \in Versions :
         /\ Begins(part, v) /\ (\A i \in 1..Len(body) : body[i] = v)
         /\ Len(part) + Len(body) <= Length[v]
         /\ st.validator # NoValidator => st.validator = v
         /\ st.total >= 0 => st.total = Length[v]
    /\ server.sized => st.total >= 0

\* The published file is one sound version.
PublishedSound ==
  dest # <<>> => \E v \in Versions : Damage[v] = "none" /\ dest = Whole(v)

\* A server that is known not to do ranges is known by the sidecar of the fixed name, and
\* by the run that uses it.
RefusalKept ==
  refused =>
    /\ Usable /\ Named.meta.noRanges
    /\ continue =>
         /\ pc \in {"request", "describe", "copy", "process", "remove"} => st.noRanges
         /\ pc # "removeMeta" /\ (pc = "request" => ~meta.complete)

\* The bytes are of versions offered by now; they are none older than what is published.
Offered(bytes) == \A i \in 1..Len(bytes) : bytes[i] <= served
NotOlder(bytes) == \A i \in 1..Len(bytes) : Delivered <= bytes[i]

\* A run without --continue never has bytes older than what is published, and one with
\* it has none while they come; what it found may be older, if runs without the flag
\* published in between.
InOrder ==
  /\ Delivered \in 0..served
  /\ Offered(part) /\ Offered(aside.part)
  /\ pc \in {"describe", "copy"} => Offered(body) /\ NotOlder(body)
  /\ (continue => FALSE \notin Modes) /\ part # NoPart => NotOlder(part)

IInv ==
  /\ TypeOK /\ Origins /\ SidecarSound /\ RequestSound /\ BodySound
  /\ ProcessedWhole /\ PublishedSound /\ RefusalKept /\ InOrder

-----------------------------------------------------------------------------
(* Lemmas on versions and bytes. *)

LEMMA VersionFacts ==
  /\ Versions = 1..Len(Length) /\ Len(Length) \in Nat /\ 1 \in Versions
  /\ \A v \in Versions : Length[v] \in Nat /\ Length[v] > 0 /\ v # NoValidator
<1>1. Length \in Seq(Nat \ {0}) /\ Length # <<>>
  BY LengthAssumption
<1> QED BY <1>1 DEF Versions, NoValidator

\* No bytes are those of a missing file.
LEMMA BytesAreThere ==
  ASSUME NEW bytes \in BytesType, NEW v \in Versions, Begins(bytes, v)
  PROVE  bytes # NoPart
BY VersionFacts DEF NoPart, Begins, NoValidator

LEMMA WholeBytes ==
  ASSUME NEW v \in Versions
  PROVE  /\ Whole(v) \in BytesType /\ Len(Whole(v)) = Length[v] /\ Whole(v) # <<>>
         /\ \A i \in 1..Len(Whole(v)) : Whole(v)[i] = v
<1>1. Length[v] \in Nat /\ Length[v] > 0
  BY VersionFacts
<1>2. Whole(v) \in [1..Length[v] -> Versions \cup {0}]
  BY DEF Whole
<1>3. Whole(v) \in BytesType /\ Len(Whole(v)) = Length[v]
  BY <1>1, <1>2 DEF BytesType
<1>4. Whole(v) # <<>>
  BY <1>1, <1>3
<1> QED BY <1>1, <1>3, <1>4 DEF Whole

\* As many bytes as a version has, all of it, are the version.
LEMMA AllBytesAreWhole ==
  ASSUME NEW bytes \in BytesType, NEW v \in Versions, Begins(bytes, v),
         Len(bytes) = Length[v]
  PROVE  bytes = Whole(v)
<1>1. /\ bytes \in [1..Len(bytes) -> Versions \cup {0}]
      /\ Len(bytes) \in Nat
  BY DEF BytesType
<1> QED BY <1>1 DEF Begins, Whole

\* The next byte of a version is added to the first ones.
LEMMA AppendBegins ==
  ASSUME NEW bytes \in BytesType, NEW more \in BytesType, NEW v \in Versions, Begins(bytes, v),
         more # <<>>, \A i \in 1..Len(more) : more[i] = v,
         Len(bytes) + Len(more) <= Length[v]
  PROVE  /\ Append(bytes, Head(more)) \in BytesType /\ Tail(more) \in BytesType
         /\ Begins(Append(bytes, Head(more)), v)
         /\ Len(Append(bytes, Head(more))) = Len(bytes) + 1
         /\ Len(Append(bytes, Head(more))) + Len(Tail(more)) = Len(bytes) + Len(more)
         /\ \A i \in 1..Len(Tail(more)) : Tail(more)[i] = v
<1>1. Length[v] \in Nat
  BY VersionFacts
<1>2. /\ Len(bytes) \in Nat /\ Len(more) \in Nat /\ Len(more) > 0
      /\ Head(more) = more[1] /\ Head(more) = v
      /\ Tail(more) \in BytesType /\ Len(Tail(more)) = Len(more) - 1
      /\ \A i \in 1..Len(Tail(more)) : Tail(more)[i] = more[i + 1]
  BY DEF BytesType
<1> DEFINE longer == Append(bytes, Head(more))
<1>3. /\ longer \in BytesType /\ Len(longer) = Len(bytes) + 1
      /\ \A i \in 1..Len(longer) : longer[i] = IF i <= Len(bytes) THEN bytes[i] ELSE v
  BY <1>2 DEF BytesType
<1> HIDE DEF longer
<1>4. Begins(longer, v)
  BY <1>1, <1>2, <1>3 DEF Begins
<1> QED BY <1>1, <1>2, <1>3, <1>4 DEF longer

-----------------------------------------------------------------------------
(* Types. *)

LEMMA EmptyBytes == <<>> \in BytesType /\ NoPart \in BytesType /\ Len(NoPart) = 1
  BY DEF BytesType, NoPart

\* The records that are copied between the run and the sidecar.
LEMMA StatesTyped ==
  /\ Fresh \in MetaType /\ NoMeta \in MetaType
  /\ \A state \in MetaType :
       /\ [state EXCEPT !.complete = FALSE, !.validator = NoValidator] \in MetaType
       /\ [state EXCEPT !.noRanges = TRUE] \in MetaType
       /\ [state EXCEPT !.complete = TRUE] \in MetaType
       /\ \A n \in Int : [state EXCEPT !.total = n] \in MetaType
       /\ served \in Versions => Described(state) \in MetaType
<1>1. Fresh \in MetaType /\ NoMeta \in MetaType
  <2>1. Fresh \in MetaType
    BY DEF Fresh, MetaType, NoValidator, Unknown
  <2>2. [Fresh EXCEPT !.total = -2] \in MetaType
    BY <2>1 DEF MetaType
  <2> QED BY <2>1, <2>2 DEF NoMeta
<1>2. ASSUME NEW state \in MetaType, served \in Versions PROVE Described(state) \in MetaType
  <2>1. Tag \in Versions \cup {NoValidator}
    BY <1>2 DEF Tag
  <2>2. (IF server.sized THEN Length[served] ELSE Unknown) \in Int
    BY <1>2, VersionFacts DEF Unknown
  <2>3. (state.noRanges \/ (Offset > 0 /\ Matches(state.validator))) \in BOOLEAN
    OBVIOUS
  <2> QED BY <2>1, <2>2, <2>3 DEF Described, MetaType
<1> QED BY <1>1, <1>2 DEF MetaType, NoValidator

\* The offset of an attempt, and the size of the partial file.
LEMMA NumbersTyped ==
  ASSUME TypeOK PROVE Offset \in Nat /\ PartSize \in Nat /\ Len(part) \in Nat /\ Length[served] \in Nat
BY VersionFacts DEF TypeOK, Offset, PartSize, Size, BytesType

\* The files of the fixed names are those of the run, or put aside.
LEMMA NamedFiles ==
  ASSUME TypeOK
  PROVE  /\ Named \in [part : BytesType, meta : MetaType]
         /\ NoFiles \in [part : BytesType, meta : MetaType]
         /\ Size(Named.part) \in Nat
         /\ Named.part # NoPart => Size(Named.part) = Len(Named.part)
         /\ continue => Named.part = part /\ Named.meta = meta
         /\ ~continue => Named = aside
<1>1. NoFiles \in [part : BytesType, meta : MetaType]
  BY EmptyBytes, StatesTyped DEF NoFiles
<1>2. Named \in [part : BytesType, meta : MetaType]
  BY DEF Named, TypeOK
<1>3. Named.part \in BytesType
  BY <1>2
<1>4. Len(Named.part) \in Nat
  BY <1>3 DEF BytesType
<1> QED BY <1>1, <1>2, <1>4 DEF Named, Size

\* A step preserves the types.
LEMMA TypesStep ==
  ASSUME IInv, [Next]_vars
  PROVE  TypeOK'
<1> USE RetryAssumption, BoundsAssumption DEF TypeOK, serverVars, flagVars
<1>0. TypeOK /\ BodySound /\ Fresh \in MetaType /\ NoMeta \in MetaType /\ <<>> \in BytesType
  BY StatesTyped, EmptyBytes DEF IInv
<1>1. ASSUME NEW size \in Nat, NEW state \in MetaType, Retried(size, state)
      PROVE  /\ pc' \in {"idle", "request"} /\ st' \in MetaType /\ start' \in Nat
             /\ attempt' \in 0..Retry /\ body' \in BytesType
  BY <1>0, <1>1 DEF Retried, EndRun
<1>2. EndRun => /\ pc' = "idle" /\ st' \in MetaType /\ start' \in Nat
                /\ attempt' \in 0..Retry /\ body' \in BytesType
  BY <1>0 DEF EndRun
<1>3. ASSUME Restart
      PROVE  /\ meta' \in MetaType /\ pc' \in {"idle", "request"} /\ st' \in MetaType
             /\ start' \in Nat /\ attempt' \in 0..Retry /\ body' \in BytesType
  BY <1>0, <1>1, <1>3, StatesTyped DEF Restart
<1>4. CASE Open
  <2>1. /\ Named \in [part : BytesType, meta : MetaType]
        /\ NoFiles \in [part : BytesType, meta : MetaType] /\ Size(Named.part) \in Nat
    BY <1>0, NamedFiles
  <2>2. /\ part' \in BytesType /\ meta' \in MetaType /\ st' \in MetaType /\ start' \in Nat
        /\ attempt' \in 0..Retry /\ body' \in BytesType /\ pc' \in {"process", "request"}
        /\ aside' \in [part : BytesType, meta : MetaType] /\ continue' \in Modes
    BY <1>0, <1>4, <2>1 DEF Open
  <2> QED BY <1>0, <1>4, <2>2 DEF Open
<1>5. CASE NoResponse
  BY <1>0, <1>1, <1>5, NumbersTyped DEF NoResponse, diskVars
<1>6. CASE RangeRejected
  BY <1>0, <1>6, StatesTyped DEF RangeRejected, serverVars
<1>7. CASE NothingLeft
  BY <1>0, <1>3, <1>7, StatesTyped DEF NothingLeft, serverVars
<1>8. CASE RangeSent
  <2> PICK end \in (Offset + 1)..Length[served] :
        /\ end < Length[served] => faults < MaxFaults
        /\ faults' = (IF end < Length[served] THEN faults + 1 ELSE faults)
        /\ IF Differs THEN Restart
           ELSE /\ body' = [i \in 1..(end - Offset) |-> served]
                /\ st' = [st EXCEPT !.total = Length[served]] /\ pc' = "describe"
                /\ UNCHANGED <<meta, start, attempt>>
    BY <1>0, <1>8 DEF RangeSent
  <2>1. end \in Nat /\ end - Offset \in Nat /\ Length[served] \in Int
    BY <1>0, NumbersTyped
  <2>2. faults' \in 0..MaxFaults
    BY <1>0, <2>1
  <2>3. CASE Differs
    BY <1>0, <1>3, <1>8, <2>2, <2>3 DEF RangeSent
  <2>4. CASE ~Differs
    <3>1. [i \in 1..(end - Offset) |-> served] \in Seq(Versions \cup {0})
      BY <1>0, <2>1
    <3>2. body' \in BytesType
      BY <2>4, <3>1 DEF BytesType
    <3>3. st' = [st EXCEPT !.total = Length[served]]
      BY <2>4
    <3>4. st' \in MetaType
      BY <1>0, <2>1, <3>3, StatesTyped
    <3> QED BY <1>0, <1>8, <2>2, <2>4, <3>2, <3>4 DEF RangeSent
  <2> QED BY <1>0, <2>3, <2>4
<1>9. CASE WholeSent
  BY <1>0, <1>9, StatesTyped, EmptyBytes, WholeBytes DEF WholeSent, serverVars
<1>10. CASE Describe
  <2>1. PartSize = Len(part) /\ start <= Len(part)
    BY <1>0, <1>10, BytesAreThere DEF Describe, BodySound, PartSize, Size
  <2>2. (refused \/ st.noRanges) \in BOOLEAN
    OBVIOUS
  <2> QED BY <1>0, <1>10, <2>1, <2>2 DEF Describe, runVars, PartSize, Size
<1>11. CASE Copy
  <2>1. \E v \in Versions : Append(part, Head(body)) \in BytesType /\ Tail(body) \in BytesType
    BY <1>0, <1>11, AppendBegins DEF Copy, BodySound
  <2>2. part' \in BytesType /\ body' \in BytesType /\ PartSize' >= start'
    <3>1. PartSize = Len(part) /\ start <= Len(part) /\ start \in Nat
      BY <1>0, <1>11, BytesAreThere DEF Copy, BodySound, PartSize, Size
    <3>2. PICK v \in Versions : /\ Append(part, Head(body)) \in BytesType
                                /\ Begins(Append(part, Head(body)), v)
                                /\ Len(Append(part, Head(body))) = Len(part) + 1
      BY <1>0, <1>11, AppendBegins DEF Copy, BodySound
    <3>3. PartSize' = Len(part)' /\ Len(part)' = Len(part) + 1
      BY <1>0, <1>11, <3>2, BytesAreThere DEF Copy, PartSize, Size
    <3>4. Len(part) \in Nat
      BY <1>0, NumbersTyped
    <3> QED BY <1>0, <1>11, <2>1, <3>1, <3>3, <3>4 DEF Copy
  <2> QED BY <1>0, <1>11, <2>1, <2>2 DEF Copy, serverVars
<1>12. CASE Cut
  BY <1>0, <1>1, <1>12, NumbersTyped DEF Cut, diskVars
<1>13. CASE Short
  BY <1>0, <1>1, <1>13, NumbersTyped DEF Short, serverVars, diskVars
<1>14. CASE Complete
  <2>1. PartSize \in Nat /\ [st EXCEPT !.complete = TRUE, !.total = PartSize] \in MetaType
    <3>1. PartSize \in Nat /\ PartSize \in Int
      BY <1>0, NumbersTyped
    <3>2. st \in MetaType
      BY <1>0
    <3>3. \A n \in Int : [st EXCEPT !.complete = TRUE, !.total = n] \in MetaType
      BY <3>2 DEF MetaType
    <3> QED BY <3>1, <3>3
  <2> QED BY <1>0, <1>14, <2>1 DEF Complete, serverVars
<1>15. CASE Invalid
  BY <1>0, <1>2, <1>15, StatesTyped DEF Invalid, Discarded, serverVars
<1>16. CASE Unreadable
  BY <1>0, <1>2, <1>16 DEF Unreadable, serverVars, diskVars
<1>17. CASE Publish
  BY <1>0, <1>17 DEF Publish, serverVars, runVars
<1>18. CASE RemovePart
  BY <1>0, <1>18, EmptyBytes DEF RemovePart, serverVars, runVars
<1>19. CASE RemoveMeta
  BY <1>0, <1>2, <1>19 DEF RemoveMeta, serverVars
<1>20. CASE Stop
  BY <1>0, <1>2, <1>20 DEF Stop, serverVars, diskVars
<1>21. CASE Replace
  BY <1>0, <1>21 DEF Replace, diskVars, runVars, PartSize, Size
<1>22. CASE UNCHANGED vars
  BY <1>0, <1>22 DEF vars, diskVars, runVars, PartSize, Size
<1>23. CASE Close
  BY <1>0, <1>23, EmptyBytes DEF Close, diskVars, PartSize, Size
<1> QED
  BY <1>4, <1>5, <1>6, <1>7, <1>8, <1>9, <1>10, <1>11, <1>12, <1>13, <1>14, <1>15,
     <1>16, <1>17, <1>18, <1>19, <1>20, <1>21, <1>22, <1>23 DEF Next, Run, Answered

-----------------------------------------------------------------------------
(* Each part of the invariant. *)

\* No step changes the kind of the server, and only the first of a run --continue and
\* the files that are put aside.
LEMMA Constant ==
  ASSUME [Next]_vars
  PROVE  server' = server /\ (~Open => UNCHANGED <<continue, aside>>)
BY DEF Next, Run, Answered, Open, NoResponse, RangeRejected, NothingLeft, RangeSent, WholeSent,
       Describe, Copy, Cut, Close, Short, Complete, Invalid, Unreadable, Publish, RemovePart,
       RemoveMeta, Stop, Replace, serverVars, flagVars, vars

\* The files of the fixed names stay as they are while a run has others.
LEMMA NamedKept ==
  ASSUME TypeOK, [Next]_vars, Open \/ ~continue
  PROVE  Named' = Named /\ Usable' = Usable
<1>1. Named = [part |-> Named.part, meta |-> Named.meta]
  <2>1. Named \in [part : BytesType, meta : MetaType]
    BY NamedFiles
  <2> QED BY <2>1
<1>2. ASSUME Open PROVE Named' = Named
  <2>1. CASE continue'
    <3>1. Named' = [part |-> part', meta |-> meta']
      BY <2>1 DEF Named
    <3> QED BY <1>1, <1>2, <2>1, <3>1 DEF Open
  <2>2. CASE ~continue'
    BY <1>2, <2>2 DEF Open, Named
  <2> QED BY <2>1, <2>2
<1>3. ASSUME ~Open PROVE Named' = Named
  BY <1>3, Constant DEF Named
<1>4. Named' = Named
  BY <1>2, <1>3
<1> QED BY <1>4 DEF Usable

\* A step preserves where validators and refusals come from.
LEMMA OriginsStep ==
  ASSUME IInv, [Next]_vars
  PROVE  Origins'
<1>0. /\ st \in MetaType /\ meta \in MetaType /\ server' = server
      /\ Origin(st) /\ Origin(meta) /\ Origin(aside.meta) /\ (st.noRanges => continue)
  BY Constant DEF IInv, Origins, TypeOK
<1>1. /\ Origin(Fresh) /\ Origin(NoMeta) /\ Origin(NoFiles.meta)
      /\ ~Fresh.noRanges
  BY DEF Origin, Fresh, NoMeta, NoFiles
<1>2. /\ Origin([st EXCEPT !.complete = FALSE, !.validator = NoValidator])
      /\ Origin([st EXCEPT !.complete = TRUE])
      /\ \A n : Origin([st EXCEPT !.total = n])
      /\ \A n : Origin([st EXCEPT !.complete = TRUE, !.total = n])
      /\ Offset > 0 => Origin([st EXCEPT !.noRanges = TRUE])
      /\ Origin(Described(st))
      /\ Described(st).noRanges => continue
  <2>1. Tag # NoValidator => server.tagged
    BY DEF Tag
  <2>2. Offset > 0 => continue /\ st.validator # NoValidator
    BY DEF Offset
  <2>3. Origin(Described(st)) /\ (Described(st).noRanges => continue)
    BY <1>0, <2>1, <2>2 DEF Origin, Described, Matches
  <2> QED BY <1>0, <2>2, <2>3 DEF Origin, MetaType
<1>3. CASE Open
  <2>1. Origin(Named.meta)
    BY <1>0 DEF Named
  <2> QED BY <1>0, <1>1, <1>3, <2>1 DEF Open, Origins, Origin
<1>4. ASSUME ~Open, Origin(st'), Origin(meta'), st'.noRanges => continue
      PROVE  Origins'
  <2>1. UNCHANGED <<continue, aside>>
    BY <1>4, Constant
  <2> QED BY <1>0, <1>4, <2>1 DEF Origins, Origin
<1>5. ASSUME Restart PROVE Origin(st') /\ Origin(meta') /\ (st'.noRanges => continue)
  BY <1>0, <1>1, <1>2, <1>5 DEF Restart, Retried, EndRun, MetaType
<1>6. CASE ~Open
  <2>1. CASE RangeRejected
    <3>1. Offset > 0 /\ st' = [st EXCEPT !.noRanges = TRUE] /\ meta' = st'
      BY <2>1 DEF RangeRejected
    <3>2. continue
      BY <3>1 DEF Offset
    <3> QED BY <1>2, <1>4, <1>6, <3>1, <3>2
  <2>2. CASE NothingLeft
    BY <1>0, <1>2, <1>4, <1>5, <1>6, <2>2 DEF NothingLeft, MetaType
  <2>3. CASE RangeSent
    BY <1>0, <1>2, <1>4, <1>5, <1>6, <2>3 DEF RangeSent, MetaType
  <2>4. CASE WholeSent
    BY <1>0, <1>2, <1>4, <1>6, <2>4 DEF WholeSent
  <2>5. CASE Describe \/ Copy \/ Close \/ Publish \/ RemovePart
    BY <1>0, <1>4, <1>6, <2>5 DEF Describe, Copy, Close, Publish, RemovePart, diskVars, runVars
  <2>6. CASE NoResponse \/ Cut \/ Short
    BY <1>0, <1>1, <1>4, <1>6, <2>6 DEF NoResponse, Cut, Short, Retried, EndRun, diskVars
  <2>7. CASE Complete
    BY <1>0, <1>2, <1>4, <1>6, <2>7 DEF Complete, MetaType
  <2>8. CASE Invalid \/ Unreadable \/ RemoveMeta \/ Stop
    BY <1>0, <1>1, <1>2, <1>4, <1>6, <2>8 DEF Invalid, Unreadable, RemoveMeta, Stop, Discarded,
       EndRun, diskVars
  <2>9. CASE Replace \/ UNCHANGED vars
    BY <1>0, <1>4, <1>6, <2>9 DEF Replace, vars, diskVars, runVars
  <2> QED
    BY <1>6, <2>1, <2>2, <2>3, <2>4, <2>5, <2>6, <2>7, <2>8, <2>9 DEF Next, Run, Answered
<1> QED BY <1>3, <1>6

\* The bytes a run continues are those that are there, when a range is asked for.
LEMMA RangeContinues ==
  ASSUME IInv, pc = "request", Offset > 0
  PROVE  /\ continue /\ server.tagged /\ ~st.noRanges /\ ~refused /\ ~st.complete
         /\ st.validator \in Versions /\ Begins(part, st.validator)
         /\ Offset = Len(part) /\ PartSize = Len(part) /\ part # NoPart
         /\ st.total >= 0 => Len(part) <= st.total
<1>1. continue /\ st.validator # NoValidator /\ ~st.noRanges /\ Offset = start
  BY DEF Offset
<1>2. st.validator \in Versions /\ part \in BytesType
  BY <1>1 DEF IInv, TypeOK, MetaType
<1>3. server.tagged /\ ~refused
  BY <1>1 DEF IInv, Origins, Origin, RefusalKept
<1>4. Begins(part, st.validator) /\ start = Len(part) /\ ~st.complete
      /\ (st.total >= 0 => Len(part) <= st.total)
  BY <1>1 DEF IInv, RequestSound
<1>5. part # NoPart
  BY <1>2, <1>4, BytesAreThere
<1> QED BY <1>1, <1>2, <1>3, <1>4, <1>5 DEF PartSize, Size

\* While bytes come, the partial file is there.
LEMMA BodyContinues ==
  ASSUME IInv, pc \in {"describe", "copy"}
  PROVE  part # NoPart /\ PartSize = Len(part) /\ Len(part) \in Nat /\ Len(body) \in Nat
<1>1. part \in BytesType /\ body \in BytesType /\ \E v \in Versions : Begins(part, v)
  BY DEF IInv, TypeOK, BodySound
<1>2. part # NoPart
  BY <1>1, BytesAreThere
<1> QED BY <1>1, <1>2 DEF PartSize, Size, BytesType

\* A step preserves what an attempt starts from.
LEMMA RequestStep ==
  ASSUME IInv, [Next]_vars
  PROVE  RequestSound'
<1>0. /\ st \in MetaType /\ meta \in MetaType /\ part \in BytesType
      /\ RequestSound /\ BodySound /\ SidecarSound
  BY DEF IInv, TypeOK
<1>1. CASE Open
  <2> SUFFICES ASSUME pc' = "request", st'.validator # NoValidator
               PROVE  /\ ~st'.complete /\ Begins(part', st'.validator)
                      /\ st'.total >= 0 => Len(part') <= st'.total
                      /\ start' = Len(part')
    BY <1>1 DEF Open, RequestSound
  <2>1. Usable /\ st' = Named.meta /\ start' = Size(Named.part) /\ part' = Named.part
    BY <1>1 DEF Open, Fresh
  <2>2. Size(Named.part) = Len(Named.part) /\ Begins(Named.part, Named.meta.validator)
    BY <1>0, <2>1 DEF Usable, Size, Named, SidecarSound, Describes
  <2> QED BY <1>1, <2>1, <2>2 DEF Open, Usable
<1>2. CASE NoResponse
  BY <1>0, <1>2 DEF NoResponse, Retried, EndRun, diskVars, flagVars, RequestSound, Offset
<1>3. CASE RangeRejected
  BY <1>0, <1>3 DEF RangeRejected, flagVars, RequestSound, MetaType
<1>4. ASSUME Restart, continue' = continue PROVE RequestSound'
  BY <1>0, <1>4 DEF Restart, Retried, EndRun, RequestSound, MetaType
<1>5. CASE NothingLeft
  BY <1>4, <1>5 DEF NothingLeft, flagVars, RequestSound
<1>6. CASE RangeSent
  BY <1>4, <1>6 DEF RangeSent, flagVars, RequestSound
<1>7. ASSUME pc \in {"describe", "copy"}, Retried(PartSize, st), UNCHANGED <<continue, part>>
      PROVE  RequestSound'
  <2>1. PartSize = Len(part)
    BY <1>7, BodyContinues
  <2>2. /\ ~st.complete
        /\ st.validator # NoValidator =>
             Begins(part, st.validator) /\ (st.total >= 0 => Len(part) <= st.total)
    BY <1>0, <1>7, VersionFacts DEF BodySound, Begins
  <2> QED BY <1>7, <2>1, <2>2 DEF Retried, EndRun, RequestSound
<1>8. CASE Cut
  BY <1>7, <1>8 DEF Cut, flagVars, diskVars
<1>9. CASE Short
  BY <1>7, <1>9 DEF Short, flagVars, diskVars
<1>10. CASE \/ WholeSent \/ Describe \/ Copy \/ Close \/ Complete \/ Invalid \/ Unreadable
            \/ Publish \/ RemovePart \/ RemoveMeta \/ Stop
  BY <1>10 DEF WholeSent, Describe, Copy, Close, Complete, Invalid, Unreadable, Publish, RemovePart,
     RemoveMeta, Stop, EndRun, RequestSound
<1>11. CASE Replace \/ UNCHANGED vars
  BY <1>0, <1>11 DEF Replace, vars, flagVars, diskVars, runVars, RequestSound
<1> QED
  BY <1>1, <1>2, <1>3, <1>5, <1>6, <1>8, <1>9, <1>10, <1>11 DEF Next, Run, Answered

\* A range that is taken is of the version that the sidecar names.
LEMMA RangeOfSameVersion ==
  ASSUME IInv, pc = "request", Honoured, ~Differs
  PROVE  st.validator = served /\ served \in Versions
<1>1. Offset > 0 /\ server.tagged
  BY RangeContinues DEF Honoured
<1>2. Tag = served /\ Tag # NoValidator /\ served \in Versions
  BY <1>1, VersionFacts DEF Tag, IInv, TypeOK
<1> QED BY <1>2 DEF Differs, Changed, Matches

\* A step preserves which version the bytes are of while they come.
LEMMA BodyStep ==
  ASSUME IInv, [Next]_vars
  PROVE  BodySound'
<1>0. /\ st \in MetaType /\ part \in BytesType /\ body \in BytesType /\ served \in Versions
      /\ start \in Nat /\ BodySound /\ UNCHANGED server
  BY Constant DEF IInv, TypeOK
<1>1. CASE RangeSent
  <2> PICK end \in (Offset + 1)..Length[served] :
        IF Differs THEN Restart
        ELSE /\ body' = [i \in 1..(end - Offset) |-> served]
             /\ st' = [st EXCEPT !.total = Length[served]] /\ pc' = "describe"
             /\ UNCHANGED <<meta, start, attempt>>
    BY <1>1 DEF RangeSent
  <2>1. CASE Differs
    BY <2>1 DEF Restart, Retried, EndRun, BodySound
  <2>2. CASE ~Differs
    <3>1. st.validator = served /\ Offset > 0
      BY <1>1, <2>2, RangeOfSameVersion DEF RangeSent, Honoured
    <3>2. /\ server.tagged /\ ~st.complete /\ Begins(part, served) /\ Offset = Len(part)
          /\ continue /\ ~st.noRanges
      BY <1>1, <3>1, RangeContinues DEF RangeSent
    <3>3. start = Len(part) /\ Len(part) \in Nat /\ Length[served] \in Nat
      BY <1>0, <1>1, <3>1, <3>2, VersionFacts DEF RangeSent, Offset, BytesType
    <3>4. /\ Len(body') = end - Offset /\ \A i \in 1..Len(body') : body'[i] = served
      BY <2>2, <3>2, <3>3
    <3>5. /\ ~st'.complete /\ st'.validator = served /\ st'.total = Length[served]
          /\ start' = Len(part) /\ part' = part /\ served # NoValidator
      BY <1>0, <1>1, <2>2, <3>1, <3>2, <3>3, VersionFacts DEF RangeSent, MetaType
    <3>6. Len(part) + Len(body') <= Length[served]
      BY <3>2, <3>3, <3>4
    <3> QED BY <1>0, <3>2, <3>3, <3>4, <3>5, <3>6 DEF BodySound
  <2> QED BY <2>1, <2>2
<1>2. CASE WholeSent
  <2>1. /\ part' = <<>> /\ body' = Whole(served) /\ st' = Described(st) /\ start' = 0
    BY <1>2 DEF WholeSent
  <2>2. Len(body') = Length[served] /\ \A i \in 1..Len(body') : body'[i] = served
    BY <1>0, <2>1, WholeBytes
  <2>3. /\ ~st'.complete
        /\ st'.validator # NoValidator => st'.validator = served
        /\ server.tagged => st'.validator # NoValidator
        /\ st'.total >= 0 => st'.total = Length[served]
        /\ server.sized => st'.total >= 0
    BY <1>0, <2>1, VersionFacts DEF Described, Tag, Unknown
  <2>4. Begins(part', served) /\ Len(part') = 0 /\ Length[served] \in Nat
    BY <1>0, <2>1, VersionFacts DEF Begins
  <2> QED BY <1>0, <2>1, <2>2, <2>3, <2>4 DEF BodySound
<1>3. CASE Describe
  BY <1>0, <1>3 DEF Describe, serverVars, runVars, BodySound
<1>4. CASE Copy
  <2> PICK v \in Versions :
         /\ Begins(part, v) /\ (\A i \in 1..Len(body) : body[i] = v)
         /\ Len(part) + Len(body) <= Length[v]
         /\ st.validator # NoValidator => st.validator = v
         /\ st.total >= 0 => st.total = Length[v]
    BY <1>0, <1>4 DEF Copy, BodySound
  <2>1. /\ ~st.complete /\ start <= Len(part) /\ (server.tagged => st.validator # NoValidator)
        /\ Len(part) \in Nat /\ (server.sized => st.total >= 0)
    BY <1>0, <1>4 DEF Copy, BodySound, BytesType
  <2>2. /\ part' = Append(part, Head(body)) /\ body' = Tail(body) /\ body # <<>>
        /\ UNCHANGED <<st, start>>
    BY <1>4 DEF Copy
  <2>3. /\ Begins(part', v) /\ Len(part') = Len(part) + 1
        /\ Len(part') + Len(body') = Len(part) + Len(body)
        /\ \A i \in 1..Len(body') : body'[i] = v
    BY <1>0, <2>2, AppendBegins
  <2> QED BY <1>0, <2>1, <2>2, <2>3 DEF BodySound
<1>5. CASE \/ Open \/ NoResponse \/ RangeRejected \/ NothingLeft \/ Cut \/ Short \/ Complete
           \/ Invalid \/ Unreadable \/ Publish \/ RemovePart \/ RemoveMeta \/ Stop
  BY <1>5 DEF Open, NoResponse, RangeRejected, NothingLeft, Restart, Cut, Short, Retried, Complete,
     Invalid, Unreadable, Publish, RemovePart, RemoveMeta, Stop, EndRun, BodySound
<1>6. CASE Replace \/ UNCHANGED vars
  BY <1>0, <1>6 DEF Replace, vars, serverVars, diskVars, runVars, BodySound
<1>7. CASE Close
  <2>1. /\ body' = <<>> /\ pc = "copy" /\ UNCHANGED <<part, st, start, pc>>
    BY <1>7 DEF Close, diskVars
  <2>2. Len(body') = 0 /\ Len(body) \in Nat /\ Len(part) \in Nat
    BY <1>0, <2>1 DEF BytesType
  <2> PICK v \in Versions :
         /\ Begins(part, v) /\ (st.validator # NoValidator => st.validator = v)
         /\ st.total >= 0 => st.total = Length[v]
    BY <1>0, <2>1 DEF BodySound
  <2> QED BY <1>0, <2>1, <2>2, VersionFacts DEF BodySound, Begins
<1> QED
  BY <1>1, <1>2, <1>3, <1>4, <1>5, <1>6, <1>7 DEF Next, Run, Answered

\* What came of a version is what was received of it.
LEMMA GotIsReceived ==
  ASSUME NEW bytes \in BytesType, NEW v \in Versions, Got(bytes, v)
  PROVE  Received(bytes, v) /\ bytes # NoPart
<1>1. bytes # NoPart
  BY BytesAreThere DEF Got
<1>2. bytes \in [1..Len(bytes) -> Versions \cup {0}] /\ Len(bytes) \in Nat
  BY DEF BytesType
<1> QED BY <1>1, <1>2 DEF Got, Received, Begins, Size

\* What is taken for complete came of one version, that of the validator the run has.
LEMMA CompleteIsGot ==
  ASSUME IInv,
         \/ NothingLeft /\ pc' = "process"
         \/ Complete
  PROVE  /\ PartSize = Len(part) /\ PartSize \in Nat /\ part' = part
         /\ st'.total = PartSize /\ meta' = st' /\ st'.validator = st.validator
         /\ server.sized => PartSize > 0
         /\ \E v \in Versions : Got(part, v) /\ (st.validator # NoValidator => st.validator = v)
<1>0. st \in MetaType /\ part \in BytesType /\ body \in BytesType
  BY DEF IInv, TypeOK
<1>1. CASE NothingLeft /\ pc' = "process"
  <2>1. /\ Length[served] = Offset /\ st.total = Offset /\ Matches(st.validator) /\ Offset > 0
        /\ pc = "request" /\ st' = [st EXCEPT !.complete = TRUE] /\ meta' = st' /\ part' = part
    BY <1>1 DEF NothingLeft, Restart, Retried, EndRun, Honoured
  <2>2. /\ st.validator \in Versions /\ Begins(part, st.validator) /\ Offset = Len(part)
        /\ PartSize = Len(part) /\ PartSize \in Nat
    BY <2>1, RangeContinues, NumbersTyped DEF IInv
  <2>3. st.validator = served
    BY <2>1 DEF Matches, Tag
  <2>4. part = Whole(st.validator)
    BY <1>0, <2>1, <2>2, <2>3, AllBytesAreWhole
  <2> QED BY <1>0, <2>1, <2>2, <2>4 DEF MetaType, Got
<1>2. CASE Complete
  <2>1. /\ pc = "copy" /\ body = <<>> /\ (st.total >= 0 => PartSize = st.total)
        /\ st' = [st EXCEPT !.complete = TRUE, !.total = PartSize] /\ meta' = st' /\ part' = part
    BY <1>2 DEF Complete, AllThere
  <2>2. PICK v \in Versions :
         /\ Begins(part, v) /\ (st.validator # NoValidator => st.validator = v)
         /\ st.total >= 0 => st.total = Length[v]
    BY <2>1 DEF IInv, BodySound
  <2>3. PartSize = Len(part) /\ Len(part) \in Nat
    BY <2>1, BodyContinues
  <2>4. server.sized => Len(part) = Length[v]
    BY <2>1, <2>2, <2>3 DEF IInv, BodySound
  <2>5. Got(part, v)
    BY <1>0, <2>2, <2>4, AllBytesAreWhole DEF Got
  <2> QED BY <1>0, <2>1, <2>2, <2>3, <2>4, <2>5, VersionFacts DEF MetaType
<1> QED BY <1>1, <1>2

\* A step preserves that what is processed came of one version.
LEMMA ProcessedStep ==
  ASSUME IInv, [Next]_vars
  PROVE  ProcessedWhole'
<1>0. server' = server /\ TypeOK
  BY Constant DEF IInv
<1>1. ASSUME NEW v \in Versions, NEW bytes \in BytesType, Got(bytes, v), part' = bytes
      PROVE  ProcessedWhole'
  <2>1. Received(bytes, v)
    BY <1>1, GotIsReceived
  <2>2. Received(part, v)'
    BY <1>0, <1>1, <2>1 DEF Received
  <2> QED BY <2>2 DEF ProcessedWhole
<1>2. CASE Open
  <2> SUFFICES ASSUME pc' = "process" PROVE ProcessedWhole'
    BY DEF ProcessedWhole
  <2>1. Usable /\ Named.meta.complete /\ part' = Named.part
    BY <1>2 DEF Open, Fresh
  <2>2. Describes(Named.meta, Named.part) /\ Named.part \in BytesType
    BY <1>0, NamedFiles DEF IInv, SidecarSound, Named
  <2>3. \E v \in Versions : Got(Named.part, v)
    BY <2>1, <2>2 DEF Describes, Usable, Size
  <2> QED BY <1>1, <2>1, <2>2, <2>3
<1>3. CASE NothingLeft \/ Complete
  <2> SUFFICES ASSUME pc' = "process" PROVE ProcessedWhole'
    BY DEF ProcessedWhole
  <2> QED BY <1>0, <1>1, <1>3, CompleteIsGot DEF TypeOK
<1>4. CASE \/ NoResponse \/ RangeRejected \/ RangeSent \/ WholeSent \/ Describe \/ Copy \/ Cut
           \/ Close \/ Short \/ Invalid \/ Unreadable \/ Publish \/ RemovePart \/ RemoveMeta
           \/ Stop
  BY <1>4 DEF NoResponse, RangeRejected, RangeSent, WholeSent, Describe, Copy, Restart, Cut, Close,
     Short, Retried, Invalid, Unreadable, Publish, RemovePart, RemoveMeta, Stop, EndRun,
     ProcessedWhole
<1>5. CASE Replace \/ UNCHANGED vars
  <2>1. UNCHANGED <<part, pc>> /\ ProcessedWhole
    BY <1>5 DEF IInv, Replace, vars, diskVars
  <2> QED BY <1>0, <2>1 DEF ProcessedWhole, Received
<1> QED
  BY <1>2, <1>3, <1>4, <1>5 DEF Next, Run, Answered

\* A step preserves that what is published is sound.
LEMMA PublishedStep ==
  ASSUME IInv, [Next]_vars
  PROVE  PublishedSound'
<1>1. CASE Publish
  BY <1>1 DEF Publish, Sound, PublishedSound
<1>2. CASE ~Publish
  <2>1. dest' = dest
    BY <1>2 DEF Next, Run, Answered, Open, NoResponse, RangeRejected, NothingLeft, RangeSent,
       WholeSent, Describe, Copy, Cut, Close, Short, Complete, Invalid, Unreadable, RemovePart,
       RemoveMeta, Stop, Replace, diskVars, vars
  <2> QED BY <2>1 DEF IInv, PublishedSound
<1> QED BY <1>1, <1>2

\* A step preserves what the sidecars say.
LEMMA SidecarStep ==
  ASSUME IInv, [Next]_vars
  PROVE  SidecarSound'
<1>0. /\ st \in MetaType /\ meta \in MetaType /\ part \in BytesType
      /\ SidecarSound /\ BodySound /\ TypeOK /\ server' = server
  BY Constant DEF IInv, TypeOK
<1>1. CASE Open
  <2>1. Describes(Named.meta, Named.part)
    BY <1>0 DEF SidecarSound, Named
  <2>2. ~NoMeta.complete /\ NoMeta.validator = NoValidator
    BY DEF NoMeta, Fresh
  <2>3. Describes(NoMeta, <<>>) /\ Describes(NoFiles.meta, NoFiles.part)
    BY <2>2 DEF Describes, NoFiles
  <2> QED BY <1>0, <1>1, <2>1, <2>3 DEF Open, SidecarSound, Describes, Got
<1>2. ASSUME ~Open, Describes(meta, part)' PROVE SidecarSound'
  BY <1>0, <1>2, Constant DEF SidecarSound, Describes, Got
<1>3. ASSUME ~Open, ~meta'.complete,
             meta'.validator # NoValidator /\ part' # NoPart => Begins(part', meta'.validator)
      PROVE  SidecarSound'
  BY <1>2, <1>3 DEF Describes
<1>4. ASSUME ~Open, meta' = meta, part' \in {part, <<>>, NoPart} PROVE SidecarSound'
  <2>1. CASE part' = part
    BY <1>0, <1>2, <1>4, <2>1 DEF SidecarSound, Describes, Got
  <2>2. CASE part' = NoPart
    BY <1>0, <1>2, <1>4, <2>2 DEF SidecarSound, Describes
  <2>3. CASE part' = <<>>
    <3>1. Len(<<>>) = 0 /\ \A v \in Versions : Begins(<<>>, v)
      BY VersionFacts DEF Begins
    <3>2. meta.validator # NoValidator => meta.validator \in Versions
      BY <1>0 DEF MetaType
    <3>3. meta.complete /\ meta.total = 0 =>
            \E v \in Versions : Got(<<>>, v) /\ (meta.validator # NoValidator => meta.validator = v)
      BY <1>0, <3>1, <3>2, VersionFacts DEF Got, SidecarSound, Describes
    <3> QED BY <1>0, <1>2, <1>4, <2>3, <3>1, <3>2, <3>3 DEF SidecarSound, Describes, Got
  <2> QED BY <1>4, <2>1, <2>2, <2>3
<1>5. ASSUME ~Open, Restart, part' = part PROVE SidecarSound'
  BY <1>0, <1>3, <1>5 DEF Restart, MetaType
<1>6. CASE ~Open
  <2>1. CASE RangeRejected
    <3>1. Begins(part, st.validator) /\ ~st.complete
      BY <2>1, RangeContinues DEF RangeRejected
    <3> QED BY <1>0, <1>3, <1>6, <2>1, <3>1 DEF RangeRejected, MetaType
  <2>2. CASE Complete \/ NothingLeft
    <3>1. CASE pc' = "process"
      <4> PICK v \in Versions : Got(part, v) /\ (st.validator # NoValidator => st.validator = v)
        BY <2>2, <3>1, CompleteIsGot
      <4>1. /\ PartSize = Len(part) /\ PartSize \in Nat /\ part' = part
            /\ st'.total = PartSize /\ meta' = st' /\ st'.validator = st.validator
            /\ server.sized => PartSize > 0
        BY <2>2, <3>1, CompleteIsGot
      <4>2. Got(part, v)'
        BY <1>0, <4>1 DEF Got
      <4> QED BY <1>0, <1>2, <1>6, <4>1, <4>2 DEF Describes, Got
    <3>2. CASE pc' # "process"
      BY <1>5, <1>6, <2>2, <3>2 DEF Complete, NothingLeft
    <3> QED BY <3>1, <3>2
  <2>3. CASE RangeSent
    BY <1>4, <1>5, <1>6, <2>3 DEF RangeSent
  <2>4. CASE Describe
    <3>1. ~st.complete /\ (st.validator # NoValidator => Begins(part, st.validator))
      BY <1>0, <2>4 DEF Describe, BodySound
    <3> QED BY <1>3, <1>6, <2>4, <3>1 DEF Describe
  <2>5. CASE Copy
    <3>1. meta = st /\ ~st.complete
      BY <2>5 DEF Copy, IInv, TypeOK, BodySound
    <3>2. meta' = st' /\ st' = st /\ part' = Append(part, Head(body)) /\ body # <<>> /\ pc' = "copy"
      BY <2>5, <3>1 DEF Copy
    <3>3. st'.validator # NoValidator => Begins(part', st'.validator)
      BY <3>2, BodyStep DEF BodySound
    <3> QED BY <1>3, <1>6, <3>1, <3>2, <3>3
  <2>6. CASE Invalid
    BY <1>0, <1>3, <1>6, <2>6 DEF Invalid, Discarded, MetaType
  <2>7. CASE RemoveMeta
    BY <1>3, <1>6, <2>7 DEF RemoveMeta, NoMeta, Fresh
  <2>8. CASE \/ NoResponse \/ WholeSent \/ Cut \/ Close \/ Short \/ Unreadable \/ Publish
             \/ RemovePart \/ Stop \/ Replace \/ UNCHANGED vars
    BY <1>4, <1>6, <2>8 DEF NoResponse, WholeSent, Cut, Close, Short, Unreadable, Publish,
       RemovePart, Stop, Replace, vars, diskVars
  <2> QED BY <1>6, <2>1, <2>2, <2>3, <2>4, <2>5, <2>6, <2>7, <2>8 DEF Next, Run, Answered
<1> QED BY <1>1, <1>6

\* A step preserves that a refusal is remembered.
LEMMA RefusalStep ==
  ASSUME IInv, [Next]_vars
  PROVE  RefusalKept'
<1>0. /\ st \in MetaType /\ meta \in MetaType /\ part \in BytesType /\ TypeOK
      /\ RefusalKept /\ BodySound /\ Origin(st) /\ (st.noRanges => continue)
  BY DEF IInv, TypeOK, Origins
<1>1. CASE Open
  <2>1. Named' = Named /\ Usable' = Usable
    BY <1>0, <1>1, NamedKept
  <2> QED BY <1>0, <1>1, <2>1 DEF Open, RefusalKept, serverVars
<1>2. CASE ~Open /\ ~continue
  <2>1. Named' = Named /\ Usable' = Usable /\ continue' = continue
    BY <1>0, <1>2, NamedKept, Constant
  <2>2. Offset = 0 /\ ~st.noRanges
    BY <1>0, <1>2 DEF Offset
  <2>3. refused' = refused
    <3>1. refused \in BOOLEAN
      BY <1>0 DEF TypeOK
    <3>2. CASE RangeRejected
      BY <2>2, <3>2 DEF RangeRejected
    <3>3. CASE Describe \/ Invalid \/ RemovePart
      BY <1>2, <2>2, <3>1, <3>3 DEF Describe, Invalid, RemovePart
    <3>4. CASE ~(RangeRejected \/ Describe \/ Invalid \/ RemovePart)
      BY <1>2, <3>4 DEF Next, Run, Answered, NoResponse, NothingLeft, RangeSent, WholeSent, Copy,
         Cut, Close, Short, Complete, Unreadable, Publish, RemoveMeta, Stop, Replace, vars
    <3> QED BY <3>2, <3>3, <3>4
  <2> QED BY <1>0, <1>2, <2>1, <2>3 DEF RefusalKept
<1>3. CASE ~Open /\ continue
  <2>0. /\ continue' = continue /\ Named.part = part /\ Named.meta = meta
        /\ Named'.part = part' /\ Named'.meta = meta'
    BY <1>3, Constant DEF Named
  <2>a. ASSUME part' = part, meta' = meta PROVE Named' = Named /\ Usable' = Usable
    <3>1. Named' = Named
      BY <1>3, <2>0, <2>a DEF Named
    <3> QED BY <3>1 DEF Usable
  <2>b. /\ Usable <=> /\ part # NoPart /\ meta # NoMeta
                      /\ meta.total >= 0 => PartSize <= meta.total
                      /\ meta.complete => PartSize = meta.total
                      /\ meta.validator # NoValidator \/ meta.complete
        /\ Usable' <=> /\ part' # NoPart /\ meta' # NoMeta
                       /\ meta'.total >= 0 => PartSize' <= meta'.total
                       /\ meta'.complete => PartSize' = meta'.total
                       /\ meta'.validator # NoValidator \/ meta'.complete
    BY <2>0 DEF Usable, PartSize, Size
  <2>2. CASE NoResponse
    BY <1>0, <1>3, <2>0, <2>a, <2>2 DEF NoResponse, Retried, EndRun, diskVars, RefusalKept
  <2>3. CASE RangeRejected
    <3>1. /\ ~st.complete /\ st.validator # NoValidator /\ PartSize = Len(part)
          /\ part # NoPart /\ (st.total >= 0 => Len(part) <= st.total)
      BY <2>3, RangeContinues, VersionFacts DEF RangeRejected
    <3>2. /\ meta' = st' /\ st' = [st EXCEPT !.noRanges = TRUE] /\ part' = part /\ pc' = "request"
      BY <2>3 DEF RangeRejected
    <3>3. /\ st'.noRanges /\ ~st'.complete /\ st'.validator = st.validator /\ st'.total = st.total
      BY <1>0, <3>1, <3>2 DEF MetaType
    <3>4. st' # NoMeta
      BY <3>3 DEF NoMeta, Fresh
    <3>5. PartSize' = PartSize
      BY <3>2 DEF PartSize, Size
    <3>6. Usable'
      BY <2>b, <3>1, <3>2, <3>3, <3>4, <3>5
    <3> QED BY <2>0, <3>2, <3>3, <3>6 DEF RefusalKept
  <2>4. CASE NothingLeft \/ RangeSent
    <3>1. ~refused
      BY <2>4, RangeContinues DEF NothingLeft, RangeSent, Honoured
    <3> QED BY <2>4, <3>1 DEF NothingLeft, RangeSent, RefusalKept
  <2>5. CASE WholeSent
    <3> SUFFICES ASSUME refused PROVE RefusalKept'
      BY <2>5 DEF WholeSent, RefusalKept
    <3>1. Usable /\ meta.noRanges /\ st.noRanges /\ ~meta.complete
      BY <1>0, <1>3, <2>0, <2>5 DEF WholeSent, RefusalKept
    <3>2. /\ part' = <<>> /\ meta' = meta /\ st' = Described(st) /\ pc' = "describe"
      BY <2>5 DEF WholeSent
    <3>3. st'.noRanges /\ part' # NoPart /\ PartSize' = 0
      <4>1. <<>> # NoPart /\ Len(<<>>) = 0
        BY DEF NoPart
      <4>2. st'.noRanges
        BY <3>1, <3>2 DEF Described
      <4> QED BY <3>2, <4>1, <4>2 DEF PartSize, Size
    <3>4. Usable'
      BY <1>0, <2>b, <3>1, <3>2, <3>3
    <3> QED BY <2>0, <3>1, <3>2, <3>3, <3>4 DEF RefusalKept
  <2>6. CASE Describe
    <3> SUFFICES ASSUME refused' PROVE RefusalKept'
      BY DEF RefusalKept
    <3>1. st.noRanges /\ meta' = st /\ st' = st /\ part' = part /\ pc' = "copy"
      BY <1>0, <1>3, <2>6 DEF Describe, RefusalKept, runVars
    <3>2. /\ server.tagged /\ ~st.complete /\ st.validator # NoValidator
          /\ part # NoPart /\ PartSize = Len(part) /\ Len(part) \in Nat
      BY <1>0, <2>6, <3>1, BodyContinues DEF Describe, Origin, BodySound
    <3>3. st.total >= 0 => Len(part) <= st.total
      BY <1>0, <2>6, VersionFacts DEF Describe, BodySound, Begins
    <3>4. st # NoMeta
      BY <3>1 DEF NoMeta, Fresh
    <3>5. PartSize' = PartSize
      BY <3>1 DEF PartSize, Size
    <3>6. Usable'
      BY <2>b, <3>1, <3>2, <3>3, <3>4, <3>5
    <3> QED BY <2>0, <3>1, <3>6 DEF RefusalKept
  <2>7. CASE Copy
    <3> SUFFICES ASSUME refused PROVE RefusalKept'
      BY <2>7 DEF Copy, RefusalKept
    <3>1. /\ Usable /\ meta.noRanges /\ st.noRanges /\ meta = st /\ ~st.complete
          /\ meta # NoMeta /\ st.validator # NoValidator
      BY <1>0, <1>3, <2>0, <2>7, <2>b DEF Copy, RefusalKept, IInv, TypeOK, BodySound
    <3>2. meta' = meta /\ st' = st /\ pc' = "copy" /\ pc = "copy"
      BY <2>7 DEF Copy
    <3>3. /\ part' \in BytesType /\ BodySound'
      BY BodyStep, TypesStep DEF TypeOK
    <3>4. /\ part' # NoPart /\ (st.total >= 0 => Len(part') <= st.total)
      <4> PICK v \in Versions : Begins(part', v) /\ (st.total >= 0 => st.total = Length[v])
        BY <3>2, <3>3 DEF BodySound
      <4> QED BY <3>3, BytesAreThere DEF Begins
    <3>5. PartSize' = Len(part')
      BY <3>4 DEF PartSize, Size
    <3>6. Usable'
      BY <2>b, <3>1, <3>2, <3>4, <3>5
    <3> QED BY <2>0, <3>1, <3>2, <3>6 DEF RefusalKept
  <2>8. CASE Cut \/ Close \/ Short
    <3>1. meta = st /\ ~st.complete
      BY <2>8 DEF Cut, Close, Short, IInv, TypeOK, BodySound
    <3>2. part' = part /\ meta' = meta
      BY <2>8 DEF Cut, Close, Short, diskVars
    <3> QED BY <1>0, <1>3, <2>0, <2>8, <2>a, <3>1, <3>2 DEF Cut, Close, Short, Retried, EndRun,
            RefusalKept
  <2>9. CASE Complete
    <3> SUFFICES ASSUME refused PROVE RefusalKept'
      BY <2>9 DEF Complete, RefusalKept
    <3>1. Usable /\ st.noRanges
      BY <1>0, <1>3, <2>9 DEF Complete, RefusalKept
    <3>2. /\ part' = part /\ meta' = st' /\ pc' = "process"
          /\ st' = [st EXCEPT !.complete = TRUE, !.total = PartSize]
      BY <2>9 DEF Complete
    <3>3. /\ st'.noRanges /\ st'.complete /\ st'.total = PartSize
      BY <1>0, <3>1, <3>2 DEF MetaType
    <3>4. PartSize' = PartSize /\ PartSize \in Nat /\ st' # NoMeta
      BY <1>0, <3>2, <3>3, NumbersTyped DEF PartSize, Size, NoMeta, Fresh
    <3>5. Usable'
      BY <2>b, <3>1, <3>2, <3>3, <3>4
    <3> QED BY <2>0, <3>2, <3>3, <3>5 DEF RefusalKept
  <2>10. CASE Invalid \/ RemovePart
    BY <1>3, <2>10 DEF Invalid, RemovePart, RefusalKept
  <2>11. CASE RemoveMeta
    BY <1>0, <1>3, <2>11 DEF RemoveMeta, RefusalKept
  <2>12. CASE Unreadable \/ Publish \/ Stop \/ Replace \/ UNCHANGED vars
    BY <1>0, <1>3, <2>0, <2>a, <2>12 DEF Unreadable, Publish, Stop, Replace, EndRun,
       vars, diskVars, runVars, RefusalKept
  <2> QED
    BY <1>3, <2>2, <2>3, <2>4, <2>5, <2>6, <2>7, <2>8, <2>9, <2>10, <2>11, <2>12
    DEF Next, Run, Answered
<1> QED BY <1>1, <1>2, <1>3

\* A step that publishes nothing keeps the order of the versions, if what is new is of
\* the version on offer or was there.
LEMMA OrderKept ==
  ASSUME InOrder, TypeOK, ~Open, [Next]_vars, dest' = dest, served' \in {served, served + 1},
         part' \in {part, <<>>, NoPart},
         pc' \in {"describe", "copy"} =>
           \/ pc \in {"describe", "copy"} /\ body' \in {body, <<>>}
           \/ \A i \in 1..Len(body') : body'[i] = served
  PROVE  InOrder'
<1>0. /\ served \in Int /\ part \in BytesType /\ body \in BytesType /\ aside.part \in BytesType
      /\ Delivered' = Delivered /\ Delivered \in 0..served
      /\ Len(<<>>) = 0 /\ NoPart \in BytesType /\ Len(NoPart) = 1 /\ NoPart[1] = 0
      /\ UNCHANGED <<continue, aside>>
  BY VersionFacts, EmptyBytes, Constant DEF TypeOK, InOrder, Delivered, NoPart
<1>1. ASSUME NEW bytes \in BytesType, Offered(bytes)
      PROVE  \A i \in 1..Len(bytes) : bytes[i] <= served'
  <2>1. ASSUME NEW i \in 1..Len(bytes) PROVE bytes[i] \in Int
    BY VersionFacts DEF BytesType
  <2> QED BY <1>0, <1>1, <2>1 DEF Offered
<1>2. Delivered' \in 0..served'
  BY <1>0
<1>3. Offered(part)' /\ Offered(aside.part)'
  <2>1. Offered(aside.part)'
    BY <1>0, <1>1 DEF InOrder, Offered
  <2>2. Offered(part)'
    BY <1>0, <1>1 DEF InOrder, Offered
  <2> QED BY <2>1, <2>2
<1>4. ASSUME pc' \in {"describe", "copy"} PROVE Offered(body)' /\ NotOlder(body)'
  <2>1. CASE pc \in {"describe", "copy"} /\ body' = body
    BY <1>0, <1>1, <2>1 DEF InOrder, Offered, NotOlder
  <2>2. CASE body' = <<>>
    BY <1>0, <2>2 DEF Offered, NotOlder
  <2>3. CASE \A i \in 1..Len(body') : body'[i] = served
    BY <1>0, <2>3 DEF Offered, NotOlder
  <2> QED BY <1>4, <2>1, <2>2, <2>3
<1>5. (continue' => FALSE \notin Modes) /\ part' # NoPart => NotOlder(part)'
  <2>1. CASE part' = part
    BY <1>0, <2>1 DEF InOrder, NotOlder
  <2>2. CASE part' = <<>>
    BY <1>0, <2>2 DEF NotOlder
  <2> QED BY <2>1, <2>2
<1> QED BY <1>2, <1>3, <1>4, <1>5 DEF InOrder

\* What is published is the version the partial file is of: the one a run with
\* --continue held, or one that came since what was published before.
LEMMA PublishedIsNext ==
  ASSUME IInv, Publish
  PROVE  /\ Delivered' \in {v \in Versions : Damage[v] = "none"} /\ Delivered' <= served
         /\ ~continue => Delivered <= Delivered'
         /\ FALSE \notin Modes => Delivered <= Delivered'
         /\ continue => Delivered' = Held
         /\ \A i \in 1..Len(part) : part[i] = Delivered'
<1>1. PICK v \in Versions : Damage[v] = "none" /\ part = Whole(v) /\ dest' = part
  BY DEF Publish, Sound
<1>2. /\ Whole(v) # <<>> /\ Whole(v) # NoPart /\ Len(Whole(v)) = Length[v]
      /\ \A i \in 1..Len(Whole(v)) : Whole(v)[i] = v
      /\ 1 \in 1..Len(Whole(v))
  BY WholeBytes, VersionFacts, BytesAreThere DEF Begins
<1>3. Delivered' = v
  BY <1>1, <1>2 DEF Delivered
<1>4. v <= served /\ (~continue \/ FALSE \notin Modes => Delivered <= v)
  BY <1>1, <1>2 DEF IInv, InOrder, Offered, NotOlder
<1>5. continue => Held = v
  BY <1>1, <1>2 DEF Held, Named
<1> QED BY <1>1, <1>2, <1>3, <1>4, <1>5

\* A step preserves the order of the versions.
LEMMA OrderStep ==
  ASSUME IInv, [Next]_vars
  PROVE  InOrder'
<1>0. /\ TypeOK /\ InOrder /\ BodySound /\ served \in Nat
      /\ part \in BytesType /\ body \in BytesType
  BY VersionFacts DEF IInv, TypeOK
<1>1. CASE Publish
  <2>1. /\ served' = served /\ part' = part /\ pc' = "remove" /\ Delivered' \in Nat
        /\ UNCHANGED <<continue, aside>>
    BY <1>1, PublishedIsNext, VersionFacts DEF Publish, serverVars, flagVars
  <2>2. /\ Delivered' <= served /\ \A i \in 1..Len(part) : part[i] = Delivered'
    BY <1>1, PublishedIsNext
  <2>3. Offered(part)' /\ Offered(aside.part)'
    BY <1>0, <2>1 DEF InOrder, Offered
  <2>4. NotOlder(part)'
    BY <2>1, <2>2 DEF NotOlder
  <2> QED BY <1>0, <2>1, <2>2, <2>3, <2>4 DEF InOrder
<1>2. CASE Open
  <2>1. /\ UNCHANGED <<served, dest>> /\ pc' \notin {"describe", "copy"}
        /\ \/ continue' /\ part' = Named.part /\ aside' = NoFiles
           \/ ~continue' /\ part' = <<>> /\ aside' = Named
    BY <1>2 DEF Open, serverVars
  <2>2. Delivered' = Delivered /\ Delivered \in 0..served
    BY <1>0, <2>1 DEF Delivered, InOrder
  <2>3. Offered(Named.part) /\ Offered(NoFiles.part) /\ Offered(<<>>)
    <3>1. Len(NoPart) = 1 /\ NoPart[1] = 0 /\ NoFiles.part = NoPart
      BY DEF NoPart, NoFiles
    <3>2. Named.part = part \/ Named.part = aside.part
      BY DEF Named
    <3>3. Offered(part) /\ Offered(aside.part)
      BY <1>0 DEF InOrder
    <3>4. Offered(Named.part)
      BY <3>2, <3>3
    <3>5. Offered(NoPart)
      BY <1>0, <3>1 DEF Offered
    <3>6. Offered(<<>>)
      BY DEF Offered
    <3> QED BY <3>1, <3>4, <3>5, <3>6
  <2>4. Offered(part)' /\ Offered(aside.part)'
    BY <2>1, <2>3 DEF Offered
  <2>5. (continue' => FALSE \notin Modes) /\ part' # NoPart => NotOlder(part)'
    <3>1. CASE continue' /\ FALSE \notin Modes
      <4>1. continue
        BY <1>0, <3>1, ModesAssumption DEF TypeOK
      <4> QED BY <1>0, <2>1, <2>2, <3>1, <4>1 DEF InOrder, NotOlder, Named
    <3>2. CASE ~continue'
      BY <2>1, <3>2 DEF NotOlder
    <3> QED BY <3>1, <3>2
  <2> QED BY <1>0, <2>1, <2>2, <2>4, <2>5 DEF InOrder
<1>3. CASE RangeSent
  <2>1. CASE Differs
    BY <1>0, <1>3, <2>1, OrderKept DEF RangeSent, Restart, Retried, EndRun, Open
  <2>2. CASE ~Differs
    <3> PICK end \in (Offset + 1)..Length[served] : body' = [i \in 1..(end - Offset) |-> served]
      BY <1>3, <2>2 DEF RangeSent
    <3>1. end - Offset \in Nat
      BY <1>0, NumbersTyped
    <3>2. \A i \in 1..Len(body') : body'[i] = served
      BY <3>1
    <3> QED BY <1>0, <1>3, <3>2, OrderKept DEF RangeSent, Open
  <2> QED BY <2>1, <2>2
<1>4. CASE WholeSent
  <2>1. \A i \in 1..Len(body') : body'[i] = served
    BY <1>0, <1>4, WholeBytes DEF WholeSent, TypeOK
  <2> QED BY <1>0, <1>4, <2>1, OrderKept DEF WholeSent, serverVars, Open
<1>5. CASE Copy
  <2>1. PICK v \in Versions :
          /\ Begins(part, v) /\ (\A i \in 1..Len(body) : body[i] = v)
          /\ Len(part) + Len(body) <= Length[v]
    BY <1>0, <1>5 DEF Copy, BodySound
  <2>2. /\ body # <<>> /\ part' = Append(part, Head(body)) /\ body' = Tail(body)
        /\ UNCHANGED <<served, dest, continue, aside>>
    BY <1>5 DEF Copy, serverVars, flagVars
  <2>3. /\ Begins(Append(part, Head(body)), v)
        /\ \A i \in 1..Len(Tail(body)) : Tail(body)[i] = v
    BY <1>0, <2>1, <2>2, AppendBegins
  <2>6. /\ \A i \in 1..Len(part') : part'[i] = v
        /\ \A i \in 1..Len(body') : body'[i] = v
    BY <2>2, <2>3 DEF Begins
  <2>4. Delivered' = Delivered /\ Delivered \in 0..served
    BY <1>0, <2>2 DEF Delivered, InOrder
  <2>5. Delivered <= v /\ v <= served
    <3>1. 1 \in 1..Len(body) /\ body[1] = v /\ Offered(body) /\ NotOlder(body)
      BY <1>0, <1>5, <2>1, <2>2 DEF Copy, InOrder, BytesType
    <3> QED BY <3>1 DEF Offered, NotOlder
  <2> QED BY <1>0, <2>2, <2>4, <2>5, <2>6 DEF InOrder, Offered, NotOlder
<1>6. CASE Replace \/ UNCHANGED vars
  <2>1. /\ UNCHANGED <<dest, part, pc, body>> /\ served' \in {served, served + 1}
        /\ UNCHANGED <<continue, aside>>
    BY <1>6 DEF Replace, vars, serverVars, flagVars, diskVars, runVars
  <2>2. ~Open
    BY <2>1, <1>6 DEF Open
  <2> QED BY <1>0, <2>1, <2>2, OrderKept
<1>7. CASE RangeRejected \/ NothingLeft \/ RemovePart
  <2>1. /\ UNCHANGED <<served, dest>> /\ part' \in {part, <<>>, NoPart}
        /\ pc' \notin {"describe", "copy"} /\ ~Open
    BY <1>7 DEF RangeRejected, NothingLeft, Restart, Retried, EndRun, RemovePart, serverVars, Open
  <2> QED BY <1>0, <2>1, OrderKept
<1>8. CASE Describe \/ Close
  <2>1. /\ UNCHANGED <<served, dest, part>> /\ body' \in {body, <<>>} /\ ~Open
        /\ pc \in {"describe", "copy"}
    BY <1>8 DEF Describe, Close, serverVars, diskVars, runVars, Open
  <2> QED BY <1>0, <2>1, OrderKept
<1>9. CASE \/ NoResponse \/ Cut \/ Short \/ Complete \/ Invalid \/ Unreadable
           \/ RemoveMeta \/ Stop
  <2>1. UNCHANGED <<served, dest, part>> /\ pc' \notin {"describe", "copy"} /\ ~Open
    BY <1>9 DEF NoResponse, Cut, Short, Complete, Retried, EndRun, Invalid, Unreadable, RemoveMeta,
       Stop, serverVars, diskVars, Open
  <2> QED BY <1>0, <2>1, OrderKept
<1> QED
  BY <1>1, <1>2, <1>3, <1>4, <1>5, <1>6, <1>7, <1>8, <1>9 DEF Next, Run, Answered

-----------------------------------------------------------------------------
(* The theorems. *)

LEMMA InitInv == Init => IInv
<1> SUFFICES ASSUME Init PROVE IInv
  OBVIOUS
<1>1. TypeOK
  <2>1. served \in Versions /\ 0 \in 0..Retry /\ 0 \in 0..MaxFaults /\ 0 \in 0..MaxStops
    BY VersionFacts, RetryAssumption, BoundsAssumption DEF Init
  <2> QED BY <2>1, StatesTyped, EmptyBytes DEF Init, TypeOK, NoFiles
<1>2. Origins /\ SidecarSound /\ RequestSound /\ BodySound /\ RefusalKept
  BY DEF Init, Origins, Origin, SidecarSound, Describes, RequestSound, BodySound, RefusalKept,
     Fresh, NoMeta, NoFiles
<1>3. ProcessedWhole /\ PublishedSound
  BY DEF Init, ProcessedWhole, PublishedSound
<1>4. InOrder
  <2>1. Len(NoPart) = 1 /\ NoPart[1] = 0 /\ NoFiles.part = NoPart
    BY DEF NoPart, NoFiles
  <2>2. Delivered = 0 /\ served = 1 /\ part = NoPart /\ aside = NoFiles /\ pc = "idle"
    BY DEF Init, Delivered
  <2>3. Offered(NoPart)
    BY <2>1, <2>2 DEF Offered
  <2> QED BY <2>1, <2>2, <2>3 DEF InOrder
<1> QED BY <1>1, <1>2, <1>3, <1>4 DEF IInv

\* The invariant holds in every behaviour.
THEOREM DownloadInvariance == Spec => []IInv
<1>1. IInv /\ [Next]_vars => IInv'
  BY TypesStep, OriginsStep, SidecarStep, RequestStep, BodyStep, ProcessedStep, PublishedStep,
     RefusalStep, OrderStep DEF IInv
<1> QED BY <1>1, InitInv, PTL DEF Spec

\* The types of Download, for any versions of the file and any servers.
THEOREM DownloadTypeCorrect == Spec => []TypeOK
BY DownloadInvariance, PTL DEF IInv

\* Whatever a run would resume or take for complete is of one version of the file.
THEOREM VersionsNeverCombined == Spec => []NeverCombined
<1>1. ASSUME IInv, Usable, Named.part # <<>>
      PROVE  \E v \in Versions :
               /\ Size(Named.part) <= Length[v]
               /\ Named.part = [i \in 1..Size(Named.part) |-> v]
               /\ Named.meta.validator # NoValidator => Named.meta.validator = v
               /\ Named.meta.complete => Received(Named.part, v)
  <2>1. /\ Named.meta \in MetaType /\ Named.part \in BytesType /\ Named.part # NoPart
        /\ Describes(Named.meta, Named.part) /\ Size(Named.part) = Len(Named.part)
        /\ Named.meta.complete => Size(Named.part) = Named.meta.total
        /\ Named.meta.validator # NoValidator \/ Named.meta.complete
    BY <1>1, NamedFiles DEF IInv, Usable, SidecarSound, Named
  <2>2. Named.part \in [1..Len(Named.part) -> Versions \cup {0}] /\ Len(Named.part) \in Nat
    BY <2>1 DEF BytesType
  <2>3. CASE Named.meta.complete
    <3> PICK v \in Versions :
           Got(Named.part, v) /\ (Named.meta.validator # NoValidator => Named.meta.validator = v)
      BY <2>1, <2>3 DEF Describes
    <3>1. Received(Named.part, v)
      BY <2>1, GotIsReceived
    <3> QED BY <2>1, <3>1 DEF Received
  <2>4. CASE ~Named.meta.complete
    <3>1. Named.meta.validator \in Versions /\ Named.meta.validator # NoValidator
      BY <2>1, <2>4 DEF MetaType
    <3>2. Begins(Named.part, Named.meta.validator)
      BY <2>1, <3>1 DEF Describes
    <3>3. Named.part = [i \in 1..Len(Named.part) |-> Named.meta.validator]
      BY <2>2, <3>2 DEF Begins
    <3> QED BY <2>1, <2>4, <3>1, <3>2, <3>3 DEF Begins
  <2> QED BY <2>3, <2>4
<1>2. IInv => NeverCombined
  BY <1>1 DEF NeverCombined
<1> QED BY <1>2, DownloadInvariance, PTL

\* What is validated came of one version, all of it where the server announces lengths,
\* however it came together.
THEOREM WholeFilesProcessed == Spec => []ProcessedWhole
BY DownloadInvariance, PTL DEF IInv

\* What is published is one sound version of the file.
THEOREM SoundFilesPublished == Spec => []PublishedSound
BY DownloadInvariance, PTL DEF IInv

\* A server that does not do ranges for this download is not asked for one again.
THEOREM RefusalsRemembered == Spec => RefusalRemembered
<1>1. IInv /\ (NoResponse \/ Answered) /\ refused => Offset = 0
  BY DEF IInv, RefusalKept, Offset, NoResponse, Answered, RangeRejected, NothingLeft, RangeSent, WholeSent
<1>2. IInv /\ [Next]_vars => [(NoResponse \/ Answered) /\ refused => Offset = 0]_vars
  BY <1>1
<1> QED BY <1>2, DownloadInvariance, PTL DEF Spec, RefusalRemembered

\* The bytes that a run with --continue may take up are kept, or gone, or not older than
\* what is published.
LEMMA HeldStep ==
  ASSUME IInv, [Next]_vars, ~Publish, ~Replace
  PROVE  /\ UNCHANGED <<served, dest>>
         /\ Held' \in {Held, 0} \cup Delivered..served
<1>0. TypeOK /\ InOrder /\ served \in Nat /\ part \in BytesType /\ body \in BytesType
  BY VersionFacts DEF IInv, TypeOK
<1>1. UNCHANGED <<served, dest>>
  BY DEF Next, Run, Answered, Open, NoResponse, RangeRejected, NothingLeft, RangeSent,
     WholeSent, Describe, Copy, Cut, Close, Short, Complete, Invalid, Unreadable, RemovePart,
     RemoveMeta, Stop, serverVars, diskVars, vars
<1>2. CASE Open \/ ~continue
  <2>1. Named' = Named
    BY <1>0, <1>2, NamedKept
  <2> QED BY <1>1, <2>1 DEF Held
<1>3. CASE ~Open /\ continue
  <2>1. Named.part = part /\ Named'.part = part'
    BY <1>3, Constant DEF Named
  <2>2. CASE Copy
    <3>1. /\ body # <<>> /\ part' = Append(part, Head(body)) /\ pc = "copy"
      BY <2>2 DEF Copy
    <3>2. /\ 1 \in 1..Len(body) /\ Head(body) = body[1] /\ Len(part) \in Nat /\ body[1] \in Int
      BY <1>0, <3>1, VersionFacts DEF BytesType
    <3>3. Head(body) \in Delivered..served
      BY <1>0, <3>1, <3>2 DEF InOrder, Offered, NotOlder
    <3>4. part' # <<>> /\ part'[1] = IF part = <<>> THEN Head(body) ELSE part[1]
      BY <1>0, <3>1, <3>2 DEF BytesType
    <3> QED BY <1>1, <2>1, <3>3, <3>4 DEF Held
  <2>3. CASE ~Copy
    <3>1. part' \in {part, <<>>, NoPart}
      BY <1>3, <2>3 DEF Next, Run, Answered, NoResponse, RangeRejected, NothingLeft, RangeSent,
         WholeSent, Describe, Cut, Close, Short, Complete, Invalid, Unreadable, RemovePart,
         RemoveMeta, Stop, diskVars, vars
    <3>2. NoPart # <<>> /\ NoPart[1] = 0
      BY DEF NoPart
    <3> QED BY <1>1, <2>1, <3>1, <3>2 DEF Held
  <2> QED BY <2>2, <2>3
<1> QED BY <1>2, <1>3

\* A run that publishes delivers a version on offer, the one held or one not older than
\* before; a replacement offers the next; the other steps hold bytes or none.
THEOREM VersionsDelivered == Spec => ImplementsDelivery
<1>1. Init => Delivery!Init
  <2>1. NoPart # <<>> /\ NoPart[1] = 0
    BY DEF NoPart
  <2> QED BY <2>1 DEF Init, Delivered, Held, Named, NoFiles, Delivery!Init, Delivery!None
<1>2. IInv /\ [Next]_vars => [Delivery!Next]_(Delivery!vars)
  <2> SUFFICES ASSUME IInv, [Next]_vars PROVE [Delivery!Next]_(Delivery!vars)
    OBVIOUS
  <2>1. CASE Publish
    <3>1. served' = served /\ Held' = Held
      BY <2>1 DEF Publish, serverVars, flagVars, Held, Named
    <3>2. Delivered <= Delivered' \/ Delivered' = Held
      BY <2>1, PublishedIsNext
    <3> QED BY <2>1, <3>1, <3>2, PublishedIsNext DEF Delivery!Next, Delivery!Deliver
  <2>2. CASE Replace
    <3>1. /\ served < Len(Length) /\ served' = served + 1
          /\ UNCHANGED <<dest, part, continue, aside>>
      BY <2>2, VersionFacts DEF Replace, diskVars, flagVars, IInv, TypeOK
    <3>2. Delivered' = Delivered /\ Held' = Held
      BY <3>1 DEF Delivered, Held, Named
    <3> QED BY <3>1, <3>2 DEF Delivery!Next, Delivery!Offer
  <2>3. CASE ~Publish /\ ~Replace
    <3>1. UNCHANGED <<dest, served>> /\ Held' \in {Held, 0} \cup Delivered..served
      BY <2>3, HeldStep
    <3>2. Delivered' = Delivered
      BY <3>1 DEF Delivered
    <3>3. CASE Held' = Held
      BY <3>1, <3>2, <3>3 DEF Delivery!vars
    <3>4. CASE Held' # Held
      BY <3>1, <3>2, <3>4 DEF Delivery!Next, Delivery!Hold, Delivery!None
    <3> QED BY <3>3, <3>4
  <2> QED BY <2>1, <2>2, <2>3
<1>3. Delivery!Init /\ [][Delivery!Next]_(Delivery!vars) => ImplementsDelivery
  BY DEF ImplementsDelivery, Delivery!Spec
<1> QED BY <1>1, <1>2, <1>3, DownloadInvariance, PTL DEF Spec

\* If every run is with --continue, or every run without, what is published is never
\* older than before.
THEOREM NeverOlder ==
  ASSUME Modes # BOOLEAN
  PROVE  Spec => [][Delivered <= Delivered']_Delivered
<1>1. IInv /\ [Next]_vars => [Delivered <= Delivered']_Delivered
  <2> SUFFICES ASSUME IInv, [Next]_vars PROVE [Delivered <= Delivered']_Delivered
    OBVIOUS
  <2>1. CASE Publish
    <3>1. ~continue \/ FALSE \notin Modes
      BY ModesAssumption DEF IInv, TypeOK
    <3> QED BY <2>1, <3>1, PublishedIsNext
  <2>2. CASE Replace
    BY <2>2 DEF Replace, diskVars, Delivered
  <2>3. CASE ~Publish /\ ~Replace
    BY <2>3, HeldStep DEF Delivered
  <2> QED BY <2>1, <2>2, <2>3
<1> QED BY <1>1, DownloadInvariance, PTL DEF Spec
=============================================================================
