------------------------------ MODULE Download ------------------------------
(* Downloading one file (fetch/download.go).  The bytes go to a partial file, and
   a sidecar says which representation they are of and whether they are all
   there.  A later attempt, or a later run, asks the server for the rest of that
   representation; what is complete is validated and published.  A run without
   --continue has files of its own and leaves those of earlier runs alone.  The server may
   replace the file at any time, and may honour, ignore or reject ranges.  A run
   may stop at any step: an error that is not retried, a cancelled context and a
   killed process all leave the partial file and the sidecar as they are. *)
EXTENDS Integers, Sequences

CONSTANTS
  Length,        \* the length of each version of the file, in their order
  Damage,        \* what is wrong with each version: "none", "checksum", "deflate"
  Compression,   \* the extension of the file: "zip" or "gz"
  Servers,       \* the kinds of server
  Modes,         \* the values of --continue: each run has one of them
  Retry,         \* attempts of a run
  MaxFaults,     \* bound: how many responses fail
  MaxStops       \* bound: how many runs stop before their end

ASSUME RetryAssumption == Retry \in Nat \ {0}
ASSUME ModesAssumption == Modes \subseteq BOOLEAN
ASSUME BoundsAssumption == MaxFaults \in Nat /\ MaxStops \in Nat
ASSUME LengthAssumption == Length # <<>> /\ Length \in Seq(Nat \ {0})
ASSUME DamageAssumption == Damage \in [DOMAIN Length -> {"none", "checksum", "deflate"}]

VARIABLES
  server,        \* its kind: what it does with ranges, and which headers it sends
  served,        \* the version it serves
  continue,      \* --continue, of this run or the last one
  part,          \* the partial file of that run: of which version each byte is
  meta,          \* its sidecar: a downloadState, or NoMeta
  aside,         \* the two files of the fixed names, while a run has others
  dest,          \* the published file
  pc, st,        \* the run: its next step, and its copy of the sidecar
  start, attempt,
  body,          \* the bytes of the response still to come
  faults, stops,
  refused        \* the server is known not to do ranges for this download

serverVars == <<server, served, faults>>
flagVars   == <<continue, aside>>
diskVars   == <<part, meta, dest>>
runVars    == <<st, start, attempt, body>>
vars == <<serverVars, flagVars, diskVars, runVars, pc, stops, refused>>

Versions == DOMAIN Length
NoValidator == 0
Unknown == -1
NoPart == <<0>>                      \* no file, rather than an empty one
Size(bytes) == IF bytes = NoPart THEN 0 ELSE Len(bytes)
PartSize == Size(part)

Fresh == [validator |-> NoValidator, total |-> Unknown, complete |-> FALSE, noRanges |-> FALSE]
NoMeta == [Fresh EXCEPT !.total = -2]

\* .<file>.part and its sidecar, which every run with --continue uses.
NoFiles == [part |-> NoPart, meta |-> NoMeta]
Named == IF continue THEN [part |-> part, meta |-> meta] ELSE aside

Whole(v) == [i \in 1..Length[v] |-> v]
\* responseValidator: the version, when the server sends an ETag or a date.
Tag == IF server.tagged THEN served ELSE NoValidator
Matches(validator) == validator # NoValidator /\ Tag = validator
Changed(validator) == Tag # NoValidator /\ ~Matches(validator)

Init ==
  /\ server \in Servers /\ served = 1 /\ continue \in Modes
  /\ part = NoPart /\ meta = NoMeta /\ aside = NoFiles /\ dest = <<>>
  /\ pc = "idle" /\ st = Fresh /\ start = 0 /\ attempt = 0 /\ body = <<>>
  /\ faults = 0 /\ stops = 0 /\ refused = FALSE

\* The library replaces the file.
Replace ==
  /\ served + 1 \in Versions /\ served' = served + 1
  /\ UNCHANGED <<server, flagVars, faults, diskVars, runVars, pc, stops, refused>>

-----------------------------------------------------------------------------
(* A run of file *)

\* The locals of a run that ended do not matter.
EndRun == pc' = "idle" /\ st' = Fresh /\ start' = 0 /\ attempt' = 0 /\ body' = <<>>

\* partialFile: the partial file is used if the sidecar fits it and identifies it.
Usable ==
  LET size == Size(Named.part)  state == Named.meta
  IN  /\ Named.part # NoPart /\ state # NoMeta
      /\ state.total >= 0 => size <= state.total
      /\ state.complete => size = state.total
      /\ state.validator # NoValidator \/ state.complete

\* With --continue a run takes up the files of the fixed names.  Without, it has new
\* ones: their names are random and no other run finds them.
Open ==
  /\ pc = "idle"
  /\ continue' \in Modes
  /\ IF continue' THEN part' = Named.part /\ meta' = Named.meta /\ aside' = NoFiles
                   ELSE part' = <<>> /\ meta' = NoMeta /\ aside' = Named
  /\ IF continue' /\ Usable THEN st' = Named.meta /\ start' = Size(Named.part)
                            ELSE st' = Fresh /\ start' = 0
  /\ attempt' = 1 /\ body' = <<>>
  /\ pc' = IF st'.complete THEN "process" ELSE "request"
  /\ UNCHANGED <<serverVars, dest, stops, refused>>

\* A retryable error: the next attempt starts where the partial file ends.
Retried(size, state) ==
  IF attempt < Retry
  THEN pc' = "request" /\ st' = state /\ start' = size /\ attempt' = attempt + 1 /\ body' = <<>>
  ELSE EndRun

\* restartDownload saves that the bytes are of no known representation.
Restart ==
  LET state == [st EXCEPT !.complete = FALSE, !.validator = NoValidator]
  IN  meta' = state /\ Retried(start, state)

\* Mutant: that the server does not do ranges is not looked at.
OffsetAlways == IF ~continue \/ st.validator = NoValidator THEN 0 ELSE start

\* The offset an attempt asks for.
Offset == IF ~continue \/ st.validator = NoValidator \/ st.noRanges THEN 0 ELSE start

-----------------------------------------------------------------------------
(* The response: requestResume, and fetchFile up to opening the partial file *)

Honoured ==
  Offset > 0 /\ server.ranges = "honoured" /\ (server.ifRange => Matches(st.validator))

\* No response, a timeout, or a status that is retried.
NoResponse ==
  /\ pc = "request" /\ faults < MaxFaults /\ faults' = faults + 1
  /\ Retried(Offset, st)
  /\ UNCHANGED <<server, served, flagVars, diskVars, stops, refused>>

\* Status 400: the server does not do ranges, and the whole file is asked for next.
RangeRejected ==
  /\ pc = "request" /\ Offset > 0 /\ server.ranges = "rejected"
  /\ st' = [st EXCEPT !.noRanges = TRUE] /\ meta' = st' /\ refused' = TRUE
  /\ UNCHANGED <<serverVars, flagVars, part, dest, start, attempt, body, pc, stops>>

\* Status 416: nothing follows the bytes that are there.
NothingLeft ==
  /\ pc = "request" /\ Honoured /\ Offset >= Length[served]
  /\ IF Length[served] = Offset /\ st.total = Offset /\ Matches(st.validator)
     THEN /\ st' = [st EXCEPT !.complete = TRUE] /\ meta' = st' /\ pc' = "process"
          /\ UNCHANGED <<start, attempt, body>>
     ELSE Restart
  /\ UNCHANGED <<serverVars, flagVars, part, dest, stops, refused>>

\* Mutant: a range of another representation is taken.
DiffersInLength == st.total >= 0 /\ st.total # Length[served]

Differs == (st.total >= 0 /\ st.total # Length[served]) \/ Changed(st.validator)

\* Status 206, for all that is left or for less.
RangeSent ==
  /\ pc = "request" /\ Honoured /\ Offset < Length[served]
  /\ \E end \in (Offset + 1)..Length[served] :
       /\ end < Length[served] => faults < MaxFaults
       /\ faults' = IF end < Length[served] THEN faults + 1 ELSE faults
       /\ IF Differs THEN Restart
          ELSE /\ body' = [i \in 1..(end - Offset) |-> served]
               /\ st' = [st EXCEPT !.total = Length[served]] /\ pc' = "describe"
               /\ UNCHANGED <<meta, start, attempt>>
  /\ UNCHANGED <<server, served, flagVars, part, dest, stops, refused>>

\* The sidecar of a whole response; its validator shows an ignored range.
Described(state) ==
  [validator |-> Tag, total |-> IF server.sized THEN Length[served] ELSE Unknown,
   complete  |-> FALSE, noRanges |-> state.noRanges \/ (Offset > 0 /\ Matches(state.validator))]

\* Status 200: the whole file replaces what is there.
WholeSent ==
  /\ pc = "request" /\ ~Honoured /\ (Offset > 0 => server.ranges # "rejected")
  /\ body' = Whole(served) /\ part' = <<>>
  /\ st' = Described(st) /\ start' = 0 /\ pc' = "describe"
  /\ UNCHANGED <<serverVars, flagVars, meta, dest, attempt, stops, refused>>

-----------------------------------------------------------------------------
(* The body: the rest of fetchFile *)

Describe ==
  /\ pc = "describe" /\ meta' = st /\ refused' = (refused \/ st.noRanges) /\ pc' = "copy"
  /\ UNCHANGED <<serverVars, flagVars, part, dest, runVars, stops>>

Copy ==
  /\ pc = "copy" /\ body # <<>>
  /\ part' = Append(part, Head(body)) /\ body' = Tail(body)
  /\ UNCHANGED <<serverVars, flagVars, meta, dest, st, start, attempt, pc, stops, refused>>

\* The connection fails, or nothing comes for too long.
Cut ==
  /\ pc = "copy" /\ body # <<>> /\ faults < MaxFaults /\ faults' = faults + 1
  /\ Retried(PartSize, st)
  /\ UNCHANGED <<server, served, flagVars, diskVars, stops, refused>>

\* A response without a length ends where the connection is closed, early or not:
\* copyResponse sees no error.
Close ==
  /\ pc = "copy" /\ body # <<>> /\ ~server.sized /\ faults < MaxFaults /\ faults' = faults + 1
  /\ body' = <<>>
  /\ UNCHANGED <<server, served, flagVars, diskVars, st, start, attempt, pc, stops, refused>>

\* Mutant: the total is not compared.
AllThereUnmeasured == TRUE

AllThere == st.total >= 0 => PartSize = st.total

Short ==
  /\ pc = "copy" /\ body = <<>> /\ ~AllThere /\ Retried(PartSize, st)
  /\ UNCHANGED <<serverVars, flagVars, diskVars, stops, refused>>

Complete ==
  /\ pc = "copy" /\ body = <<>> /\ AllThere
  /\ st' = [st EXCEPT !.complete = TRUE, !.total = PartSize] /\ meta' = st'
  /\ start' = PartSize /\ pc' = "process"
  /\ UNCHANGED <<serverVars, flagVars, part, dest, attempt, body, stops, refused>>

-----------------------------------------------------------------------------
(* processFile and what follows it *)

\* Mutant: only the length is looked at.
SoundByLength == \E v \in Versions : part = Whole(v)

Sound == \E v \in Versions : Damage[v] = "none" /\ part = Whole(v)
\* gzip reports a damaged deflate stream with an error ungzipFile does not know
\* to be one of the file; every error in a zip is.
Undetected == Compression = "gz" /\ \E v \in Versions : Damage[v] = "deflate" /\ part = Whole(v)

\* Mutant: the sidecar of an invalid file stays.
DiscardedKept(state) == state

\* What the sidecar says of a file that is not valid: it is fetched afresh.
Discarded(state) == [state EXCEPT !.complete = FALSE, !.validator = NoValidator]

Invalid ==
  /\ pc = "process" /\ ~Sound /\ ~Undetected
  /\ meta' = Discarded(st) /\ refused' = (refused /\ ~continue) /\ EndRun
  /\ UNCHANGED <<serverVars, flagVars, part, dest, stops>>

Unreadable ==
  /\ pc = "process" /\ Undetected /\ EndRun
  /\ UNCHANGED <<serverVars, flagVars, diskVars, stops, refused>>

\* publishDownload copies to a hidden file and renames it.
Publish ==
  /\ pc = "process" /\ Sound /\ dest' = part /\ pc' = "remove"
  /\ UNCHANGED <<serverVars, flagVars, part, meta, runVars, stops, refused>>

\* removePartial
RemovePart ==
  /\ pc = "remove" /\ part' = NoPart /\ pc' = "removeMeta"
  /\ refused' = (refused /\ ~continue)
  /\ UNCHANGED <<serverVars, flagVars, meta, dest, runVars, stops>>

RemoveMeta ==
  /\ pc = "removeMeta" /\ meta' = NoMeta /\ EndRun
  /\ UNCHANGED <<serverVars, flagVars, part, dest, stops, refused>>

Stop ==
  /\ pc # "idle" /\ stops < MaxStops /\ stops' = stops + 1 /\ EndRun
  /\ UNCHANGED <<serverVars, flagVars, diskVars, refused>>

Answered == RangeRejected \/ NothingLeft \/ RangeSent \/ WholeSent
Run ==
  \/ Open \/ NoResponse \/ Answered
  \/ Describe \/ Copy \/ Cut \/ Close \/ Short \/ Complete
  \/ Invalid \/ Unreadable \/ Publish \/ RemovePart \/ RemoveMeta

Next == Run \/ Stop \/ Replace

\* fetch is run again and again.
Spec == Init /\ [][Next]_vars /\ WF_vars(Run)

-----------------------------------------------------------------------------
(* Properties *)

BytesType == Seq(Versions \cup {0})
MetaType == [validator : Versions \cup {NoValidator}, total : Int,
             complete : BOOLEAN, noRanges : BOOLEAN]

\* The values of the variables; what a run is told of the file agrees with the
\* sidecar whenever bytes are being written.
TypeOK ==
  /\ server \in Servers /\ served \in Versions /\ continue \in Modes
  /\ part \in BytesType /\ meta \in MetaType /\ dest \in BytesType
  /\ aside \in [part : BytesType, meta : MetaType]
  /\ pc \in {"idle", "request", "describe", "copy", "process", "remove", "removeMeta"}
  /\ st \in MetaType /\ start \in Nat /\ attempt \in 0..Retry /\ body \in BytesType
  /\ faults \in 0..MaxFaults /\ stops \in 0..MaxStops /\ refused \in BOOLEAN
  /\ pc = "copy" => meta = st /\ PartSize >= start

\* The first bytes of a version, and all of them if the server announces lengths.
Received(bytes, v) ==
  /\ Size(bytes) <= Length[v] /\ bytes = [i \in 1..Size(bytes) |-> v]
  /\ server.sized => bytes = Whole(v)

\* Bytes of two versions of the file are never combined: whatever a run would
\* resume, and whatever one would take for complete, is the beginning of, or is,
\* one version, the one the sidecar names if it names one.
NeverCombined ==
  Usable /\ Named.part # <<>> =>
    \E v \in Versions :
      /\ Size(Named.part) <= Length[v] /\ Named.part = [i \in 1..Size(Named.part) |-> v]
      /\ Named.meta.validator # NoValidator => Named.meta.validator = v
      /\ Named.meta.complete => Received(Named.part, v)

\* The sidecar never claims bytes that were not written: a file taken for complete
\* is a whole version before anything validates it.  Only where the server announces
\* no length can it be the beginning of one, which the validation then refuses.
ProcessedWhole ==
  pc = "process" => \E v \in Versions : Received(part, v)

\* What is published, to the reader of the file: a version, or no version at all;
\* and the version that a run with --continue may take up.
Mixture == -1
Delivered == IF dest = <<>> THEN 0
             ELSE IF \E v \in Versions : dest = Whole(v) THEN dest[1] ELSE Mixture
Held == IF Named.part = <<>> THEN 0 ELSE Named.part[1]

Delivery == INSTANCE FileDelivery WITH
              Last <- Len(Length), SoundVersions <- {v \in Versions : Damage[v] = "none"},
              offered <- served, delivered <- Delivered, held <- Held

\* What is published is always one sound version that the library offered.  It is
\* older than the one before only if a run with --continue took it up from bytes that
\* one had left, and those were not older than what was published when they came:
\* the download implements FileDelivery.
ImplementsDelivery == Delivery!Spec

\* Once it is recorded that the server does not do ranges for this download, no
\* attempt of this run or a later one asks for a range.
RefusalRemembered ==
  [][(NoResponse \/ Answered) /\ refused => Offset = 0]_vars

\* The last version is published in the end, if it is sound, whatever was
\* interrupted, replaced or damaged before; the exception is a run that is stuck
\* with a file whose damage gzip does not recognise (CorruptFetchedAfresh).
Last == Len(Length)
LastPublished ==
  (served = Last /\ Damage[Last] = "none") ~> (dest = Whole(Last) \/ Undetected)

\* A compressed file that is corrupt is fetched afresh by the next run, as
\* download.go:195 says: a run never starts with a file that an earlier run could
\* not read.
CorruptFetchedAfresh ==
  [][Open /\ pc' = "process" =>
       \E v \in Versions : Damage[v] = "none" /\ Named.part = Whole(v)]_vars
=============================================================================
