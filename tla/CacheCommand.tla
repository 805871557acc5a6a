---------------------------- MODULE CacheCommand ----------------------------
(* What the two halves of the command cache share (runCache in cmd/metabib/main.go,
   library/manifest.go): a run with its flags, the settings, the clock, and how
   settings are compared.  Runs follow one another and may stop at any step. *)
EXTENDS Integers

CONSTANTS
  Settings,      \* the processing settings: records [parse, nested]
  MaxClock,      \* bound: the clock
  MaxStops       \* bound: how many runs stop before their end

ASSUME CommandBounds == MaxClock \in Nat /\ MaxStops \in Nat

VARIABLES
  selected,      \* what the runs are asked to cache: "archives" or "database"
  settings, clock,
  pc, flags,     \* the run: its next step, --rebuild, --check-md5 and not --no-import
  raced,         \* the source was replaced during the run: "no", "before" or "after"
                 \* the run had begun to take it in
  stops

sharedVars == <<selected, settings, clock, pc, flags, raced, stops>>

Flags == [rebuild : BOOLEAN, check : BOOLEAN, import : BOOLEAN]
Full == [rebuild |-> TRUE, check |-> FALSE, import |-> TRUE]

CommandInit ==
  /\ selected \in {"archives", "database"} /\ settings \in Settings /\ clock = 0
  /\ pc = "idle" /\ flags = Full /\ raced = "no" /\ stops = 0

StartRun(f) ==
  /\ pc = "idle" /\ flags' = f
  /\ pc' = IF selected = "archives" THEN "classify" ELSE "discover"
  /\ UNCHANGED <<selected, settings, clock, raced, stops>>

EndRun == pc' = "idle" /\ flags' = Full /\ raced' = "no"
Goto(step) == pc' = step /\ UNCHANGED <<flags, raced>>
SameWorld == UNCHANGED <<selected, settings, clock, stops>>

Configure ==
  /\ pc = "idle" /\ settings' \in Settings \ {settings}
  /\ UNCHANGED <<selected, clock, pc, flags, raced, stops>>

Tick ==
  /\ clock < MaxClock /\ clock' = clock + 1
  /\ UNCHANGED <<selected, settings, pc, flags, raced, stops>>

StopRun ==
  /\ pc # "idle" /\ stops < MaxStops /\ stops' = stops + 1 /\ EndRun
  /\ UNCHANGED <<selected, settings, clock>>

-----------------------------------------------------------------------------

\* The settings a manifest depends on: nested archives are looked at in usr only.
Processing(scope) == [parse |-> settings.parse, nested |-> scope = "usr" /\ settings.nested]

NoManifest == [schema |-> 0]
Unreadable == [schema |-> -1]
Readable(m) == m.schema > 0
=============================================================================
