---------------------------- MODULE FileDelivery ----------------------------
(* What downloading one file promises, however its bytes are gathered: the library
   offers one version of the file after another; what is delivered is a whole and
   sound version that was on offer, in one step.  It is not older than the version
   before, unless it was held: an interrupted download keeps what it has of a
   version, and delivers that one later, whatever was delivered in between.
   Download, with its partial files, its sidecar and its runs, is shown to implement it. *)
EXTENDS Naturals

CONSTANTS Last,              \* the last version of the file
          SoundVersions      \* those that are not damaged

VARIABLES offered,           \* the version the library offers
          delivered,         \* the version of the published file, or None
          held               \* the version of which bytes are kept, or None

vars == <<offered, delivered, held>>

None == 0

Init == offered = 1 /\ delivered = None /\ held = None

Offer == /\ offered < Last
         /\ offered' = offered + 1
         /\ UNCHANGED <<delivered, held>>

\* What is gathered is not older than what is published by then.
Hold == /\ held' \in {None} \cup delivered..offered
        /\ UNCHANGED <<offered, delivered>>

\* It need not be the version on offer by now: a download takes its time.
Deliver == /\ delivered' \in SoundVersions /\ delivered' <= offered
           /\ delivered <= delivered' \/ delivered' = held
           /\ UNCHANGED <<offered, held>>

Next == Offer \/ Hold \/ Deliver

Spec == Init /\ [][Next]_vars
=============================================================================
