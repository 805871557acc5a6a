---------------------------- MODULE OrderedBuild ----------------------------
(* What building one manifest promises, whoever computes its records: the
   batches of the source are emitted in source order, each exactly once; the
   manifest is published in one step, after the last batch and never before;
   the builder ends, having published or having failed.  OrderedPipeline, the
   worker pool of library/process.go, is shown to implement it. *)
EXTENDS Naturals

CONSTANT MaxBatches          \* the largest number of batches a source has

VARIABLES total,             \* the number of batches of this source
          emitted,           \* how many of them the output holds
          manifest,          \* the manifest file: the earlier one, or the new one
          outcome            \* how the builder ended, if it did

vars == <<total, emitted, manifest, outcome>>

Init == /\ total \in 0..MaxBatches
        /\ emitted = 0
        /\ manifest = "earlier"
        /\ outcome = "running"

Emit == /\ outcome = "running" /\ manifest = "earlier"
        /\ emitted < total
        /\ emitted' = emitted + 1
        /\ UNCHANGED <<total, manifest, outcome>>

Publish == /\ outcome = "running"
           /\ emitted = total
           /\ manifest' = "new"
           /\ UNCHANGED <<total, emitted, outcome>>

\* A builder that failed after publishing (it could not remove a temporary
\* file) still leaves a whole manifest.
End == /\ outcome = "running"
       /\ \/ manifest = "new" /\ outcome' = "ok"
          \/ outcome' = "failed"
       /\ UNCHANGED <<total, emitted, manifest>>

Next == Emit \/ Publish \/ End

Spec == Init /\ [][Next]_vars /\ WF_vars(Next)
=============================================================================
