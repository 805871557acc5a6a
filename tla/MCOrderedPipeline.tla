------------------------- MODULE MCOrderedPipeline -------------------------
(* Two workers over at most six batches: the window is four, so submission stops
   at the window, batches finish out of order and pile up behind a slow one, and
   batch 1 holds no record. *)
EXTENDS OrderedPipeline

CONSTANTS w1, w2

MCWorkers == {w1, w2}
MCHollow == {1}
=============================================================================
