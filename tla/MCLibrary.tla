----------------------------- MODULE MCLibrary ------------------------------
(* The updates and the first libraries of MCRollup, with both layouts. *)
EXTENDS Library, MCRollup
=============================================================================
