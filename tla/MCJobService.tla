---------------------------- MODULE MCJobService ----------------------------
(***************************************************************************)
(* Small instances of JobService for TLC.  Nodes are interchangeable, and  *)
(* so are iterations; no property names one of them.                       *)
(***************************************************************************)
EXTENDS JobService, TLC

Interchangeable == Permutations(Nodes) \cup Permutations(Loops)
=============================================================================
