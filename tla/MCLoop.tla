-------------------------------- MODULE MCLoop --------------------------------
(* Names for TLC, and the symmetry of captures. *)
EXTENDS WorkerLoop, TLC

CONSTANTS c1, c2

Alike == Permutations(Captures)
=============================================================================
