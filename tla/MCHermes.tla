------------------------------ MODULE MCHermes ------------------------------
(* Names for TLC, and the symmetry of threads and tool calls. *)
EXTENDS HermesRounds, TLC

CONSTANTS t1, t2, c1, c2

Alike == Permutations(Threads) \cup Permutations(Calls)
=============================================================================
