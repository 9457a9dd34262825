------------------------------- MODULE MCLease -------------------------------
(* Names for TLC, and the symmetry of threads and sessions. *)
EXTENDS RuntimeLease, TLC

CONSTANTS t1, t2, s1, s2

Alike == Permutations(Threads) \cup Permutations(Sessions)
=============================================================================
