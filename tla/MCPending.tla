----------------------------- MODULE MCPending -----------------------------
(* Names for TLC, and the rounds' symmetry in runs without liveness. *)
EXTENDS PendingCapture, TLC

CONSTANTS r1, r2, w1, w2

Alike == Permutations(Captures) \cup Permutations(Workers)
=============================================================================
