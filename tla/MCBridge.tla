------------------------------ MODULE MCBridge ------------------------------
(***************************************************************************)
(* Names for the hook processes and tool calls of the small instances of   *)
(* LifecycleBridge.                                                        *)
(***************************************************************************)
EXTENDS LifecycleBridge, TLC

CONSTANTS h1, h2, c1, c2

\* Hook processes differ by name only, and no property is about liveness.
HookSymmetry == Permutations(Hooks)
\* Bound: what goes wrong is either of the host's hooks (one killed, one
\* overtaking another) or, once, of the core (a lost request, an expired lease).
FewMishaps ==
  LET core == mishaps["outage"] + mishaps["expiry"]
  IN  core = 0 \/ (core = 1 /\ mishaps["kill"] + mishaps["overlap"] = 0)
=============================================================================
