---------------------------- MODULE MCEventFacts ----------------------------
(* Instances of EventFacts for TLC. *)
EXTENDS EventFacts, TLC

CONSTANTS v1, v2, r1, r2, w1, w2

\* Nothing tells values, refreshers or workers apart.
Alike == Permutations(Values) \union Permutations(Refreshers) \union Permutations(Workers)
=============================================================================
