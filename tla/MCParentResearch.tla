--------------------------- MODULE MCParentResearch ---------------------------
(* Instances of ParentResearch for TLC. *)
EXTENDS ParentResearch, TLC

CONSTANTS w1, w2, s1, s2

OneThreadEach == (s1 :> w1) @@ (s2 :> w2)
SharedWorker == [s \in {s1, s2} |-> w1]

AllJobs == [w \in Workers |-> Jobs]
OwnScopes == [j \in Jobs |-> j]
=============================================================================
