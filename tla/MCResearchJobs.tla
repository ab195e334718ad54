---------------------------- MODULE MCResearchJobs ----------------------------
(* Instances of ResearchJobs for TLC. *)
EXTENDS ResearchJobs, TLC

CONSTANTS w1, w2, s1, s2

\* Two incarnations with one thread each (research_parallelism = 1) ...
OneThreadEach == (s1 :> w1) @@ (s2 :> w2)
\* ... and one incarnation with two threads that share its worker_id.
SharedWorker == [s \in {s1, s2} |-> w1]

AllJobs == [w \in Workers |-> Jobs]
\* The second incarnation was restarted with job 2's agent disabled.
OneDisabled == [w \in Workers |-> IF w = w2 THEN Jobs \ {2} ELSE Jobs]

OwnScopes == [j \in Jobs |-> j]
\* Job 2 is a later generation of the scope of job 1.
SameScope == [j \in Jobs |-> 1]
=============================================================================
