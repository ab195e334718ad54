------------------------ MODULE MCResearchInvocation ------------------------
(* Instances of ResearchInvocation for TLC. *)
EXTENDS ResearchInvocation, TLC

CONSTANTS t1, t2, u1, u2, v1, v2

\* Claims about both pages, or about the first one alone.
TwoAnswers == {(u1 :> v1) @@ (u2 :> v2), (u1 :> v1) @@ (u2 :> None)}
OneAnswer == {[u \in Urls |-> v1]}
AnyAnswer == [Urls -> Contents \union {None}]
=============================================================================
