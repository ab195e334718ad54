------------------------- MODULE MCForcedGeneration -------------------------
(* Instances of ForcedGeneration for TLC. *)
EXTENDS ForcedGeneration, TLC

CONSTANTS e1, e2, t1, t2, d1, d2, s1, s2, f1, f2

\* Two providers of one date, and one provider of two dates.
TwoTargets == (e1 :> <<t1, d1>>) @@ (e2 :> <<t2, d1>>)
TwoDays == (e1 :> <<t1, d1>>) @@ (e2 :> <<t1, d2>>)
OneCell == [e \in Events |-> <<t1, d1>>]
=============================================================================
