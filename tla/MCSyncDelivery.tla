--------------------------- MODULE MCSyncDelivery ---------------------------
(* Instances of SyncDelivery for TLC. *)
EXTENDS SyncDelivery, TLC

CONSTANT vix

\* The news in the second and the fourth, the other section in the third.
NewsAroundVix == <<{News, vix}, {News}, {vix}, {News}>>

\* The news of the second snapshot are degraded, and stay so in the third.
NewsDegraded == [r \in Revisions |-> IF r \in {2, 3} THEN {News} ELSE {}]
=============================================================================
