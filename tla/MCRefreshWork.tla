---------------------------- MODULE MCRefreshWork ----------------------------
(* Instances of RefreshWork for TLC. *)
EXTENDS RefreshWork, TLC

CONSTANTS q1, q2, q3, news, vix, r1, r2

\* The first request covers the second; the third overlaps both and asks for more.
OverlappingWants == (q1 :> {news}) @@ (q2 :> {news}) @@ (q3 :> {news, vix})

\* Two triggers of one kind, and a request for missing context.
MixedReasons == (q1 :> "MACRO_ACTUAL") @@ (q2 :> "MACRO_ACTUAL") @@ (q3 :> "CONTEXT_REQUIRED")

TwoWants == (q1 :> {news}) @@ (q2 :> {news, vix})
TwoReasons == [q \in {q1, q2} |-> "MACRO_ACTUAL"]
EqualWants == [q \in {q1, q2} |-> {news}]

\* Runners are interchangeable: no action or property names one.
RunnerSymmetry == Permutations({r1, r2})
=============================================================================
