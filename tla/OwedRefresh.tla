----------------------------- MODULE OwedRefresh -----------------------------
(***************************************************************************)
(* What POST /market-context/mnq/sync/refresh promises, without rows,      *)
(* generations or leases: an accepted request is owed a snapshot until it  *)
(* is answered with the revision of one, and it is answered once.          *)
(***************************************************************************)
EXTENDS Naturals

CONSTANTS
    Requests,
    Revisions   \* of snapshots, from 1

VARIABLES
    owed,    \* accepted requests whose work is not COMPLETED
    answer   \* the snapshot revision a request was answered with, 0 for none

Init == owed = {} /\ answer = [q \in Requests |-> 0]

Accept(q) ==
    /\ q \notin owed
    /\ answer[q] = 0
    /\ owed' = owed \union {q}
    /\ UNCHANGED answer

\* All the requests that share one refresh are answered together, by one revision.
Serve(batch) ==
    /\ batch # {}
    /\ owed' = owed \ batch
    /\ answer' \in [Requests -> Revisions \union {0}]
    /\ \A q \in Requests \ batch : answer'[q] = answer[q]
    /\ \A q, p \in batch : answer'[q] \in Revisions /\ answer'[q] = answer'[p]

Next == \/ \E q \in Requests : Accept(q)
        \/ \E batch \in SUBSET owed : Serve(batch)

Spec == Init /\ [][Next]_<<owed, answer>>
=============================================================================
