-------------------------- MODULE ConsumerInventory --------------------------
(***************************************************************************)
(* What the producer may believe about its consumers: for every section a  *)
(* revision that the consumer has committed at some time, never an older   *)
(* one than it believed before, of one consumer after the other.           *)
(***************************************************************************)
EXTENDS Naturals

CONSTANTS Consumers, Sections

VARIABLES
    possessed,  \* newest revision of each section that a consumer committed
    known,      \* revision of each section that the producer believes it has
    latest      \* newest snapshot revision the producer believes it has

Init == /\ possessed = [c \in Consumers |-> [s \in Sections |-> 0]]
        /\ known = [c \in Consumers |-> [s \in Sections |-> 0]]
        /\ latest = [c \in Consumers |-> 0]

Others(c) == Consumers \ {c}

Persist(c) ==
    /\ \A s \in Sections : possessed[c][s] <= possessed'[c][s]
    /\ \A x \in Others(c) : possessed'[x] = possessed[x]
    /\ UNCHANGED <<known, latest>>

Acknowledge(c) ==
    /\ \A s \in Sections : /\ known[c][s] <= known'[c][s]
                           /\ known'[c][s] <= possessed[c][s]
    /\ latest[c] <= latest'[c]
    /\ \A x \in Others(c) : known'[x] = known[x] /\ latest'[x] = latest[x]
    /\ UNCHANGED possessed

Next == \E c \in Consumers : Persist(c) \/ Acknowledge(c)

Spec == Init /\ [][Next]_<<possessed, known, latest>>
=============================================================================
