------------------------ MODULE MCProviderTransport ------------------------
(* Instances of ProviderTransport for TLC. *)
EXTENDS ProviderTransport, TLC

CONSTANTS c1, c2, t1, t2

\* Nothing tells coroutines, or threads, apart.
Alike == Permutations(Coroutines) \union Permutations(Threads)
=============================================================================
