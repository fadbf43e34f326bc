------------------------------ MODULE MCMutexes ------------------------------
(***************************************************************************)
(* A small instance of Mutexes: two threads that nest two lock objects.    *)
(***************************************************************************)
EXTENDS Mutexes

CONSTANTS t1, t2, k1, k2, l1, l2

TwoEach == (k1 :> t1) @@ (k2 :> t1) @@ (l1 :> t2) @@ (l2 :> t2)

\* A thread's lock objects, the threads with theirs, and the resources.
Swap == (t1 :> t2) @@ (t2 :> t1)
            @@ (k1 :> l1) @@ (l1 :> k1) @@ (k2 :> l2) @@ (l2 :> k2)
Symmetry == Permutations(Resources) \cup Permutations({k1, k2})
                \cup Permutations({l1, l2}) \cup {Swap}
=============================================================================
