------------------------- MODULE MCConsumerManager -------------------------
(* Two handlers, two names, two tickets; the API server mints at most      *)
(* three UIDs, so that a name is onboarded again after its consumer is     *)
(* gone.                                                                   *)
EXTENDS ConsumerManager, TLC

CONSTANTS n1, n2, k1, k2, u1, u2, u3, t1, t2

(* Nothing in the model distinguishes the members of these sets.           *)
Symmetry == Permutations(Names) \cup Permutations(Tickets)
            \cup Permutations(UIDs) \cup Permutations(Threads)
=============================================================================
