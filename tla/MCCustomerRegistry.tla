------------------------- MODULE MCCustomerRegistry --------------------------
(* Values for model checking CustomerRegistry. *)
EXTENDS CustomerRegistry, TLC

(* Model values that no formula tells apart; no run with it checks liveness. *)
Symmetry ==
    Permutations(Requests) \cup Permutations(Ids) \cup Permutations(Names)
        \cup Permutations(Emails) \cup Permutations(Files)
==============================================================================
