--------------------------- MODULE MCCustomerCache ---------------------------
(* Values for model checking CustomerCache. *)
EXTENDS CustomerCache, TLC

(* Model values that no formula tells apart.  Not used with liveness. *)
Symmetry == Permutations(Requests) \cup Permutations(Keys)
==============================================================================
