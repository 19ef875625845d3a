--------------------------- MODULE MCAccessControl ----------------------------
(* Values for model checking AccessControl. *)
EXTENDS AccessControl

(* Model values that no formula tells apart (one account, so no symmetry of accounts); no run with it checks liveness. *)
Symmetry == Permutations(Requests)
===============================================================================
