--------------------------- MODULE MCSessionHistory ----------------------------
(* Values for model checking SessionHistory. *)
EXTENDS SessionHistory, TLC

(* Model values that no formula tells apart. *)
Symmetry ==
    Permutations(Requests) \cup Permutations(Passwords)
        \cup Permutations(Token) \cup Permutations(Family)
==============================================================================
