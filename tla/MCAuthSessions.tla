---------------------------- MODULE MCAuthSessions ----------------------------
(* Values for model checking AuthSessions. *)
EXTENDS AuthSessions, TLC

(* Model values that no formula tells apart. *)
Symmetry ==
    Permutations(Requests) \cup Permutations(Users) \cup Permutations(Passwords)
        \cup Permutations(Token) \cup Permutations(Family)
==============================================================================
