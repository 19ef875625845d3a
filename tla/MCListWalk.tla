------------------------------ MODULE MCListWalk ------------------------------
(* Values for model checking ListWalk. *)
EXTENDS ListWalk

(* Missing, not positive, in range, and above the maximum. *)
SentLimits == {Missing, -1, 0, 1, 2, 4}
SentPages == {Missing, -1}
===============================================================================
