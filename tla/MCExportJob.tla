----------------------------- MODULE MCExportJob ------------------------------
(* Values for model checking ExportJob. *)
EXTENDS ExportJob, TLC

(* Model values that no formula tells apart; no run with it checks liveness. *)
Symmetry == Permutations(Jobs)
===============================================================================
