------------------------------ MODULE MCDevServer ------------------------------
(* Model checking DevServer: the names of the children are the program's, the *)
(* configuration gives the sizes.                                             *)
EXTENDS DevServer
==============================================================================
