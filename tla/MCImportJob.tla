----------------------------- MODULE MCImportJob ------------------------------
(* Values for model checking ImportJob. *)
EXTENDS ImportJob

CONSTANTS jose, ana, plain, acute, lower, upper

(* jose, JOSE, jose with an accent, and another name: what mb_strtolower,    *)
(* MySQL and SQLite each take for one name or for two.                       *)
FileNames == {<<jose, plain, lower>>, <<jose, plain, upper>>, <<jose, acute, lower>>,
              <<ana, plain, lower>>}
KnownNames == {<<jose, plain, lower>>, <<ana, plain, lower>>}
===============================================================================
