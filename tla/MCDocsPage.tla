------------------------------ MODULE MCDocsPage -------------------------------
(* Values for model checking DocsPage. *)
EXTENDS DocsPage, TLC

CONSTANTS http, https, root, sub, here, below, partial

(* Two contents of one size, and the beginning of either. *)
MCSize == [t \in {here, below, partial} |-> IF t = partial THEN 1 ELSE 2]
MCMeaning == (here :> <<https, root>>) @@ (below :> <<https, sub>>) @@ (partial :> Fail)

(* The web root at the origin itself, behind a proxy that ends TLS, and in a *)
(* sub-directory.                                                            *)
MCSites ==
    {[page |-> <<https, root>>, sees |-> https, reach |-> {<<https, root>>}],
     [page |-> <<https, root>>, sees |-> http,  reach |-> {<<https, root>>}],
     [page |-> <<https, sub>>,  sees |-> https, reach |-> {<<https, sub>>}]}
==============================================================================
