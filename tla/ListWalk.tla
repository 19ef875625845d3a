------------------------------- MODULE ListWalk -------------------------------
(***************************************************************************)
(* A client reads the customer list page by page: CustomerListRequest,     *)
(* Helper\Pagination, CustomerService::list and CustomerModel::countGet    *)
(* and get.  Each page is a request of its own and counts and selects with *)
(* two statements, and other requests change the table between any two.    *)
(*                                                                         *)
(* The answers come from the database here; CustomerCache models what a    *)
(* cached answer is worth.                                                 *)
(***************************************************************************)
EXTENDS CustomerTable, SequencesExt

CONSTANTS
    DEFAULT_LIMIT,
    MAX_LIMIT,
    Missing,        \* a query parameter that is missing or empty
    Limits,         \* what clients send as limit
    Pages           \* what clients send as page when they begin

ASSUME PagingAssumption ==
    /\ MAX_LIMIT \in Nat \ {0} /\ DEFAULT_LIMIT \in 1 .. MAX_LIMIT
    /\ Missing \notin Int /\ Limits \subseteq Int \cup {Missing}
    /\ Pages \subseteq {i \in Int : i < 1} \cup {Missing}

-------------------------------------------------------------------------------
(* Helper\Pagination *)

(* Variant, not the code: a limit above the maximum is let through. *)
SanitizeLimitUncapped(limit) == IF limit = Missing \/ limit <= 0 THEN DEFAULT_LIMIT ELSE limit

(* sanitize; a text that is no number counts as 0. *)
SanitizeLimit(limit) ==
    IF limit = Missing \/ limit <= 0 THEN DEFAULT_LIMIT
    ELSE IF limit > MAX_LIMIT THEN MAX_LIMIT ELSE limit

(* Variant, not the code: a page below 1 is let through. *)
SanitizePageUnclamped(page) == IF page = Missing THEN 1 ELSE page

SanitizePage(page) == IF page = Missing \/ page < 1 THEN 1 ELSE page

(* Variant, not the code: the last page is counted only when it is full. *)
FullPages(total, perPage) == IF total <= 0 \/ perPage <= 0 THEN 0 ELSE total \div perPage

TotalPages(total, perPage) ==
    IF total <= 0 \/ perPage <= 0 THEN 0 ELSE (total - 1) \div perPage + 1

(* Variant, not the code: pages are counted from 0. *)
ZeroBasedOffset(page, limit) == limit * page

Offset(page, limit) == limit * page - limit

Clamp(limit) == IF limit < 1 THEN 1 ELSE IF limit > MAX_LIMIT THEN MAX_LIMIT ELSE limit

(* apply: LIMIT and OFFSET on the rows in order. *)
Page(rows, page, limit) ==
    LET offset == Offset(IF page < 1 THEN 1 ELSE page, Clamp(limit))
        first  == offset + 1
        last   == offset + Clamp(limit)
    IN SubSeq(rows, first, IF last < Len(rows) THEN last ELSE Len(rows))

-------------------------------------------------------------------------------

VARIABLES
    walk,       \* the client and the request it waits for
    steady,     \* history: the customers that matched ever since the walk began
    left,       \* history: how often a customer stopped matching since
    returned    \* history: how often an old customer matched again since

walkVars == <<customers, walk, steady, left, returned, edits>>

Walk == [pc    : {"ask", "count", "rows", "answer", "done"},
         limit : Limits,        \* sent with every page
         page  : Pages \cup (Nat \ {0}),
         total : 0 .. MaxCustomers,     \* of the answer under way
         data  : Seq(Ids),
         got   : Seq(Ids)]      \* all rows the client was sent

(* The request under way and what the client was sent before. *)
Walking(pc, limit, page, total, data, got) ==
    [pc |-> pc, limit |-> limit, page |-> page, total |-> total, data |-> data, got |-> got]
Beginnings == {Walking("ask", limit, page, 0, <<>>, <<>>) : limit \in Limits, page \in Pages \cup {1}}

WalkInit ==
    /\ \E n \in 0 .. MaxCustomers : customers \in [1 .. n -> BOOLEAN]
    /\ walk \in Beginnings
    /\ steady = Matching
    /\ left = 0 /\ returned = 0 /\ edits = 0

-------------------------------------------------------------------------------
(* One page. *)

AskPage ==
    /\ walk.pc = "ask"
    /\ walk' = Walking("count", walk.limit, walk.page, walk.total, walk.data, walk.got)
    /\ UNCHANGED <<customers, steady, left, returned, edits>>

CountGet ==
    /\ walk.pc = "count"
    /\ walk' = Walking("rows", walk.limit, walk.page, Cardinality(Matching), walk.data, walk.got)
    /\ UNCHANGED <<customers, steady, left, returned, edits>>

(* Variant, not the code: the newest rows come first. *)
GetNewestFirst ==
    /\ walk.pc = "rows"
    /\ walk' = Walking("answer", walk.limit, walk.page, walk.total,
                       Page(Reverse(InOrder(Matching)), SanitizePage(walk.page), SanitizeLimit(walk.limit)),
                       walk.got)
    /\ UNCHANGED <<customers, steady, left, returned, edits>>

Get ==
    /\ walk.pc = "rows"
    /\ walk' = Walking("answer", walk.limit, walk.page, walk.total,
                       Page(InOrder(Matching), SanitizePage(walk.page), SanitizeLimit(walk.limit)),
                       walk.got)
    /\ UNCHANGED <<customers, steady, left, returned, edits>>

(* The client keeps the rows and goes on while total_page promises more. *)
Answer ==
    /\ walk.pc = "answer"
    /\ LET totalPage == TotalPages(walk.total, SanitizeLimit(walk.limit))
           page == SanitizePage(walk.page)
           got == walk.got \o walk.data IN
       walk' = IF page < totalPage
               THEN Walking("ask", walk.limit, page + 1, walk.total, <<>>, got)
               ELSE Walking("done", walk.limit, walk.page, walk.total, <<>>, got)
    /\ UNCHANGED <<customers, steady, left, returned, edits>>

-------------------------------------------------------------------------------
(* Other requests. *)

Create ==
    /\ edits < MaxEdits /\ Len(customers) < MaxCustomers
    /\ customers' = Append(customers, TRUE)
    /\ edits' = edits + 1
    /\ UNCHANGED <<walk, steady, left, returned>>

(* A delete, or an update after which i no longer matches the filter. *)
Depart(i) ==
    /\ edits < MaxEdits /\ customers[i]
    /\ customers' = [customers EXCEPT ![i] = FALSE]
    /\ steady' = steady \ {i}
    /\ left' = left + 1
    /\ edits' = edits + 1
    /\ UNCHANGED <<walk, returned>>

(* An update after which i matches it again. *)
Return(i) ==
    /\ edits < MaxEdits /\ ~customers[i]
    /\ customers' = [customers EXCEPT ![i] = TRUE]
    /\ returned' = returned + 1
    /\ edits' = edits + 1
    /\ UNCHANGED <<walk, steady, left>>

WalkNext ==
    \/ AskPage \/ CountGet \/ Get \/ Answer
    \/ Create
    \/ \E i \in DOMAIN customers : Depart(i) \/ Return(i)

WalkSpec == WalkInit /\ [][WalkNext]_walkVars

-------------------------------------------------------------------------------
(* Properties. *)

(* The variables keep their types. *)
WalkTypeOK ==
    /\ customers \in Seq(BOOLEAN) /\ Len(customers) <= MaxCustomers
    /\ walk \in Walk
    /\ steady \subseteq Matching
    /\ left \in 0 .. MaxEdits /\ returned \in 0 .. MaxEdits /\ edits \in 0 .. MaxEdits

(* A walk through all pages misses a customer that was there all the time    *)
(* only when rows left and the later ones moved up a page, or an older row   *)
(* returned between a count and its rows and moved them past the last page   *)
(* counted; at most one for each, whatever limit was sent.  New customers    *)
(* cost nothing.                                                             *)
MissesOnlyWhatMoved ==
    walk.pc = "done" => Cardinality(steady \ ToSet(walk.got)) <= left + returned

(* No customer is sent twice unless an older one matched again and pushed it *)
(* onto the next page, and then at most one for each that did: new customers *)
(* are sorted last and push nobody.                                          *)
RepeatsOnlyWhatMovedDown ==
    Len(walk.got) - Cardinality(ToSet(walk.got)) <= returned
===============================================================================
