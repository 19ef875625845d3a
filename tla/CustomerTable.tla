---------------------------- MODULE CustomerTable -----------------------------
(***************************************************************************)
(* The customer table as CustomerModel reads it for somebody with a        *)
(* filter, who exports it (ExportJob) or leafs through it (ListWalk).      *)
(*                                                                         *)
(* A customer is an id, which matches the filter or not.  Rows come in the *)
(* order of their ids, and a new customer has the greatest.                *)
(***************************************************************************)
EXTENDS Integers, Sequences, FiniteSets

CONSTANTS
    MaxCustomers,   \* bound: rows of the table
    MaxEdits        \* bound: changes other requests make to it

ASSUME BoundsAssumption == MaxCustomers \in Nat /\ MaxEdits \in Nat

Ids == 1 .. MaxCustomers

VARIABLES
    customers,  \* table customer by id: whether the row matches the filter
    edits       \* bound: changes made by other requests

Matching == {i \in DOMAIN customers : customers[i]}

(* ORDER BY id *)
Ascending(rows) == \A i, k \in DOMAIN rows : i < k => rows[i] < rows[k]
InOrder(set) == CHOOSE rows \in [1 .. Cardinality(set) -> set] : Ascending(rows)
===============================================================================
