-------------------------- MODULE CustomerTableProofs --------------------------
(***************************************************************************)
(* Proofs about the customer table and its two readers: ExportJob and      *)
(* ListWalk.                                                               *)
(*                                                                         *)
(* First the rows of a query: every set of ids can be put in order, and    *)
(* the k-th row is the one at place k.                                     *)
(*                                                                         *)
(* Then the export: types, honest progress, the limit and the whole        *)
(* download.  The invariant says how much of the answer the file holds at  *)
(* each statement of handle (Written), that a completed job keeps the file *)
(* it completed with, and that a download is about a completed job; then   *)
(* no retry, crash or other export can change what a download reads.       *)
(*                                                                         *)
(* Last the walk through the list: what it misses and what it repeats.     *)
(* The invariant counts, at every statement, the steady customers that     *)
(* moved up past the client (Missed), those behind the rows counted (Over) *)
(* and the rows sent twice or about to be (Repeated): a row that leaves    *)
(* moves one other past a given place, and so does one that returns.       *)
(***************************************************************************)
EXTENDS ExportJob, ListWalk, WellFoundedInduction, FiniteSetTheorems, SequenceTheorems, TLAPS

(* The rows of a query. *)

LEMMA IdsFinite ==
    Ids \in SUBSET Nat /\ IsFiniteSet(Ids) /\ Cardinality(Ids) = MaxCustomers
<1>1. MaxCustomers \in Nat
  BY BoundsAssumption
<1> QED
  BY <1>1, FS_Interval DEF Ids

(* A set of ids has a greatest one: the set of the ids from it on is the      *)
(* smallest of all such sets.                                                 *)
LEMMA Greatest ==
    ASSUME NEW S \in SUBSET Ids, S # {}
    PROVE  \E m \in S : \A k \in S : k <= m
<1> DEFINE From == {m .. MaxCustomers : m \in S}
<1>0. MaxCustomers \in Nat /\ S \in SUBSET Nat /\ \A m \in S : m <= MaxCustomers
  BY BoundsAssumption DEF Ids
<1>1. From \subseteq FiniteSubsetsOf(Nat) /\ From # {}
  <2>1. ASSUME NEW m \in S PROVE m .. MaxCustomers \in FiniteSubsetsOf(Nat)
    <3>1. m \in Int /\ MaxCustomers \in Int /\ m .. MaxCustomers \in SUBSET Nat
      BY <1>0
    <3>2. IsFiniteSet(m .. MaxCustomers)
      BY <3>1, FS_Interval
    <3> QED
      BY <3>1, <3>2 DEF FiniteSubsetsOf
  <2> QED
    BY <2>1
<1>2. PICK B \in From : \A A \in From : ~ (<<A, B>> \in StrictSubsetOrdering(Nat))
  BY <1>1, FS_StrictSubsetOrderingWellFounded, WFMin
<1>3. PICK m \in S : B = m .. MaxCustomers
  BY <1>2
<1>4. ASSUME NEW k \in S, k > m PROVE FALSE
  <2>1. k .. MaxCustomers \in SUBSET Nat /\ m .. MaxCustomers \in SUBSET Nat
    BY <1>0
  <2>2. k .. MaxCustomers \subseteq m .. MaxCustomers
    BY <1>0, <1>4
  <2>3. m \in m .. MaxCustomers /\ m \notin k .. MaxCustomers
    BY <1>0, <1>4
  <2>4. <<k .. MaxCustomers, m .. MaxCustomers>> \in StrictSubsetOrdering(Nat)
    BY <2>1, <2>2, <2>3 DEF StrictSubsetOrdering
  <2> QED
    BY <1>2, <1>3, <2>4
<1> QED
  BY <1>0, <1>4

(* Every set of ids can be put in order: a smallest one that cannot be would  *)
(* have a greatest member, and the rest of it can be.                         *)
LEMMA Sorted ==
    ASSUME NEW S \in SUBSET Ids
    PROVE  \E rows \in [1 .. Cardinality(S) -> S] : Ascending(rows)
<1> DEFINE Bad == {T \in SUBSET Ids : ~ \E rows \in [1 .. Cardinality(T) -> T] : Ascending(rows)}
<1> SUFFICES ASSUME Bad # {} PROVE FALSE
  OBVIOUS
<1>1. Bad \subseteq FiniteSubsetsOf(Ids)
  BY IdsFinite, FS_Subset DEF FiniteSubsetsOf
<1>2. PICK T \in Bad : \A U \in Bad : ~ (<<U, T>> \in StrictSubsetOrdering(Ids))
  BY <1>1, FS_StrictSubsetOrderingWellFounded, WFMin
<1>3. T # {}
  <2>1. SUFFICES ASSUME T = {} PROVE FALSE
    OBVIOUS
  <2>2. Cardinality(T) = 0 /\ 1 .. 0 = {}
    BY <2>1, FS_EmptySet
  <2>3. <<>> \in [1 .. Cardinality(T) -> T]
    BY <2>1, <2>2
  <2>4. Ascending(<<>>)
    BY DEF Ascending
  <2> QED
    BY <2>3, <2>4
<1>4. PICK m \in T : \A k \in T : k <= m
  BY <1>3, Greatest
<1> DEFINE U == T \ {m}
<1>5. PICK n \in Nat : n = Cardinality(U) /\ Cardinality(T) = n + 1
  <2>1. IsFiniteSet(T)
    BY IdsFinite, FS_Subset
  <2>2. IsFiniteSet(U) /\ Cardinality(U) = Cardinality(T) - 1
    BY <2>1, <1>4, FS_RemoveElement
  <2> QED
    BY <2>1, <2>2, FS_CardinalityType
<1>6. <<U, T>> \in StrictSubsetOrdering(Ids)
  BY <1>4 DEF StrictSubsetOrdering
<1>7. PICK rows \in [1 .. n -> U] : Ascending(rows)
  <2>1. U \in SUBSET Ids /\ U \notin Bad
    BY <1>2, <1>6
  <2> QED
    BY <2>1, <1>5
<1> DEFINE all == [k \in 1 .. n + 1 |-> IF k = n + 1 THEN m ELSE rows[k]]
<1>8. all \in [1 .. n + 1 -> T]
  <2>1. ASSUME NEW k \in 1 .. n + 1 PROVE (IF k = n + 1 THEN m ELSE rows[k]) \in T
    <3>1. CASE k = n + 1
      BY <3>1, <1>4
    <3>2. CASE k # n + 1
      <4>1. k \in 1 .. n
        BY <1>5, <3>2
      <4> QED
        BY <4>1, <3>2, <1>7
    <3> QED
      BY <3>1, <3>2
  <2> QED
    BY <2>1
<1>9. \A i, k \in 1 .. n + 1 : i < k => all[i] < all[k]
  <2> SUFFICES ASSUME NEW i \in 1 .. n + 1, NEW k \in 1 .. n + 1, i < k
               PROVE  all[i] < all[k]
    OBVIOUS
  <2>0. T \in SUBSET Nat /\ n \in Nat
    BY IdsFinite, <1>5
  <2>1. i \in 1 .. n /\ all[i] = rows[i] /\ rows[i] \in U
    BY <2>0, <1>7
  <2>2. CASE k = n + 1
    <3>1. all[k] = m /\ m \in Nat
      BY <2>0, <2>2, <1>4
    <3>2. rows[i] \in T /\ rows[i] # m /\ rows[i] <= m /\ rows[i] \in Nat
      BY <2>0, <2>1, <1>4
    <3> QED
      BY <2>1, <3>1, <3>2
  <2>3. CASE k # n + 1
    <3>1. k \in 1 .. n /\ all[k] = rows[k]
      BY <2>0, <2>3
    <3>2. rows[i] < rows[k]
      BY <2>1, <3>1, <1>7 DEF Ascending
    <3> QED
      BY <2>1, <3>1, <3>2
  <2> QED
    BY <2>2, <2>3
<1>10. Ascending(all)
  BY <1>9 DEF Ascending
<1> QED
  BY <1>5, <1>8, <1>10

(* The answer to a query has each matching customer once, in ascending order. *)
LEMMA InOrderIsTheSet ==
    ASSUME NEW S \in SUBSET Ids, NEW rows, rows = InOrder(S)
    PROVE  /\ rows \in Seq(Ids) /\ Len(rows) = Cardinality(S)
           /\ IsFiniteSet(S) /\ Cardinality(S) \in 0 .. MaxCustomers
           /\ ToSet(rows) = S
           /\ \A i \in 1 .. Cardinality(S) : rows[i] \in S
           /\ \A i, k \in 1 .. Cardinality(S) : i < k => rows[i] < rows[k]
<1>1. rows \in [1 .. Cardinality(S) -> S] /\ Ascending(rows)
  BY Sorted DEF InOrder
<1>2. IsFiniteSet(S) /\ Cardinality(S) \in Nat /\ Cardinality(S) <= MaxCustomers
  BY IdsFinite, FS_Subset, FS_CardinalityType
<1>3. rows \in Seq(Ids) /\ Len(rows) = Cardinality(S)
  BY <1>1, <1>2
<1>4. /\ \A i \in 1 .. Cardinality(S) : rows[i] \in S
      /\ \A i, k \in 1 .. Cardinality(S) : i < k => rows[i] < rows[k]
  <2>1. DOMAIN rows = 1 .. Cardinality(S)
    BY <1>1
  <2> QED
    BY <1>1, <2>1 DEF Ascending
<1>5. rows \in Injection(1 .. Cardinality(S), S)
  <2>1. ASSUME NEW i \in 1 .. Cardinality(S), NEW k \in 1 .. Cardinality(S), rows[i] = rows[k]
        PROVE  i = k
    <3>1. S \in SUBSET Nat
      BY IdsFinite
    <3>2. \A m \in 1 .. Cardinality(S) : rows[m] \in Nat
      BY <1>4, <3>1
    <3>3. rows[i] \in Nat /\ rows[k] \in Nat /\ i \in Nat /\ k \in Nat
      BY <1>2, <3>2
    <3>4. ~ (i < k) /\ ~ (k < i)
      BY <1>4, <2>1, <3>3
    <3> QED
      BY <3>3, <3>4
  <2>2. DOMAIN rows = 1 .. Cardinality(S)
    BY <1>1
  <2>3. IsInjective(rows)
    BY <2>1, <2>2 DEF IsInjective
  <2> QED
    BY <1>1, <2>3 DEF Injection
<1>6. Cardinality(1 .. Cardinality(S)) = Cardinality(S)
  BY <1>2, FS_Interval
<1>7. rows \in Surjection(1 .. Cardinality(S), S)
  BY <1>2, <1>5, <1>6, FS_Injection
<1>8. ToSet(rows) = S
  BY <1>1, <1>2, <1>3, <1>7 DEF Surjection, ToSet
<1> QED
  BY <1>2, <1>3, <1>4, <1>8, BoundsAssumption

-------------------------------------------------------------------------------
(* The place of a row in the list. *)

Rank(S, i) == Cardinality({j \in S : j <= i})

(* Those of A among the first x rows of S, and those after them. *)
Before(S, A, x) == {i \in A : Rank(S, i) <= x}
Behind(S, A, x) == {i \in A : Rank(S, i) > x}

(* The rows x + 1 to y of S. *)
Rows(S, x, y) == {i \in S : Rank(S, i) > x /\ Rank(S, i) <= y}

LEMMA RankType ==
    ASSUME NEW S \in SUBSET Ids, NEW i \in Ids
    PROVE  /\ Rank(S, i) \in Nat /\ Rank(S, i) <= Cardinality(S) /\ Cardinality(S) \in Nat
           /\ IsFiniteSet({j \in S : j <= i})
           /\ i \in S => Rank(S, i) >= 1
<1>1. IsFiniteSet(S) /\ Cardinality(S) \in Nat
  BY IdsFinite, FS_Subset, FS_CardinalityType
<1> DEFINE T == {j \in S : j <= i}
<1>2. IsFiniteSet(T) /\ Cardinality(T) <= Cardinality(S)
  <2>1. T \in SUBSET S
    OBVIOUS
  <2> HIDE DEF T
  <2> QED
    BY <1>1, <2>1, FS_Subset
<1>3. Cardinality(T) \in Nat
  BY <1>2, FS_CardinalityType
<1>4. ASSUME i \in S PROVE Cardinality(T) >= 1
  <2>1. i \in T
    BY <1>4, IdsFinite
  <2>2. Cardinality(T) # 0
    BY <1>2, <2>1, FS_EmptySet
  <2> QED
    BY <1>3, <2>2
<1> QED
  BY <1>1, <1>2, <1>3, <1>4 DEF Rank

(* A later row has a greater one. *)
LEMMA RankGrows ==
    ASSUME NEW S \in SUBSET Ids, NEW i \in Ids, NEW k \in S, i < k
    PROVE  Rank(S, i) < Rank(S, k)
<1> DEFINE T == {j \in S : j <= i}
           U == {j \in S : j <= k}
<1>1. IsFiniteSet(T) /\ IsFiniteSet(U) /\ Cardinality(T) \in Nat /\ Cardinality(U) \in Nat
  BY RankType DEF Rank
<1>2. k \in Nat /\ i \in Nat /\ S \in SUBSET Nat
  BY IdsFinite
<1>3. k \notin T /\ T \cup {k} \in SUBSET U
  <2>1. \A j \in S : j <= i => j <= k
    BY <1>2
  <2>2. ~ (k <= i) /\ k <= k
    BY <1>2
  <2> QED
    BY <2>1, <2>2
<1>4. Cardinality(T \cup {k}) = Cardinality(T) + 1
  BY <1>1, <1>3, FS_AddElement
<1>5. Cardinality(T \cup {k}) <= Cardinality(U)
  <2> HIDE DEF T, U
  <2> QED
    BY <1>1, <1>3, FS_Subset
<1> QED
  BY <1>1, <1>4, <1>5 DEF Rank

(* Only one row has a given place. *)
LEMMA OneAtAPlace ==
    ASSUME NEW S \in SUBSET Ids, NEW x
    PROVE  \E e : \A i \in S : Rank(S, i) = x => i = e
<1>1. ASSUME NEW i \in S, NEW k \in S, Rank(S, i) = Rank(S, k) PROVE i = k
  <2>1. i \in Nat /\ k \in Nat /\ Rank(S, i) \in Nat /\ Rank(S, k) \in Nat
    BY IdsFinite, RankType
  <2>2. ~ (i < k)
    BY <2>1, <1>1, RankGrows
  <2>3. ~ (k < i)
    BY <2>1, <1>1, RankGrows
  <2> QED
    BY <2>1, <2>2, <2>3
<1>2. CASE \E e \in S : Rank(S, e) = x
  BY <1>1, <1>2
<1>3. CASE ~ \E e \in S : Rank(S, e) = x
  BY <1>3
<1> QED
  BY <1>2, <1>3

(* Without row d the rows from it on move up by one place. *)
LEMMA RankWithout ==
    ASSUME NEW S \in SUBSET Ids, NEW d \in S, NEW i \in Ids
    PROVE  Rank(S \ {d}, i) = IF d <= i THEN Rank(S, i) - 1 ELSE Rank(S, i)
<1> DEFINE T == {j \in S : j <= i}
<1>1. IsFiniteSet(T)
  BY RankType
<1>2. {j \in S \ {d} : j <= i} = T \ {d}
  OBVIOUS
<1>3. d \in T <=> d <= i
  OBVIOUS
<1>4. Cardinality(T \ {d}) = IF d \in T THEN Cardinality(T) - 1 ELSE Cardinality(T)
  <2> HIDE DEF T
  <2> QED
    BY <1>1, FS_RemoveElement
<1> QED
  BY <1>2, <1>3, <1>4 DEF Rank

(* A set that gains one element at most. *)
LEMMA OneMore ==
    ASSUME NEW B, IsFiniteSet(B), NEW A, NEW e, A \subseteq B \cup {e}
    PROVE  IsFiniteSet(A) /\ Cardinality(A) \in Nat /\ Cardinality(B) \in Nat
           /\ Cardinality(A) <= Cardinality(B) + 1
<1>1. /\ IsFiniteSet(B \cup {e}) /\ Cardinality(B) \in Nat
      /\ Cardinality(B \cup {e}) = IF e \in B THEN Cardinality(B) ELSE Cardinality(B) + 1
  BY FS_AddElement, FS_CardinalityType
<1>2. IsFiniteSet(A) /\ Cardinality(A) <= Cardinality(B \cup {e})
  BY <1>1, FS_Subset
<1>3. Cardinality(A) \in Nat
  BY <1>2, FS_CardinalityType
<1> QED
  BY <1>1, <1>2, <1>3

LEMMA PartsAreFinite ==
    ASSUME NEW S, NEW A \in SUBSET Ids, NEW x
    PROVE  /\ IsFiniteSet(Before(S, A, x)) /\ Cardinality(Before(S, A, x)) \in Nat
           /\ IsFiniteSet(Behind(S, A, x)) /\ Cardinality(Behind(S, A, x)) \in Nat
<1>1. Before(S, A, x) \in SUBSET Ids /\ Behind(S, A, x) \in SUBSET Ids
  BY DEF Before, Behind
<1> QED
  BY <1>1, IdsFinite, FS_Subset, FS_CardinalityType

(* When row d leaves, one row at most moves among the first x, and none from  *)
(* them.                                                                      *)
LEMMA WhenOneLeaves ==
    ASSUME NEW S \in SUBSET Ids, NEW d \in S, NEW A \in SUBSET S, NEW x \in Nat
    PROVE  /\ Cardinality(Before(S \ {d}, A \ {d}, x)) <= Cardinality(Before(S, A, x)) + 1
           /\ Cardinality(Behind(S \ {d}, A \ {d}, x)) <= Cardinality(Behind(S, A, x))
<1>1. PICK e : \A i \in S : Rank(S, i) = x + 1 => i = e
  BY OneAtAPlace
<1>2. \A i \in A \ {d} : /\ Rank(S, i) \in Nat
                         /\ Rank(S \ {d}, i) = Rank(S, i) \/ Rank(S \ {d}, i) = Rank(S, i) - 1
  <2> SUFFICES ASSUME NEW i \in A \ {d}
               PROVE  /\ Rank(S, i) \in Nat
                      /\ Rank(S \ {d}, i) = Rank(S, i) \/ Rank(S \ {d}, i) = Rank(S, i) - 1
    OBVIOUS
  <2>1. i \in Ids
    OBVIOUS
  <2>2. Rank(S, i) \in Nat
    BY <2>1, RankType
  <2>3. Rank(S \ {d}, i) = IF d <= i THEN Rank(S, i) - 1 ELSE Rank(S, i)
    BY <2>1, RankWithout
  <2> QED
    BY <2>2, <2>3
<1>3. Before(S \ {d}, A \ {d}, x) \subseteq Before(S, A, x) \cup {e}
  BY <1>1, <1>2 DEF Before
<1>4. Behind(S \ {d}, A \ {d}, x) \subseteq Behind(S, A, x)
  BY <1>2 DEF Behind
<1>5. IsFiniteSet(Before(S, A, x)) /\ IsFiniteSet(Behind(S, A, x))
  BY PartsAreFinite
<1> QED
  BY <1>3, <1>4, <1>5, OneMore, FS_Subset

(* When row d comes back, one row at most moves behind the first x, it or one *)
(* after it, and none among them but it.                                      *)
LEMMA WhenOneReturns ==
    ASSUME NEW S \in SUBSET Ids, NEW d \in Ids, d \notin S, NEW A \in SUBSET S,
           NEW B \in SUBSET (A \cup {d}), NEW x \in Nat
    PROVE  /\ Cardinality(Before(S \cup {d}, A, x)) <= Cardinality(Before(S, A, x))
           /\ Cardinality(Behind(S \cup {d}, B, x)) <= Cardinality(Behind(S, A, x)) + 1
<1> DEFINE T == S \cup {d}
<1>0. T \in SUBSET Ids /\ d \in T /\ T \ {d} = S
  OBVIOUS
<1>1. \A i \in Ids : /\ Rank(S, i) \in Nat /\ Rank(T, i) \in Nat
                     /\ Rank(S, i) = IF d <= i THEN Rank(T, i) - 1 ELSE Rank(T, i)
  <2> HIDE DEF T
  <2>1. ASSUME NEW i \in Ids
        PROVE  Rank(T \ {d}, i) = IF d <= i THEN Rank(T, i) - 1 ELSE Rank(T, i)
    BY <1>0, RankWithout
  <2> QED
    BY <1>0, <2>1, RankType
<1>2. Before(T, A, x) \subseteq Before(S, A, x)
  <2> HIDE DEF T
  <2> QED
    BY <1>1 DEF Before
<1>3. \E e : Behind(T, B, x) \subseteq Behind(S, A, x) \cup {e}
  <2>1. CASE Rank(T, d) > x
    <3>1. ASSUME NEW i \in B, i # d, Rank(T, i) > x PROVE Rank(S, i) > x
      <4>1. i \in S /\ i \in T /\ i \in Ids /\ i \in Nat /\ d \in Nat
        BY <3>1, IdsFinite
      <4>2. CASE d < i
        <5>1. Rank(T, d) < Rank(T, i)
          <6> HIDE DEF T
          <6> QED
            BY <1>0, <4>1, <4>2, RankGrows
        <5> HIDE DEF T
        <5> QED
          BY <1>1, <2>1, <4>1, <5>1
      <4>3. CASE ~ (d <= i)
        <5> HIDE DEF T
        <5> QED
          BY <1>1, <3>1, <4>1, <4>3
      <4> QED
        BY <3>1, <4>1, <4>2, <4>3
    <3>2. Behind(T, B, x) \subseteq Behind(S, A, x) \cup {d}
      <4> HIDE DEF T
      <4> QED
        BY <3>1 DEF Behind
    <3> QED
      BY <3>2
  <2>2. CASE ~ (Rank(T, d) > x)
    <3>1. PICK e : \A i \in T : Rank(T, i) = x + 1 => i = e
      <4> HIDE DEF T
      <4> QED
        BY <1>0, OneAtAPlace
    <3>2. Behind(T, B, x) \subseteq Behind(S, A, x) \cup {e}
      <4>1. SUFFICES ASSUME NEW i \in B, Rank(T, i) > x, i # e
                     PROVE  i \in A /\ Rank(S, i) > x
        BY DEF Behind
      <4>2. i \in A /\ i \in T /\ i \in Ids
        BY <2>2, <4>1
      <4> HIDE DEF T
      <4> QED
        BY <1>1, <3>1, <4>1, <4>2
    <3> QED
      BY <3>2
  <2> QED
    BY <2>1, <2>2
<1>4. IsFiniteSet(Before(S, A, x)) /\ IsFiniteSet(Behind(S, A, x))
  BY PartsAreFinite
<1>5. Cardinality(Before(T, A, x)) <= Cardinality(Before(S, A, x))
  <2> HIDE DEF T
  <2> QED
    BY <1>2, <1>4, FS_Subset
<1>6. Cardinality(Behind(T, B, x)) <= Cardinality(Behind(S, A, x)) + 1
  <2> HIDE DEF T
  <2> QED
    BY <1>3, <1>4, OneMore
<1> QED
  BY <1>5, <1>6

(* A row behind all others moves none of them. *)
LEMMA WhenOneIsAppended ==
    ASSUME NEW S \in SUBSET Ids, NEW d \in Ids, \A i \in S : i < d, NEW A \in SUBSET S, NEW x
    PROVE  Before(S \cup {d}, A, x) = Before(S, A, x) /\ Behind(S \cup {d}, A, x) = Behind(S, A, x)
<1>1. ASSUME NEW i \in A PROVE {j \in S \cup {d} : j <= i} = {j \in S : j <= i}
  <2>1. i \in Nat /\ d \in Nat /\ i < d
    BY IdsFinite
  <2> QED
    BY <2>1
<1>2. \A i \in A : Rank(S \cup {d}, i) = Rank(S, i)
  BY <1>1 DEF Rank
<1> QED
  BY <1>2 DEF Before, Behind

(* Row k of the answer is the one at place k. *)
LEMMA RankOfRow ==
    ASSUME NEW S \in SUBSET Ids, NEW rows, rows = InOrder(S), NEW k \in 1 .. Cardinality(S)
    PROVE  rows[k] \in S /\ Rank(S, rows[k]) = k
<1>1. /\ IsFiniteSet(S) /\ Cardinality(S) \in Nat /\ Len(rows) = Cardinality(S)
      /\ rows \in Seq(Ids) /\ ToSet(rows) = S
      /\ \A i \in 1 .. Cardinality(S) : rows[i] \in S
      /\ \A i, j \in 1 .. Cardinality(S) : i < j => rows[i] < rows[j]
  BY InOrderIsTheSet
<1>2. \A i \in 1 .. Cardinality(S) : rows[i] \in Nat
  BY <1>1, IdsFinite
<1> DEFINE T == {j \in S : j <= rows[k]}
           f == [i \in 1 .. k |-> rows[i]]
<1>3. ASSUME NEW i \in 1 .. Cardinality(S) PROVE rows[i] <= rows[k] <=> i <= k
  BY <1>1, <1>2
<1>4. f \in [1 .. k -> T]
  <2>1. ASSUME NEW i \in 1 .. k PROVE rows[i] \in T
    BY <1>1, <1>3
  <2> QED
    BY <2>1
<1>5. f \in Surjection(1 .. k, T)
  <2>1. ASSUME NEW j \in T PROVE \E i \in 1 .. k : f[i] = j
    <3>1. PICK i \in 1 .. Cardinality(S) : rows[i] = j
      BY <1>1 DEF ToSet
    <3>2. i \in 1 .. k
      BY <1>3, <3>1
    <3> QED
      BY <3>1, <3>2
  <2> QED
    BY <1>4, <2>1 DEF Surjection
<1>6. f \in Injection(1 .. k, T)
  <2>1. \A i, j \in 1 .. k : f[i] = f[j] => i = j
    BY <1>1, <1>2
  <2> QED
    BY <1>4, <2>1 DEF Injection, IsInjective
<1>7. IsFiniteSet(1 .. k) /\ Cardinality(1 .. k) = k
  BY FS_Interval
<1>8. Cardinality(T) = k
  <2> HIDE DEF T, f
  <2> QED
    BY <1>5, <1>6, <1>7, FS_Surjection
<1> QED
  BY <1>1, <1>8 DEF Rank

LEMMA UpTo ==
    ASSUME NEW n \in Nat
    PROVE  IsFiniteSet(1 .. n) /\ Cardinality(1 .. n) = n
BY FS_Interval

(* Consecutive rows of the answer are those at their places, each once. *)
LEMMA SomeRows ==
    ASSUME NEW S \in SUBSET Ids, NEW x \in Nat,
           NEW data \in Seq(Ids), Len(data) = 0 \/ x + Len(data) <= Cardinality(S),
           \A i \in 1 .. Len(data) : data[i] = InOrder(S)[i + x]
    PROVE  /\ ToSet(data) = Rows(S, x, x + Len(data))
           /\ Len(data) = Cardinality(ToSet(data))
<1>0. PICK rows : rows = InOrder(S)
  OBVIOUS
<1>1. PICK n \in Nat : n = Len(data)
  OBVIOUS
<1> DEFINE T == {j \in S : Rank(S, j) > x /\ Rank(S, j) <= x + n}
<1>2. Cardinality(S) \in Nat /\ ToSet(rows) = S /\ DOMAIN rows = 1 .. Cardinality(S)
  <2>1. rows \in Seq(Ids) /\ Len(rows) = Cardinality(S) /\ Cardinality(S) \in 0 .. MaxCustomers
    BY <1>0, InOrderIsTheSet
  <2> QED
    BY <1>0, <2>1, InOrderIsTheSet
<1>3. \A k \in 1 .. Cardinality(S) : rows[k] \in S /\ Rank(S, rows[k]) = k
  BY <1>0, RankOfRow
<1>4. ASSUME NEW i \in 1 .. n PROVE data[i] \in S /\ Rank(S, data[i]) = i + x
  <2>1. i + x \in 1 .. Cardinality(S)
    BY <1>1, <1>2
  <2>2. data[i] = rows[i + x]
    BY <1>0, <1>1
  <2> QED
    BY <1>3, <2>1, <2>2
<1>5. ASSUME NEW i \in 1 .. n PROVE data[i] \in T
  BY <1>4
<1>6. ASSUME NEW j \in T PROVE \E i \in 1 .. n : data[i] = j
  <2>1. PICK k \in 1 .. Cardinality(S) : rows[k] = j
    BY <1>2 DEF ToSet
  <2>2. k > x /\ k <= x + n
    BY <1>3, <2>1
  <2>3. k - x \in 1 .. n /\ (k - x) + x = k
    BY <1>2, <2>2
  <2> QED
    BY <1>0, <1>1, <2>1, <2>3
<1>7. DOMAIN data = 1 .. n
  BY <1>1
<1>8. ToSet(data) = {data[i] : i \in 1 .. n}
  BY <1>7 DEF ToSet
<1>9. ToSet(data) = T
  <2> HIDE DEF T
  <2> QED
    BY <1>5, <1>6, <1>8
<1>10. data \in [1 .. n -> T]
  <2> HIDE DEF T
  <2> QED
    BY <1>5, <1>7
<1>11. data \in Surjection(1 .. n, T)
  <2> HIDE DEF T
  <2> QED
    BY <1>6, <1>10 DEF Surjection
<1>12. data \in Injection(1 .. n, T)
  <2>1. ASSUME NEW i \in 1 .. n, NEW k \in 1 .. n, data[i] = data[k] PROVE i = k
    <3>1. i + x = k + x
      BY <1>4, <2>1
    <3> QED
      BY <3>1
  <2> HIDE DEF T
  <2> QED
    BY <1>7, <1>10, <2>1 DEF Injection, IsInjective
<1>13. IsFiniteSet(1 .. n) /\ Cardinality(1 .. n) = n
  BY UpTo
<1>14. Cardinality(T) = n
  <2> HIDE DEF T
  <2> QED
    BY <1>11, <1>12, <1>13, FS_Surjection
<1> QED
  BY <1>1, <1>9, <1>14 DEF Rows

(* A page of the answer has the rows at its places, each once. *)
LEMMA RowsOfPage ==
    ASSUME NEW S \in SUBSET Ids, NEW x \in Nat, NEW y \in Nat, x <= y
    PROVE  \E data \in Seq(Ids) :
              /\ data = SubSeq(InOrder(S), x + 1, IF y < Len(InOrder(S)) THEN y ELSE Len(InOrder(S)))
              /\ ToSet(data) = Rows(S, x, y)
              /\ Len(data) = Cardinality(ToSet(data))
<1>1. /\ Cardinality(S) \in Nat /\ Len(InOrder(S)) = Cardinality(S)
      /\ \A k \in 1 .. Cardinality(S) : InOrder(S)[k] \in Ids
  BY InOrderIsTheSet
<1>2. PICK last \in Nat : /\ last = IF y < Len(InOrder(S)) THEN y ELSE Len(InOrder(S))
                          /\ last <= y /\ last <= Cardinality(S)
                          /\ last = y \/ last = Cardinality(S)
  BY <1>1
<1>3. PICK n \in Nat : n = IF x < last THEN last - x ELSE 0
  <2>1. (IF x < last THEN last - x ELSE 0) \in Nat
    OBVIOUS
  <2> QED
    BY <2>1
<1>4. PICK data : data = SubSeq(InOrder(S), x + 1, last)
  OBVIOUS
<1>5. /\ data \in Seq(Ids)
      /\ Len(data) = IF x + 1 <= last THEN last - (x + 1) + 1 ELSE 0
      /\ \A i \in 1 .. last - (x + 1) + 1 : data[i] = InOrder(S)[x + 1 + i - 1]
  <2>1. \A i \in x + 1 .. last : InOrder(S)[i] \in Ids
    BY <1>1, <1>2
  <2> QED
    BY <1>4, <2>1, SubSeqProperties
<1>6. Len(data) = n /\ \A i \in 1 .. n : data[i] = InOrder(S)[i + x]
  BY <1>2, <1>3, <1>5
<1>7. /\ ToSet(data) = Rows(S, x, x + n)
      /\ Len(data) = Cardinality(ToSet(data))
  <2>1. Len(data) = 0 \/ x + Len(data) <= Cardinality(S)
    BY <1>2, <1>3, <1>6
  <2>2. \A i \in 1 .. Len(data) : data[i] = InOrder(S)[i + x]
    BY <1>6
  <2>3. data \in Seq(Ids)
    BY <1>5
  <2>4. /\ ToSet(data) = Rows(S, x, x + Len(data))
        /\ Len(data) = Cardinality(ToSet(data))
    BY <2>1, <2>2, <2>3, SomeRows
  <2> QED
    BY <1>6, <2>4
<1>8. ASSUME NEW j \in S PROVE Rank(S, j) > x => (Rank(S, j) <= x + n <=> Rank(S, j) <= y)
  <2>1. Rank(S, j) \in Nat /\ Rank(S, j) <= Cardinality(S)
    BY RankType
  <2> QED
    BY <1>1, <1>2, <1>3, <2>1
<1>9. ToSet(data) = Rows(S, x, y)
  BY <1>7, <1>8 DEF Rows
<1> QED
  BY <1>2, <1>4, <1>5, <1>7, <1>9

-------------------------------------------------------------------------------
(* The export. *)

(* The file of job j has a torn line. *)
HasTorn(j) == \E k \in 1 .. Len(disk[j]) : disk[j][k] = Torn

(* The file of job j is the header and the first n rows of its answer, but    *)
(* for what a full disk refused.                                              *)
Written(j, n) ==
    /\ j \in DOMAIN disk
    /\ \A k \in 1 .. Len(disk[j]) :
          \/ disk[j][k] \in {Header, Torn}
          \/ \E i \in 1 .. Len(answer[j]) : disk[j][k] = answer[j][i]
    /\ short[j] => Len(disk[j]) <= n \/ (Len(disk[j]) = n + 1 /\ HasTorn(j))
    /\ ~ short[j] => /\ Len(disk[j]) = n + 1
                     /\ disk[j][1] = Header
                     /\ \A k \in 1 .. n : disk[j][k + 1] = answer[j][k]

Bounded ==
    /\ Len(customers) <= MaxCustomers
    /\ \A j \in Jobs : Len(answer[j]) <= MaxCustomers

(* A job is dispatched once, and asks only after that; it waits while it has  *)
(* attempts left.                                                             *)
Queued ==
    \A j \in Jobs :
        /\ job[j].status = "none" <=> request[j] # "done"
        /\ job[j].status = "none" => job[j].attempts = 0
        /\ job[j].status = "pending" => job[j].attempts < MaxAttempts
        /\ request[j] # "done" => answer[j] = <<>>

(* Where handle is, and what it has done so far. *)
Handling ==
    /\ run.pc = "off" => run = Off
    /\ run.pc # "off" => run.job \in Jobs /\ job[run.job].status = "running"
    /\ run.pc \in {"count", "open", "query"} => run.rest = <<>> /\ run.processed = 0
    /\ run.pc = "query" =>
          run.job \in DOMAIN disk /\ disk[run.job] = <<>> /\ ~ short[run.job]
    /\ run.pc \in {"row", "report", "complete"} =>
          /\ Written(run.job, run.processed)
          /\ run.processed + Len(run.rest) = Len(answer[run.job])
          /\ \A k \in 1 .. Len(run.rest) : run.rest[k] = answer[run.job][k + run.processed]
    /\ run.pc \in {"report", "complete"} => run.rest = <<>>
    /\ run.pc # "complete" => run.progress <= 99

(* A completed job has its file, and says how many rows. *)
Stored ==
    \A j \in Jobs : job[j].status = "completed" =>
        Written(j, job[j].rows) /\ job[j].rows = Len(answer[j])

(* A download reads the file of a completed job from its first line on. *)
Reading ==
    \A c \in Clients :
        /\ download[c].pc # "idle" =>
              download[c].job \in Jobs /\ job[download[c].job].status = "completed"
        /\ download[c].pc \in {"read", "done"} =>
              /\ download[c].size = Len(disk[download[c].job])
              /\ Len(download[c].got) <= download[c].size
              /\ \A k \in 1 .. Len(download[c].got) :
                    download[c].got[k] = disk[download[c].job][k]
        /\ download[c].pc = "done" => Len(download[c].got) = download[c].size

(* What was dispatched was within the limit when it was counted. *)
Admitted ==
    \A j \in Jobs : request[j] \in {"dispatch", "done"} => Cardinality(counted[j]) <= EXPORT_MAX_ROWS

IInv == /\ TypeOK /\ Bounded /\ Queued /\ Handling /\ Stored /\ Reading
        /\ Admitted /\ OverLimitOnlyByGrowth

(* Few customers match, and they are ids. *)
LEMMA MatchingIsFinite ==
    ASSUME IInv
    PROVE  /\ Matching \in SUBSET Ids /\ IsFiniteSet(Matching)
           /\ Cardinality(Matching) \in 0 .. MaxCustomers /\ Cardinality(Matching) \in Nat
<1>1. DOMAIN customers = 1 .. Len(customers) /\ Len(customers) \in Nat
  BY DEF IInv, TypeOK
<1>2. Matching \in SUBSET Ids
  BY <1>1, BoundsAssumption DEF IInv, Bounded, Matching, Ids
<1>3. Cardinality(Matching) \in 0 .. MaxCustomers /\ IsFiniteSet(Matching)
  BY <1>2, InOrderIsTheSet
<1> QED
  BY <1>2, <1>3, BoundsAssumption

LEMMA DownloadType ==
    ASSUME NEW pc \in {"idle", "stat", "read", "done"}, NEW j \in Jobs \cup {None},
           NEW size \in Nat
    PROVE  /\ \A got \in Seq(Lines) : Downloading(pc, j, size, got) \in Download
           /\ Downloading(pc, j, size, <<>>) \in Download
<1>1. <<>> \in Seq(Lines)
  OBVIOUS
<1> QED
  BY <1>1 DEF Downloading, Download

(* A chunk of a download disturbs nothing but the download. *)
LEMMA ReadFrame ==
    ASSUME IInv, NEW c \in Clients, Read(c), TypeOK', Reading'
    PROVE  IInv'
<1>1. Bounded'
  BY DEF IInv, Bounded, Read
<1>2. Queued'
  BY DEF IInv, Queued, Read
<1>3. Handling'
  BY DEF IInv, Handling, Written, HasTorn, Read
<1>4. Stored'
  BY DEF IInv, Stored, Written, HasTorn, Read
<1>5. Admitted'
  BY DEF IInv, Admitted, Read
<1>6. OverLimitOnlyByGrowth'
  BY DEF IInv, OverLimitOnlyByGrowth, Read
<1> QED
  BY <1>1, <1>2, <1>3, <1>4, <1>5, <1>6 DEF IInv

(* However many customers were counted, the others that match are new. *)
LEMMA CountedAndMore ==
    ASSUME NEW S \in SUBSET Ids, NEW C \in SUBSET Ids
    PROVE  /\ Cardinality(S) <= Cardinality(C) + Cardinality(S \ C)
           /\ Cardinality(C) \in Nat /\ Cardinality(S \ C) \in Nat
<1> DEFINE R == S \ C
<1>1. IsFiniteSet(S) /\ IsFiniteSet(C) /\ IsFiniteSet(R) /\ IsFiniteSet(C \cup R)
  BY IdsFinite, FS_Subset
<1>2. /\ Cardinality(S) \in Nat /\ Cardinality(C) \in Nat /\ Cardinality(R) \in Nat
      /\ Cardinality(C \cup R) \in Nat
  BY <1>1, FS_CardinalityType
<1>3. Cardinality(S) <= Cardinality(C \cup R)
  BY <1>1, FS_Subset
<1>4. C \cap R = {} /\ Cardinality(C \cap R) = 0
  <2>1. C \cap R = {}
    OBVIOUS
  <2> QED
    BY <2>1, FS_EmptySet
<1> HIDE DEF R
<1>5. Cardinality(C \cup R) = Cardinality(C) + Cardinality(R) - Cardinality(C \cap R)
  BY <1>1, FS_Union
<1>6. Cardinality(C \cup R) = Cardinality(C) + Cardinality(R)
  BY <1>2, <1>4, <1>5
<1> QED
  BY <1>2, <1>3, <1>6 DEF R

(* The percentage stays below 100 while rows are written. *)
LEMMA ProgressIsCapped ==
    ASSUME IInv, NEW processed \in Nat
    PROVE  Progress(processed) \in 0 .. 99
<1>1. run.total \in Nat
  BY BoundsAssumption DEF IInv, TypeOK, Run
<1> QED
  BY <1>1 DEF Progress

-------------------------------------------------------------------------------
(* Every step keeps the invariant. *)

LEMMA CountKeeps ==
    ASSUME IInv, NEW j \in Jobs, Count(j)
    PROVE  IInv'
<1>1. TypeOK'
  <2>1. Matching \in SUBSET Ids
    BY MatchingIsFinite
  <2>2. counted' \in [Jobs -> SUBSET Ids]
    BY <2>1 DEF IInv, TypeOK, Count
  <2>3. request' \in [Jobs -> {"count", "dispatch", "refused", "done"}]
    BY DEF IInv, TypeOK, Count
  <2> QED
    BY <2>2, <2>3 DEF IInv, TypeOK, Count
<1>2. Bounded'
  BY DEF IInv, Bounded, Count
<1>3. Queued'
  BY DEF IInv, TypeOK, Queued, Count
<1>4. Handling'
  BY DEF IInv, Handling, Written, HasTorn, Count
<1>5. Stored'
  BY DEF IInv, Stored, Written, HasTorn, Count
<1>6. Reading'
  BY DEF IInv, Reading, Count
<1>7. Admitted'
  <2>1. Cardinality(Matching) \in Nat /\ EXPORT_MAX_ROWS \in Nat
    BY MatchingIsFinite, LimitsAssumption
  <2>2. /\ request \in [Jobs -> {"count", "dispatch", "refused", "done"}]
        /\ counted \in [Jobs -> SUBSET Ids]
    BY DEF IInv, TypeOK
  <2>3. ASSUME NEW k \in Jobs, request'[k] \in {"dispatch", "done"}
        PROVE  Cardinality(counted'[k]) <= EXPORT_MAX_ROWS
    <3>1. CASE k = j
      <4>1. counted'[k] = Matching
        BY <2>2, <3>1 DEF Count
      <4>2. ~ (Cardinality(Matching) > EXPORT_MAX_ROWS)
        BY <2>2, <2>3, <3>1 DEF Count
      <4> QED
        BY <2>1, <4>1, <4>2
    <3>2. CASE k # j
      <4>1. counted'[k] = counted[k] /\ request'[k] = request[k]
        BY <2>2, <3>2 DEF Count
      <4> QED
        BY <2>3, <4>1 DEF IInv, Admitted
    <3> QED
      BY <3>1, <3>2
  <2> QED
    BY <2>3 DEF Admitted
<1>8. OverLimitOnlyByGrowth'
  <2>1. counted \in [Jobs -> SUBSET Ids] /\ counted' \in [Jobs -> SUBSET Ids]
    BY <1>1 DEF IInv, TypeOK
  <2>2. ASSUME NEW k \in Jobs
        PROVE  Len(answer'[k]) <= EXPORT_MAX_ROWS + Cardinality(ToSet(answer'[k]) \ counted'[k])
    <3>0. answer' = answer
      BY DEF Count
    <3>1. CASE k = j
      <4>1. answer[k] = <<>>
        BY <3>1 DEF IInv, Queued, Count
      <4>2. ToSet(<<>>) = {} /\ Len(<<>>) = 0
        BY DEF ToSet
      <4>3. Cardinality(ToSet(<<>>) \ counted'[k]) = 0
        BY <4>2, FS_EmptySet
      <4> QED
        BY <3>0, <4>1, <4>2, <4>3, LimitsAssumption
    <3>2. CASE k # j
      <4>1. counted'[k] = counted[k]
        BY <2>1, <3>2 DEF Count
      <4> QED
        BY <3>0, <4>1 DEF IInv, OverLimitOnlyByGrowth
    <3> QED
      BY <3>1, <3>2
  <2> QED
    BY <2>2 DEF OverLimitOnlyByGrowth
<1> QED
  BY <1>1, <1>2, <1>3, <1>4, <1>5, <1>6, <1>7, <1>8 DEF IInv

LEMMA DispatchKeeps ==
    ASSUME IInv, NEW j \in Jobs, Dispatch(j)
    PROVE  IInv'
<1>1. TypeOK'
  BY LimitsAssumption, BoundsAssumption DEF IInv, TypeOK, Queued, Handling, Dispatch, SetJob, Job, Run, Download, Off, Lines, Ids, Header, Torn
<1>2. Bounded'
  BY DEF IInv, Bounded, Dispatch
<1>3. Queued'
  <2>1. /\ \A k \in Jobs \ {j} : job'[k] = job[k]
        /\ job'[j] = [status |-> "pending", attempts |-> job[j].attempts, rows |-> job[j].rows]
    BY DEF IInv, TypeOK, Dispatch, SetJob
  <2>2. /\ \A k \in Jobs \ {j} : request'[k] = request[k]
        /\ request[j] = "dispatch" /\ request'[j] = "done"
    BY DEF IInv, TypeOK, Dispatch
  <2>3. job[j].status = "none" /\ job[j].attempts = 0
    BY <2>2 DEF IInv, Queued
  <2>4. answer' = answer
    BY DEF Dispatch
  <2> QED
    BY <2>1, <2>2, <2>3, <2>4, LimitsAssumption DEF IInv, Queued
<1>4. Handling'
  <2>1. /\ \A k \in Jobs \ {j} : job'[k] = job[k]
        /\ job'[j] = [status |-> "pending", attempts |-> job[j].attempts, rows |-> job[j].rows]
    BY DEF IInv, TypeOK, Dispatch, SetJob
  <2>2. /\ \A k \in Jobs \ {j} : request'[k] = request[k]
        /\ request[j] = "dispatch" /\ request'[j] = "done"
    BY DEF IInv, TypeOK, Dispatch
  <2>3. job[j].status = "none" /\ job[j].attempts = 0
    BY <2>2 DEF IInv, Queued
  <2>4. UNCHANGED <<run, disk, answer, short>>
    BY DEF Dispatch
  <2>5. run.pc # "off" => run.job # j
    BY <2>3 DEF IInv, Handling
  <2> QED
    BY <2>1, <2>4, <2>5 DEF IInv, Handling, Written, HasTorn
<1>5. Stored'
  <2>1. \A k \in Jobs : job'[k].status = "completed" => job'[k] = job[k]
    BY DEF IInv, TypeOK, Dispatch, SetJob
  <2>2. UNCHANGED <<disk, answer, short>>
    BY DEF Dispatch
  <2> QED
    BY <2>1, <2>2 DEF IInv, Stored, Written, HasTorn
<1>6. Reading'
  <2>1. /\ \A k \in Jobs \ {j} : job'[k] = job[k]
        /\ job'[j] = [status |-> "pending", attempts |-> job[j].attempts, rows |-> job[j].rows]
    BY DEF IInv, TypeOK, Dispatch, SetJob
  <2>2. /\ \A k \in Jobs \ {j} : request'[k] = request[k]
        /\ request[j] = "dispatch" /\ request'[j] = "done"
    BY DEF IInv, TypeOK, Dispatch
  <2>3. job[j].status = "none" /\ job[j].attempts = 0
    BY <2>2 DEF IInv, Queued
  <2>4. \A k \in Jobs : job[k].status = "completed" => job'[k].status = "completed"
    BY <2>1, <2>3
  <2> QED
    BY <2>4 DEF IInv, Reading, Dispatch
<1>7. Admitted'
  BY DEF IInv, TypeOK, Admitted, Dispatch, SetJob
<1>8. OverLimitOnlyByGrowth'
  BY DEF IInv, OverLimitOnlyByGrowth, Dispatch
<1> QED
  BY <1>1, <1>2, <1>3, <1>4, <1>5, <1>6, <1>7, <1>8 DEF IInv

LEMMA ClaimKeeps ==
    ASSUME IInv, NEW j \in Jobs, Claim(j)
    PROVE  IInv'
<1>1. TypeOK'
  BY LimitsAssumption, BoundsAssumption DEF IInv, TypeOK, Queued, Handling, Claim, SetJob, Started, Job, Run, Download, Off, Lines, Ids, Header, Torn
<1>2. Bounded'
  BY DEF IInv, Bounded, Claim
<1>3. Queued'
  BY DEF IInv, TypeOK, Queued, Claim, SetJob, Started
<1>4. Handling'
  BY DEF IInv, TypeOK, Handling, Written, HasTorn, Claim, SetJob, Started
<1>5. Stored'
  BY DEF IInv, TypeOK, Stored, Written, HasTorn, Claim, SetJob, Started
<1>6. Reading'
  BY DEF IInv, TypeOK, Reading, Claim, SetJob, Started
<1>7. Admitted'
  BY DEF IInv, Admitted, Claim
<1>8. OverLimitOnlyByGrowth'
  BY DEF IInv, OverLimitOnlyByGrowth, Claim
<1> QED
  BY <1>1, <1>2, <1>3, <1>4, <1>5, <1>6, <1>7, <1>8 DEF IInv

LEMMA RecoverKeeps ==
    ASSUME IInv, NEW j \in Jobs, Recover(j)
    PROVE  IInv'
<1>1. TypeOK'
  BY LimitsAssumption, BoundsAssumption DEF IInv, TypeOK, Queued, Handling, Recover, Retried, SetJob, Job, Run, Download, Off, Lines, Ids, Header, Torn
<1>2. Bounded'
  BY DEF IInv, Bounded, Recover
<1>3. Queued'
  BY DEF IInv, TypeOK, Queued, Recover, Retried, SetJob
<1>4. Handling'
  BY DEF IInv, TypeOK, Handling, Written, HasTorn, Recover, Retried, SetJob
<1>5. Stored'
  BY DEF IInv, TypeOK, Stored, Written, HasTorn, Recover, Retried, SetJob
<1>6. Reading'
  BY DEF IInv, TypeOK, Reading, Recover, Retried, SetJob
<1>7. Admitted'
  BY DEF IInv, Admitted, Recover
<1>8. OverLimitOnlyByGrowth'
  BY DEF IInv, OverLimitOnlyByGrowth, Recover
<1> QED
  BY <1>1, <1>2, <1>3, <1>4, <1>5, <1>6, <1>7, <1>8 DEF IInv

LEMMA FailKeeps ==
    ASSUME IInv, Fail
    PROVE  IInv'
<1>1. TypeOK'
  BY LimitsAssumption, BoundsAssumption DEF IInv, TypeOK, Queued, Handling, Fail, Retried, SetJob, Off, Job, Run, Download, Lines, Ids, Header, Torn
<1>2. Bounded'
  BY DEF IInv, Bounded, Fail
<1>3. Queued'
  <2>0. run.job \in Jobs /\ job[run.job].status = "running"
    BY DEF IInv, Handling, Fail
  <2>1. PICK s \in {"pending", "failed"} :
           /\ s = "pending" => job[run.job].attempts < MaxAttempts
           /\ job' = [job EXCEPT ![run.job] =
                         [status |-> s, attempts |-> job[run.job].attempts, rows |-> job[run.job].rows]]
    BY DEF Fail, Retried, SetJob
  <2>2. job \in [Jobs -> Job]
    BY DEF IInv, TypeOK
  <2>3. /\ \A k \in Jobs \ {run.job} : job'[k] = job[k]
        /\ job'[run.job].status = s /\ job'[run.job].attempts = job[run.job].attempts
    BY <2>0, <2>1, <2>2
  <2>4. request' = request /\ answer' = answer
    BY DEF Fail
  <2> QED
    BY <2>0, <2>1, <2>3, <2>4 DEF IInv, Queued
<1>4. Handling'
  BY DEF IInv, TypeOK, Handling, Written, HasTorn, Fail, Retried, SetJob, Off
<1>5. Stored'
  BY DEF IInv, TypeOK, Stored, Written, HasTorn, Fail, Retried, SetJob, Off
<1>6. Reading'
  <2>0. run.job \in Jobs /\ job[run.job].status = "running"
    BY DEF IInv, Handling, Fail
  <2>1. PICK s \in {"pending", "failed"} :
           /\ s = "pending" => job[run.job].attempts < MaxAttempts
           /\ job' = [job EXCEPT ![run.job] =
                         [status |-> s, attempts |-> job[run.job].attempts, rows |-> job[run.job].rows]]
    BY DEF Fail, Retried, SetJob
  <2>2. job \in [Jobs -> Job]
    BY DEF IInv, TypeOK
  <2>3. /\ \A k \in Jobs \ {run.job} : job'[k] = job[k]
        /\ job'[run.job].status = s /\ job'[run.job].attempts = job[run.job].attempts
    BY <2>0, <2>1, <2>2
  <2>4. \A k \in Jobs : job[k].status = "completed" => job'[k].status = "completed"
    BY <2>0, <2>3
  <2> QED
    BY <2>4 DEF IInv, Reading, Fail
<1>7. Admitted'
  BY DEF IInv, Admitted, Fail
<1>8. OverLimitOnlyByGrowth'
  BY DEF IInv, OverLimitOnlyByGrowth, Fail
<1> QED
  BY <1>1, <1>2, <1>3, <1>4, <1>5, <1>6, <1>7, <1>8 DEF IInv

LEMMA CompleteKeeps ==
    ASSUME IInv, Complete
    PROVE  IInv'
<1>1. TypeOK'
  BY LimitsAssumption, BoundsAssumption DEF IInv, TypeOK, Queued, Handling, Complete, SetJob, Off, Job, Run, Download, Lines, Ids, Header, Torn
<1>2. Bounded'
  BY DEF IInv, Bounded, Complete
<1>3. Queued'
  <2>0. run.job \in Jobs /\ job[run.job].status = "running"
    BY DEF IInv, Handling, Complete
  <2>1. /\ \A k \in Jobs \ {run.job} : job'[k] = job[k]
        /\ job'[run.job] = [status |-> "completed", attempts |-> job[run.job].attempts, rows |-> run.processed]
    BY <2>0 DEF IInv, TypeOK, Complete, SetJob
  <2>2. request' = request /\ answer' = answer
    BY DEF Complete
  <2> QED
    BY <2>0, <2>1, <2>2 DEF IInv, Queued
<1>4. Handling'
  BY DEF IInv, TypeOK, Handling, Written, HasTorn, Complete, SetJob, Off
<1>5. Stored'
  <2>0. run.job \in Jobs /\ job[run.job].status = "running"
    BY DEF IInv, Handling, Complete
  <2>1. /\ \A k \in Jobs \ {run.job} : job'[k] = job[k]
        /\ job'[run.job] = [status |-> "completed", attempts |-> job[run.job].attempts, rows |-> run.processed]
    BY <2>0 DEF IInv, TypeOK, Complete, SetJob
  <2>2. /\ Written(run.job, run.processed) /\ run.rest = <<>>
        /\ run.processed + Len(run.rest) = Len(answer[run.job])
    BY DEF IInv, Handling, Complete
  <2>3. run.processed = Len(answer[run.job])
    BY <2>0, <2>2 DEF IInv, TypeOK, Run
  <2>4. disk' = disk /\ answer' = answer /\ short' = short
    BY DEF Complete
  <2>5. ASSUME NEW k \in Jobs, job'[k].status = "completed"
        PROVE  /\ k \in DOMAIN disk
               /\ \A i \in 1 .. Len(disk[k]) : disk[k][i] \in {Header, Torn}
                     \/ \E l \in 1 .. Len(answer[k]) : disk[k][i] = answer[k][l]
               /\ short[k] => Len(disk[k]) <= job'[k].rows
                             \/ (Len(disk[k]) = job'[k].rows + 1 /\ HasTorn(k))
               /\ ~ short[k] => /\ Len(disk[k]) = job'[k].rows + 1
                                /\ disk[k][1] = Header
                                /\ \A i \in 1 .. job'[k].rows : disk[k][i + 1] = answer[k][i]
               /\ job'[k].rows = Len(answer[k])
    <3>1. CASE k = run.job
      <4>1. job'[k].rows = run.processed
        BY <2>1, <3>1
      <4> QED
        BY <4>1, <2>2, <2>3, <3>1 DEF Written
    <3>2. CASE k # run.job
      <4>1. job'[k] = job[k]
        BY <2>1, <3>2
      <4> QED
        BY <4>1, <2>5 DEF IInv, Stored, Written, HasTorn
    <3> QED
      BY <3>1, <3>2
  <2> QED
    BY <2>4, <2>5 DEF Stored, Written, HasTorn
<1>6. Reading'
  BY DEF IInv, TypeOK, Reading, Complete, SetJob, Off
<1>7. Admitted'
  BY DEF IInv, Admitted, Complete
<1>8. OverLimitOnlyByGrowth'
  BY DEF IInv, OverLimitOnlyByGrowth, Complete
<1> QED
  BY <1>1, <1>2, <1>3, <1>4, <1>5, <1>6, <1>7, <1>8 DEF IInv

LEMMA CrashKeeps ==
    ASSUME IInv, Crash
    PROVE  IInv'
<1>1. TypeOK'
  BY LimitsAssumption, BoundsAssumption DEF IInv, TypeOK, Queued, Handling, Crash, Off, Job, Run, Download, Lines, Ids, Header, Torn
<1>2. Bounded'
  BY DEF IInv, Bounded, Crash
<1>3. Queued'
  BY DEF IInv, Queued, Crash
<1>4. Handling'
  BY DEF IInv, TypeOK, Handling, Written, HasTorn, Crash, Off
<1>5. Stored'
  BY DEF IInv, Stored, Written, HasTorn, Crash
<1>6. Reading'
  BY DEF IInv, Reading, Crash
<1>7. Admitted'
  BY DEF IInv, Admitted, Crash
<1>8. OverLimitOnlyByGrowth'
  BY DEF IInv, OverLimitOnlyByGrowth, Crash
<1> QED
  BY <1>1, <1>2, <1>3, <1>4, <1>5, <1>6, <1>7, <1>8 DEF IInv

LEMMA CountRowsKeeps ==
    ASSUME IInv, CountRows
    PROVE  IInv'
<1>1. TypeOK'
  <2>1. Cardinality(Matching) \in 0 .. MaxCustomers
    BY MatchingIsFinite
  <2>2. run' \in Run
    BY <2>1, BoundsAssumption DEF IInv, TypeOK, CountRows, At, Run, Ids
  <2> QED
    BY <2>2 DEF IInv, TypeOK, CountRows
<1>2. Bounded'
  BY DEF IInv, Bounded, CountRows
<1>3. Queued'
  BY DEF IInv, Queued, CountRows
<1>4. Handling'
  BY DEF IInv, TypeOK, Handling, Written, HasTorn, CountRows, At
<1>5. Stored'
  BY DEF IInv, Stored, Written, HasTorn, CountRows
<1>6. Reading'
  BY DEF IInv, Reading, CountRows
<1>7. Admitted'
  BY DEF IInv, Admitted, CountRows
<1>8. OverLimitOnlyByGrowth'
  BY DEF IInv, OverLimitOnlyByGrowth, CountRows
<1> QED
  BY <1>1, <1>2, <1>3, <1>4, <1>5, <1>6, <1>7, <1>8 DEF IInv

LEMMA OpenKeeps ==
    ASSUME IInv, Open
    PROVE  IInv'
<1>1. TypeOK'
  BY LimitsAssumption, BoundsAssumption DEF IInv, TypeOK, Queued, Handling, Open, Write, FileName, Step, At, Job, Run, Download, Off, Lines, Ids, Header, Torn
<1>2. Bounded'
  BY DEF IInv, Bounded, Open
<1>3. Queued'
  BY DEF IInv, Queued, Open
<1>4. Handling'
  BY DEF IInv, TypeOK, Handling, Written, HasTorn, Open, Write, FileName, Step, At
<1>5. Stored'
  <2>0. run.job \in Jobs /\ job[run.job].status = "running"
    BY DEF IInv, Handling, Open
  <2>1. ASSUME NEW k \in Jobs, job[k].status = "completed"
        PROVE  /\ disk'[k] = disk[k] /\ (k \in DOMAIN disk => k \in DOMAIN disk')
               /\ short'[k] = short[k] /\ answer'[k] = answer[k]
    BY <2>0, <2>1 DEF IInv, TypeOK, Stored, Written, HasTorn, Open, Write, FileName
  <2>2. job' = job
    BY DEF Open
  <2>3. ASSUME NEW k \in Jobs, job[k].status = "completed"
        PROVE  (Written(k, job[k].rows) /\ job[k].rows = Len(answer[k]))'
    <3>1. Written(k, job[k].rows) /\ job[k].rows = Len(answer[k])
      BY <2>3 DEF IInv, Stored
    <3> QED
      BY <3>1, <2>1, <2>2, <2>3 DEF Written, HasTorn
  <2> QED
    BY <2>2, <2>3 DEF Stored
<1>6. Reading'
  <2>0. run.job \in Jobs /\ job[run.job].status = "running"
    BY DEF IInv, Handling, Open
  <2>1. ASSUME NEW k \in Jobs, job[k].status = "completed"
        PROVE  /\ disk'[k] = disk[k] /\ (k \in DOMAIN disk => k \in DOMAIN disk')
               /\ short'[k] = short[k] /\ answer'[k] = answer[k]
    BY <2>0, <2>1 DEF IInv, TypeOK, Stored, Written, HasTorn, Open, Write, FileName
  <2>2. job' = job
    BY DEF Open
  <2>3. download' = download
    BY DEF Open
  <2>4. \A c \in Clients : download[c].pc \in {"read", "done"} => disk'[download[c].job] = disk[download[c].job]
    BY <2>1 DEF IInv, Reading
  <2> QED
    BY <2>2, <2>3, <2>4 DEF IInv, Reading
<1>7. Admitted'
  BY DEF IInv, Admitted, Open
<1>8. OverLimitOnlyByGrowth'
  BY DEF IInv, OverLimitOnlyByGrowth, Open
<1> QED
  BY <1>1, <1>2, <1>3, <1>4, <1>5, <1>6, <1>7, <1>8 DEF IInv

LEMMA QueryKeeps ==
    ASSUME IInv, Query
    PROVE  IInv'
<1>1. TypeOK'
  <2>0. run.job \in Jobs /\ run.job \in DOMAIN disk /\ disk[run.job] = <<>> /\ job[run.job].status = "running"
    BY DEF IInv, Handling, Query
  <2>1. PICK rows \in Seq(Ids) :
           /\ rows = InOrder(Matching) /\ Len(rows) = Cardinality(Matching)
           /\ Len(rows) \in 0 .. MaxCustomers /\ ToSet(rows) = Matching
    BY MatchingIsFinite, InOrderIsTheSet
  <2>2. /\ answer \in [Jobs -> Seq(Ids)]
        /\ answer' = [answer EXCEPT ![run.job] = rows]
        /\ run' = [pc |-> "row", job |-> run.job, total |-> run.total, rest |-> rows,
                   processed |-> run.processed, progress |-> run.progress]
    BY <2>1 DEF IInv, TypeOK, Query, At
  <2>3. run' \in Run
    BY <2>1, <2>2 DEF IInv, TypeOK, Run
  <2>4. answer' \in [Jobs -> Seq(Ids)]
    BY <2>1, <2>2
  <2>5. /\ DOMAIN disk' \subseteq Jobs /\ \A f \in DOMAIN disk' : disk'[f] \in Seq(Lines)
        /\ short' \in [Jobs -> BOOLEAN]
    <3>1. /\ Append(disk[run.job], Header) \in Seq(Lines)
          /\ Append(disk[run.job], Torn) \in Seq(Lines)
      BY <2>0 DEF IInv, TypeOK, Lines
    <3>2. /\ short \in [Jobs -> BOOLEAN] /\ DOMAIN disk \subseteq Jobs
          /\ \A f \in DOMAIN disk : disk[f] \in Seq(Lines)
      BY DEF IInv, TypeOK
    <3>3. ASSUME NEW lines \in Seq(Lines), Write(run.job, lines)
          PROVE  DOMAIN disk' \subseteq Jobs /\ \A f \in DOMAIN disk' : disk'[f] \in Seq(Lines)
      BY <2>0, <3>2, <3>3 DEF Write, FileName
    <3>4. \/ Write(run.job, Append(disk[run.job], Header)) /\ UNCHANGED short
          \/ /\ short' = [short EXCEPT ![run.job] = TRUE]
             /\ Write(run.job, Append(disk[run.job], Torn)) \/ UNCHANGED disk
      BY DEF Query, Put, FileName
    <3>5. short' \in [Jobs -> BOOLEAN]
      BY <3>2, <3>4
    <3>6. DOMAIN disk' \subseteq Jobs /\ \A f \in DOMAIN disk' : disk'[f] \in Seq(Lines)
      BY <3>1, <3>2, <3>3, <3>4
    <3> QED
      BY <3>5, <3>6
  <2> QED
    BY <2>3, <2>4, <2>5 DEF IInv, TypeOK, Query
<1>2. Bounded'
  <2>0. run.job \in Jobs /\ run.job \in DOMAIN disk /\ disk[run.job] = <<>> /\ job[run.job].status = "running"
    BY DEF IInv, Handling, Query
  <2>1. PICK rows \in Seq(Ids) :
           /\ rows = InOrder(Matching) /\ Len(rows) = Cardinality(Matching)
           /\ Len(rows) \in 0 .. MaxCustomers /\ ToSet(rows) = Matching
    BY MatchingIsFinite, InOrderIsTheSet
  <2>2. /\ answer \in [Jobs -> Seq(Ids)]
        /\ answer' = [answer EXCEPT ![run.job] = rows]
        /\ run' = [pc |-> "row", job |-> run.job, total |-> run.total, rest |-> rows,
                   processed |-> run.processed, progress |-> run.progress]
    BY <2>1 DEF IInv, TypeOK, Query, At
  <2>3. \A j \in Jobs : Len(answer'[j]) <= MaxCustomers
    BY <2>1, <2>2, BoundsAssumption DEF IInv, Bounded
  <2> QED
    BY <2>3 DEF IInv, Bounded, Query
<1>3. Queued'
  <2>0. run.job \in Jobs /\ run.job \in DOMAIN disk /\ disk[run.job] = <<>> /\ job[run.job].status = "running"
    BY DEF IInv, Handling, Query
  <2>1. PICK rows \in Seq(Ids) :
           /\ rows = InOrder(Matching) /\ Len(rows) = Cardinality(Matching)
           /\ Len(rows) \in 0 .. MaxCustomers /\ ToSet(rows) = Matching
    BY MatchingIsFinite, InOrderIsTheSet
  <2>2. /\ answer \in [Jobs -> Seq(Ids)]
        /\ answer' = [answer EXCEPT ![run.job] = rows]
        /\ run' = [pc |-> "row", job |-> run.job, total |-> run.total, rest |-> rows,
                   processed |-> run.processed, progress |-> run.progress]
    BY <2>1 DEF IInv, TypeOK, Query, At
  <2>3. request[run.job] = "done"
    BY <2>0 DEF IInv, Queued
  <2>4. \A j \in Jobs : request[j] # "done" => answer'[j] = <<>>
    BY <2>2, <2>3 DEF IInv, Queued
  <2> QED
    BY <2>4 DEF IInv, Queued, Query
<1>4. Handling'
  <2>0. /\ run.job \in Jobs /\ run.job \in DOMAIN disk /\ disk[run.job] = <<>>
        /\ ~ short[run.job] /\ job[run.job].status = "running"
        /\ run.processed = 0 /\ run.progress <= 99
    BY DEF IInv, Handling, Query
  <2>1. PICK rows \in Seq(Ids) : rows = InOrder(Matching)
    BY MatchingIsFinite, InOrderIsTheSet
  <2>2. /\ answer'[run.job] = rows /\ job' = job
        /\ run' = [pc |-> "row", job |-> run.job, total |-> run.total, rest |-> rows,
                   processed |-> run.processed, progress |-> run.progress]
    BY <2>0, <2>1 DEF IInv, TypeOK, Query, At
  <2>3. /\ run.job \in DOMAIN disk'
        /\ \/ disk'[run.job] = <<Header>> /\ short' = short
           \/ disk'[run.job] = <<Torn>> /\ short'[run.job]
           \/ disk'[run.job] = <<>> /\ short'[run.job]
    <3>1. Append(disk[run.job], Header) = <<Header>> /\ Append(disk[run.job], Torn) = <<Torn>>
      BY <2>0
    <3> QED
      BY <2>0, <3>1 DEF IInv, TypeOK, Query, Put, Write, FileName
  <2>4. Written(run.job, run.processed)'
    <3>1. CASE disk'[run.job] = <<Header>> /\ short' = short
      <4>1. Len(disk'[run.job]) = 1 /\ disk'[run.job][1] = Header /\ ~ short'[run.job]
        BY <2>0, <3>1
      <4>2. \A k \in 1 .. Len(disk'[run.job]) : disk'[run.job][k] = Header
        BY <3>1
      <4>3. run'.processed = 0 /\ run'.job = run.job /\ 1 .. 0 = {}
        BY <2>0, <2>2
      <4> QED
        BY <2>3, <4>1, <4>2, <4>3 DEF Written
    <3>2. CASE disk'[run.job] = <<Torn>> /\ short'[run.job]
      <4>1. /\ Len(disk'[run.job]) = 1 /\ disk'[run.job][1] = Torn
            /\ \A k \in 1 .. Len(disk'[run.job]) : disk'[run.job][k] = Torn
        BY <3>2
      <4> QED
        BY <2>0, <2>2, <2>3, <3>2, <4>1 DEF Written, HasTorn
    <3>3. CASE disk'[run.job] = <<>> /\ short'[run.job]
      BY <2>0, <2>2, <2>3, <3>3 DEF Written
    <3> QED
      BY <2>3, <3>1, <3>2, <3>3
  <2> QED
    BY <2>0, <2>1, <2>2, <2>4 DEF IInv, Handling
<1>5. Stored'
  <2>0. run.job \in Jobs /\ job[run.job].status = "running"
    BY DEF IInv, Handling, Query
  <2>1. ASSUME NEW k \in Jobs, job[k].status = "completed"
        PROVE  /\ disk'[k] = disk[k] /\ (k \in DOMAIN disk => k \in DOMAIN disk')
               /\ short'[k] = short[k] /\ answer'[k] = answer[k]
    BY <2>0, <2>1 DEF IInv, TypeOK, Stored, Written, HasTorn, Query, Put, Write, FileName
  <2>2. job' = job
    BY DEF Query
  <2>3. ASSUME NEW k \in Jobs, job[k].status = "completed"
        PROVE  (Written(k, job[k].rows) /\ job[k].rows = Len(answer[k]))'
    <3>1. Written(k, job[k].rows) /\ job[k].rows = Len(answer[k])
      BY <2>3 DEF IInv, Stored
    <3> QED
      BY <3>1, <2>1, <2>2, <2>3 DEF Written, HasTorn
  <2> QED
    BY <2>2, <2>3 DEF Stored
<1>6. Reading'
  <2>0. run.job \in Jobs /\ job[run.job].status = "running"
    BY DEF IInv, Handling, Query
  <2>1. ASSUME NEW k \in Jobs, job[k].status = "completed"
        PROVE  /\ disk'[k] = disk[k] /\ (k \in DOMAIN disk => k \in DOMAIN disk')
               /\ short'[k] = short[k] /\ answer'[k] = answer[k]
    BY <2>0, <2>1 DEF IInv, TypeOK, Stored, Written, HasTorn, Query, Put, Write, FileName
  <2>2. job' = job
    BY DEF Query
  <2>3. download' = download
    BY DEF Query
  <2>4. \A c \in Clients : download[c].pc \in {"read", "done"} => disk'[download[c].job] = disk[download[c].job]
    BY <2>1 DEF IInv, Reading
  <2> QED
    BY <2>2, <2>3, <2>4 DEF IInv, Reading
<1>7. Admitted'
  BY DEF IInv, Admitted, Query
<1>8. OverLimitOnlyByGrowth'
  <2>0. run.job \in Jobs /\ run.job \in DOMAIN disk /\ disk[run.job] = <<>> /\ job[run.job].status = "running"
    BY DEF IInv, Handling, Query
  <2>1. PICK rows \in Seq(Ids) :
           /\ rows = InOrder(Matching) /\ Len(rows) = Cardinality(Matching)
           /\ Len(rows) \in 0 .. MaxCustomers /\ ToSet(rows) = Matching
    BY MatchingIsFinite, InOrderIsTheSet
  <2>2. /\ answer \in [Jobs -> Seq(Ids)]
        /\ answer' = [answer EXCEPT ![run.job] = rows]
        /\ run' = [pc |-> "row", job |-> run.job, total |-> run.total, rest |-> rows,
                   processed |-> run.processed, progress |-> run.progress]
    BY <2>1 DEF IInv, TypeOK, Query, At
  <2>3. counted' = counted /\ counted \in [Jobs -> SUBSET Ids]
    BY DEF IInv, TypeOK, Query
  <2>4. ASSUME NEW j \in Jobs
        PROVE  Len(answer'[j]) <= EXPORT_MAX_ROWS + Cardinality(ToSet(answer'[j]) \ counted[j])
    <3>1. CASE j = run.job
      <4>1. Cardinality(counted[j]) <= EXPORT_MAX_ROWS
        BY <2>0, <3>1 DEF IInv, Queued, Admitted
      <4>2. Cardinality(Matching) <= Cardinality(counted[j]) + Cardinality(Matching \ counted[j])
        BY <2>3, CountedAndMore, MatchingIsFinite
      <4>3. /\ Cardinality(counted[j]) \in Nat /\ Cardinality(Matching \ counted[j]) \in Nat
            /\ Cardinality(Matching) \in Nat
        BY <2>3, CountedAndMore, MatchingIsFinite
      <4>4. answer'[j] = rows
        BY <2>2, <3>1
      <4>5. Cardinality(Matching) <= EXPORT_MAX_ROWS + Cardinality(Matching \ counted[j])
        BY <4>1, <4>2, <4>3, LimitsAssumption
      <4> QED
        BY <4>4, <4>5, <2>1
    <3>2. CASE j # run.job
      <4>1. answer'[j] = answer[j]
        BY <2>2, <3>2
      <4> QED
        BY <4>1 DEF IInv, OverLimitOnlyByGrowth
    <3> QED
      BY <3>1, <3>2
  <2> QED
    BY <2>3, <2>4 DEF OverLimitOnlyByGrowth
<1> QED
  BY <1>1, <1>2, <1>3, <1>4, <1>5, <1>6, <1>7, <1>8 DEF IInv

LEMMA PutRowKeeps ==
    ASSUME IInv, PutRow
    PROVE  IInv'
<1>1. TypeOK'
  <2>0. /\ run.job \in Jobs /\ run.job \in DOMAIN disk /\ run.rest \in Seq(Ids) /\ run.rest # <<>>
        /\ run.processed \in Nat /\ run.progress \in 0 .. 99 /\ run.total \in 0 .. MaxCustomers
        /\ answer[run.job] \in Seq(Ids) /\ disk[run.job] \in Seq(Lines)
        /\ run.processed + Len(run.rest) = Len(answer[run.job])
        /\ Len(answer[run.job]) <= MaxCustomers
        /\ \A k \in 1 .. Len(run.rest) : run.rest[k] = answer[run.job][k + run.processed]
    BY DEF IInv, TypeOK, Handling, Bounded, Written, PutRow, Run
  <2>1. /\ Head(run.rest) \in Ids /\ Head(run.rest) = run.rest[1]
        /\ Tail(run.rest) \in Seq(Ids) /\ Len(Tail(run.rest)) = Len(run.rest) - 1
        /\ Len(run.rest) \in Nat \ {0}
        /\ \A k \in 1 .. Len(Tail(run.rest)) : Tail(run.rest)[k] = run.rest[k + 1]
    BY <2>0
  <2>2. PICK percent \in 0 .. 99 :
           run' = [pc |-> "row", job |-> run.job, total |-> run.total, rest |-> Tail(run.rest),
                   processed |-> run.processed + 1, progress |-> percent]
    <3>1. Progress(run.processed + 1) \in 0 .. 99
      <4>1. run.processed + 1 \in Nat
        BY <2>0
      <4> QED
        BY <4>1, ProgressIsCapped
    <3>2. PICK reports \in BOOLEAN :
             At("row", run.total, Tail(run.rest), run.processed + 1,
                IF reports THEN Progress(run.processed + 1) ELSE run.progress)
      BY DEF PutRow
    <3>3. (IF reports THEN Progress(run.processed + 1) ELSE run.progress) \in 0 .. 99
      BY <2>0, <3>1
    <3> QED
      BY <3>2, <3>3 DEF At
  <2>3. run.processed + 1 <= Len(answer[run.job]) /\ Len(answer[run.job]) \in Nat
    BY <2>0, <2>1
  <2>4. run' \in Run
    <3>1. run.processed + 1 \in 0 .. MaxCustomers
      BY <2>0, <2>3, BoundsAssumption
    <3> QED
      BY <3>1, <2>0, <2>1, <2>2 DEF Run
  <2>5. /\ DOMAIN disk' \subseteq Jobs /\ \A f \in DOMAIN disk' : disk'[f] \in Seq(Lines)
        /\ short' \in [Jobs -> BOOLEAN]
    <3>1. /\ Append(disk[run.job], Head(run.rest)) \in Seq(Lines)
          /\ Append(disk[run.job], Torn) \in Seq(Lines)
      BY <2>0, <2>1 DEF Lines
    <3>2. /\ short \in [Jobs -> BOOLEAN] /\ DOMAIN disk \subseteq Jobs
          /\ \A f \in DOMAIN disk : disk[f] \in Seq(Lines)
      BY DEF IInv, TypeOK
    <3>3. ASSUME NEW lines \in Seq(Lines), Write(run.job, lines)
          PROVE  DOMAIN disk' \subseteq Jobs /\ \A f \in DOMAIN disk' : disk'[f] \in Seq(Lines)
      BY <2>0, <3>2, <3>3 DEF Write, FileName
    <3>4. \/ Write(run.job, Append(disk[run.job], Head(run.rest))) /\ UNCHANGED short
          \/ /\ short' = [short EXCEPT ![run.job] = TRUE]
             /\ Write(run.job, Append(disk[run.job], Torn)) \/ UNCHANGED disk
      BY DEF PutRow, Put, FileName
    <3>5. short' \in [Jobs -> BOOLEAN]
      BY <3>2, <3>4
    <3>6. DOMAIN disk' \subseteq Jobs /\ \A f \in DOMAIN disk' : disk'[f] \in Seq(Lines)
      BY <3>1, <3>2, <3>3, <3>4
    <3> QED
      BY <3>5, <3>6
  <2> QED
    BY <2>4, <2>5 DEF IInv, TypeOK, PutRow
<1>2. Bounded'
  BY DEF IInv, Bounded, PutRow
<1>3. Queued'
  BY DEF IInv, Queued, PutRow
<1>4. Handling'
  <2>0. /\ run.job \in Jobs /\ run.job \in DOMAIN disk /\ run.rest \in Seq(Ids) /\ run.rest # <<>>
        /\ run.processed \in Nat /\ run.progress \in 0 .. 99 /\ run.total \in 0 .. MaxCustomers
        /\ answer[run.job] \in Seq(Ids) /\ disk[run.job] \in Seq(Lines)
        /\ run.processed + Len(run.rest) = Len(answer[run.job])
        /\ Len(answer[run.job]) <= MaxCustomers
        /\ \A k \in 1 .. Len(run.rest) : run.rest[k] = answer[run.job][k + run.processed]
    BY DEF IInv, TypeOK, Handling, Bounded, Written, PutRow, Run
  <2>1. /\ Head(run.rest) \in Ids /\ Head(run.rest) = run.rest[1]
        /\ Tail(run.rest) \in Seq(Ids) /\ Len(Tail(run.rest)) = Len(run.rest) - 1
        /\ Len(run.rest) \in Nat \ {0}
        /\ \A k \in 1 .. Len(Tail(run.rest)) : Tail(run.rest)[k] = run.rest[k + 1]
    BY <2>0
  <2>2. PICK percent \in 0 .. 99 :
           run' = [pc |-> "row", job |-> run.job, total |-> run.total, rest |-> Tail(run.rest),
                   processed |-> run.processed + 1, progress |-> percent]
    <3>1. Progress(run.processed + 1) \in 0 .. 99
      <4>1. run.processed + 1 \in Nat
        BY <2>0
      <4> QED
        BY <4>1, ProgressIsCapped
    <3>2. PICK reports \in BOOLEAN :
             At("row", run.total, Tail(run.rest), run.processed + 1,
                IF reports THEN Progress(run.processed + 1) ELSE run.progress)
      BY DEF PutRow
    <3>3. (IF reports THEN Progress(run.processed + 1) ELSE run.progress) \in 0 .. 99
      BY <2>0, <3>1
    <3> QED
      BY <3>2, <3>3 DEF At
  <2>3. run.processed + 1 <= Len(answer[run.job]) /\ Len(answer[run.job]) \in Nat
    BY <2>0, <2>1
  <2> DEFINE j == run.job
             n == run.processed
  <2>4. Head(run.rest) = answer[j][n + 1]
    BY <2>0, <2>1
  <2>5. Written(j, n) /\ job[j].status = "running"
    BY DEF IInv, Handling, PutRow
  <2>6. answer' = answer /\ job' = job
    BY DEF PutRow
  <2>7. /\ j \in DOMAIN disk'
        /\ \A k \in 1 .. Len(disk'[j]) :
              \/ disk'[j][k] \in {Header, Torn}
              \/ \E i \in 1 .. Len(answer[j]) : disk'[j][k] = answer[j][i]
        /\ short'[j] => \/ Len(disk'[j]) <= n + 1
                        \/ /\ Len(disk'[j]) = n + 2
                           /\ \E k \in 1 .. Len(disk'[j]) : disk'[j][k] = Torn
        /\ ~ short'[j] => /\ Len(disk'[j]) = n + 2
                         /\ disk'[j][1] = Header
                         /\ \A k \in 1 .. n + 1 : disk'[j][k + 1] = answer[j][k]
    <3>1. CASE Write(j, Append(disk[j], Head(run.rest))) /\ UNCHANGED short
      <4>1. /\ j \in DOMAIN disk' /\ disk'[j] = Append(disk[j], Head(run.rest)) /\ short' = short
        BY <2>0, <3>1 DEF Write, FileName
      <4>2. /\ Len(disk'[j]) = Len(disk[j]) + 1 /\ disk'[j][Len(disk[j]) + 1] = answer[j][n + 1]
            /\ \A k \in 1 .. Len(disk[j]) : disk'[j][k] = disk[j][k]
            /\ Len(disk[j]) \in Nat
        BY <2>0, <2>1, <2>4, <4>1
      <4>3. n + 1 \in 1 .. Len(answer[j])
        BY <2>0, <2>3
      <4>4. ASSUME NEW k \in 1 .. Len(disk'[j])
            PROVE  \/ disk'[j][k] \in {Header, Torn}
                   \/ \E i \in 1 .. Len(answer[j]) : disk'[j][k] = answer[j][i]
        <5>1. CASE k = Len(disk[j]) + 1
          BY <5>1, <4>2, <4>3
        <5>2. CASE k # Len(disk[j]) + 1
          <6>1. k \in 1 .. Len(disk[j])
            BY <4>2, <5>2
          <6> QED
            BY <6>1, <4>2, <2>5 DEF Written
        <5> QED
          BY <5>1, <5>2
      <4>5. ASSUME ~ short[j]
            PROVE  /\ Len(disk'[j]) = n + 2 /\ disk'[j][1] = Header
                   /\ \A k \in 1 .. n + 1 : disk'[j][k + 1] = answer[j][k]
        <5>1. /\ Len(disk[j]) = n + 1 /\ disk[j][1] = Header
              /\ \A k \in 1 .. n : disk[j][k + 1] = answer[j][k]
          BY <2>5, <4>5 DEF Written
        <5>2. Len(disk'[j]) = n + 2 /\ disk'[j][1] = Header
          <6>1. n \in Nat /\ 1 \in 1 .. Len(disk[j]) /\ (n + 1) + 1 = n + 2
            BY <2>0, <4>2, <5>1
          <6> QED
            BY <6>1, <4>2, <5>1
        <5>3. ASSUME NEW k \in 1 .. n + 1 PROVE disk'[j][k + 1] = answer[j][k]
          <6>1. CASE k = n + 1
            BY <4>2, <5>1, <6>1
          <6>2. CASE k # n + 1
            <7>1. k \in 1 .. n /\ k + 1 \in 1 .. Len(disk[j])
              BY <2>0, <5>1, <6>2
            <7> QED
              BY <7>1, <4>2, <5>1
          <6> QED
            BY <6>1, <6>2
        <5> QED
          BY <5>2, <5>3
      <4>6. ASSUME short[j]
            PROVE  \/ Len(disk'[j]) <= n + 1
                   \/ /\ Len(disk'[j]) = n + 2
                      /\ \E k \in 1 .. Len(disk'[j]) : disk'[j][k] = Torn
        <5>1. CASE Len(disk[j]) <= n
          BY <5>1, <2>0, <4>2
        <5>2. ASSUME Len(disk[j]) = n + 1, NEW k \in 1 .. Len(disk[j]), disk[j][k] = Torn
              PROVE  /\ Len(disk'[j]) = n + 2 /\ k \in 1 .. Len(disk'[j])
                     /\ disk'[j][k] = Torn
          BY <5>2, <2>0, <4>2
        <5> QED
          BY <5>1, <5>2, <2>5, <4>6 DEF Written, HasTorn
      <4> QED
        BY <4>1, <4>4, <4>5, <4>6
    <3>2. CASE short' = [short EXCEPT ![j] = TRUE] /\ UNCHANGED disk
      <4>1. disk' = disk /\ short'[j]
        BY <2>0, <3>2 DEF IInv, TypeOK
      <4>2. Len(disk[j]) <= n + 1 /\ Len(disk[j]) \in Nat
        BY <2>0, <2>5 DEF Written, HasTorn
      <4> QED
        BY <4>1, <4>2, <2>5 DEF Written
    <3>3. CASE short' = [short EXCEPT ![j] = TRUE] /\ Write(j, Append(disk[j], Torn))
      <4>1. /\ j \in DOMAIN disk' /\ disk'[j] = Append(disk[j], Torn) /\ short'[j]
        BY <2>0, <3>3 DEF IInv, TypeOK, Write, FileName
      <4>2. /\ Len(disk'[j]) = Len(disk[j]) + 1 /\ disk'[j][Len(disk[j]) + 1] = Torn
            /\ \A k \in 1 .. Len(disk[j]) : disk'[j][k] = disk[j][k]
            /\ Len(disk[j]) \in Nat
        BY <2>0, <4>1
      <4>3. ASSUME NEW k \in 1 .. Len(disk'[j])
            PROVE  \/ disk'[j][k] \in {Header, Torn}
                   \/ \E i \in 1 .. Len(answer[j]) : disk'[j][k] = answer[j][i]
        <5>1. CASE k = Len(disk[j]) + 1
          BY <5>1, <4>2
        <5>2. CASE k # Len(disk[j]) + 1
          <6>1. k \in 1 .. Len(disk[j])
            BY <4>2, <5>2
          <6> QED
            BY <6>1, <4>2, <2>5 DEF Written
        <5> QED
          BY <5>1, <5>2
      <4>4. Len(disk[j]) <= n + 1
        BY <2>0, <2>5, <4>2 DEF Written
      <4>5. Len(disk'[j]) <= n + 1 \/ Len(disk'[j]) = n + 2
        BY <2>0, <4>2, <4>4
      <4>6. Len(disk[j]) + 1 \in 1 .. Len(disk'[j])
        BY <4>2
      <4> QED
        BY <4>1, <4>2, <4>3, <4>5, <4>6
    <3>4. \/ Write(j, Append(disk[j], Head(run.rest))) /\ UNCHANGED short
          \/ short' = [short EXCEPT ![j] = TRUE] /\ UNCHANGED disk
          \/ short' = [short EXCEPT ![j] = TRUE] /\ Write(j, Append(disk[j], Torn))
      BY DEF PutRow, Put, FileName
    <3> QED
      BY <3>1, <3>2, <3>3, <3>4
  <2>8. n + 1 + Len(Tail(run.rest)) = Len(answer[j])
    <3>1. n \in Nat /\ Len(run.rest) \in Nat /\ n + Len(run.rest) = Len(answer[j])
      BY <2>0, <2>1
    <3>2. Len(Tail(run.rest)) = Len(run.rest) - 1
      BY <2>1
    <3> QED
      BY <3>1, <3>2
  <2>9. ASSUME NEW k \in 1 .. Len(Tail(run.rest))
        PROVE  Tail(run.rest)[k] = answer[j][k + (n + 1)]
    <3>1. k + 1 \in 1 .. Len(run.rest) /\ Tail(run.rest)[k] = run.rest[k + 1]
      BY <2>1
    <3>2. (k + 1) + n = k + (n + 1)
      BY <2>0, <2>1
    <3> QED
      BY <2>0, <3>1, <3>2
  <2>10. Written(run.job, run.processed)'
    <3>1. run'.job = j /\ run'.processed = n + 1 /\ (n + 1) + 1 = n + 2
      BY <2>0, <2>2
    <3> QED
      BY <3>1, <2>6, <2>7 DEF Written, HasTorn
  <2> QED
    BY <2>0, <2>2, <2>5, <2>6, <2>8, <2>9, <2>10 DEF Handling
<1>5. Stored'
  <2>0. run.job \in Jobs /\ job[run.job].status = "running"
    BY DEF IInv, Handling, PutRow
  <2>1. ASSUME NEW k \in Jobs, job[k].status = "completed"
        PROVE  /\ disk'[k] = disk[k] /\ (k \in DOMAIN disk => k \in DOMAIN disk')
               /\ short'[k] = short[k] /\ answer'[k] = answer[k]
    BY <2>0, <2>1 DEF IInv, TypeOK, Stored, Written, HasTorn, PutRow, Put, Write, FileName
  <2>2. job' = job
    BY DEF PutRow
  <2>3. ASSUME NEW k \in Jobs, job[k].status = "completed"
        PROVE  (Written(k, job[k].rows) /\ job[k].rows = Len(answer[k]))'
    <3>1. Written(k, job[k].rows) /\ job[k].rows = Len(answer[k])
      BY <2>3 DEF IInv, Stored
    <3> QED
      BY <3>1, <2>1, <2>2, <2>3 DEF Written, HasTorn
  <2> QED
    BY <2>2, <2>3 DEF Stored
<1>6. Reading'
  <2>0. run.job \in Jobs /\ job[run.job].status = "running"
    BY DEF IInv, Handling, PutRow
  <2>1. ASSUME NEW k \in Jobs, job[k].status = "completed"
        PROVE  /\ disk'[k] = disk[k] /\ (k \in DOMAIN disk => k \in DOMAIN disk')
               /\ short'[k] = short[k] /\ answer'[k] = answer[k]
    BY <2>0, <2>1 DEF IInv, TypeOK, Stored, Written, HasTorn, PutRow, Put, Write, FileName
  <2>2. job' = job
    BY DEF PutRow
  <2>3. download' = download
    BY DEF PutRow
  <2>4. \A c \in Clients : download[c].pc \in {"read", "done"} => disk'[download[c].job] = disk[download[c].job]
    BY <2>1 DEF IInv, Reading
  <2> QED
    BY <2>2, <2>3, <2>4 DEF IInv, Reading
<1>7. Admitted'
  BY DEF IInv, Admitted, PutRow
<1>8. OverLimitOnlyByGrowth'
  BY DEF IInv, OverLimitOnlyByGrowth, PutRow
<1> QED
  BY <1>1, <1>2, <1>3, <1>4, <1>5, <1>6, <1>7, <1>8 DEF IInv

LEMMA CloseFileKeeps ==
    ASSUME IInv, CloseFile
    PROVE  IInv'
<1>1. TypeOK'
  BY LimitsAssumption, BoundsAssumption DEF IInv, TypeOK, Queued, Handling, CloseFile, Step, At, Job, Run, Download, Off, Lines, Ids, Header, Torn
<1>2. Bounded'
  BY DEF IInv, Bounded, CloseFile
<1>3. Queued'
  BY DEF IInv, Queued, CloseFile
<1>4. Handling'
  BY DEF IInv, TypeOK, Handling, Written, HasTorn, CloseFile, Step, At
<1>5. Stored'
  BY DEF IInv, Stored, Written, HasTorn, CloseFile
<1>6. Reading'
  BY DEF IInv, Reading, CloseFile
<1>7. Admitted'
  BY DEF IInv, Admitted, CloseFile
<1>8. OverLimitOnlyByGrowth'
  BY DEF IInv, OverLimitOnlyByGrowth, CloseFile
<1> QED
  BY <1>1, <1>2, <1>3, <1>4, <1>5, <1>6, <1>7, <1>8 DEF IInv

LEMMA ReportKeeps ==
    ASSUME IInv, Report
    PROVE  IInv'
<1>1. TypeOK'
  <2>1. run' \in Run
    BY DEF IInv, TypeOK, Report, At, Run, Ids
  <2> QED
    BY <2>1 DEF IInv, TypeOK, Report
<1>2. Bounded'
  BY DEF IInv, Bounded, Report
<1>3. Queued'
  BY DEF IInv, Queued, Report
<1>4. Handling'
  BY DEF IInv, TypeOK, Handling, Written, HasTorn, Report, At
<1>5. Stored'
  BY DEF IInv, Stored, Written, HasTorn, Report
<1>6. Reading'
  BY DEF IInv, Reading, Report
<1>7. Admitted'
  BY DEF IInv, Admitted, Report
<1>8. OverLimitOnlyByGrowth'
  BY DEF IInv, OverLimitOnlyByGrowth, Report
<1> QED
  BY <1>1, <1>2, <1>3, <1>4, <1>5, <1>6, <1>7, <1>8 DEF IInv

LEMMA ThrowKeeps ==
    ASSUME IInv, Throw
    PROVE  IInv'
<1>1. TypeOK'
  BY LimitsAssumption, BoundsAssumption DEF IInv, TypeOK, Queued, Handling, Throw, Step, At, Job, Run, Download, Off, Lines, Ids, Header, Torn
<1>2. Bounded'
  BY DEF IInv, Bounded, Throw
<1>3. Queued'
  BY DEF IInv, Queued, Throw
<1>4. Handling'
  BY DEF IInv, TypeOK, Handling, Written, HasTorn, Throw, Step, At
<1>5. Stored'
  BY DEF IInv, Stored, Written, HasTorn, Throw
<1>6. Reading'
  BY DEF IInv, Reading, Throw
<1>7. Admitted'
  BY DEF IInv, Admitted, Throw
<1>8. OverLimitOnlyByGrowth'
  BY DEF IInv, OverLimitOnlyByGrowth, Throw
<1> QED
  BY <1>1, <1>2, <1>3, <1>4, <1>5, <1>6, <1>7, <1>8 DEF IInv

LEMMA AskKeeps ==
    ASSUME IInv, NEW c \in Clients, NEW j \in Jobs, Ask(c, j)
    PROVE  IInv'
<1>1. TypeOK'
  <2>1. /\ download \in [Clients -> Download]
        /\ DOMAIN disk \subseteq Jobs /\ \A f \in DOMAIN disk : disk[f] \in Seq(Lines)
    BY DEF IInv, TypeOK

  <2>2. Downloading("stat", j, 0, <<>>) \in Download
    BY DownloadType
  <2>3. download' \in [Clients -> Download]
    BY <2>1, <2>2 DEF Ask
  <2> QED
    BY <2>3 DEF IInv, TypeOK, Ask
<1>2. Bounded'
  BY DEF IInv, Bounded, Ask
<1>3. Queued'
  BY DEF IInv, Queued, Ask
<1>4. Handling'
  BY DEF IInv, Handling, Written, HasTorn, Ask
<1>5. Stored'
  BY DEF IInv, Stored, Written, HasTorn, Ask
<1>6. Reading'
  BY DEF IInv, TypeOK, Reading, Ask, Downloading
<1>7. Admitted'
  BY DEF IInv, Admitted, Ask
<1>8. OverLimitOnlyByGrowth'
  BY DEF IInv, OverLimitOnlyByGrowth, Ask
<1> QED
  BY <1>1, <1>2, <1>3, <1>4, <1>5, <1>6, <1>7, <1>8 DEF IInv

LEMMA StatKeeps ==
    ASSUME IInv, NEW c \in Clients, Stat(c)
    PROVE  IInv'
<1>1. TypeOK'
  <2>1. /\ download \in [Clients -> Download]
        /\ DOMAIN disk \subseteq Jobs /\ \A f \in DOMAIN disk : disk[f] \in Seq(Lines)
    BY DEF IInv, TypeOK

  <2>2. ASSUME FileName(download[c].job) \in DOMAIN disk
        PROVE  Downloading("read", download[c].job, Len(disk[FileName(download[c].job)]), <<>>) \in Download
    <3>1. download[c].job \in Jobs \cup {None} /\ Len(disk[FileName(download[c].job)]) \in Nat
      BY <2>1, <2>2 DEF Download
    <3> QED
      BY <3>1, DownloadType
  <2>4. NoDownload \in Download
    BY DownloadType DEF NoDownload
  <2>3. download' \in [Clients -> Download]
    BY <2>1, <2>2, <2>4 DEF Stat
  <2> QED
    BY <2>3 DEF IInv, TypeOK, Stat
<1>2. Bounded'
  BY DEF IInv, Bounded, Stat
<1>3. Queued'
  BY DEF IInv, Queued, Stat
<1>4. Handling'
  BY DEF IInv, Handling, Written, HasTorn, Stat
<1>5. Stored'
  BY DEF IInv, Stored, Written, HasTorn, Stat
<1>6. Reading'
  BY DEF IInv, TypeOK, Reading, Stat, Downloading, NoDownload, FileName
<1>7. Admitted'
  BY DEF IInv, Admitted, Stat
<1>8. OverLimitOnlyByGrowth'
  BY DEF IInv, OverLimitOnlyByGrowth, Stat
<1> QED
  BY <1>1, <1>2, <1>3, <1>4, <1>5, <1>6, <1>7, <1>8 DEF IInv

LEMMA ReadKeeps ==
    ASSUME IInv, NEW c \in Clients, Read(c)
    PROVE  IInv'
<1> DEFINE d == download[c]
           lines == disk[d.job]
           more == Downloading("read", d.job, d.size, Append(d.got, lines[Len(d.got) + 1]))
           all == Downloading("done", d.job, d.size, d.got)
<1>1. /\ d \in Download /\ d.job \in Jobs /\ job[d.job].status = "completed"
      /\ d.size = Len(lines) /\ Len(d.got) <= Len(lines)
      /\ \A k \in 1 .. Len(d.got) : d.got[k] = lines[k]
  BY DEF IInv, TypeOK, Reading, Read
<1>2. lines \in Seq(Lines)
  BY <1>1 DEF IInv, TypeOK, Stored, Written, HasTorn
<1>3. d.pc = "read" /\ download \in [Clients -> Download]
  BY DEF IInv, TypeOK, Read
<1>4. d.got \in Seq(Lines) /\ d.size \in Nat
  BY <1>1 DEF Download
<1>5. CASE Len(d.got) < Len(lines)
  <2>1. download' = [download EXCEPT ![c] = more]
    BY <1>5 DEF Read, FileName
  <2>2. Append(d.got, lines[Len(d.got) + 1]) \in Seq(Lines)
    BY <1>2, <1>4, <1>5
  <2>3. more \in Download
    BY <1>1, <1>4, <2>2, DownloadType
  <2>4. TypeOK'
    <3>1. download' \in [Clients -> Download]
      BY <1>3, <2>1, <2>3
    <3> QED
      BY <3>1 DEF IInv, TypeOK, Read
  <2>5. Reading'
    <3> SUFFICES ASSUME NEW b \in Clients
                 PROVE  (/\ download[b].pc # "idle" =>
                                download[b].job \in Jobs /\ job[download[b].job].status = "completed"
                         /\ download[b].pc \in {"read", "done"} =>
                                /\ download[b].size = Len(disk[download[b].job])
                                /\ Len(download[b].got) <= download[b].size
                                /\ \A k \in 1 .. Len(download[b].got) :
                                      download[b].got[k] = disk[download[b].job][k]
                         /\ download[b].pc = "done" => Len(download[b].got) = download[b].size)'
      BY DEF Reading
    <3>1. CASE b # c
      <4>1. download'[b] = download[b]
        BY <1>3, <2>1, <3>1
      <4>2. disk' = disk /\ job' = job
        BY DEF Read
      <4> QED
        BY <4>1, <4>2 DEF IInv, Reading
    <3>2. CASE b = c
      <4>1. download'[b] = more
        BY <1>3, <2>1, <3>2
      <4>2. /\ download'[b].pc = "read" /\ download'[b].job = d.job /\ download'[b].size = d.size
            /\ download'[b].got = Append(d.got, lines[Len(d.got) + 1])
        BY <4>1 DEF Downloading
      <4>3. Len(download'[b].got) = Len(d.got) + 1
        BY <4>2, <1>4
      <4>4. ASSUME NEW k \in 1 .. Len(d.got) + 1 PROVE download'[b].got[k] = lines[k]
        BY <4>2, <1>1, <1>2, <1>4, <1>5
      <4>5. disk' = disk /\ job' = job
        BY DEF Read
      <4>6. Len(d.got) + 1 <= Len(lines)
        BY <1>2, <1>4, <1>5
      <4>7. \A k \in 1 .. Len(download'[b].got) : download'[b].got[k] = disk'[download'[b].job][k]
        BY <4>2, <4>3, <4>4, <4>5
      <4> QED
        BY <4>2, <4>3, <4>5, <4>6, <4>7, <1>1
    <3> QED
      BY <3>1, <3>2
  <2> QED
    BY <2>4, <2>5, ReadFrame
<1>6. CASE ~ (Len(d.got) < Len(lines))
  <2>1. download' = [download EXCEPT ![c] = all]
    BY <1>6 DEF Read, FileName
  <2>2. all \in Download
    BY <1>1, <1>4, DownloadType
  <2>3. TypeOK'
    <3>1. download' \in [Clients -> Download]
      BY <1>3, <2>1, <2>2
    <3> QED
      BY <3>1 DEF IInv, TypeOK, Read
  <2>4. Len(d.got) = d.size
    BY <1>1, <1>2, <1>4, <1>6
  <2>5. Reading'
    BY <1>1, <1>3, <2>1, <2>4 DEF IInv, Reading, Read, Downloading
  <2> QED
    BY <2>3, <2>5, ReadFrame
<1> QED
  BY <1>5, <1>6

LEMMA LeaveKeeps ==
    ASSUME IInv, NEW c \in Clients, Leave(c)
    PROVE  IInv'
<1>1. TypeOK'
  <2>1. /\ download \in [Clients -> Download]
        /\ DOMAIN disk \subseteq Jobs /\ \A f \in DOMAIN disk : disk[f] \in Seq(Lines)
    BY DEF IInv, TypeOK

  <2>2. NoDownload \in Download
    BY DownloadType DEF NoDownload
  <2>3. download' \in [Clients -> Download]
    BY <2>1, <2>2 DEF Leave
  <2> QED
    BY <2>3 DEF IInv, TypeOK, Leave
<1>2. Bounded'
  BY DEF IInv, Bounded, Leave
<1>3. Queued'
  BY DEF IInv, Queued, Leave
<1>4. Handling'
  BY DEF IInv, Handling, Written, HasTorn, Leave
<1>5. Stored'
  BY DEF IInv, Stored, Written, HasTorn, Leave
<1>6. Reading'
  BY DEF IInv, TypeOK, Reading, Leave, NoDownload, Downloading
<1>7. Admitted'
  BY DEF IInv, Admitted, Leave
<1>8. OverLimitOnlyByGrowth'
  BY DEF IInv, OverLimitOnlyByGrowth, Leave
<1> QED
  BY <1>1, <1>2, <1>3, <1>4, <1>5, <1>6, <1>7, <1>8 DEF IInv

LEMMA AddKeeps ==
    ASSUME IInv, Add
    PROVE  IInv'
<1>1. TypeOK'
  <2>1. customers' \in Seq(BOOLEAN)
    BY DEF IInv, TypeOK, Add
  <2>2. edits' \in 0 .. MaxEdits
    BY BoundsAssumption DEF IInv, TypeOK, Add
  <2> QED
    BY <2>1, <2>2 DEF IInv, TypeOK, Add
<1>2. Bounded'
  <2>1. Len(customers') = Len(customers) + 1 /\ Len(customers) \in Nat
    BY DEF IInv, TypeOK, Add
  <2>2. Len(customers') <= MaxCustomers
    BY <2>1, BoundsAssumption DEF Add
  <2> QED
    BY <2>2 DEF IInv, Bounded, Add
<1>3. Queued'
  BY DEF IInv, Queued, Add
<1>4. Handling'
  BY DEF IInv, Handling, Written, HasTorn, Add
<1>5. Stored'
  BY DEF IInv, Stored, Written, HasTorn, Add
<1>6. Reading'
  BY DEF IInv, Reading, Add
<1>7. Admitted'
  BY DEF IInv, Admitted, Add
<1>8. OverLimitOnlyByGrowth'
  BY DEF IInv, OverLimitOnlyByGrowth, Add
<1> QED
  BY <1>1, <1>2, <1>3, <1>4, <1>5, <1>6, <1>7, <1>8 DEF IInv

LEMMA ChangeKeeps ==
    ASSUME IInv, NEW i \in DOMAIN customers, Change(i)
    PROVE  IInv'
<1>1. TypeOK'
  <2>1. customers' \in Seq(BOOLEAN)
    <3>1. PICK b \in BOOLEAN : b = ~ customers[i]
      OBVIOUS
    <3>2. customers' = [customers EXCEPT ![i] = b]
      BY <3>1 DEF Change
    <3> QED
      BY <3>2 DEF IInv, TypeOK
  <2>2. edits' \in 0 .. MaxEdits
    BY BoundsAssumption DEF IInv, TypeOK, Change
  <2> QED
    BY <2>1, <2>2 DEF IInv, TypeOK, Change
<1>2. Bounded'
  BY DEF IInv, TypeOK, Bounded, Change
<1>3. Queued'
  BY DEF IInv, Queued, Change
<1>4. Handling'
  BY DEF IInv, Handling, Written, HasTorn, Change
<1>5. Stored'
  BY DEF IInv, Stored, Written, HasTorn, Change
<1>6. Reading'
  BY DEF IInv, Reading, Change
<1>7. Admitted'
  BY DEF IInv, Admitted, Change
<1>8. OverLimitOnlyByGrowth'
  BY DEF IInv, OverLimitOnlyByGrowth, Change
<1> QED
  BY <1>1, <1>2, <1>3, <1>4, <1>5, <1>6, <1>7, <1>8 DEF IInv

LEMMA Initially == Init => IInv
<1> SUFFICES ASSUME Init PROVE IInv
  OBVIOUS
<1>1. TypeOK /\ Len(customers) <= MaxCustomers
  <2>1. PICK n \in 0 .. MaxCustomers : customers = [i \in 1 .. n |-> TRUE]
    BY DEF Init
  <2>2. customers \in Seq(BOOLEAN) /\ Len(customers) <= MaxCustomers
    BY <2>1, BoundsAssumption
  <2>3. NoDownload \in Download
    BY DownloadType DEF NoDownload
  <2>4. Off \in Run
    BY BoundsAssumption DEF Off, Run
  <2>5. job \in [Jobs -> Job]
    BY LimitsAssumption, BoundsAssumption DEF Init, Job
  <2> QED
    BY <2>2, <2>3, <2>4, <2>5, BoundsAssumption DEF Init, TypeOK
<1>2. Bounded /\ Queued
  BY <1>1, BoundsAssumption DEF Init, Bounded, Queued
<1>3. Handling
  BY DEF Init, Handling, Off
<1>4. Stored /\ Reading /\ Admitted
  BY DEF Init, Stored, Reading, Admitted, NoDownload, Downloading
<1>5. OverLimitOnlyByGrowth
  <2>1. ToSet(<<>>) = {} /\ Len(<<>>) = 0
    BY DEF ToSet
  <2>2. Cardinality({} \ {}) = 0
    BY FS_EmptySet
  <2>3. \A j \in Jobs : answer[j] = <<>> /\ counted[j] = {}
    BY DEF Init
  <2>4. 0 <= EXPORT_MAX_ROWS + 0
    BY LimitsAssumption
  <2> QED
    BY <2>1, <2>2, <2>3, <2>4 DEF OverLimitOnlyByGrowth
<1> QED
  BY <1>1, <1>2, <1>3, <1>4, <1>5 DEF IInv

LEMMA Always == Spec => []IInv
<1>1. IInv /\ [Next]_vars => IInv'
  <2> SUFFICES ASSUME IInv, [Next]_vars PROVE IInv'
    OBVIOUS
  <2>1. ASSUME NEW j \in Jobs, Count(j) \/ Dispatch(j) \/ Claim(j) \/ Recover(j) PROVE IInv'
    BY <2>1, CountKeeps, DispatchKeeps, ClaimKeeps, RecoverKeeps
  <2>2. CASE Fail \/ Complete \/ Crash
    BY <2>2, FailKeeps, CompleteKeeps, CrashKeeps
  <2>3. CASE CountRows \/ Open \/ Query \/ PutRow \/ CloseFile \/ Report \/ Throw
    BY <2>3, CountRowsKeeps, OpenKeeps, QueryKeeps, PutRowKeeps, CloseFileKeeps, ReportKeeps,
       ThrowKeeps
  <2>4. ASSUME NEW c \in Clients, (\E j \in Jobs : Ask(c, j)) \/ Stat(c) \/ Read(c) \/ Leave(c)
        PROVE  IInv'
    BY <2>4, AskKeeps, StatKeeps, ReadKeeps, LeaveKeeps
  <2>5. CASE Add \/ \E i \in DOMAIN customers : Change(i)
    BY <2>5, AddKeeps, ChangeKeeps
  <2>6. CASE UNCHANGED vars
    BY <2>6 DEF vars, IInv, TypeOK, Bounded, Queued, Handling, Stored, Reading, Admitted, Written, HasTorn,
       OverLimitOnlyByGrowth
  <2> QED
    BY <2>1, <2>2, <2>3, <2>4, <2>5, <2>6 DEF Next
<1> QED
  BY <1>1, Initially, PTL DEF Spec

-------------------------------------------------------------------------------
(* The theorems. *)

(* The variables keep their types, for any number of jobs, downloads and      *)
(* customers.                                                                 *)
THEOREM TypeCorrect == Spec => []TypeOK
<1>1. IInv => TypeOK
  BY DEF IInv
<1> QED
  BY <1>1, Always, PTL

(* What is written of a complete answer is the whole file, but for what a     *)
(* full disk refused.                                                         *)
LEMMA WrittenOut ==
    ASSUME IInv, NEW j \in Jobs, Written(j, Len(answer[j]))
    PROVE  WholeUnlessShort(j, disk[j])
<1> DEFINE lines == disk[j]
           whole == Whole(j)
<1>1. /\ answer[j] \in Seq(Ids) /\ lines \in Seq(Lines) /\ <<Header>> \in Seq(Lines)
      /\ answer[j] \in Seq(Lines)
  BY DEF IInv, TypeOK, Written, Lines
<1>2. /\ whole \in Seq(Lines) /\ Len(whole) = Len(answer[j]) + 1 /\ whole[1] = Header
      /\ \A k \in 1 .. Len(answer[j]) : whole[k + 1] = answer[j][k]
      /\ Len(answer[j]) \in Nat /\ Len(lines) \in Nat
  BY <1>1 DEF Whole
<1>3. /\ \A k \in 1 .. Len(lines) : \/ lines[k] \in {Header, Torn}
                                   \/ \E i \in 1 .. Len(answer[j]) : lines[k] = answer[j][i]
      /\ short[j] => \/ Len(lines) <= Len(answer[j])
                     \/ Len(lines) = Len(answer[j]) + 1 /\ HasTorn(j)
      /\ ~ short[j] => /\ Len(lines) = Len(answer[j]) + 1
                       /\ lines[1] = Header
                       /\ \A k \in 1 .. Len(answer[j]) : lines[k + 1] = answer[j][k]
  BY DEF Written
<1>4. DOMAIN lines = 1 .. Len(lines) /\ DOMAIN whole = 1 .. Len(whole)
  BY <1>1, <1>2
<1>5. HasTorn(j) <=> \E k \in 1 .. Len(lines) : lines[k] = Torn
  BY DEF HasTorn
<1> HIDE DEF lines, whole
<1>6. CASE short[j]
  <2>1. Len(lines) <= Len(whole)
    BY <1>2, <1>3, <1>6
  <2>2. ASSUME Len(lines) = Len(whole) PROVE Torn \in ToSet(lines)
    <3>1. HasTorn(j)
      BY <1>2, <1>3, <1>6, <2>2
    <3> QED
      BY <3>1, <1>4, <1>5 DEF ToSet
  <2>3. ASSUME NEW k \in 1 .. Len(lines)
        PROVE  lines[k] = Torn \/ \E i \in 1 .. Len(whole) : lines[k] = whole[i]
    <3>1. CASE lines[k] = Header
      BY <3>1, <1>2
    <3>2. ASSUME NEW i \in 1 .. Len(answer[j]), lines[k] = answer[j][i]
          PROVE  \E l \in 1 .. Len(whole) : lines[k] = whole[l]
      <4>1. i + 1 \in 1 .. Len(whole) /\ whole[i + 1] = lines[k]
        BY <1>2, <3>2
      <4> QED
        BY <4>1
    <3> QED
      BY <1>3, <3>1, <3>2
  <2>4. ToSet(lines) \subseteq ToSet(whole) \cup {Torn}
    BY <1>4, <2>3 DEF ToSet
  <2> QED
    BY <1>6, <2>1, <2>2, <2>4 DEF WholeUnlessShort, lines, whole
<1>7. CASE ~ short[j]
  <2>1. Len(lines) = Len(whole)
    BY <1>2, <1>3, <1>7
  <2>2. ASSUME NEW k \in 1 .. Len(whole) PROVE lines[k] = whole[k]
    <3>1. CASE k = 1
      BY <3>1, <1>2, <1>3, <1>7
    <3>2. CASE k # 1
      <4>1. k - 1 \in 1 .. Len(answer[j]) /\ (k - 1) + 1 = k
        BY <3>2, <1>2
      <4>2. lines[k] = answer[j][k - 1]
        BY <4>1, <1>3, <1>7
      <4>3. whole[k] = answer[j][k - 1]
        BY <4>1, <1>2
      <4> QED
        BY <4>2, <4>3
    <3> QED
      BY <3>1, <3>2
  <2>3. lines = whole
    BY <1>1, <1>2, <2>1, <2>2, SeqEqual DEF lines
  <2> QED
    BY <1>7, <2>3 DEF WholeUnlessShort, lines, whole
<1> QED
  BY <1>6, <1>7

(* However the table changes between the count and the rows, no more than 100 *)
(* is reported, and 100 only when every row of the query was handed to        *)
(* fputcsv and the file is the whole export, or what a full disk left of it.  *)
THEOREM HonestProgress == Spec => []ProgressIsHonest
<1>1. IInv => ProgressIsHonest
  <2> SUFFICES ASSUME IInv PROVE ProgressIsHonest
    OBVIOUS
  <2>1. PICK percent \in 0 .. 100 : percent = run.progress
    BY DEF IInv, TypeOK, Run
  <2>2. percent <= 100
    OBVIOUS
  <2>3. ASSUME percent = 100
        PROVE  /\ run.processed = Len(answer[run.job])
               /\ FileName(run.job) \in DOMAIN disk
               /\ WholeUnlessShort(run.job, disk[FileName(run.job)])
    <3>1. run.pc = "complete"
      BY <2>1, <2>3 DEF IInv, Handling
    <3>2. /\ run.job \in Jobs /\ Written(run.job, run.processed) /\ run.rest = <<>>
          /\ run.processed + Len(run.rest) = Len(answer[run.job])
      BY <3>1 DEF IInv, Handling
    <3>3. run.processed = Len(answer[run.job])
      BY <3>2 DEF IInv, TypeOK, Run
    <3>4. WholeUnlessShort(run.job, disk[run.job])
      BY <3>2, <3>3, WrittenOut
    <3> QED
      BY <3>2, <3>3, <3>4 DEF Written, FileName
  <2> QED
    BY <2>1, <2>2, <2>3 DEF ProgressIsHonest
<1> QED
  BY <1>1, Always, PTL

(* An export exceeds EXPORT_MAX_ROWS only by customers that requestExport did *)
(* not count.                                                                 *)
THEOREM LimitedButForGrowth == Spec => []OverLimitOnlyByGrowth
<1>1. IInv => OverLimitOnlyByGrowth
  BY DEF IInv
<1> QED
  BY <1>1, Always, PTL

(* A finished download is the whole answer to one query of its job, whatever  *)
(* attempts, crashes, other exports and edits came in between.                *)
THEOREM WholeDownload == Spec => []DownloadIsWhole
<1>1. IInv => DownloadIsWhole
  <2> SUFFICES ASSUME IInv, NEW c \in Clients, download[c].pc = "done"
               PROVE  LET j == download[c].job IN
                      /\ download[c].size = Len(download[c].got)
                      /\ job[j].rows = Len(answer[j])
                      /\ WholeUnlessShort(j, download[c].got)
    BY DEF DownloadIsWhole
  <2> DEFINE j == download[c].job
             got == download[c].got
  <2>1. /\ j \in Jobs /\ job[j].status = "completed" /\ got \in Seq(Lines)
        /\ download[c].size = Len(disk[j]) /\ Len(got) = download[c].size
        /\ \A k \in 1 .. Len(got) : got[k] = disk[j][k]
    BY DEF IInv, TypeOK, Download, Reading
  <2>2. Written(j, job[j].rows) /\ job[j].rows = Len(answer[j])
    BY <2>1 DEF IInv, Stored
  <2>3. WholeUnlessShort(j, disk[j])
    BY <2>1, <2>2, WrittenOut
  <2>4. disk[j] \in Seq(Lines)
    BY <2>2 DEF IInv, TypeOK, Written
  <2>5. got = disk[j]
    BY <2>1, <2>4, SeqEqual
  <2> QED
    BY <2>1, <2>2, <2>3, <2>5
<1> QED
  BY <1>1, Always, PTL

-------------------------------------------------------------------------------
(* The walk through the list. *)

(* The customers sent so far. *)
Sent == ToSet(walk.got) \cup ToSet(walk.data)

(* The places whose rows the client has asked for and been sent. *)
Passed == Offset(SanitizePage(walk.page), SanitizeLimit(walk.limit))
          + (IF walk.pc \in {"answer", "done"} THEN SanitizeLimit(walk.limit) ELSE 0)

Shown ==
    /\ Sent \subseteq DOMAIN customers
    /\ walk.pc # "answer" => walk.data = <<>>
    /\ left + returned <= edits

(* One customer that was there all the time moved up past the client for each *)
(* that left.                                                                 *)
Missed == walk.pc # "done" => Cardinality(Before(Matching, steady \ Sent, Passed)) <= left

(* One moved behind the rows counted for each that returned. *)
Over == walk.pc \in {"rows", "answer"} => Cardinality(Behind(Matching, steady, walk.total)) <= returned

(* One that was sent was sent twice, or waits for it behind the rows passed,  *)
(* for each that returned.                                                    *)
Repeated == Len(walk.got) + Len(walk.data) + Cardinality(Behind(Matching, Sent \cap Matching, Passed))
            <= Cardinality(Sent) + returned

WalkInv == WalkTypeOK /\ Shown /\ Missed /\ Over /\ Repeated /\ MissesOnlyWhatMoved

-------------------------------------------------------------------------------
(* Pages. *)

LEMMA LimitType ==
    ASSUME NEW limit \in Limits
    PROVE  /\ SanitizeLimit(limit) \in Nat \ {0}
           /\ Clamp(SanitizeLimit(limit)) = SanitizeLimit(limit)
<1>1. CASE limit = Missing
  BY <1>1, PagingAssumption DEF SanitizeLimit, Clamp
<1>2. CASE limit # Missing
  BY <1>2, PagingAssumption DEF SanitizeLimit, Clamp
<1> QED
  BY <1>1, <1>2

LEMMA PageType ==
    ASSUME NEW page \in Pages \cup (Nat \ {0})
    PROVE  /\ SanitizePage(page) \in Nat \ {0}
           /\ page \in Pages \/ page = 1 => SanitizePage(page) = 1
           /\ page \in Nat \ {0} => SanitizePage(page) = page
<1>1. CASE page = Missing
  BY <1>1, PagingAssumption DEF SanitizePage
<1>2. CASE page # Missing
  BY <1>2, PagingAssumption DEF SanitizePage
<1> QED
  BY <1>1, <1>2

LEMMA OffsetType ==
    ASSUME NEW page \in Nat \ {0}, NEW limit \in Nat \ {0}
    PROVE  /\ Offset(page, limit) \in Nat
           /\ page = 1 => Offset(page, limit) = 0
           /\ Offset(page + 1, limit) = Offset(page, limit) + limit
<1>1. PICK q \in Nat : page = q + 1
  OBVIOUS
<1>2. limit * q \in Nat
  OBVIOUS
<1>3. limit * (q + 1) = limit * q + limit /\ limit * (q + 2) = limit * q + 2 * limit
  OBVIOUS
<1>4. q + 1 + 1 = q + 2
  OBVIOUS
<1> QED
  BY <1>1, <1>2, <1>3, <1>4 DEF Offset

(* After the last page all rows counted have been passed. *)
LEMMA AllPages ==
    ASSUME NEW page \in Nat \ {0}, NEW limit \in Nat \ {0}, NEW total \in Nat,
           ~ (page < TotalPages(total, limit))
    PROVE  total <= Offset(page, limit) + limit
<1>1. Offset(page, limit) + limit = limit * page
  BY DEF Offset
<1>2. limit * page \in Nat
  OBVIOUS
<1>3. CASE total = 0
  BY <1>1, <1>2, <1>3
<1>4. CASE total # 0
  <2>1. PICK m \in Nat : total = m + 1
    BY <1>4
  <2>2. PICK q \in Nat : q = m \div limit
    OBVIOUS
  <2>3. TotalPages(total, limit) = q + 1
    BY <2>1, <2>2 DEF TotalPages
  <2>4. m < limit * (q + 1)
    BY <2>2
  <2>5. q + 1 <= page
    BY <2>3
  <2>6. limit * (q + 1) <= limit * page
    BY <2>5
  <2> QED
    BY <1>1, <1>2, <2>1, <2>4, <2>6
<1> QED
  BY <1>3, <1>4

(* A sequence has at least as many rows as customers. *)
LEMMA RowsOfSeq ==
    ASSUME NEW s \in Seq(Ids)
    PROVE  /\ ToSet(s) \in SUBSET Ids /\ IsFiniteSet(ToSet(s)) /\ Cardinality(ToSet(s)) \in Nat
           /\ Cardinality(ToSet(s)) <= Len(s)
<1>1. PICK n \in Nat : n = Len(s)
  OBVIOUS
<1>2. DOMAIN s = 1 .. n /\ \A i \in 1 .. n : s[i] \in Ids
  BY <1>1
<1>3. ToSet(s) = {s[i] : i \in 1 .. n}
  BY <1>2 DEF ToSet
<1>4. s \in [1 .. n -> ToSet(s)]
  <2>1. \A i \in 1 .. n : s[i] \in ToSet(s)
    BY <1>3
  <2> QED
    BY <1>2, <2>1
<1>5. \A e \in ToSet(s) : \E i \in 1 .. n : s[i] = e
  BY <1>3
<1>6. s \in Surjection(1 .. n, ToSet(s))
  BY <1>4, <1>5 DEF Surjection
<1>7. IsFiniteSet(ToSet(s)) /\ Cardinality(ToSet(s)) <= n
  BY <1>6, UpTo, FS_Surjection
<1>8. ToSet(s) \in SUBSET Ids
  BY <1>2, <1>3
<1> QED
  BY <1>1, <1>7, <1>8, FS_CardinalityType

LEMMA RowsOfBoth ==
    ASSUME NEW s \in Seq(Ids), NEW t \in Seq(Ids)
    PROVE  /\ s \o t \in Seq(Ids) /\ Len(s \o t) = Len(s) + Len(t)
           /\ ToSet(s \o t) = ToSet(s) \cup ToSet(t)
<1>1. PICK m \in Nat, n \in Nat : m = Len(s) /\ n = Len(t)
  OBVIOUS
<1>2. PICK u \in Seq(Ids) : u = s \o t
  BY ConcatProperties
<1>3. Len(u) = m + n /\ \A i \in 1 .. m + n : u[i] = IF i <= m THEN s[i] ELSE t[i - m]
  BY <1>1, <1>2, ConcatProperties
<1>4. DOMAIN s = 1 .. m /\ DOMAIN t = 1 .. n /\ DOMAIN u = 1 .. m + n
  BY <1>1, <1>3
<1>5. /\ ToSet(s) = {s[i] : i \in 1 .. m} /\ ToSet(t) = {t[i] : i \in 1 .. n}
      /\ ToSet(u) = {u[i] : i \in 1 .. m + n}
  BY <1>4 DEF ToSet
<1>6. ASSUME NEW i \in 1 .. m + n PROVE u[i] \in ToSet(s) \cup ToSet(t)
  <2>1. CASE i <= m
    BY <1>3, <1>5, <2>1
  <2>2. CASE ~ (i <= m)
    <3>1. i - m \in 1 .. n /\ u[i] = t[i - m]
      BY <1>3, <2>2
    <3> QED
      BY <1>5, <3>1
  <2> QED
    BY <2>1, <2>2
<1>7. ASSUME NEW i \in 1 .. m PROVE s[i] \in ToSet(u)
  <2>1. i \in 1 .. m + n /\ u[i] = s[i]
    BY <1>3
  <2> QED
    BY <1>5, <2>1
<1>8. ASSUME NEW i \in 1 .. n PROVE t[i] \in ToSet(u)
  <2>0. PICK k \in 1 .. m + n : k = i + m
    OBVIOUS
  <2>1. k \in 1 .. m + n /\ u[k] = t[i]
    <3>1. ~ (k <= m) /\ k - m = i
      BY <2>0
    <3> QED
      BY <1>3, <3>1
  <2> QED
    BY <1>5, <2>1
<1>9. ToSet(u) = ToSet(s) \cup ToSet(t)
  BY <1>5, <1>6, <1>7, <1>8
<1> QED
  BY <1>1, <1>2, <1>3, <1>9

(* What a page adds to the customers sent, it takes from those that wait to   *)
(* be sent again.                                                             *)
LEMMA Recount ==
    ASSUME NEW S \in SUBSET Ids, NEW T \in SUBSET Ids, NEW x \in Nat, NEW y \in Nat, x <= y
    PROVE  /\ Cardinality(Rows(S, x, y)) + Cardinality(Behind(S, (T \cup Rows(S, x, y)) \cap S, y))
              + Cardinality(T)
              = Cardinality(T \cup Rows(S, x, y)) + Cardinality(Behind(S, T \cap S, x))
           /\ Cardinality(Rows(S, x, y)) \in Nat /\ Cardinality(T \cup Rows(S, x, y)) \in Nat
<1> DEFINE P == Rows(S, x, y)
           B == Behind(S, T \cap S, x)
           C == Behind(S, (T \cup P) \cap S, y)
<1>1. \A i \in S : Rank(S, i) \in Nat
  BY RankType
<1>2. P \in SUBSET Ids /\ B \in SUBSET Ids /\ C \in SUBSET Ids
  BY DEF Rows, Behind
<1>3. B = C \cup (T \cap P) /\ C \cap (T \cap P) = {}
  BY <1>1 DEF Rows, Behind
<1> HIDE DEF P, B, C
<1>4. /\ IsFiniteSet(P) /\ IsFiniteSet(T) /\ IsFiniteSet(C) /\ IsFiniteSet(T \cap P)
      /\ IsFiniteSet(T \cup P)
  <2>1. T \cap P \in SUBSET Ids /\ T \cup P \in SUBSET Ids
    BY <1>2
  <2> QED
    BY <1>2, <2>1, IdsFinite, FS_Subset
<1>5. PICK p \in Nat, t \in Nat, c \in Nat, b \in Nat, both \in Nat, all \in Nat :
         /\ p = Cardinality(P) /\ t = Cardinality(T) /\ c = Cardinality(C) /\ b = Cardinality(B)
         /\ both = Cardinality(T \cap P) /\ all = Cardinality(T \cup P)
  <2>1. IsFiniteSet(B)
    BY <1>2, IdsFinite, FS_Subset
  <2> QED
    BY <1>4, <2>1, FS_CardinalityType
<1>6. all = t + p - both
  BY <1>4, <1>5, FS_Union
<1>7. b = c + both
  <2>1. Cardinality(C \cup (T \cap P)) = Cardinality(C) + Cardinality(T \cap P) - Cardinality(C \cap (T \cap P))
    BY <1>4, FS_Union
  <2>2. Cardinality(C \cap (T \cap P)) = 0
    BY <1>3, FS_EmptySet
  <2> QED
    BY <1>3, <1>5, <2>1, <2>2
<1>8. p + c + t = all + b
  BY <1>6, <1>7
<1> QED
  BY <1>5, <1>8 DEF P, B, C

-------------------------------------------------------------------------------
(* The walk. *)

LEMMA WalkFacts ==
    ASSUME WalkInv
    PROVE  /\ Matching \in SUBSET Ids /\ steady \in SUBSET Matching
           /\ DOMAIN customers = 1 .. Len(customers) /\ Len(customers) \in 0 .. MaxCustomers
           /\ Sent \in SUBSET Ids /\ Sent \in SUBSET DOMAIN customers /\ Cardinality(Sent) \in Nat
           /\ Passed \in Nat
           /\ walk.total \in 0 .. MaxCustomers /\ walk.got \in Seq(Ids) /\ walk.data \in Seq(Ids)
           /\ Len(walk.got) \in Nat /\ Len(walk.data) \in Nat
           /\ left \in Nat /\ returned \in Nat /\ edits \in Nat
<1>1. MaxCustomers \in Nat /\ MaxEdits \in Nat
  BY BoundsAssumption
<1>2. DOMAIN customers = 1 .. Len(customers) /\ Len(customers) \in 0 .. MaxCustomers
  BY <1>1 DEF WalkInv, WalkTypeOK
<1>3. Matching \in SUBSET Ids /\ steady \in SUBSET Matching
  BY <1>1, <1>2 DEF WalkInv, WalkTypeOK, Matching, Ids
<1>4. /\ walk.total \in 0 .. MaxCustomers /\ walk.got \in Seq(Ids) /\ walk.data \in Seq(Ids)
      /\ walk.limit \in Limits /\ walk.page \in Pages \cup (Nat \ {0})
  BY DEF WalkInv, WalkTypeOK, Walk
<1>5. Sent \in SUBSET Ids /\ Sent \in SUBSET DOMAIN customers
  BY <1>4, RowsOfSeq DEF WalkInv, Shown, Sent
<1>6. Cardinality(Sent) \in Nat
  BY <1>5, IdsFinite, FS_Subset, FS_CardinalityType
<1>7. Passed \in Nat
  <2>1. PICK limit \in Nat \ {0}, page \in Nat \ {0} :
           limit = SanitizeLimit(walk.limit) /\ page = SanitizePage(walk.page)
    BY <1>4, LimitType, PageType
  <2>2. Offset(page, limit) \in Nat
    BY OffsetType
  <2> QED
    BY <2>1, <2>2 DEF Passed
<1>8. Len(walk.got) \in Nat /\ Len(walk.data) \in Nat
  BY <1>4
<1>9. left \in Nat /\ returned \in Nat /\ edits \in Nat
  BY <1>1 DEF WalkInv, WalkTypeOK
<1> QED
  BY <1>2, <1>3, <1>4, <1>5, <1>6, <1>7, <1>8, <1>9

(* What other requests leave alone. *)
LEMMA SameWalk ==
    ASSUME walk' = walk
    PROVE  Sent' = Sent /\ Passed' = Passed
BY DEF Sent, Passed

LEMMA DepartKeeps ==
    ASSUME WalkInv, NEW d \in DOMAIN customers, Depart(d)
    PROVE  WalkInv'
<1>1. /\ Matching \in SUBSET Ids /\ steady \in SUBSET Matching
      /\ Sent \in SUBSET Ids /\ Sent \in SUBSET DOMAIN customers /\ Passed \in Nat
      /\ walk.total \in Nat /\ MaxCustomers \in Nat /\ MaxEdits \in Nat
  BY WalkFacts, BoundsAssumption
<1>2. /\ edits < MaxEdits /\ customers[d] /\ customers' = [customers EXCEPT ![d] = FALSE]
      /\ steady' = steady \ {d} /\ left' = left + 1 /\ edits' = edits + 1
      /\ walk' = walk /\ returned' = returned /\ Sent' = Sent /\ Passed' = Passed
  BY SameWalk DEF Depart
<1>3. customers' \in Seq(BOOLEAN) /\ Len(customers') = Len(customers) /\ DOMAIN customers' = DOMAIN customers
  BY <1>2 DEF WalkInv, WalkTypeOK
<1>4. d \in Matching /\ Matching' = Matching \ {d}
  BY <1>2, <1>3 DEF WalkInv, WalkTypeOK, Matching
<1>5. left \in Nat /\ returned \in Nat /\ edits \in Nat /\ left + returned <= edits
  BY WalkFacts DEF WalkInv, Shown
<1>6. WalkTypeOK'
  <2>1. left' \in 0 .. MaxEdits /\ edits' \in 0 .. MaxEdits /\ returned' \in 0 .. MaxEdits
    BY <1>1, <1>2, <1>5 DEF WalkInv, WalkTypeOK
  <2>2. steady' \subseteq Matching'
    BY <1>1, <1>2, <1>4
  <2>3. Len(customers') <= MaxCustomers /\ walk' \in Walk
    BY <1>2, <1>3 DEF WalkInv, WalkTypeOK
  <2> QED
    BY <1>3, <2>1, <2>2, <2>3 DEF WalkTypeOK
<1>7. Shown'
  BY <1>2, <1>3, <1>5 DEF WalkInv, Shown
<1>8. Missed'
  <2> DEFINE A == steady \ Sent
  <2>1. SUFFICES ASSUME walk.pc # "done"
                 PROVE  Cardinality(Before(Matching \ {d}, A \ {d}, Passed)) <= left + 1
    <3>1. steady' \ Sent' = A \ {d}
      BY <1>2
    <3> QED
      BY <1>2, <1>4, <3>1 DEF Missed
  <2>2. A \in SUBSET Matching /\ A \in SUBSET Ids /\ A \ {d} \in SUBSET Ids
    BY <1>1
  <2>3. Cardinality(Before(Matching, A, Passed)) <= left
    BY <2>1 DEF WalkInv, Missed
  <2> HIDE DEF A
  <2>4. PICK m \in Nat, n \in Nat : /\ m = Cardinality(Before(Matching, A, Passed))
                                    /\ n = Cardinality(Before(Matching \ {d}, A \ {d}, Passed))
    BY <2>2, PartsAreFinite
  <2>5. n <= m + 1
    BY <1>1, <1>4, <2>2, <2>4, WhenOneLeaves
  <2> QED
    BY <1>5, <2>3, <2>4, <2>5
<1>9. Over'
  <2>1. SUFFICES ASSUME walk.pc \in {"rows", "answer"}
                 PROVE  Cardinality(Behind(Matching \ {d}, steady \ {d}, walk.total)) <= returned
    BY <1>2, <1>4 DEF Over
  <2>2. steady \in SUBSET Ids /\ steady \ {d} \in SUBSET Ids
    BY <1>1
  <2>3. PICK m \in Nat, n \in Nat : /\ m = Cardinality(Behind(Matching, steady, walk.total))
                                    /\ n = Cardinality(Behind(Matching \ {d}, steady \ {d}, walk.total))
    BY <2>2, PartsAreFinite
  <2>4. n <= m
    BY <1>1, <1>4, <2>3, WhenOneLeaves
  <2> QED
    BY <1>5, <2>1, <2>3, <2>4 DEF WalkInv, Over
<1>10. Repeated'
  <2> DEFINE A == Sent \cap Matching
  <2>1. Sent' \cap Matching' = A \ {d}
    BY <1>2, <1>4
  <2>2. A \in SUBSET Matching /\ A \in SUBSET Ids /\ A \ {d} \in SUBSET Ids
    BY <1>1
  <2>3. Len(walk.got) + Len(walk.data) + Cardinality(Behind(Matching, A, Passed)) <= Cardinality(Sent) + returned
    BY DEF WalkInv, Repeated
  <2> HIDE DEF A
  <2>4. PICK m \in Nat, n \in Nat : /\ m = Cardinality(Behind(Matching, A, Passed))
                                    /\ n = Cardinality(Behind(Matching \ {d}, A \ {d}, Passed))
    BY <2>2, PartsAreFinite
  <2>5. n <= m
    BY <1>1, <1>4, <2>2, <2>4, WhenOneLeaves
  <2>6. PICK g \in Nat, b \in Nat, s \in Nat : g = Len(walk.got) /\ b = Len(walk.data) /\ s = Cardinality(Sent)
    BY WalkFacts
  <2>7. g + b + n <= s + returned
    <3>1. g + b + m <= s + returned
      BY <2>3, <2>4, <2>6
    <3> QED
      BY <1>5, <2>5, <3>1
  <2> QED
    BY <1>2, <1>4, <2>1, <2>4, <2>6, <2>7 DEF Repeated
<1>11. MissesOnlyWhatMoved'
  <2> DEFINE A == steady \ ToSet(walk.got)
  <2>1. SUFFICES ASSUME walk.pc = "done" PROVE Cardinality(A \ {d}) <= left + 1 + returned
    <3>1. steady' \ ToSet(walk'.got) = A \ {d}
      BY <1>2
    <3> QED
      BY <1>2, <3>1 DEF MissesOnlyWhatMoved
  <2>2. A \in SUBSET Ids /\ A \ {d} \in SUBSET A
    BY <1>1
  <2>3. Cardinality(A) <= left + returned
    BY <2>1 DEF WalkInv, MissesOnlyWhatMoved
  <2> HIDE DEF A
  <2>4. /\ IsFiniteSet(A) /\ Cardinality(A) \in Nat
        /\ Cardinality(A \ {d}) \in Nat /\ Cardinality(A \ {d}) <= Cardinality(A)
    BY <2>2, IdsFinite, FS_Subset, FS_CardinalityType
  <2> QED
    BY <1>5, <2>3, <2>4
<1> QED
  BY <1>6, <1>7, <1>8, <1>9, <1>10, <1>11 DEF WalkInv

LEMMA ReturnKeeps ==
    ASSUME WalkInv, NEW d \in DOMAIN customers, Return(d)
    PROVE  WalkInv'
<1>1. /\ Matching \in SUBSET Ids /\ steady \in SUBSET Matching /\ d \in Ids
      /\ Sent \in SUBSET Ids /\ Sent \in SUBSET DOMAIN customers /\ Passed \in Nat
      /\ walk.total \in Nat /\ MaxCustomers \in Nat /\ MaxEdits \in Nat
  BY WalkFacts, BoundsAssumption DEF Ids
<1>2. /\ edits < MaxEdits /\ ~ customers[d] /\ customers' = [customers EXCEPT ![d] = TRUE]
      /\ returned' = returned + 1 /\ edits' = edits + 1
      /\ walk' = walk /\ steady' = steady /\ left' = left /\ Sent' = Sent /\ Passed' = Passed
  BY SameWalk DEF Return
<1>3. customers' \in Seq(BOOLEAN) /\ Len(customers') = Len(customers) /\ DOMAIN customers' = DOMAIN customers
  BY <1>2 DEF WalkInv, WalkTypeOK
<1>4. d \notin Matching /\ Matching' = Matching \cup {d}
  BY <1>2, <1>3 DEF WalkInv, WalkTypeOK, Matching
<1>5. left \in Nat /\ returned \in Nat /\ edits \in Nat /\ left + returned <= edits
  BY WalkFacts DEF WalkInv, Shown
<1>6. WalkTypeOK'
  <2>1. left' \in 0 .. MaxEdits /\ edits' \in 0 .. MaxEdits /\ returned' \in 0 .. MaxEdits
    BY <1>1, <1>2, <1>5 DEF WalkInv, WalkTypeOK
  <2>2. steady' \subseteq Matching'
    BY <1>1, <1>2, <1>4
  <2>3. Len(customers') <= MaxCustomers /\ walk' \in Walk
    BY <1>2, <1>3 DEF WalkInv, WalkTypeOK
  <2> QED
    BY <1>3, <2>1, <2>2, <2>3 DEF WalkTypeOK
<1>7. Shown'
  BY <1>2, <1>3, <1>5 DEF WalkInv, Shown
<1>8. Missed'
  <2> DEFINE A == steady \ Sent
  <2>1. SUFFICES ASSUME walk.pc # "done"
                 PROVE  Cardinality(Before(Matching \cup {d}, A, Passed)) <= left
    BY <1>2, <1>4 DEF Missed
  <2>2. A \in SUBSET Matching /\ A \in SUBSET (A \cup {d}) /\ A \in SUBSET Ids
    BY <1>1
  <2>3. Cardinality(Before(Matching, A, Passed)) <= left
    BY <2>1 DEF WalkInv, Missed
  <2> HIDE DEF A
  <2>4. PICK m \in Nat, n \in Nat : /\ m = Cardinality(Before(Matching, A, Passed))
                                    /\ n = Cardinality(Before(Matching \cup {d}, A, Passed))
    BY <2>2, PartsAreFinite
  <2>5. n <= m
    BY <1>1, <1>4, <2>2, <2>4, WhenOneReturns
  <2> QED
    BY <1>5, <2>3, <2>4, <2>5
<1>9. Over'
  <2>1. SUFFICES ASSUME walk.pc \in {"rows", "answer"}
                 PROVE  Cardinality(Behind(Matching \cup {d}, steady, walk.total)) <= returned + 1
    BY <1>2, <1>4 DEF Over
  <2>2. steady \in SUBSET Ids /\ steady \in SUBSET (steady \cup {d})
    BY <1>1
  <2>3. PICK m \in Nat, n \in Nat : /\ m = Cardinality(Behind(Matching, steady, walk.total))
                                    /\ n = Cardinality(Behind(Matching \cup {d}, steady, walk.total))
    BY <2>2, PartsAreFinite
  <2>4. n <= m + 1
    BY <1>1, <1>4, <2>2, <2>3, WhenOneReturns
  <2> QED
    BY <1>5, <2>1, <2>3, <2>4 DEF WalkInv, Over
<1>10. Repeated'
  <2> DEFINE A == Sent \cap Matching
             B == Sent \cap (Matching \cup {d})
  <2>1. Sent' \cap Matching' = B
    BY <1>2, <1>4
  <2>2. A \in SUBSET Matching /\ A \in SUBSET Ids /\ B \in SUBSET Ids /\ B \in SUBSET (A \cup {d})
    BY <1>1
  <2>3. Len(walk.got) + Len(walk.data) + Cardinality(Behind(Matching, A, Passed)) <= Cardinality(Sent) + returned
    BY DEF WalkInv, Repeated
  <2> HIDE DEF A, B
  <2>4. PICK m \in Nat, n \in Nat : /\ m = Cardinality(Behind(Matching, A, Passed))
                                    /\ n = Cardinality(Behind(Matching \cup {d}, B, Passed))
    BY <2>2, PartsAreFinite
  <2>5. n <= m + 1
    BY <1>1, <1>4, <2>2, <2>4, WhenOneReturns
  <2>6. PICK g \in Nat, b \in Nat, s \in Nat : g = Len(walk.got) /\ b = Len(walk.data) /\ s = Cardinality(Sent)
    BY WalkFacts
  <2>7. g + b + n <= s + (returned + 1)
    <3>1. g + b + m <= s + returned
      BY <2>3, <2>4, <2>6
    <3> QED
      BY <1>5, <2>5, <3>1
  <2> QED
    BY <1>2, <1>4, <2>1, <2>4, <2>6, <2>7 DEF Repeated
<1>11. MissesOnlyWhatMoved'
  <2> DEFINE A == steady \ ToSet(walk.got)
  <2>1. SUFFICES ASSUME walk.pc = "done" PROVE Cardinality(A) <= left + (returned + 1)
    BY <1>2 DEF MissesOnlyWhatMoved
  <2>2. A \in SUBSET Ids
    BY <1>1
  <2>3. Cardinality(A) <= left + returned
    BY <2>1 DEF WalkInv, MissesOnlyWhatMoved
  <2> HIDE DEF A
  <2>4. IsFiniteSet(A) /\ Cardinality(A) \in Nat
    BY <2>2, IdsFinite, FS_Subset, FS_CardinalityType
  <2> QED
    BY <1>5, <2>3, <2>4
<1> QED
  BY <1>6, <1>7, <1>8, <1>9, <1>10, <1>11 DEF WalkInv

LEMMA CreateKeeps ==
    ASSUME WalkInv, Create
    PROVE  WalkInv'
<1>1. /\ Matching \in SUBSET Ids /\ steady \in SUBSET Matching
      /\ DOMAIN customers = 1 .. Len(customers) /\ Len(customers) \in Nat
      /\ Sent \in SUBSET Ids /\ Sent \in SUBSET DOMAIN customers
      /\ MaxCustomers \in Nat /\ MaxEdits \in Nat
  BY WalkFacts, BoundsAssumption
<1>2. /\ edits < MaxEdits /\ Len(customers) < MaxCustomers /\ customers' = Append(customers, TRUE)
      /\ edits' = edits + 1 /\ returned' = returned
      /\ walk' = walk /\ steady' = steady /\ left' = left /\ Sent' = Sent /\ Passed' = Passed
  BY SameWalk DEF Create
<1>3. PICK d \in Nat : d = Len(customers) + 1
  BY <1>1
<1>4. /\ customers' \in Seq(BOOLEAN) /\ Len(customers') = d /\ DOMAIN customers' = 1 .. d
      /\ customers'[d] /\ \A i \in DOMAIN customers : customers'[i] = customers[i]
  BY <1>1, <1>2, <1>3 DEF WalkInv, WalkTypeOK
<1>5. d \in Ids /\ d \notin DOMAIN customers /\ DOMAIN customers' = DOMAIN customers \cup {d}
  BY <1>1, <1>2, <1>3, <1>4 DEF Ids
<1>6. Matching' = Matching \cup {d} /\ d \notin Matching /\ \A i \in Matching : i < d
  BY <1>1, <1>3, <1>4, <1>5 DEF Matching
<1>7. edits \in Nat /\ left \in Nat /\ returned \in Nat
  BY WalkFacts
<1>8. WalkTypeOK'
  <2>1. edits' \in 0 .. MaxEdits /\ Len(customers') <= MaxCustomers
    BY <1>1, <1>2, <1>3, <1>4, <1>7
  <2>2. steady' \subseteq Matching'
    BY <1>1, <1>2, <1>6
  <2> QED
    BY <1>2, <1>4, <2>1, <2>2 DEF WalkInv, WalkTypeOK
<1>9. Shown'
  <2>1. Sent' \subseteq DOMAIN customers'
    BY <1>1, <1>2, <1>5
  <2> QED
    BY <1>2, <1>7, <2>1 DEF WalkInv, Shown
<1>10. ASSUME NEW A \in SUBSET Matching, NEW x
       PROVE  Before(Matching', A, x) = Before(Matching, A, x) /\ Behind(Matching', A, x) = Behind(Matching, A, x)
  <2>1. Before(Matching \cup {d}, A, x) = Before(Matching, A, x)
        /\ Behind(Matching \cup {d}, A, x) = Behind(Matching, A, x)
    <3>1. Matching \in SUBSET Ids /\ d \in Ids /\ \A i \in Matching : i < d
      BY <1>1, <1>5, <1>6
    <3> QED
      BY <3>1, WhenOneIsAppended
  <2> QED
    BY <1>6, <2>1
<1>11. Missed'
  <2>1. steady \ Sent \in SUBSET Matching /\ steady' \ Sent' = steady \ Sent
    BY <1>1, <1>2
  <2>2. Before(Matching', steady' \ Sent', Passed') = Before(Matching, steady \ Sent, Passed)
    BY <1>2, <1>10, <2>1
  <2> QED
    BY <1>2, <2>2 DEF WalkInv, Missed
<1>12. Over'
  <2>1. Behind(Matching', steady', walk'.total) = Behind(Matching, steady, walk.total)
    BY <1>1, <1>2, <1>10
  <2> QED
    BY <1>2, <2>1 DEF WalkInv, Over
<1>13. Repeated'
  <2>1. Sent' \cap Matching' = Sent \cap Matching
    BY <1>1, <1>2, <1>5, <1>6
  <2>2. Behind(Matching', Sent' \cap Matching', Passed') = Behind(Matching, Sent \cap Matching, Passed)
    BY <1>2, <1>10, <2>1
  <2> QED
    BY <1>2, <2>2 DEF WalkInv, Repeated
<1>14. MissesOnlyWhatMoved'
  BY <1>2 DEF WalkInv, MissesOnlyWhatMoved
<1> QED
  BY <1>8, <1>9, <1>11, <1>12, <1>13, <1>14 DEF WalkInv

LEMMA AskPageKeeps ==
    ASSUME WalkInv, AskPage
    PROVE  WalkInv'
<1>1. /\ walk \in Walk /\ walk.pc = "ask"
      /\ walk' = Walking("count", walk.limit, walk.page, walk.total, walk.data, walk.got)
      /\ customers' = customers /\ steady' = steady /\ left' = left
      /\ returned' = returned /\ edits' = edits
  BY DEF WalkInv, WalkTypeOK, AskPage
<1>2. /\ walk'.pc = "count" /\ walk'.limit = walk.limit /\ walk'.page = walk.page
      /\ walk'.total = walk.total /\ walk'.data = walk.data /\ walk'.got = walk.got /\ walk' \in Walk
  BY <1>1 DEF Walk, Walking
<1>3. Sent' = Sent /\ Passed' = Passed /\ Matching' = Matching
  BY <1>1, <1>2 DEF Sent, Passed, Matching
<1>4. WalkTypeOK' /\ Shown'
  BY <1>1, <1>2, <1>3 DEF WalkInv, WalkTypeOK, Shown
<1>5. Missed' /\ Over' /\ Repeated' /\ MissesOnlyWhatMoved'
  BY <1>1, <1>2, <1>3 DEF WalkInv, Missed, Over, Repeated, MissesOnlyWhatMoved
<1> QED
  BY <1>4, <1>5 DEF WalkInv

LEMMA CountGetKeeps ==
    ASSUME WalkInv, CountGet
    PROVE  WalkInv'
<1>1. /\ walk \in Walk /\ walk.pc = "count"
      /\ walk' = Walking("rows", walk.limit, walk.page, Cardinality(Matching), walk.data, walk.got)
      /\ customers' = customers /\ steady' = steady /\ left' = left
      /\ returned' = returned /\ edits' = edits
  BY DEF WalkInv, WalkTypeOK, CountGet
<1>2. Matching \in SUBSET Ids /\ steady \in SUBSET Matching /\ returned \in Nat
  BY WalkFacts
<1>3. Cardinality(Matching) \in 0 .. MaxCustomers
  BY <1>2, InOrderIsTheSet
<1>4. /\ walk'.pc = "rows" /\ walk'.limit = walk.limit /\ walk'.page = walk.page
      /\ walk'.total = Cardinality(Matching) /\ walk'.data = walk.data /\ walk'.got = walk.got
      /\ walk' \in Walk
  BY <1>1, <1>3 DEF Walk, Walking
<1>5. Sent' = Sent /\ Passed' = Passed /\ Matching' = Matching
  BY <1>1, <1>4 DEF Sent, Passed, Matching
<1>6. WalkTypeOK' /\ Shown'
  BY <1>1, <1>4, <1>5 DEF WalkInv, WalkTypeOK, Shown
<1>7. Missed' /\ Repeated' /\ MissesOnlyWhatMoved'
  BY <1>1, <1>4, <1>5 DEF WalkInv, Missed, Repeated, MissesOnlyWhatMoved
<1>8. Over'
  <2>1. \A i \in steady : /\ Rank(Matching, i) \in Nat /\ Cardinality(Matching) \in Nat
                          /\ Rank(Matching, i) <= Cardinality(Matching)
    BY <1>2, RankType
  <2>2. Behind(Matching, steady, Cardinality(Matching)) = {}
    BY <2>1 DEF Behind
  <2>3. Cardinality(Behind(Matching, steady, Cardinality(Matching))) <= returned
    BY <1>2, <2>2, FS_EmptySet
  <2> QED
    BY <1>1, <1>4, <1>5, <2>3 DEF Over
<1> QED
  BY <1>6, <1>7, <1>8 DEF WalkInv

(* The page that get answers with. *)
LEMMA PageOfRows ==
    ASSUME WalkInv, NEW limit, limit = SanitizeLimit(walk.limit),
           NEW page, page = SanitizePage(walk.page)
    PROVE  /\ limit \in Nat \ {0} /\ page \in Nat \ {0} /\ Offset(page, limit) \in Nat
           /\ Page(InOrder(Matching), page, limit) \in Seq(Ids)
           /\ ToSet(Page(InOrder(Matching), page, limit))
                = Rows(Matching, Offset(page, limit), Offset(page, limit) + limit)
           /\ Len(Page(InOrder(Matching), page, limit))
                = Cardinality(Rows(Matching, Offset(page, limit), Offset(page, limit) + limit))
<1>1. limit \in Nat \ {0} /\ page \in Nat \ {0} /\ Clamp(limit) = limit
  BY LimitType, PageType DEF WalkInv, WalkTypeOK, Walk
<1>2. PICK x \in Nat : x = Offset(page, limit)
  BY <1>1, OffsetType
<1>3. Matching \in SUBSET Ids
  BY WalkFacts
<1>4. PICK y \in Nat : y = x + limit /\ x <= y
  BY <1>1
<1>5. PICK data \in Seq(Ids) :
         /\ data = SubSeq(InOrder(Matching), x + 1,
                          IF y < Len(InOrder(Matching)) THEN y ELSE Len(InOrder(Matching)))
         /\ ToSet(data) = Rows(Matching, x, y)
         /\ Len(data) = Cardinality(ToSet(data))
  BY <1>3, <1>4, RowsOfPage
<1>6. Page(InOrder(Matching), page, limit) = data
  <2>1. ~ (page < 1)
    BY <1>1
  <2> QED
    BY <1>1, <1>2, <1>4, <1>5, <2>1 DEF Page
<1> QED
  BY <1>1, <1>2, <1>4, <1>5, <1>6

LEMMA GetKeeps ==
    ASSUME WalkInv, Get
    PROVE  WalkInv'
<1>1. PICK limit, page : limit = SanitizeLimit(walk.limit) /\ page = SanitizePage(walk.page)
  OBVIOUS
<1>2. PICK x : x = Offset(page, limit)
  OBVIOUS
<1>3. PICK data : data = Page(InOrder(Matching), page, limit)
  OBVIOUS
<1>4. PICK y : y = x + limit
  OBVIOUS
<1>5. /\ limit \in Nat \ {0} /\ x \in Nat /\ y \in Nat /\ x <= y /\ data \in Seq(Ids)
      /\ ToSet(data) = Rows(Matching, x, y) /\ Len(data) = Cardinality(Rows(Matching, x, y))
  <2>1. /\ limit \in Nat \ {0} /\ x \in Nat /\ data \in Seq(Ids)
        /\ ToSet(data) = Rows(Matching, x, x + limit)
        /\ Len(data) = Cardinality(Rows(Matching, x, x + limit))
    BY <1>1, <1>2, <1>3, PageOfRows
  <2> QED
    BY <1>4, <2>1
<1>6. /\ walk \in Walk /\ walk.pc = "rows"
      /\ walk' = Walking("answer", walk.limit, walk.page, walk.total, data, walk.got)
      /\ customers' = customers /\ steady' = steady /\ left' = left
      /\ returned' = returned /\ edits' = edits
  BY <1>1, <1>3 DEF WalkInv, WalkTypeOK, Get
<1>7. /\ walk'.pc = "answer" /\ walk'.limit = walk.limit /\ walk'.page = walk.page
      /\ walk'.total = walk.total /\ walk'.data = data /\ walk'.got = walk.got /\ walk' \in Walk
  BY <1>5, <1>6 DEF Walk, Walking
<1>8. /\ Matching \in SUBSET Ids /\ steady \in SUBSET Matching /\ Sent \in SUBSET Ids
      /\ Sent \in SUBSET DOMAIN customers /\ Matching' = Matching
      /\ left \in Nat /\ returned \in Nat
  BY <1>6, WalkFacts DEF Matching
<1> DEFINE P == Rows(Matching, x, y)
<1>9. P \in SUBSET Matching
  BY DEF Rows
<1>10. walk.data = <<>> /\ ToSet(walk.data) = {}
  <2>1. walk.data = <<>>
    BY <1>6 DEF WalkInv, Shown
  <2> QED
    BY <2>1 DEF ToSet
<1>11. Sent' = Sent \cup P
  BY <1>5, <1>7, <1>10 DEF Sent
<1>12. Passed = x /\ Passed' = y
  BY <1>1, <1>2, <1>4, <1>5, <1>6, <1>7 DEF Passed
<1>13. WalkTypeOK'
  BY <1>6, <1>7, <1>8 DEF WalkInv, WalkTypeOK
<1>14. Shown'
  <2>1. Matching \subseteq DOMAIN customers
    BY DEF Matching
  <2>2. Sent' \subseteq DOMAIN customers'
    BY <1>6, <1>8, <1>9, <1>11, <2>1
  <2> QED
    BY <1>6, <1>7, <2>2 DEF WalkInv, Shown
<1>15. Missed'
  <2>1. \A i \in Matching : Rank(Matching, i) \in Nat
    BY <1>8, RankType
  <2>2. Before(Matching, steady \ (Sent \cup P), y) \subseteq Before(Matching, steady \ Sent, x)
    BY <1>5, <1>8, <2>1 DEF Before, Rows
  <2>3. IsFiniteSet(Before(Matching, steady \ Sent, x)) /\ Cardinality(Before(Matching, steady \ Sent, x)) \in Nat
    <3>1. steady \ Sent \in SUBSET Ids
      BY <1>8
    <3> QED
      BY <3>1, PartsAreFinite
  <2>4. /\ Cardinality(Before(Matching, steady \ (Sent \cup P), y)) \in Nat
        /\ Cardinality(Before(Matching, steady \ (Sent \cup P), y))
             <= Cardinality(Before(Matching, steady \ Sent, x))
    BY <2>2, <2>3, FS_Subset, FS_CardinalityType
  <2>5. Cardinality(Before(Matching, steady \ Sent, x)) <= left
    BY <1>6, <1>12 DEF WalkInv, Missed
  <2>6. Cardinality(Before(Matching, steady \ (Sent \cup P), y)) <= left
    BY <1>8, <2>3, <2>4, <2>5
  <2> QED
    BY <1>6, <1>8, <1>11, <1>12, <2>6 DEF Missed
<1>16. Over'
  BY <1>6, <1>7, <1>8 DEF WalkInv, Over
<1>17. Repeated'
  <2>1. /\ Cardinality(P) + Cardinality(Behind(Matching, (Sent \cup P) \cap Matching, y)) + Cardinality(Sent)
           = Cardinality(Sent \cup P) + Cardinality(Behind(Matching, Sent \cap Matching, x))
        /\ Cardinality(P) \in Nat /\ Cardinality(Sent \cup P) \in Nat
    BY <1>5, <1>8, Recount
  <2>2. PICK p \in Nat, all \in Nat, s \in Nat, g \in Nat :
           /\ p = Cardinality(P) /\ all = Cardinality(Sent \cup P) /\ s = Cardinality(Sent)
           /\ g = Len(walk.got)
    BY <2>1, WalkFacts
  <2>3. PICK b \in Nat, c \in Nat :
           /\ b = Cardinality(Behind(Matching, Sent \cap Matching, x))
           /\ c = Cardinality(Behind(Matching, (Sent \cup P) \cap Matching, y))
    <3>1. Sent \cap Matching \in SUBSET Ids /\ (Sent \cup P) \cap Matching \in SUBSET Ids
      BY <1>8
    <3> QED
      BY <3>1, PartsAreFinite
  <2>4. p + c + s = all + b
    BY <2>1, <2>2, <2>3
  <2>5. g + b <= s + returned
    <3>1. Len(walk.data) = 0
      BY <1>10
    <3>2. Len(walk.got) + Len(walk.data) + Cardinality(Behind(Matching, Sent \cap Matching, x))
             <= Cardinality(Sent) + returned
      BY <1>12 DEF WalkInv, Repeated
    <3> QED
      BY <2>2, <2>3, <3>1, <3>2
  <2>6. g + p + c <= all + returned
    BY <1>8, <2>4, <2>5
  <2>7. Len(walk'.got) + Len(walk'.data) = g + p
    BY <1>5, <1>7, <2>2
  <2> HIDE DEF P
  <2> QED
    BY <1>6, <1>8, <1>11, <1>12, <2>2, <2>3, <2>6, <2>7 DEF Repeated
<1>18. MissesOnlyWhatMoved'
  BY <1>7 DEF MissesOnlyWhatMoved
<1> QED
  BY <1>13, <1>14, <1>15, <1>16, <1>17, <1>18 DEF WalkInv

LEMMA AnswerKeeps ==
    ASSUME WalkInv, Answer
    PROVE  WalkInv'
<1>1. PICK limit, page : limit = SanitizeLimit(walk.limit) /\ page = SanitizePage(walk.page)
  OBVIOUS
<1>2. PICK x : x = Offset(page, limit)
  OBVIOUS
<1>3. PICK got : got = walk.got \o walk.data
  OBVIOUS
<1>4. /\ limit \in Nat \ {0} /\ page \in Nat \ {0} /\ x \in Nat
      /\ Offset(page + 1, limit) = x + limit
  <2>1. limit \in Nat \ {0} /\ page \in Nat \ {0}
    BY <1>1, PageOfRows
  <2> QED
    BY <1>2, <2>1, OffsetType
<1>5. /\ walk \in Walk /\ walk.pc = "answer"
      /\ walk' = IF page < TotalPages(walk.total, limit)
                 THEN Walking("ask", walk.limit, page + 1, walk.total, <<>>, got)
                 ELSE Walking("done", walk.limit, walk.page, walk.total, <<>>, got)
      /\ customers' = customers /\ steady' = steady /\ left' = left
      /\ returned' = returned /\ edits' = edits
  BY <1>1, <1>3 DEF WalkInv, WalkTypeOK, Answer
<1>6. /\ Matching \in SUBSET Ids /\ steady \in SUBSET Matching /\ Matching' = Matching
      /\ left \in Nat /\ returned \in Nat /\ walk.total \in Nat
      /\ walk.got \in Seq(Ids) /\ walk.data \in Seq(Ids)
  BY <1>5, WalkFacts DEF Matching
<1>7. /\ got \in Seq(Ids) /\ Len(got) = Len(walk.got) + Len(walk.data) /\ ToSet(got) = Sent
  BY <1>3, <1>6, RowsOfBoth DEF Sent
<1>8. <<>> \in Seq(Ids) /\ Len(<<>>) = 0 /\ ToSet(<<>>) = {}
  BY DEF ToSet
<1>9. Passed = x + limit
  BY <1>1, <1>2, <1>5 DEF Passed
<1>10. CASE page < TotalPages(walk.total, limit)
  <2>1. /\ walk'.pc = "ask" /\ walk'.limit = walk.limit /\ walk'.page = page + 1
        /\ walk'.total = walk.total /\ walk'.data = <<>> /\ walk'.got = got /\ walk' \in Walk
    BY <1>4, <1>5, <1>7, <1>8, <1>10 DEF Walk, Walking
  <2>2. Sent' = Sent
    BY <1>7, <1>8, <2>1 DEF Sent
  <2>3. Passed' = Passed
    <3>1. SanitizePage(page + 1) = page + 1
      BY <1>4, PageType
    <3>2. SanitizePage(walk'.page) = page + 1 /\ SanitizeLimit(walk'.limit) = limit
      BY <1>1, <2>1, <3>1
    <3>3. Passed' = Offset(page + 1, limit) + 0
      BY <2>1, <3>2 DEF Passed
    <3> QED
      BY <1>4, <1>9, <3>3
  <2>4. WalkTypeOK' /\ Shown'
    BY <1>5, <1>6, <2>1, <2>2 DEF WalkInv, WalkTypeOK, Shown
  <2>5. Missed' /\ Over' /\ MissesOnlyWhatMoved'
    BY <1>5, <1>6, <2>1, <2>2, <2>3 DEF WalkInv, Missed, Over, MissesOnlyWhatMoved
  <2>6. Repeated'
    <3>1. Len(walk'.got) + Len(walk'.data) = Len(walk.got) + Len(walk.data)
      <4>1. Len(walk'.got) = Len(got) /\ Len(walk'.data) = 0
        BY <1>8, <2>1
      <4>2. Len(walk.got) \in Nat /\ Len(walk.data) \in Nat
        BY WalkFacts
      <4> QED
        BY <1>7, <4>1, <4>2
    <3> QED
      BY <1>5, <1>6, <2>2, <2>3, <3>1 DEF WalkInv, Repeated
  <2> QED
    BY <2>4, <2>5, <2>6 DEF WalkInv
<1>11. CASE ~ (page < TotalPages(walk.total, limit))
  <2>1. /\ walk'.pc = "done" /\ walk'.limit = walk.limit /\ walk'.page = walk.page
        /\ walk'.total = walk.total /\ walk'.data = <<>> /\ walk'.got = got /\ walk' \in Walk
    BY <1>5, <1>7, <1>8, <1>11 DEF Walk, Walking
  <2>2. Sent' = Sent
    BY <1>7, <1>8, <2>1 DEF Sent
  <2>3. Passed' = Passed
    BY <1>5, <2>1 DEF Passed
  <2>4. WalkTypeOK' /\ Shown'
    BY <1>5, <1>6, <2>1, <2>2 DEF WalkInv, WalkTypeOK, Shown
  <2>5. Missed' /\ Over'
    BY <2>1 DEF Missed, Over
  <2>6. Repeated'
    <3>1. Len(walk'.got) + Len(walk'.data) = Len(walk.got) + Len(walk.data)
      <4>1. Len(walk'.got) = Len(got) /\ Len(walk'.data) = 0
        BY <1>8, <2>1
      <4>2. Len(walk.got) \in Nat /\ Len(walk.data) \in Nat
        BY WalkFacts
      <4> QED
        BY <1>7, <4>1, <4>2
    <3> QED
      BY <1>5, <1>6, <2>2, <2>3, <3>1 DEF WalkInv, Repeated
  <2>7. MissesOnlyWhatMoved'
    <3> DEFINE B == Before(Matching, steady \ Sent, Passed)
               C == Behind(Matching, steady, walk.total)
               A == steady \ Sent
    <3>1. walk.total <= Passed /\ Passed \in Nat
      BY <1>2, <1>4, <1>6, <1>9, <1>11, AllPages
    <3>2. \A i \in Matching : Rank(Matching, i) \in Nat
      BY <1>6, RankType
    <3>3. A \subseteq B \cup C
      BY <1>6, <3>1, <3>2 DEF Before, Behind
    <3>4. Cardinality(B) <= left /\ Cardinality(C) <= returned
      BY <1>5 DEF WalkInv, Missed, Over
    <3>5. /\ IsFiniteSet(B) /\ Cardinality(B) \in Nat
          /\ IsFiniteSet(C) /\ Cardinality(C) \in Nat
      <4>1. steady \ Sent \in SUBSET Ids /\ steady \in SUBSET Ids
        BY <1>6
      <4> QED
        BY <4>1, PartsAreFinite
    <3> HIDE DEF A, B, C
    <3>6. /\ IsFiniteSet(B \cup C) /\ Cardinality(B \cap C) \in Nat
          /\ Cardinality(B \cup C) = Cardinality(B) + Cardinality(C) - Cardinality(B \cap C)
      BY <3>5, FS_Union, FS_Intersection, FS_CardinalityType
    <3>7. Cardinality(A) <= Cardinality(B \cup C) /\ Cardinality(A) \in Nat
      BY <3>3, <3>6, FS_Subset, FS_CardinalityType
    <3>8. Cardinality(A) <= left + returned
      BY <1>6, <3>4, <3>5, <3>6, <3>7
    <3>9. steady' \ ToSet(walk'.got) = A
      BY <1>5, <1>7, <2>1 DEF A
    <3> QED
      BY <1>5, <3>8, <3>9 DEF MissesOnlyWhatMoved
  <2> QED
    BY <2>4, <2>5, <2>6, <2>7 DEF WalkInv
<1> QED
  BY <1>10, <1>11

LEMMA WalkBegins == WalkInit => WalkInv
<1> SUFFICES ASSUME WalkInit PROVE WalkInv
  OBVIOUS
<1>1. PICK n \in 0 .. MaxCustomers : customers \in [1 .. n -> BOOLEAN]
  BY DEF WalkInit
<1>2. PICK limit \in Limits, page \in Pages \cup {1} : walk = Walking("ask", limit, page, 0, <<>>, <<>>)
  BY DEF WalkInit, Beginnings
<1>3. MaxCustomers \in Nat /\ MaxEdits \in Nat
  BY BoundsAssumption
<1>4. steady = Matching /\ left = 0 /\ returned = 0 /\ edits = 0
  BY DEF WalkInit
<1>5. customers \in Seq(BOOLEAN) /\ Len(customers) = n /\ DOMAIN customers = 1 .. n
  BY <1>1, <1>3
<1>6. /\ walk.pc = "ask" /\ walk.limit = limit /\ walk.page = page /\ walk.total = 0
      /\ walk.data = <<>> /\ walk.got = <<>> /\ walk \in Walk
  <2>1. <<>> \in Seq(Ids)
    OBVIOUS
  <2> QED
    BY <1>2, <1>3, <2>1 DEF Walking, Walk
<1>7. WalkTypeOK
  BY <1>1, <1>3, <1>4, <1>5, <1>6 DEF WalkTypeOK
<1>8. Sent = {}
  <2>1. ToSet(<<>>) = {}
    BY DEF ToSet
  <2> QED
    BY <1>6, <2>1 DEF Sent
<1>9. Passed = 0
  <2>1. SanitizeLimit(limit) \in Nat \ {0} /\ SanitizePage(page) = 1
    BY LimitType, PageType
  <2>2. Offset(1, SanitizeLimit(limit)) = 0
    BY <2>1, OffsetType
  <2> QED
    BY <1>6, <2>1, <2>2 DEF Passed
<1>10. Matching \in SUBSET Ids
  BY <1>3, <1>5 DEF Matching, Ids
<1>11. Shown
  BY <1>4, <1>6, <1>8 DEF Shown
<1>12. Missed
  <2>1. \A i \in steady \ Sent : Rank(Matching, i) \in Nat /\ Rank(Matching, i) >= 1
    BY <1>4, <1>10, RankType
  <2>2. Before(Matching, steady \ Sent, Passed) = {}
    BY <1>9, <2>1 DEF Before
  <2> QED
    BY <1>4, <2>2, FS_EmptySet DEF Missed
<1>13. Over /\ MissesOnlyWhatMoved
  BY <1>6 DEF Over, MissesOnlyWhatMoved
<1>14. Repeated
  <2>1. Behind(Matching, Sent \cap Matching, Passed) = {}
    BY <1>8 DEF Behind
  <2>2. Len(walk.got) = 0 /\ Len(walk.data) = 0
    BY <1>6
  <2>3. Cardinality(Sent) = 0 /\ Cardinality(Behind(Matching, Sent \cap Matching, Passed)) = 0
    BY <1>8, <2>1, FS_EmptySet
  <2> QED
    BY <1>4, <2>2, <2>3 DEF Repeated
<1> QED
  BY <1>7, <1>11, <1>12, <1>13, <1>14 DEF WalkInv

LEMMA WalkAlways == WalkSpec => []WalkInv
<1>1. ASSUME WalkInv, WalkNext PROVE WalkInv'
  <2>1. CASE AskPage
    BY <1>1, <2>1, AskPageKeeps
  <2>2. CASE CountGet
    BY <1>1, <2>2, CountGetKeeps
  <2>3. CASE Get
    BY <1>1, <2>3, GetKeeps
  <2>4. CASE Answer
    BY <1>1, <2>4, AnswerKeeps
  <2>5. CASE Create
    BY <1>1, <2>5, CreateKeeps
  <2>6. ASSUME NEW i \in DOMAIN customers, Depart(i) PROVE WalkInv'
    BY <1>1, <2>6, DepartKeeps
  <2>7. ASSUME NEW i \in DOMAIN customers, Return(i) PROVE WalkInv'
    BY <1>1, <2>7, ReturnKeeps
  <2> QED
    BY <1>1, <2>1, <2>2, <2>3, <2>4, <2>5, <2>6, <2>7 DEF WalkNext
<1>2. ASSUME WalkInv, UNCHANGED walkVars PROVE WalkInv'
  BY <1>2 DEF walkVars, WalkInv, WalkTypeOK, Shown, Missed, Over, Repeated, MissesOnlyWhatMoved,
              Sent, Passed, Matching
<1> QED
  BY <1>1, <1>2, WalkBegins, PTL DEF WalkSpec

(* The variables keep their types, and a customer counts as steady only while *)
(* it matches.                                                                *)
THEOREM WalkTypeCorrect == WalkSpec => []WalkTypeOK
<1>1. WalkInv => WalkTypeOK
  BY DEF WalkInv
<1> QED
  BY <1>1, WalkAlways, PTL

(* A walk through all pages misses a customer that was there all the time     *)
(* only for a row that left or an older one that returned, one for each.      *)
THEOREM MissedOnlyWhatMoved == WalkSpec => []MissesOnlyWhatMoved
<1>1. WalkInv => MissesOnlyWhatMoved
  BY DEF WalkInv
<1> QED
  BY <1>1, WalkAlways, PTL

(* A customer is sent twice only for an older one that returned, one for each. *)
THEOREM RepeatedOnlyWhatMovedDown == WalkSpec => []RepeatsOnlyWhatMovedDown
<1>1. WalkInv => RepeatsOnlyWhatMovedDown
  <2> SUFFICES ASSUME WalkInv PROVE RepeatsOnlyWhatMovedDown
    OBVIOUS
  <2>1. walk.got \in Seq(Ids) /\ walk.data \in Seq(Ids) /\ returned \in Nat
    BY WalkFacts
  <2>2. /\ IsFiniteSet(ToSet(walk.got)) /\ IsFiniteSet(ToSet(walk.data))
        /\ Cardinality(ToSet(walk.data)) <= Len(walk.data)
    BY <2>1, RowsOfSeq
  <2>3. PICK a \in Nat, b \in Nat, c \in Nat, s \in Nat :
           /\ a = Cardinality(ToSet(walk.got)) /\ b = Cardinality(ToSet(walk.data))
           /\ c = Cardinality(ToSet(walk.got) \cap ToSet(walk.data)) /\ s = Cardinality(Sent)
    BY <2>2, FS_Intersection, FS_CardinalityType, WalkFacts
  <2>4. s = a + b - c
    BY <2>2, <2>3, FS_Union DEF Sent
  <2>5. PICK g \in Nat, d \in Nat, m \in Nat :
           /\ g = Len(walk.got) /\ d = Len(walk.data)
           /\ m = Cardinality(Behind(Matching, Sent \cap Matching, Passed))
    <3>1. Sent \cap Matching \in SUBSET Ids
      BY WalkFacts
    <3> QED
      BY <3>1, WalkFacts, PartsAreFinite
  <2>6. g + d + m <= s + returned
    BY <2>3, <2>5 DEF WalkInv, Repeated
  <2>7. b <= d
    BY <2>2, <2>3, <2>5
  <2>8. g - a <= returned
    BY <2>1, <2>4, <2>6, <2>7
  <2> QED
    BY <2>3, <2>5, <2>8 DEF RepeatsOnlyWhatMovedDown
<1> QED
  BY <1>1, WalkAlways, PTL
===============================================================================
