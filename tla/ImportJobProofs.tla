---------------------------- MODULE ImportJobProofs ----------------------------
(***************************************************************************)
(* Proofs about ImportJob, for any file, any number of attempts and any    *)
(* edits by others.                                                        *)
(*                                                                         *)
(* NoLineImportedTwice is inductive together with two facts: a customer    *)
(* that nobody renamed still has the name of its line (Copied), so a later *)
(* attempt finds it, and no line of the batch has a customer that a later  *)
(* attempt would find (Batched).  ResultAddsUp needs that the counts of    *)
(* the attempt account for the rows read so far (Counting).                *)
(*                                                                         *)
(* RetriesAddUp needs that while nobody edits customers they are what they *)
(* were plus copies of rows (Untouched), that batches are inserted as soon *)
(* as they are chunks (Chunked), and that what an attempt has read of what *)
(* a single run accepts is a customer or in the batch (Converging), so     *)
(* that a row is looked up when as many chunks are in as in a single run   *)
(* (InsertedChunk, OpenChunk).  What a single run accepts is defined by a  *)
(* property of sets; FittingExists shows that there is such a set, along   *)
(* the strict subset ordering of the rows.                                 *)
(***************************************************************************)
EXTENDS ImportJob, WellFoundedInduction, FiniteSetTheorems, TLAPS

(* A job waits while it has attempts left, and runs while handle does. *)
Attempts ==
    /\ job.status = "pending" => job.attempts < MaxAttempts
    /\ run.pc # "off" => job.status = "running" /\ job.attempts # 0
    /\ request # "done" => job.status = "none"
    /\ job.status = "none" => job.attempts = 0
    /\ \A i \in DOMAIN customers :
          customers[i].line # 0 => customers[i].attempt \in 1 .. job.attempts

(* An imported customer is its line, until somebody renames it. *)
Copied ==
    \A i \in DOMAIN customers : customers[i].line # 0 /\ ~ customers[i].edited =>
        /\ customers[i].name = file[customers[i].line].name
        /\ customers[i].email = file[customers[i].line].email

(* The batch holds rows already read, each once and none that a customer in   *)
(* the table is a copy of.                                                    *)
Batched ==
    /\ run.accepted \subseteq 1 .. run.pos
    /\ \A l \in run.accepted : file[l].kind = "data"
    /\ \A k \in 1 .. Len(run.batch) : run.batch[k] \in 1 .. run.pos /\ run.batch[k] \in run.accepted
    /\ \A k, m \in 1 .. Len(run.batch) : k # m => run.batch[k] # run.batch[m]
    /\ \A k \in 1 .. Len(run.batch) : \A i \in DOMAIN customers :
          customers[i].live /\ ~ customers[i].edited => customers[i].line # run.batch[k]

Blank(n) == {l \in 1 .. n : file[l].kind = "empty"}
OfAttempt == {i \in DOMAIN customers :
                 customers[i].line # 0 /\ customers[i].attempt = job.attempts}

(* The counts of an attempt account for what it read. *)
Counting ==
    /\ run.pc # "off" =>
          /\ run.counts.imported = Cardinality(OfAttempt)
          /\ run.counts.imported + run.counts.skipped + run.counts.failed + Len(run.batch)
                + Cardinality(Blank(run.pos)) = run.pos
    /\ run.pc \in {"unlink", "complete"} => run.pos = MaxRows /\ run.batch = <<>>

IInv == /\ TypeOK /\ Attempts /\ Copied /\ Batched /\ NoLineImportedTwice
        /\ Counting /\ ResultAddsUp

-------------------------------------------------------------------------------
(* How often the job is retried. *)

Batch == {run.batch[k] : k \in 1 .. Len(run.batch)}

(* Nobody but the import has touched the customers. *)
Untouched ==
    /\ before \in 0 .. Len(customers)
    /\ edits = 0 => \A i \in DOMAIN customers :
          /\ customers[i].live /\ ~ customers[i].edited
          /\ customers[i].line = 0 <=> i <= before

(* The rows inserted or in the batch hold one name twice. *)
NameTwice == OneNameTwice(ImportedLines \cup Batch)

(* A full batch is inserted before the next row is read. *)
Chunked ==
    /\ Cardinality(Batch) = Len(run.batch)
    /\ run.pc = "check" => run.batch = <<>>
    /\ run.pc = "read" => Len(run.batch) < CHUNK_SIZE
    /\ run.pc = "flush" => Len(run.batch) = CHUNK_SIZE \/ run.pos = MaxRows

(* What an attempt has read of what a single run accepts is inserted or in    *)
(* the batch, unless a retry on SQLite inserts a name in a second case.       *)
Converging ==
    edits = 0 /\ run.pc # "off" =>
        /\ NameTwice => driver = "sqlite" /\ job.attempts > 1
        /\ ~ NameTwice =>
              /\ run.accepted \subseteq Acceptable
              /\ \A l \in Acceptable : l <= run.pos => l \in ImportedLines \cup Batch
              /\ job.attempts = 1 => ImportedLines \subseteq run.accepted

RInv == IInv /\ Untouched /\ Chunked /\ RetriesAddUp /\ Converging

-------------------------------------------------------------------------------
(* Quotients: how many chunks n rows are. *)

(* A greater multiple is greater by the divisor at least. *)
LEMMA NextMultiple ==
    ASSUME NEW c \in Nat, NEW d \in Nat, NEW m \in Nat, c < d
    PROVE  c * m + m <= d * m
<1>1. PICK e \in Nat : d = c + 1 + e
  <2>1. d = c + 1 + (d - c - 1) /\ d - c - 1 \in Nat
    OBVIOUS
  <2> QED
    BY <2>1
<1>2. d * m = c * m + m + e * m
  BY <1>1
<1>3. e * m \in Nat /\ c * m \in Nat
  OBVIOUS
<1> QED
  BY <1>2, <1>3

(* A number is between its quotient's multiple and the next one. *)
LEMMA Quotient ==
    ASSUME NEW n \in Nat, NEW m \in Nat \ {0}
    PROVE  \E q \in Nat : /\ q = n \div m /\ q * m <= n /\ n < q * m + m
                          /\ n % m = 0 => n = q * m
<1>1. n = (n \div m) * m + (n % m) /\ n % m \in 0 .. m - 1 /\ n \div m \in Nat
  OBVIOUS
<1> QED
  BY <1>1

(* Below a multiple the quotient is smaller than from it on. *)
LEMMA GreaterQuotient ==
    ASSUME NEW m \in Nat \ {0}, NEW n \in Nat, n % m = 0, NEW a \in Nat, a < n, NEW b \in Nat
    PROVE  a \div m < (n + b) \div m
<1>1. PICK c \in Nat : n = c * m
  BY Quotient
<1>2. PICK p \in Nat : p = a \div m /\ p * m <= a
  BY Quotient
<1>3. PICK q \in Nat : q = (n + b) \div m /\ n + b < q * m + m
  BY Quotient
<1>4. p * m \in Nat /\ q * m \in Nat /\ c * m \in Nat
  OBVIOUS
<1>5. ~ (c <= p)
  <2>1. CASE c < p
    <3>1. c * m + m <= p * m
      BY <2>1, NextMultiple
    <3> QED
      BY <1>1, <1>2, <1>4, <3>1
  <2>2. CASE c = p
    BY <1>1, <1>2, <1>4, <2>2
  <2> QED
    BY <2>1, <2>2
<1>6. ~ (q < c)
  <2>1. CASE q < c
    <3>1. q * m + m <= c * m
      BY <2>1, NextMultiple
    <3> QED
      BY <1>1, <1>3, <1>4, <3>1
  <2> QED
    BY <2>1
<1>7. p < q
  BY <1>5, <1>6
<1> QED
  BY <1>2, <1>3, <1>7

(* From a multiple on it stays the same until the next. *)
LEMMA SameQuotient ==
    ASSUME NEW m \in Nat \ {0}, NEW n \in Nat, n % m = 0, NEW a \in Nat, n <= a,
           NEW b \in Nat, a <= n + b, b < m
    PROVE  ~ (a \div m < (n + b) \div m)
<1>1. PICK c \in Nat : n = c * m
  BY Quotient
<1>2. PICK p \in Nat : p = a \div m /\ a < p * m + m
  BY Quotient
<1>3. PICK q \in Nat : q = (n + b) \div m /\ q * m <= n + b
  BY Quotient
<1>4. p * m \in Nat /\ q * m \in Nat /\ c * m \in Nat
  OBVIOUS
<1>5. ~ (p < c)
  <2>1. CASE p < c
    <3>1. p * m + m <= c * m
      BY <2>1, NextMultiple
    <3> QED
      BY <1>1, <1>2, <1>4, <3>1
  <2> QED
    BY <2>1
<1>6. ~ (c < q)
  <2>1. CASE c < q
    <3>1. c * m + m <= q * m
      BY <2>1, NextMultiple
    <3> QED
      BY <1>1, <1>3, <1>4, <3>1
  <2> QED
    BY <2>1
<1>7. ~ (p < q)
  BY <1>5, <1>6
<1> QED
  BY <1>2, <1>3, <1>7

(* One chunk more is a whole number of chunks again. *)
LEMMA OneChunkMore ==
    ASSUME NEW m \in Nat \ {0}, NEW n \in Nat, n % m = 0
    PROVE  (n + m) % m = 0
<1>1. PICK c \in Nat : n = c * m
  BY Quotient
<1>2. n + m = (c + 1) * m
  BY <1>1
<1>3. ((c + 1) * m) % m = 0
  OBVIOUS
<1> QED
  BY <1>2, <1>3

-------------------------------------------------------------------------------
(* The rows of the file. *)

(* One more row is one more empty row, or none.                               *)
LEMMA BlanksAreCounted ==
    ASSUME NEW n \in Nat
    PROVE  /\ IsFiniteSet(Blank(n)) /\ Cardinality(Blank(n)) \in Nat
           /\ Cardinality(Blank(n + 1)) =
                 IF file[n + 1].kind = "empty" THEN Cardinality(Blank(n)) + 1 ELSE Cardinality(Blank(n))
<1>1. IsFiniteSet(1 .. n) /\ Blank(n) \in SUBSET (1 .. n)
  BY FS_Interval DEF Blank
<1>2. IsFiniteSet(Blank(n)) /\ Cardinality(Blank(n)) \in Nat
  BY <1>1, FS_Subset, FS_CardinalityType
<1>3. 1 .. n + 1 = (1 .. n) \cup {n + 1} /\ n + 1 \notin 1 .. n
  OBVIOUS
<1>4. CASE file[n + 1].kind = "empty"
  <2>1. Blank(n + 1) = Blank(n) \cup {n + 1} /\ n + 1 \notin Blank(n)
    BY <1>3, <1>4 DEF Blank
  <2> QED
    BY <1>2, <1>4, <2>1, FS_AddElement
<1>5. CASE file[n + 1].kind # "empty"
  <2>1. Blank(n + 1) = Blank(n)
    BY <1>3, <1>5 DEF Blank
  <2> QED
    BY <1>2, <1>5, <2>1
<1> QED
  BY <1>2, <1>4, <1>5

(* A row of kind data has a name and an email. *)
LEMMA DataRows ==
    ASSUME TypeOK, NEW l \in 1 .. MaxRows, file[l].kind = "data"
    PROVE  file[l].name \in Names /\ file[l].email \in Emails \cup {None}
<1>1. file[l] \in Data \cup {Empty, Invalid}
  BY DEF TypeOK, Files
<1>2. file[l] # Empty /\ file[l] # Invalid
  BY DEF Empty, Invalid
<1> QED
  BY <1>1, <1>2 DEF Data

-------------------------------------------------------------------------------
(* A flush puts the batch behind the customers. *)

(* The customer a flush inserts for row l. *)
IsCopy(c, l) ==
    /\ c.line = l /\ c.attempt = job.attempts /\ c.live /\ ~ c.edited
    /\ c.name = file[l].name /\ c.email = file[l].email

(* An element of a sequence over S is in S.                                   *)
LEMMA ElementOf ==
    ASSUME NEW S, NEW s \in Seq(S), NEW k \in 1 .. Len(s)
    PROVE  s[k] \in S
OBVIOUS

(* What a concatenation of two sequences over S holds, and where.             *)
LEMMA Concatenated ==
    ASSUME NEW S, NEW s \in Seq(S), NEW t \in Seq(S)
    PROVE  /\ s \o t \in Seq(S) /\ Len(s \o t) = Len(s) + Len(t)
           /\ \A i \in 1 .. Len(s) : (s \o t)[i] = s[i]
           /\ \A k \in 1 .. Len(t) : (s \o t)[Len(s) + k] = t[k]
           /\ DOMAIN (s \o t) = 1 .. Len(s \o t)
OBVIOUS

(* A position of a concatenation is in the first sequence or in the second.   *)
LEMMA Split ==
    ASSUME NEW m \in Nat, NEW n \in Nat, NEW i \in 1 .. m + n
    PROVE  i \in 1 .. m \/ \E k \in 1 .. n : i = m + k
<1>1. CASE i > m
  <2>1. i - m \in 1 .. n /\ i = m + (i - m)
    BY <1>1
  <2> QED
    BY <2>1
<1> QED
  BY <1>1

(* The customers a flush adds, one for each row of the batch.                 *)
LEMMA FlushedRows ==
    ASSUME IInv, Flush
    PROVE  /\ Len(customers) \in Nat /\ Len(run.batch) \in Nat /\ job.attempts \in Nat
           /\ customers' \in Seq(Customer)
           /\ Len(customers') = Len(customers) + Len(run.batch)
           /\ \A i \in 1 .. Len(customers) : customers'[i] = customers[i]
           /\ \A k \in 1 .. Len(run.batch) : customers'[Len(customers) + k] = Imported(run.batch[k])
           /\ DOMAIN customers = 1 .. Len(customers) /\ DOMAIN customers' = 1 .. Len(customers')
           /\ \A i \in 1 .. Len(customers') :
                 i \in 1 .. Len(customers) \/ \E k \in 1 .. Len(run.batch) : i = Len(customers) + k
           /\ \A k \in 1 .. Len(run.batch) : run.batch[k] \in 1 .. MaxRows
           /\ \A k \in 1 .. Len(run.batch) : IsCopy(customers'[Len(customers) + k], run.batch[k])
<1> DEFINE new == [k \in DOMAIN run.batch |-> Imported(run.batch[k])]
<1>1. /\ run.batch \in Seq(1 .. MaxRows) /\ customers \in Seq(Customer)
      /\ job.attempts \in 0 .. MaxAttempts /\ job.attempts \in Nat
      /\ \A k \in 1 .. Len(run.batch) : file[run.batch[k]].kind = "data"
  BY BoundsAssumption DEF IInv, TypeOK, Run, Batched
<1>2. ASSUME NEW k \in 1 .. Len(run.batch) PROVE Imported(run.batch[k]) \in Customer
  <2>1. run.batch[k] \in 1 .. MaxRows
    BY <1>1, ElementOf
  <2>2. file[run.batch[k]].name \in Names /\ file[run.batch[k]].email \in Emails \cup {None}
    BY <1>1, <2>1, DataRows DEF IInv
  <2> QED
    BY <1>1, <2>1, <2>2, BoundsAssumption DEF Imported, Customer
<1>3. /\ new \in Seq(Customer) /\ Len(new) = Len(run.batch)
      /\ \A k \in 1 .. Len(run.batch) : new[k] = Imported(run.batch[k])
  BY <1>1, <1>2
<1> HIDE DEF new
<1>4. customers' = customers \o new
  BY DEF Flush, new
<1>5. /\ customers \o new \in Seq(Customer) /\ Len(customers \o new) = Len(customers) + Len(new)
      /\ \A i \in 1 .. Len(customers) : (customers \o new)[i] = customers[i]
      /\ \A k \in 1 .. Len(new) : (customers \o new)[Len(customers) + k] = new[k]
      /\ DOMAIN (customers \o new) = 1 .. Len(customers \o new)
  BY <1>1, <1>3, Concatenated
<1>6. Len(customers) \in Nat /\ Len(run.batch) \in Nat /\ DOMAIN customers = 1 .. Len(customers)
  BY <1>1
<1>7. Len(customers') = Len(customers) + Len(run.batch)
  BY <1>3, <1>4, <1>5
<1>8. \A i \in 1 .. Len(customers') :
         i \in 1 .. Len(customers) \/ \E k \in 1 .. Len(run.batch) : i = Len(customers) + k
  BY <1>6, <1>7, Split
<1>9. \A k \in 1 .. Len(run.batch) : run.batch[k] \in 1 .. MaxRows
  BY <1>1, ElementOf
<1>10. ASSUME NEW k \in 1 .. Len(run.batch) PROVE IsCopy(Imported(run.batch[k]), run.batch[k])
  BY DEF IsCopy, Imported
<1> QED
  BY <1>1, <1>3, <1>4, <1>5, <1>6, <1>7, <1>8, <1>9, <1>10

(* A flush leaves a well-typed attempt, with what it inserted counted.        *)
LEMMA FlushedRun == ASSUME IInv, Flush PROVE run' \in Run
<1>1. /\ run \in Run /\ run.counts.imported \in Nat /\ run.counts.skipped \in Nat
      /\ run.counts.failed \in Nat /\ Len(run.batch) \in Nat
  BY DEF IInv, TypeOK, Run, Counts
<1>2. Counted(run.counts.imported + Len(run.batch), run.counts.skipped, run.counts.failed) \in Counts
  BY <1>1 DEF Counted, Counts
<1> QED
  BY <1>1, <1>2 DEF Flush, At, Run

(* The attempt has inserted as many more customers as the batch has rows. *)
LEMMA FlushedCount ==
    ASSUME IInv, Flush
    PROVE  Cardinality(OfAttempt') = Cardinality(OfAttempt) + Len(run.batch)
<1> DEFINE new == Len(customers) + 1 .. Len(customers) + Len(run.batch)
<1>1. /\ Len(customers) \in Nat /\ Len(run.batch) \in Nat
      /\ Len(customers') = Len(customers) + Len(run.batch)
      /\ \A i \in 1 .. Len(customers) : customers'[i] = customers[i]
      /\ \A k \in 1 .. Len(run.batch) : customers'[Len(customers) + k] = Imported(run.batch[k])
      /\ DOMAIN customers = 1 .. Len(customers) /\ DOMAIN customers' = 1 .. Len(customers')
  BY FlushedRows
<1>2. \A k \in 1 .. Len(run.batch) : run.batch[k] \in 1 .. MaxRows /\ run.batch[k] # 0
  <2>1. \A k \in 1 .. Len(run.batch) : run.batch[k] \in 1 .. MaxRows
    BY FlushedRows
  <2> QED
    BY <2>1, BoundsAssumption
<1>3. \A i \in new : customers'[i].line # 0 /\ customers'[i].attempt = job.attempts
  <2> TAKE i \in new
  <2>1. i - Len(customers) \in 1 .. Len(run.batch) /\ i = Len(customers) + (i - Len(customers))
    BY <1>1
  <2>2. customers'[i] = Imported(run.batch[i - Len(customers)])
    BY <1>1, <2>1
  <2> QED
    BY <1>2, <2>1, <2>2 DEF Imported
<1>4. 1 .. Len(customers') = (1 .. Len(customers)) \cup new
  BY <1>1
<1>5. OfAttempt' = OfAttempt \cup new
  <2>1. job' = job
    BY DEF Flush
  <2> QED
    BY <1>1, <1>3, <1>4, <2>1 DEF OfAttempt
<1>6. OfAttempt \in SUBSET (1 .. Len(customers)) /\ OfAttempt \cap new = {}
  BY <1>1 DEF OfAttempt
<1>7. /\ IsFiniteSet(OfAttempt) /\ IsFiniteSet(new) /\ Cardinality(OfAttempt) \in Nat
      /\ Cardinality(new) = Len(run.batch)
  <2>1. IsFiniteSet(1 .. Len(customers))
    BY <1>1, FS_Interval
  <2>2. IsFiniteSet(OfAttempt) /\ Cardinality(OfAttempt) \in Nat
    BY <1>6, <2>1, FS_Subset, FS_CardinalityType
  <2>3. Len(customers) + 1 \in Int /\ Len(customers) + Len(run.batch) \in Int
    BY <1>1
  <2>4. /\ IsFiniteSet(new)
        /\ Cardinality(new) = IF Len(customers) + 1 > Len(customers) + Len(run.batch) THEN 0
                              ELSE Len(customers) + Len(run.batch) - (Len(customers) + 1) + 1
    BY <2>3, FS_Interval
  <2> QED
    BY <1>1, <2>2, <2>4
<1> HIDE DEF new
<1>8. Cardinality(OfAttempt \cup new) =
         Cardinality(OfAttempt) + Cardinality(new) - Cardinality(OfAttempt \cap new)
  BY <1>7, FS_Union
<1>9. Cardinality(OfAttempt \cap new) = 0
  BY <1>6, FS_EmptySet
<1>10. Len(run.batch) \in Nat
  BY <1>1
<1> QED
  BY <1>5, <1>7, <1>8, <1>9, <1>10

-------------------------------------------------------------------------------
(* Every step keeps the invariant. *)

(* StoreUpload keeps the invariant.                                           *)
LEMMA StoreUploadKeeps ==
    ASSUME IInv, StoreUpload
    PROVE  IInv'
<1>1. TypeOK'
  BY BoundsAssumption DEF IInv, TypeOK, Attempts, StoreUpload
<1>2. Attempts'
  BY DEF IInv, TypeOK, Attempts, StoreUpload
<1>3. Copied'
  BY DEF IInv, Copied, StoreUpload
<1>4. Batched'
  BY DEF IInv, Batched, StoreUpload
<1>5. NoLineImportedTwice'
  BY DEF IInv, NoLineImportedTwice, Live, StoreUpload
<1>6. Counting'
  BY DEF IInv, Counting, OfAttempt, Blank, StoreUpload
<1>7. ResultAddsUp'
  BY DEF IInv, ResultAddsUp, Lines, StoreUpload
<1> QED
  BY <1>1, <1>2, <1>3, <1>4, <1>5, <1>6, <1>7 DEF IInv

(* CheckHeader keeps the invariant.                                           *)
LEMMA CheckHeaderKeeps ==
    ASSUME IInv, CheckHeader
    PROVE  IInv'
<1>1. TypeOK'
  BY BoundsAssumption DEF IInv, TypeOK, Attempts, CheckHeader
<1>2. Attempts'
  BY DEF IInv, TypeOK, Attempts, CheckHeader
<1>3. Copied'
  BY DEF IInv, Copied, CheckHeader
<1>4. Batched'
  BY DEF IInv, Batched, CheckHeader
<1>5. NoLineImportedTwice'
  BY DEF IInv, NoLineImportedTwice, Live, CheckHeader
<1>6. Counting'
  BY DEF IInv, Counting, OfAttempt, Blank, CheckHeader
<1>7. ResultAddsUp'
  BY DEF IInv, ResultAddsUp, Lines, CheckHeader
<1> QED
  BY <1>1, <1>2, <1>3, <1>4, <1>5, <1>6, <1>7 DEF IInv

(* Dispatch keeps the invariant.                                              *)
LEMMA DispatchKeeps ==
    ASSUME IInv, Dispatch
    PROVE  IInv'
<1>1. TypeOK'
  BY BoundsAssumption DEF IInv, TypeOK, Attempts, Dispatch
<1>2. Attempts'
  <2>1. /\ job.status = "none" /\ job.attempts = 0 /\ run.pc = "off"
        /\ job'.status = "pending" /\ job'.attempts = 0 /\ request' = "done"
        /\ run' = run /\ customers' = customers
    BY DEF IInv, Attempts, Dispatch
  <2> QED
    BY <2>1, BoundsAssumption DEF IInv, Attempts
<1>3. Copied'
  BY DEF IInv, Copied, Dispatch
<1>4. Batched'
  BY DEF IInv, Batched, Dispatch
<1>5. NoLineImportedTwice'
  BY DEF IInv, NoLineImportedTwice, Live, Dispatch
<1>6. Counting'
  <2>1. /\ job.status = "none" /\ job.attempts = 0 /\ run.pc = "off"
        /\ job'.status = "pending" /\ job'.attempts = 0 /\ request' = "done"
        /\ run' = run /\ customers' = customers
    BY DEF IInv, Attempts, Dispatch
  <2> QED
    BY <2>1 DEF Counting
<1>7. ResultAddsUp'
  BY DEF IInv, TypeOK, ResultAddsUp, Lines, Dispatch
<1> QED
  BY <1>1, <1>2, <1>3, <1>4, <1>5, <1>6, <1>7 DEF IInv

(* Claim keeps the invariant.                                                 *)
LEMMA ClaimKeeps ==
    ASSUME IInv, Claim
    PROVE  IInv'
<1>1. TypeOK'
  BY BoundsAssumption DEF IInv, TypeOK, Attempts, Claim, Fresh, At, NoCounts, Counted, Run, Counts
<1>2. Attempts'
  BY DEF IInv, TypeOK, Attempts, Claim, Fresh, At, NoCounts, Counted
<1>3. Copied'
  BY DEF IInv, Copied, Claim
<1>4. Batched'
  BY DEF IInv, TypeOK, Batched, Claim, Fresh, At, NoCounts, Counted
<1>5. NoLineImportedTwice'
  BY DEF IInv, NoLineImportedTwice, Live, Claim
<1>6. Counting'
  <2>1. OfAttempt' = {}
    <3>1. job'.attempts = job.attempts + 1 /\ customers' = customers /\ job.attempts \in Nat
      BY BoundsAssumption DEF IInv, TypeOK, Claim
    <3>2. \A i \in DOMAIN customers : customers[i].line # 0 => customers[i].attempt # job.attempts + 1
      BY <3>1 DEF IInv, Attempts
    <3> QED
      BY <3>1, <3>2 DEF OfAttempt
  <2>2. /\ run'.pos = 0 /\ run'.batch = <<>> /\ run'.pc = "check"
        /\ run'.counts.imported = 0 /\ run'.counts.skipped = 0 /\ run'.counts.failed = 0
    BY DEF Claim, Fresh, At, NoCounts, Counted
  <2>3. Blank(run.pos)' = {}
    BY <2>2 DEF Blank
  <2>4. Cardinality({}) = 0 /\ Len(<<>>) = 0
    BY FS_EmptySet
  <2> QED
    BY <2>1, <2>2, <2>3, <2>4 DEF Counting
<1>7. ResultAddsUp'
  BY DEF IInv, TypeOK, ResultAddsUp, Lines, Claim, Fresh, At, NoCounts, Counted
<1> QED
  BY <1>1, <1>2, <1>3, <1>4, <1>5, <1>6, <1>7 DEF IInv

(* Fail keeps the invariant.                                                  *)
LEMMA FailKeeps ==
    ASSUME IInv, Fail
    PROVE  IInv'
<1>1. TypeOK'
  BY BoundsAssumption DEF IInv, TypeOK, Attempts, Fail, Retried, Fresh, At, NoCounts, Counted, Run, Counts
<1>2. Attempts'
  BY DEF IInv, TypeOK, Attempts, Fail, Retried, Fresh, At, NoCounts, Counted
<1>3. Copied'
  BY DEF IInv, Copied, Fail
<1>4. Batched'
  BY DEF IInv, TypeOK, Batched, Fail, Retried, Fresh, At, NoCounts, Counted
<1>5. NoLineImportedTwice'
  BY DEF IInv, NoLineImportedTwice, Live, Fail
<1>6. Counting'
  BY DEF IInv, TypeOK, Counting, OfAttempt, Blank, Fail, Retried, Fresh, At, NoCounts, Counted
<1>7. ResultAddsUp'
  BY DEF IInv, TypeOK, ResultAddsUp, Lines, Fail, Retried, Fresh, At, NoCounts, Counted
<1> QED
  BY <1>1, <1>2, <1>3, <1>4, <1>5, <1>6, <1>7 DEF IInv

(* Complete keeps the invariant.                                              *)
LEMMA CompleteKeeps ==
    ASSUME IInv, Complete
    PROVE  IInv'
<1>1. TypeOK'
  BY BoundsAssumption DEF IInv, TypeOK, Attempts, Complete, Fresh, At, NoCounts, Counted, Run, Counts
<1>2. Attempts'
  BY DEF IInv, TypeOK, Attempts, Complete, Fresh, At, NoCounts, Counted
<1>3. Copied'
  BY DEF IInv, Copied, Complete
<1>4. Batched'
  BY DEF IInv, TypeOK, Batched, Complete, Fresh, At, NoCounts, Counted
<1>5. NoLineImportedTwice'
  BY DEF IInv, NoLineImportedTwice, Live, Complete
<1>6. Counting'
  BY DEF IInv, TypeOK, Counting, OfAttempt, Blank, Complete, Fresh, At, NoCounts, Counted
<1>7. ResultAddsUp'
  <2>1. /\ run.counts.imported = Cardinality(OfAttempt)
        /\ run.counts.imported + run.counts.skipped + run.counts.failed + Len(run.batch)
              + Cardinality(Blank(run.pos)) = run.pos
        /\ run.pos = MaxRows /\ run.batch = <<>>
    BY DEF IInv, Counting, Complete
  <2>2. /\ result' = run.counts /\ customers' = customers /\ file' = file
        /\ job'.attempts = job.attempts
    BY DEF Complete
  <2>3. /\ run.counts.imported \in Nat /\ run.counts.skipped \in Nat /\ run.counts.failed \in Nat
        /\ Cardinality(Blank(MaxRows)) \in Nat
    BY BlanksAreCounted, BoundsAssumption DEF IInv, TypeOK, Run, Counts
  <2>4. run.counts.imported + run.counts.skipped + run.counts.failed + Cardinality(Blank(MaxRows)) = MaxRows
    BY <2>1, <2>3
  <2> QED
    BY <2>1, <2>2, <2>4 DEF ResultAddsUp, OfAttempt, Blank, Lines
<1> QED
  BY <1>1, <1>2, <1>3, <1>4, <1>5, <1>6, <1>7 DEF IInv

(* Recover keeps the invariant.                                               *)
LEMMA RecoverKeeps ==
    ASSUME IInv, Recover
    PROVE  IInv'
<1>1. TypeOK'
  BY BoundsAssumption DEF IInv, TypeOK, Attempts, Recover, Retried
<1>2. Attempts'
  BY DEF IInv, TypeOK, Attempts, Recover, Retried
<1>3. Copied'
  BY DEF IInv, Copied, Recover
<1>4. Batched'
  BY DEF IInv, Batched, Recover
<1>5. NoLineImportedTwice'
  BY DEF IInv, NoLineImportedTwice, Live, Recover
<1>6. Counting'
  BY DEF IInv, TypeOK, Counting, OfAttempt, Blank, Recover, Retried
<1>7. ResultAddsUp'
  BY DEF IInv, TypeOK, ResultAddsUp, Lines, Recover, Retried
<1> QED
  BY <1>1, <1>2, <1>3, <1>4, <1>5, <1>6, <1>7 DEF IInv

(* CheckFile keeps the invariant.                                             *)
LEMMA CheckFileKeeps ==
    ASSUME IInv, CheckFile
    PROVE  IInv'
<1>1. TypeOK'
  BY BoundsAssumption DEF IInv, TypeOK, Attempts, CheckFile, Step, At, Run, Counts
<1>2. Attempts'
  BY DEF IInv, TypeOK, Attempts, CheckFile, Step, At
<1>3. Copied'
  BY DEF IInv, Copied, CheckFile
<1>4. Batched'
  BY DEF IInv, TypeOK, Batched, CheckFile, Step, At
<1>5. NoLineImportedTwice'
  BY DEF IInv, NoLineImportedTwice, Live, CheckFile
<1>6. Counting'
  BY DEF IInv, TypeOK, Counting, OfAttempt, Blank, CheckFile, Step, At
<1>7. ResultAddsUp'
  BY DEF IInv, ResultAddsUp, Lines, CheckFile
<1> QED
  BY <1>1, <1>2, <1>3, <1>4, <1>5, <1>6, <1>7 DEF IInv

(* A row that is passed over: empty, or counted as skipped or failed. *)
LEMMA PassKeeps ==
    ASSUME IInv, run.pc = "read", run.pos < MaxRows, NEW s \in 0 .. 1, NEW f \in 0 .. 1,
           IF Row.kind = "empty" THEN s + f = 0 ELSE s + f = 1,
           run' = At("read", run.pos + 1, run.batch, run.accepted,
                     Counted(run.counts.imported, run.counts.skipped + s, run.counts.failed + f)),
           UNCHANGED <<driver, file, header, stored, request, job, result, customers, before, edits>>
    PROVE  IInv'
<1>0. /\ run \in Run /\ run.pos \in Nat /\ run.batch \in Seq(1 .. MaxRows) /\ run.counts \in Counts
      /\ run.counts.imported \in Nat /\ run.counts.skipped \in Nat /\ run.counts.failed \in Nat
  BY BoundsAssumption DEF IInv, TypeOK, Run, Counts
<1>1. TypeOK'
  <2>1. run.pos + 1 \in 0 .. MaxRows
    BY <1>0, BoundsAssumption
  <2>2. Counted(run.counts.imported, run.counts.skipped + s, run.counts.failed + f) \in Counts
    BY <1>0 DEF Counted, Counts
  <2>3. run' \in Run
    BY <1>0, <2>1, <2>2 DEF At, Run
  <2> QED
    BY <2>3 DEF IInv, TypeOK
<1>2. Attempts'
  BY DEF IInv, Attempts, At
<1>3. Copied'
  BY DEF IInv, Copied
<1>4. Batched'
  <2>1. 1 .. run.pos \subseteq 1 .. run.pos + 1
    BY <1>0
  <2>2. run'.pos = run.pos + 1 /\ run'.batch = run.batch /\ run'.accepted = run.accepted
    BY DEF At
  <2>3. /\ run.accepted \subseteq 1 .. run.pos
        /\ \A k \in 1 .. Len(run.batch) : run.batch[k] \in 1 .. run.pos
    BY DEF IInv, Batched
  <2>4. /\ run'.accepted \subseteq 1 .. run'.pos
        /\ \A k \in 1 .. Len(run'.batch) : run'.batch[k] \in 1 .. run'.pos
    BY <2>1, <2>2, <2>3
  <2>5. /\ \A k \in run'.accepted : file'[k].kind = "data"
        /\ \A k \in 1 .. Len(run'.batch) : run'.batch[k] \in run'.accepted
        /\ \A k, m \in 1 .. Len(run'.batch) : k # m => run'.batch[k] # run'.batch[m]
        /\ \A k \in 1 .. Len(run'.batch) : \A i \in DOMAIN customers' :
              customers'[i].live /\ ~ customers'[i].edited => customers'[i].line # run'.batch[k]
    BY <2>2 DEF IInv, Batched
  <2> QED
    BY <2>4, <2>5 DEF Batched
<1>5. NoLineImportedTwice'
  BY DEF IInv, NoLineImportedTwice, Live
<1>6. Counting'
  <2>1. /\ Cardinality(Blank(run.pos)) \in Nat
        /\ Cardinality(Blank(run.pos + 1)) =
              IF Row.kind = "empty" THEN Cardinality(Blank(run.pos)) + 1 ELSE Cardinality(Blank(run.pos))
    BY <1>0, BlanksAreCounted DEF Row
  <2>2. Blank(run.pos)' = Blank(run.pos + 1) /\ OfAttempt' = OfAttempt
    BY DEF Blank, OfAttempt, At
  <2>3. /\ run'.pc = "read" /\ run'.pos = run.pos + 1 /\ run'.batch = run.batch
        /\ run'.counts.imported = run.counts.imported
        /\ run'.counts.skipped = run.counts.skipped + s /\ run'.counts.failed = run.counts.failed + f
    BY DEF At, Counted
  <2>4. /\ run.counts.imported = Cardinality(OfAttempt)
        /\ run.counts.imported + run.counts.skipped + run.counts.failed + Len(run.batch)
              + Cardinality(Blank(run.pos)) = run.pos
    BY DEF IInv, Counting
  <2>5. Len(run.batch) \in Nat
    BY <1>0
  <2>6. run.counts.imported + (run.counts.skipped + s) + (run.counts.failed + f) + Len(run.batch)
           + Cardinality(Blank(run.pos + 1)) = run.pos + 1
    <3>1. PICK a \in Nat, b \in Nat, c \in Nat, d \in Nat, e \in Nat, n \in Nat :
             /\ a = run.counts.imported /\ b = run.counts.skipped /\ c = run.counts.failed
             /\ d = Len(run.batch) /\ e = Cardinality(Blank(run.pos)) /\ n = run.pos
      BY <1>0, <2>1, <2>5
    <3>2. a + b + c + d + e = n
      BY <3>1, <2>4
    <3>3. CASE Row.kind = "empty"
      <4>1. a + (b + s) + (c + f) + d + (e + 1) = n + 1
        BY <3>2, <3>3
      <4> QED
        BY <4>1, <3>1, <3>3, <2>1
    <3>4. CASE Row.kind # "empty"
      <4>1. a + (b + s) + (c + f) + d + e = n + 1
        BY <3>2, <3>4
      <4> QED
        BY <4>1, <3>1, <3>4, <2>1
    <3> QED
      BY <3>3, <3>4
  <2> QED
    BY <2>2, <2>3, <2>4, <2>6 DEF Counting
<1>7. ResultAddsUp'
  BY DEF IInv, ResultAddsUp, Lines
<1> QED
  BY <1>1, <1>2, <1>3, <1>4, <1>5, <1>6, <1>7 DEF IInv

(* A row that joins the batch: no customer in the table is a copy of it,      *)
(* since a copy would have its name.                                          *)
LEMMA AcceptKeeps ==
    ASSUME IInv, run.pc = "read", run.pos < MaxRows, Row.kind = "data", ~ Exists(Row), Accept,
           UNCHANGED <<driver, file, header, stored, request, job, result, customers, before, edits>>
    PROVE  IInv'
<1> DEFINE l == run.pos + 1
<1>0. /\ run \in Run /\ run.pos \in Nat /\ run.batch \in Seq(1 .. MaxRows) /\ run.counts \in Counts
      /\ run.counts.imported \in Nat /\ run.counts.skipped \in Nat /\ run.counts.failed \in Nat
      /\ run.accepted \subseteq 1 .. MaxRows /\ l \in 1 .. MaxRows
  BY BoundsAssumption DEF IInv, TypeOK, Run, Counts
<1>a. PICK pc \in {"flush", "read"} :
         run' = At(pc, l, Append(run.batch, l), run.accepted \cup {l}, run.counts)
  BY DEF Accept, AfterAccept
<1>b. /\ run'.pc = pc /\ run'.pos = l /\ run'.batch = Append(run.batch, l)
      /\ run'.accepted = run.accepted \cup {l} /\ run'.counts = run.counts
  BY <1>a DEF At
<1>c. /\ Append(run.batch, l) \in Seq(1 .. MaxRows) /\ Len(Append(run.batch, l)) = Len(run.batch) + 1
      /\ \A k \in 1 .. Len(run.batch) : Append(run.batch, l)[k] = run.batch[k]
      /\ Append(run.batch, l)[Len(run.batch) + 1] = l
      /\ Len(run.batch) \in Nat
  BY <1>0
<1>1. TypeOK'
  <2>1. run' \in Run
    BY <1>0, <1>a, <1>c DEF At, Run
  <2> QED
    BY <2>1 DEF IInv, TypeOK
<1>2. Attempts'
  BY <1>b DEF IInv, Attempts
<1>3. Copied'
  BY DEF IInv, Copied
<1>4. Batched'
  <2>0. /\ run.accepted \subseteq 1 .. run.pos
        /\ \A k \in run.accepted : file[k].kind = "data"
        /\ \A k \in 1 .. Len(run.batch) : run.batch[k] \in 1 .. run.pos /\ run.batch[k] \in run.accepted
        /\ \A k, m \in 1 .. Len(run.batch) : k # m => run.batch[k] # run.batch[m]
    BY DEF IInv, Batched
  <2>1. 1 .. run.pos \subseteq 1 .. l /\ l \in 1 .. l /\ l \notin 1 .. run.pos
    BY <1>0
  <2>2. \A i \in DOMAIN customers : customers[i].live /\ ~ customers[i].edited => customers[i].line # l
    <3> SUFFICES ASSUME NEW i \in DOMAIN customers,
                        customers[i].live, ~ customers[i].edited, customers[i].line = l
                 PROVE  FALSE
      OBVIOUS
    <3>1. customers[i].name = Row.name
      BY <1>0 DEF IInv, Copied, Row
    <3>2. SameName(customers[i].name, Row.name)
      BY <3>1 DEF SameName
    <3> QED
      BY <3>2 DEF Exists
  <2>3. \A k \in 1 .. Len(run.batch) + 1 : k \in 1 .. Len(run.batch) \/ k = Len(run.batch) + 1
    BY <1>c
  <2>4. /\ run'.accepted \subseteq 1 .. run'.pos
        /\ \A k \in run'.accepted : file'[k].kind = "data"
    BY <1>b, <2>0, <2>1 DEF Row
  <2>5. \A k \in 1 .. Len(run'.batch) : run'.batch[k] \in 1 .. run'.pos /\ run'.batch[k] \in run'.accepted
    BY <1>b, <1>c, <2>0, <2>1, <2>3
  <2>6. \A k, m \in 1 .. Len(run'.batch) : k # m => run'.batch[k] # run'.batch[m]
    <3> SUFFICES ASSUME NEW k \in 1 .. Len(run.batch) + 1, NEW m \in 1 .. Len(run.batch) + 1, k # m
                 PROVE  Append(run.batch, l)[k] # Append(run.batch, l)[m]
      BY <1>b, <1>c
    <3>1. CASE k \in 1 .. Len(run.batch) /\ m \in 1 .. Len(run.batch)
      BY <3>1, <1>c, <2>0
    <3>2. CASE k \in 1 .. Len(run.batch) /\ m = Len(run.batch) + 1
      BY <3>2, <1>c, <2>0, <2>1
    <3>3. CASE k = Len(run.batch) + 1 /\ m \in 1 .. Len(run.batch)
      BY <3>3, <1>c, <2>0, <2>1
    <3> QED
      BY <2>3, <3>1, <3>2, <3>3
  <2>7. ASSUME NEW k \in 1 .. Len(run'.batch), NEW i \in DOMAIN customers,
               customers[i].live, ~ customers[i].edited
        PROVE  customers[i].line # run'.batch[k]
    <3>1. k \in 1 .. Len(run.batch) \/ k = Len(run.batch) + 1
      BY <1>b, <1>c, <2>3
    <3>2. CASE k \in 1 .. Len(run.batch)
      BY <3>2, <1>b, <1>c, <2>7 DEF IInv, Batched
    <3>3. CASE k = Len(run.batch) + 1
      BY <3>3, <1>b, <1>c, <2>2, <2>7
    <3> QED
      BY <3>1, <3>2, <3>3
  <2> QED
    BY <2>4, <2>5, <2>6, <2>7 DEF Batched
<1>5. NoLineImportedTwice'
  BY DEF IInv, NoLineImportedTwice, Live
<1>6. Counting'
  <2>1. /\ Cardinality(Blank(run.pos)) \in Nat
        /\ Cardinality(Blank(l)) = Cardinality(Blank(run.pos))
    BY <1>0, BlanksAreCounted DEF Row
  <2>2. Blank(run.pos)' = Blank(l) /\ OfAttempt' = OfAttempt
    BY <1>b DEF Blank, OfAttempt
  <2>4. /\ run.counts.imported = Cardinality(OfAttempt)
        /\ run.counts.imported + run.counts.skipped + run.counts.failed + Len(run.batch)
              + Cardinality(Blank(run.pos)) = run.pos
    BY DEF IInv, Counting
  <2>6. run.counts.imported + run.counts.skipped + run.counts.failed + (Len(run.batch) + 1)
           + Cardinality(Blank(l)) = l
    <3>1. PICK a \in Nat, b \in Nat, c \in Nat, d \in Nat, e \in Nat, n \in Nat :
             /\ a = run.counts.imported /\ b = run.counts.skipped /\ c = run.counts.failed
             /\ d = Len(run.batch) /\ e = Cardinality(Blank(run.pos)) /\ n = run.pos
      BY <1>0, <1>c, <2>1
    <3>2. a + b + c + d + e = n
      BY <3>1, <2>4
    <3>3. a + b + c + (d + 1) + e = n + 1
      BY <3>2
    <3> QED
      BY <3>1, <3>3, <2>1
  <2> QED
    BY <1>b, <1>c, <2>2, <2>4, <2>6 DEF Counting
<1>7. ResultAddsUp'
  BY DEF IInv, ResultAddsUp, Lines
<1> QED
  BY <1>1, <1>2, <1>3, <1>4, <1>5, <1>6, <1>7 DEF IInv

(* ReadRow keeps the invariant.                                               *)
LEMMA ReadRowKeeps ==
    ASSUME IInv, ReadRow
    PROVE  IInv'
<1> USE DEF ReadRow
<1>0. /\ run.counts = Counted(run.counts.imported, run.counts.skipped, run.counts.failed)
      /\ run.counts.imported \in Nat /\ run.counts.skipped \in Nat /\ run.counts.failed \in Nat
  BY DEF IInv, TypeOK, Run, Counts, Counted
<1>1. CASE Row.kind = "empty" /\ Pass(run.counts)
  <2>1. run' = At("read", run.pos + 1, run.batch, run.accepted,
                  Counted(run.counts.imported, run.counts.skipped + 0, run.counts.failed + 0))
    BY <1>0, <1>1 DEF Pass
  <2> QED
    BY <1>1, <2>1, PassKeeps
<1>2. CASE Row.kind # "empty" /\ Pass(Counted(run.counts.imported, run.counts.skipped, run.counts.failed + 1))
  <2>1. run' = At("read", run.pos + 1, run.batch, run.accepted,
                  Counted(run.counts.imported, run.counts.skipped + 0, run.counts.failed + 1))
    BY <1>0, <1>2 DEF Pass
  <2> QED
    BY <1>2, <2>1, PassKeeps
<1>3. CASE Row.kind # "empty" /\ Pass(Counted(run.counts.imported, run.counts.skipped + 1, run.counts.failed))
  <2>1. run' = At("read", run.pos + 1, run.batch, run.accepted,
                  Counted(run.counts.imported, run.counts.skipped + 1, run.counts.failed + 0))
    BY <1>0, <1>3 DEF Pass
  <2> QED
    BY <1>3, <2>1, PassKeeps
<1>4. CASE Row.kind = "data" /\ ~ Exists(Row) /\ Accept
  BY <1>4, AcceptKeeps
<1> QED
  BY <1>1, <1>2, <1>3, <1>4

(* EndOfFile keeps the invariant.                                             *)
LEMMA EndOfFileKeeps ==
    ASSUME IInv, EndOfFile
    PROVE  IInv'
<1>1. TypeOK'
  BY BoundsAssumption DEF IInv, TypeOK, Attempts, EndOfFile, Step, At, Run, Counts
<1>2. Attempts'
  BY DEF IInv, TypeOK, Attempts, EndOfFile, Step, At
<1>3. Copied'
  BY DEF IInv, Copied, EndOfFile
<1>4. Batched'
  BY DEF IInv, TypeOK, Batched, EndOfFile, Step, At
<1>5. NoLineImportedTwice'
  BY DEF IInv, NoLineImportedTwice, Live, EndOfFile
<1>6. Counting'
  BY DEF IInv, TypeOK, Counting, OfAttempt, Blank, EndOfFile, Step, At
<1>7. ResultAddsUp'
  BY DEF IInv, ResultAddsUp, Lines, EndOfFile
<1> QED
  BY <1>1, <1>2, <1>3, <1>4, <1>5, <1>6, <1>7 DEF IInv

(* Flush keeps the invariant.                                                 *)
LEMMA FlushKeeps ==
    ASSUME IInv, Flush
    PROVE  IInv'
<1>rows. /\ Len(customers) \in Nat /\ Len(run.batch) \in Nat /\ job.attempts \in Nat
      /\ Len(customers') = Len(customers) + Len(run.batch)
      /\ \A i \in 1 .. Len(customers) : customers'[i] = customers[i]
      /\ DOMAIN customers = 1 .. Len(customers) /\ DOMAIN customers' = 1 .. Len(customers')
  BY FlushedRows
<1>copies. \A k \in 1 .. Len(run.batch) : IsCopy(customers'[Len(customers) + k], run.batch[k])
  BY FlushedRows
<1>each. \A i \in DOMAIN customers' :
            \/ i \in 1 .. Len(customers)
            \/ \E k \in 1 .. Len(run.batch) :
                  i = Len(customers) + k /\ IsCopy(customers'[i], run.batch[k])
  <2>1. \A i \in DOMAIN customers' :
           i \in 1 .. Len(customers) \/ \E k \in 1 .. Len(run.batch) : i = Len(customers) + k
    BY FlushedRows
  <2> TAKE i \in DOMAIN customers'
  <2>2. ASSUME NEW k \in 1 .. Len(run.batch), i = Len(customers) + k
        PROVE  IsCopy(customers'[i], run.batch[k])
    <3>1. IsCopy(customers'[Len(customers) + k], run.batch[k])
      BY <1>copies, Zenon
    <3> QED
      BY <2>2, <3>1, Zenon
  <2> QED
    BY <2>1, <2>2
<1>same. /\ run.pc = "flush" /\ file' = file /\ job' = job /\ request' = request /\ result' = result
  BY DEF Flush
<1>1. TypeOK'
  <2>1. /\ customers' \in Seq(Customer) /\ run' \in Run
    BY FlushedRows, FlushedRun
  <2> QED
    BY <2>1 DEF IInv, TypeOK, Flush
<1>2. Attempts'
  <2>3. job.attempts \in 1 .. job.attempts /\ run'.pc = "read"
    BY <1>rows, <1>same DEF IInv, Attempts, Flush, At
  <2>4. \A i \in DOMAIN customers' : customers'[i].line # 0 => customers'[i].attempt \in 1 .. job.attempts
    <3> TAKE i \in DOMAIN customers'
    <3>1. CASE i \in 1 .. Len(customers)
      BY <1>rows, <3>1 DEF IInv, Attempts
    <3>2. ASSUME NEW k \in 1 .. Len(run.batch), IsCopy(customers'[i], run.batch[k])
          PROVE  customers'[i].attempt = job.attempts
      BY <3>2 DEF IsCopy
    <3> QED
      BY <1>each, <2>3, <3>1, <3>2
  <2> QED
    BY <1>same, <2>3, <2>4 DEF IInv, Attempts
<1>3. Copied'
  <2>3. ASSUME NEW i \in DOMAIN customers', customers'[i].line # 0, ~ customers'[i].edited
        PROVE  /\ customers'[i].name = file[customers'[i].line].name
               /\ customers'[i].email = file[customers'[i].line].email
    <3>1. CASE i \in 1 .. Len(customers)
      BY <1>rows, <2>3, <3>1 DEF IInv, Copied
    <3>2. ASSUME NEW k \in 1 .. Len(run.batch), IsCopy(customers'[i], run.batch[k])
          PROVE  /\ customers'[i].name = file[customers'[i].line].name
                 /\ customers'[i].email = file[customers'[i].line].email
      BY <3>2 DEF IsCopy
    <3> QED
      BY <1>each, <3>1, <3>2
  <2> QED
    BY <1>same, <2>3 DEF Copied
<1>4. Batched'
  BY DEF IInv, TypeOK, Batched, Flush, At, Counted, Imported
<1>5. NoLineImportedTwice'
  <2>3. /\ \A k, m \in 1 .. Len(run.batch) : k # m => run.batch[k] # run.batch[m]
        /\ \A k \in 1 .. Len(run.batch) : \A i \in DOMAIN customers :
              customers[i].live /\ ~ customers[i].edited => customers[i].line # run.batch[k]
    BY DEF IInv, Batched
  <2> SUFFICES ASSUME NEW i \in Live', NEW j \in Live', i # j,
                      customers'[i].line = customers'[j].line, customers'[i].line # 0,
                      ~ customers'[i].edited, ~ customers'[j].edited
               PROVE  FALSE
    BY DEF NoLineImportedTwice
  <2>4. i \in DOMAIN customers' /\ j \in DOMAIN customers' /\ customers'[i].live /\ customers'[j].live
    BY DEF Live
  <2>5. CASE i \in 1 .. Len(customers) /\ j \in 1 .. Len(customers)
    <3>1. i \in Live /\ j \in Live
      BY <1>rows, <2>4, <2>5 DEF Live
    <3> QED
      BY <1>rows, <2>5, <3>1 DEF IInv, NoLineImportedTwice
  <2>6. ASSUME i \in 1 .. Len(customers), NEW k \in 1 .. Len(run.batch),
               IsCopy(customers'[j], run.batch[k])
        PROVE  FALSE
    <3>1. customers'[i] = customers[i] /\ i \in DOMAIN customers
      BY <1>rows, <2>6
    <3>2. customers'[j].line = run.batch[k]
      BY <2>6 DEF IsCopy
    <3>3. customers[i].line # run.batch[k]
      BY <2>3, <2>4, <3>1
    <3> QED
      BY <3>1, <3>2, <3>3
  <2>7. ASSUME j \in 1 .. Len(customers), NEW k \in 1 .. Len(run.batch),
               IsCopy(customers'[i], run.batch[k])
        PROVE  FALSE
    <3>1. customers'[j] = customers[j] /\ j \in DOMAIN customers
      BY <1>rows, <2>7
    <3>2. customers'[i].line = run.batch[k]
      BY <2>7 DEF IsCopy
    <3>3. customers[j].line # run.batch[k]
      BY <2>3, <2>4, <3>1
    <3> QED
      BY <3>1, <3>2, <3>3
  <2>8. ASSUME NEW k \in 1 .. Len(run.batch),
               i = Len(customers) + k /\ IsCopy(customers'[i], run.batch[k]),
               NEW m \in 1 .. Len(run.batch),
               j = Len(customers) + m /\ IsCopy(customers'[j], run.batch[m])
        PROVE  FALSE
    <3>1. customers'[i].line = run.batch[k] /\ customers'[j].line = run.batch[m]
      BY <2>8 DEF IsCopy
    <3>2. k # m
      BY <2>8
    <3> QED
      BY <2>3, <3>1, <3>2
  <2> QED
    BY <1>each, <2>4, <2>5, <2>6, <2>7, <2>8
<1>6. Counting'
  <2>3. /\ run.counts.imported = Cardinality(OfAttempt)
        /\ run.counts.imported + run.counts.skipped + run.counts.failed + Len(run.batch)
              + Cardinality(Blank(run.pos)) = run.pos
    BY <1>same DEF IInv, Counting
  <2>4. /\ run'.pc = "read" /\ run'.pos = run.pos /\ run'.batch = <<>>
        /\ run'.counts.imported = run.counts.imported + Len(run.batch)
        /\ run'.counts.skipped = run.counts.skipped /\ run'.counts.failed = run.counts.failed
    BY DEF Flush, At, Counted
  <2>5. Blank(run.pos)' = Blank(run.pos)
    BY <1>same, <2>4 DEF Blank
  <2>6. Cardinality(OfAttempt') = Cardinality(OfAttempt) + Len(run.batch)
    BY FlushedCount
  <2>7. /\ run.counts.imported \in Nat /\ run.counts.skipped \in Nat /\ run.counts.failed \in Nat
        /\ run.pos \in Nat /\ Cardinality(Blank(run.pos)) \in Nat
    <3>1. run.pos \in Nat
      BY BoundsAssumption DEF IInv, TypeOK, Run
    <3> QED
      BY <3>1, BlanksAreCounted DEF IInv, TypeOK, Run, Counts
  <2>8. run'.counts.imported = Cardinality(OfAttempt')
    BY <2>3, <2>4, <2>6
  <2>9. (run.counts.imported + Len(run.batch)) + run.counts.skipped + run.counts.failed + 0
           + Cardinality(Blank(run.pos)) = run.pos
    <3>1. PICK a \in Nat, b \in Nat, c \in Nat, d \in Nat, e \in Nat, n \in Nat :
             /\ a = run.counts.imported /\ b = run.counts.skipped /\ c = run.counts.failed
             /\ d = Len(run.batch) /\ e = Cardinality(Blank(run.pos)) /\ n = run.pos
      BY <1>rows, <2>7
    <3>2. a + b + c + d + e = n
      BY <3>1, <2>3
    <3>3. (a + d) + b + c + 0 + e = n
      BY <3>2
    <3> QED
      BY <3>1, <3>3
  <2> QED
    BY <2>4, <2>5, <2>8, <2>9 DEF Counting
<1>7. ResultAddsUp'
  <2>1. job'.status = "running"
    BY DEF IInv, Attempts, Flush
  <2> QED
    BY <2>1 DEF ResultAddsUp
<1> QED
  BY <1>1, <1>2, <1>3, <1>4, <1>5, <1>6, <1>7 DEF IInv

(* Unlink keeps the invariant.                                                *)
LEMMA UnlinkKeeps ==
    ASSUME IInv, Unlink
    PROVE  IInv'
<1>1. TypeOK'
  BY BoundsAssumption DEF IInv, TypeOK, Attempts, Unlink, Step, At, Run, Counts
<1>2. Attempts'
  BY DEF IInv, TypeOK, Attempts, Unlink, Step, At
<1>3. Copied'
  BY DEF IInv, Copied, Unlink
<1>4. Batched'
  BY DEF IInv, TypeOK, Batched, Unlink, Step, At
<1>5. NoLineImportedTwice'
  BY DEF IInv, NoLineImportedTwice, Live, Unlink
<1>6. Counting'
  BY DEF IInv, TypeOK, Counting, OfAttempt, Blank, Unlink, Step, At
<1>7. ResultAddsUp'
  BY DEF IInv, ResultAddsUp, Lines, Unlink
<1> QED
  BY <1>1, <1>2, <1>3, <1>4, <1>5, <1>6, <1>7 DEF IInv

(* Throw keeps the invariant.                                                 *)
LEMMA ThrowKeeps ==
    ASSUME IInv, Throw
    PROVE  IInv'
<1>1. TypeOK'
  BY BoundsAssumption DEF IInv, TypeOK, Attempts, Throw, Step, At, Run, Counts
<1>2. Attempts'
  BY DEF IInv, TypeOK, Attempts, Throw, Step, At
<1>3. Copied'
  BY DEF IInv, Copied, Throw
<1>4. Batched'
  BY DEF IInv, TypeOK, Batched, Throw, Step, At
<1>5. NoLineImportedTwice'
  BY DEF IInv, NoLineImportedTwice, Live, Throw
<1>6. Counting'
  BY DEF IInv, TypeOK, Counting, OfAttempt, Blank, Throw, Step, At
<1>7. ResultAddsUp'
  BY DEF IInv, ResultAddsUp, Lines, Throw
<1> QED
  BY <1>1, <1>2, <1>3, <1>4, <1>5, <1>6, <1>7 DEF IInv

(* Crash keeps the invariant.                                                 *)
LEMMA CrashKeeps ==
    ASSUME IInv, Crash
    PROVE  IInv'
<1>1. TypeOK'
  BY BoundsAssumption DEF IInv, TypeOK, Attempts, Crash, Fresh, At, NoCounts, Counted, Run, Counts
<1>2. Attempts'
  BY DEF IInv, TypeOK, Attempts, Crash, Fresh, At, NoCounts, Counted
<1>3. Copied'
  BY DEF IInv, Copied, Crash
<1>4. Batched'
  BY DEF IInv, TypeOK, Batched, Crash, Fresh, At, NoCounts, Counted
<1>5. NoLineImportedTwice'
  BY DEF IInv, NoLineImportedTwice, Live, Crash
<1>6. Counting'
  BY DEF IInv, TypeOK, Counting, OfAttempt, Blank, Crash, Fresh, At, NoCounts, Counted
<1>7. ResultAddsUp'
  BY DEF IInv, ResultAddsUp, Lines, Crash
<1> QED
  BY <1>1, <1>2, <1>3, <1>4, <1>5, <1>6, <1>7 DEF IInv

(* AddCustomer keeps the invariant.                                           *)
LEMMA AddCustomerKeeps ==
    ASSUME IInv, NEW n \in Names, NEW e \in Emails \cup {None}, AddCustomer(n, e)
    PROVE  IInv'
<1>1. TypeOK'
  BY BoundsAssumption DEF IInv, TypeOK, Attempts, AddCustomer, Customer
<1>2. Attempts'
  BY DEF IInv, TypeOK, Attempts, AddCustomer
<1>3. Copied'
  BY DEF IInv, TypeOK, Copied, AddCustomer
<1>4. Batched'
  BY DEF IInv, TypeOK, Batched, AddCustomer
<1>5. NoLineImportedTwice'
  BY DEF IInv, TypeOK, NoLineImportedTwice, Live, AddCustomer
<1>6. Counting'
  <2>1. /\ customers \in Seq(Customer) /\ DOMAIN customers' = 1 .. Len(customers) + 1
        /\ DOMAIN customers = 1 .. Len(customers) /\ Len(customers) \in Nat
        /\ \A i \in 1 .. Len(customers) : customers'[i] = customers[i]
        /\ customers'[Len(customers) + 1].line = 0
    BY DEF IInv, TypeOK, AddCustomer
  <2>2. \A i \in 1 .. Len(customers) + 1 : i \in 1 .. Len(customers) \/ i = Len(customers) + 1
    BY <2>1
  <2>3. OfAttempt' = OfAttempt
    <3>1. job' = job
      BY DEF AddCustomer
    <3> QED
      BY <2>1, <2>2, <3>1 DEF OfAttempt
  <2> QED
    BY <2>3 DEF IInv, Counting, Blank, AddCustomer
<1>7. ResultAddsUp'
  <2>1. /\ customers \in Seq(Customer) /\ DOMAIN customers' = 1 .. Len(customers) + 1
        /\ DOMAIN customers = 1 .. Len(customers) /\ Len(customers) \in Nat
        /\ \A i \in 1 .. Len(customers) : customers'[i] = customers[i]
        /\ customers'[Len(customers) + 1].line = 0
    BY DEF IInv, TypeOK, AddCustomer
  <2>2. \A i \in 1 .. Len(customers) + 1 : i \in 1 .. Len(customers) \/ i = Len(customers) + 1
    BY <2>1
  <2>3. OfAttempt' = OfAttempt
    <3>1. job' = job
      BY DEF AddCustomer
    <3> QED
      BY <2>1, <2>2, <3>1 DEF OfAttempt
  <2> QED
    BY <2>3 DEF IInv, ResultAddsUp, OfAttempt, Lines, AddCustomer
<1> QED
  BY <1>1, <1>2, <1>3, <1>4, <1>5, <1>6, <1>7 DEF IInv

(* RemoveCustomer keeps the invariant.                                        *)
LEMMA RemoveCustomerKeeps ==
    ASSUME IInv, NEW i \in DOMAIN customers, RemoveCustomer(i)
    PROVE  IInv'
<1>1. TypeOK'
  <2>1. customers \in Seq(Customer) /\ customers[i] \in Customer
    BY DEF IInv, TypeOK
  <2>2. [name |-> customers[i].name, email |-> customers[i].email, live |-> FALSE, line |-> customers[i].line,
         attempt |-> customers[i].attempt, edited |-> customers[i].edited] \in Customer
    BY <2>1 DEF Customer
  <2>3. customers' \in Seq(Customer)
    BY <2>1, <2>2 DEF RemoveCustomer, Updated
  <2>4. edits' \in 0 .. MaxEdits
    BY BoundsAssumption DEF IInv, TypeOK, RemoveCustomer
  <2> QED
    BY <2>3, <2>4 DEF IInv, TypeOK, RemoveCustomer
<1>2. Attempts'
  BY DEF IInv, TypeOK, Attempts, RemoveCustomer, Updated
<1>3. Copied'
  BY DEF IInv, TypeOK, Copied, RemoveCustomer, Updated
<1>4. Batched'
  BY DEF IInv, TypeOK, Batched, RemoveCustomer, Updated
<1>5. NoLineImportedTwice'
  BY DEF IInv, TypeOK, NoLineImportedTwice, Live, RemoveCustomer, Updated
<1>6. Counting'
  BY DEF IInv, TypeOK, Counting, OfAttempt, Blank, RemoveCustomer, Updated
<1>7. ResultAddsUp'
  BY DEF IInv, TypeOK, ResultAddsUp, Lines, RemoveCustomer, Updated
<1> QED
  BY <1>1, <1>2, <1>3, <1>4, <1>5, <1>6, <1>7 DEF IInv

(* RenameCustomer keeps the invariant.                                        *)
LEMMA RenameCustomerKeeps ==
    ASSUME IInv, NEW i \in DOMAIN customers, NEW n \in Names, RenameCustomer(i, n)
    PROVE  IInv'
<1>1. TypeOK'
  <2>1. customers \in Seq(Customer) /\ customers[i] \in Customer
    BY DEF IInv, TypeOK
  <2>2. [name |-> n, email |-> customers[i].email, live |-> customers[i].live, line |-> customers[i].line,
         attempt |-> customers[i].attempt, edited |-> TRUE] \in Customer
    BY <2>1 DEF Customer
  <2>3. customers' \in Seq(Customer)
    BY <2>1, <2>2 DEF RenameCustomer, Updated
  <2>4. edits' \in 0 .. MaxEdits
    BY BoundsAssumption DEF IInv, TypeOK, RenameCustomer
  <2> QED
    BY <2>3, <2>4 DEF IInv, TypeOK, RenameCustomer
<1>2. Attempts'
  BY DEF IInv, TypeOK, Attempts, RenameCustomer, Updated
<1>3. Copied'
  BY DEF IInv, TypeOK, Copied, RenameCustomer, Updated
<1>4. Batched'
  BY DEF IInv, TypeOK, Batched, RenameCustomer, Updated
<1>5. NoLineImportedTwice'
  BY DEF IInv, TypeOK, NoLineImportedTwice, Live, RenameCustomer, Updated
<1>6. Counting'
  BY DEF IInv, TypeOK, Counting, OfAttempt, Blank, RenameCustomer, Updated
<1>7. ResultAddsUp'
  BY DEF IInv, TypeOK, ResultAddsUp, Lines, RenameCustomer, Updated
<1> QED
  BY <1>1, <1>2, <1>3, <1>4, <1>5, <1>6, <1>7 DEF IInv

(* The initial states satisfy the invariant.                                  *)
LEMMA Initially == Init => IInv
<1> SUFFICES ASSUME Init PROVE IInv
  OBVIOUS
<1>1. customers \in Seq(Customer) /\ before \in Nat /\ \A i \in DOMAIN customers : customers[i].line = 0
  <2>1. CASE customers = <<>> /\ before = Len(<<>>)
    BY <2>1
  <2>2. ASSUME NEW n \in OtherNames, NEW e \in Emails \cup {None},
               customers = <<[name |-> n, email |-> e, live |-> TRUE, line |-> 0, attempt |-> 0,
                             edited |-> FALSE]>>,
               before = Len(customers)
        PROVE  customers \in Seq(Customer) /\ before \in Nat /\ \A i \in DOMAIN customers : customers[i].line = 0
    <3> DEFINE c == [name |-> n, email |-> e, live |-> TRUE, line |-> 0, attempt |-> 0, edited |-> FALSE]
    <3>1. c \in Customer /\ c.line = 0
      BY BoundsAssumption, NamesAssumption DEF Customer
    <3> HIDE DEF c
    <3>2. customers = <<c>>
      BY <2>2 DEF c
    <3>3. <<c>> \in Seq(Customer) /\ Len(<<c>>) = 1 /\ DOMAIN <<c>> = 1 .. 1 /\ <<c>>[1] = c
      BY <3>1
    <3>4. before = Len(customers)
      BY <2>2
    <3>5. \A i \in 1 .. 1 : i = 1
      OBVIOUS
    <3> QED
      BY <3>1, <3>2, <3>3, <3>4, <3>5
  <2> QED
    BY <2>1, <2>2 DEF Init, Existing
<1>2. run \in Run /\ NoCounts \in Counts
  BY BoundsAssumption DEF Init, Run, Fresh, At, NoCounts, Counted, Counts
<1>3. TypeOK
  <2>1. job \in [status : {"none", "pending", "running", "completed", "failed"},
                 attempts : 0 .. MaxAttempts]
    BY BoundsAssumption DEF Init
  <2>2. driver \in {"mysql", "sqlite"} /\ file \in Files
    BY DEF Init
  <2>3. header \in BOOLEAN /\ stored \in BOOLEAN
    <3>1. header \in BOOLEAN
      BY Zenon DEF Init
    <3>2. stored = FALSE
      BY DEF Init
    <3> QED
      BY <3>1, <3>2
  <2>4. request \in {"store", "header", "dispatch", "done"}
    BY DEF Init
  <2>5. result \in Counts
    BY <1>2 DEF Init
  <2>6. edits \in 0 .. MaxEdits
    BY BoundsAssumption DEF Init
  <2> QED
    BY <1>1, <1>2, <2>1, <2>2, <2>3, <2>4, <2>5, <2>6, Zenon DEF TypeOK
<1>4. Attempts /\ Copied
  BY <1>1 DEF Init, Attempts, Copied, Fresh, At
<1>5. Batched
  BY DEF Init, Batched, Fresh, At
<1>6. NoLineImportedTwice
  BY <1>1 DEF NoLineImportedTwice, Live
<1>7. Counting /\ ResultAddsUp
  BY DEF Init, Counting, ResultAddsUp, Fresh, At
<1> QED
  BY <1>3, <1>4, <1>5, <1>6, <1>7 DEF IInv

(* Every step keeps it.                                                       *)
LEMMA Inductive == IInv /\ [Next]_vars => IInv'
<1> SUFFICES ASSUME IInv, [Next]_vars PROVE IInv'
  OBVIOUS
<1>1. CASE Import
  BY <1>1, StoreUploadKeeps, CheckHeaderKeeps, DispatchKeeps DEF Import
<1>2. CASE Work
  BY <1>2, ClaimKeeps, FailKeeps, CompleteKeeps, RecoverKeeps, CheckFileKeeps, ReadRowKeeps,
     EndOfFileKeeps, FlushKeeps, UnlinkKeeps DEF Work
<1>3. CASE Throw \/ Crash
  BY <1>3, ThrowKeeps, CrashKeeps
<1>4. ASSUME NEW n \in OtherNames, NEW e \in Emails \cup {None}, AddCustomer(n, e) PROVE IInv'
  BY <1>4, NamesAssumption, AddCustomerKeeps
<1>5. ASSUME NEW i \in DOMAIN customers, RemoveCustomer(i) PROVE IInv'
  BY <1>5, RemoveCustomerKeeps
<1>6. ASSUME NEW i \in DOMAIN customers, NEW n \in OtherNames, RenameCustomer(i, n) PROVE IInv'
  BY <1>6, NamesAssumption, RenameCustomerKeeps
<1>7. CASE UNCHANGED vars
  BY <1>7 DEF vars, IInv, TypeOK, Attempts, Copied, Batched, NoLineImportedTwice, Counting,
     ResultAddsUp, Live, Lines, OfAttempt, Blank
<1> QED
  BY <1>1, <1>2, <1>3, <1>4, <1>5, <1>6, <1>7 DEF Next, Finished

(* So it holds throughout.                                                    *)
LEMMA Always == Spec => []IInv
  BY Initially, Inductive, PTL DEF Spec

-------------------------------------------------------------------------------
(* The theorems. *)

(* The variables keep their types, for any file and any number of attempts.   *)
THEOREM TypeCorrect == Spec => []TypeOK
<1>1. IInv => TypeOK
  BY DEF IInv
<1> QED
  BY <1>1, Always, PTL

(* "Safe to run again": however many attempts die at whatever statement, and  *)
(* whatever other requests do to the customers, no row of the file is two     *)
(* live customers unless somebody renamed one of them.                        *)
THEOREM ImportedOnce == Spec => []NoLineImportedTwice
<1>1. IInv => NoLineImportedTwice
  BY DEF IInv
<1> QED
  BY <1>1, Always, PTL

(* The result of a completed job counts what its last attempt inserted, and   *)
(* every row of the file once.                                                *)
THEOREM ResultIsRight == Spec => []ResultAddsUp
<1>1. IInv => ResultAddsUp
  BY DEF IInv
<1> QED
  BY <1>1, Always, PTL

-------------------------------------------------------------------------------
(* What a single run accepts. *)

(* A set of rows has a last one: the set of the rows from it on is the        *)
(* smallest of all such sets.                                                 *)
LEMMA GreatestLine ==
    ASSUME NEW S \in SUBSET (1 .. MaxRows), S # {}
    PROVE  \E m \in S : \A k \in S : k <= m
<1> DEFINE From == {m .. MaxRows : m \in S}
<1>0. MaxRows \in Nat /\ S \in SUBSET Nat /\ \A m \in S : m <= MaxRows
  BY BoundsAssumption
<1>1. From \subseteq FiniteSubsetsOf(Nat) /\ From # {}
  <2>1. ASSUME NEW m \in S PROVE m .. MaxRows \in FiniteSubsetsOf(Nat)
    <3>1. m \in Int /\ MaxRows \in Int /\ m .. MaxRows \in SUBSET Nat
      BY <1>0
    <3>2. IsFiniteSet(m .. MaxRows)
      BY <3>1, FS_Interval
    <3> QED
      BY <3>1, <3>2 DEF FiniteSubsetsOf
  <2> QED
    BY <2>1
<1>2. PICK B \in From : \A A \in From : ~ (<<A, B>> \in StrictSubsetOrdering(Nat))
  BY <1>1, FS_StrictSubsetOrderingWellFounded, WFMin
<1>3. PICK m \in S : B = m .. MaxRows
  BY <1>2
<1>4. ASSUME NEW k \in S, k > m PROVE FALSE
  <2>1. k .. MaxRows \in SUBSET Nat /\ m .. MaxRows \in SUBSET Nat
    BY <1>0
  <2>2. k .. MaxRows \subseteq m .. MaxRows
    BY <1>0, <1>4
  <2>3. m \in m .. MaxRows /\ m \notin k .. MaxRows
    BY <1>0, <1>4
  <2>4. <<k .. MaxRows, m .. MaxRows>> \in StrictSubsetOrdering(Nat)
    BY <2>1, <2>2, <2>3 DEF StrictSubsetOrdering
  <2> QED
    BY <1>2, <1>3, <2>4
<1>5. \A k \in S : ~ (k > m)
  BY <1>4
<1>6. \A k \in S : k \in Nat /\ m \in Nat
  BY <1>0
<1>7. ASSUME NEW k \in S PROVE k <= m
  <2>1. k \in Nat /\ m \in Nat /\ ~ (k > m)
    BY <1>5, <1>6
  <2> QED
    BY <2>1
<1> QED
  BY <1>7

(* Whether a row keeps another one out depends on earlier rows alone.         *)
LEMMA LaterRowsDoNotMatter ==
    ASSUME NEW A \in SUBSET (1 .. MaxRows), NEW m \in 1 .. MaxRows,
           NEW k \in 1 .. MaxRows, NEW l \in 1 .. MaxRows, l <= m
    PROVE  KeepsOut(A \cup {m}, k, l) <=> KeepsOut(A, k, l)
<1> SUFFICES ASSUME k < l
             PROVE  KeepsOut(A \cup {m}, k, l) <=> KeepsOut(A, k, l)
  BY DEF KeepsOut
<1>1. ASSUME NEW n \in 1 .. MaxRows, n <= m
      PROVE  ChunksBefore(A \cup {m}, n) = ChunksBefore(A, n)
  <2>1. {i \in A \cup {m} : i < n} = {i \in A : i < n}
    BY <1>1, BoundsAssumption
  <2> QED
    BY <2>1 DEF ChunksBefore
<1>2. k <= m
  BY BoundsAssumption
<1>3. ChunksBefore(A \cup {m}, k) = ChunksBefore(A, k) /\ ChunksBefore(A \cup {m}, l) = ChunksBefore(A, l)
  BY <1>1, <1>2
<1> QED
  BY <1>3 DEF KeepsOut

(* A is what a single run accepts of the rows T. *)
Fits(T, A) == \A l \in T : l \in A <=> ~ \E k \in A : KeepsOut(A, k, l)

(* There is such a set for any rows. *)
LEMMA FittingExists ==
    ASSUME NEW S \in SUBSET (1 .. MaxRows)
    PROVE  \E A \in SUBSET S : Fits(S, A)
<1> DEFINE Bad == {T \in SUBSET (1 .. MaxRows) : ~ \E A \in SUBSET T : Fits(T, A)}
<1>1. Bad = {}
  <2> SUFFICES ASSUME Bad # {} PROVE FALSE
    OBVIOUS
  <2>1. Bad \subseteq FiniteSubsetsOf(1 .. MaxRows)
    <3>1. IsFiniteSet(1 .. MaxRows)
      BY BoundsAssumption, FS_Interval
    <3> QED
      BY <3>1, FS_Subset DEF FiniteSubsetsOf
  <2> HIDE DEF Bad
  <2>2. PICK T \in Bad : \A U \in Bad : ~ (<<U, T>> \in StrictSubsetOrdering(1 .. MaxRows))
    BY <2>1, FS_StrictSubsetOrderingWellFounded, WFMin
  <2> USE DEF Bad
  <2> T \in SUBSET (1 .. MaxRows)
    OBVIOUS
  <2>3. T # {}
    <3> SUFFICES ASSUME T = {} PROVE FALSE
      OBVIOUS
    <3>1. {} \in SUBSET T /\ Fits(T, {})
      BY DEF Fits
    <3> QED
      BY <3>1
  <2>4. PICK m \in T : \A k \in T : k <= m
    BY <2>3, GreatestLine
  <2> DEFINE U == T \ {m}
  <2>5. U \in SUBSET (1 .. MaxRows) /\ U \notin Bad
    <3>1. <<U, T>> \in StrictSubsetOrdering(1 .. MaxRows)
      BY <2>4 DEF StrictSubsetOrdering
    <3> QED
      BY <2>2, <3>1
  <2>6. PICK A \in SUBSET U : Fits(U, A)
    BY <2>5
  <2>7. \A B, l : KeepsOut(B, m, l) => m < l
    BY DEF KeepsOut
  <2>8. \A l \in T : ~ (m < l)
    BY <2>4, BoundsAssumption
  <2>9. CASE \E k \in A : KeepsOut(A, k, m)
    <3>1. Fits(T, A)
      BY <2>6, <2>9 DEF Fits
    <3> QED
      BY <3>1
  <2>10. CASE ~ \E k \in A : KeepsOut(A, k, m)
    <3>1. \A k \in A : \A l \in T : KeepsOut(A \cup {m}, k, l) <=> KeepsOut(A, k, l)
      BY <2>4, LaterRowsDoNotMatter
    <3>2. ASSUME NEW l \in T
          PROVE  l \in A \cup {m} <=> ~ \E k \in A \cup {m} : KeepsOut(A \cup {m}, k, l)
      BY <2>6, <2>7, <2>8, <2>10, <3>1 DEF Fits
    <3>3. A \cup {m} \in SUBSET T
      BY <2>4
    <3> QED
      BY <3>2, <3>3 DEF Fits
  <2> QED
    BY <2>9, <2>10
<1> QED
  BY <1>1

(* A candidate is acceptable unless an earlier acceptable row keeps it out.   *)
LEMMA AcceptableIs ==
    /\ Candidates \subseteq 1 .. MaxRows /\ Acceptable \subseteq Candidates
    /\ \A l \in Candidates :
          l \in Acceptable <=> ~ \E k \in Acceptable : KeepsOut(Acceptable, k, l)
<1>1. Candidates \in SUBSET (1 .. MaxRows)
  BY DEF Candidates, Lines
<1>2. \E A \in SUBSET Candidates : \A l \in Candidates :
         l \in A <=> ~ \E k \in A : KeepsOut(A, k, l)
  BY <1>1, FittingExists DEF Fits
<1> QED
  BY <1>1, <1>2 DEF Acceptable

(* It stays the same while the customers from before do. *)
LEMMA SameAcceptable ==
    ASSUME UNCHANGED <<driver, file, before>>, \A i \in 1 .. before : customers'[i] = customers[i]
    PROVE  Acceptable' = Acceptable
<1>1. ASSUME NEW l \in Lines PROVE ExistedBefore(file[l])' <=> ExistedBefore(file[l])
  BY DEF ExistedBefore, SameName
<1>2. Candidates' = Candidates
  BY <1>1 DEF Candidates, Lines
<1> QED
  BY <1>2 DEF Acceptable, KeepsOut, DuplicateInFile, SameName, ChunksBefore

(* A row is a duplicate when one accepted row makes it one. *)
LEMMA DuplicateOfOne ==
    ASSUME NEW row, NEW A
    PROVE  DuplicateInFile(row, A) <=> \E k \in A : DuplicateInFile(row, {k})
  BY DEF DuplicateInFile

-------------------------------------------------------------------------------
(* Retries. *)

(* An attempt on its way, as far as RetriesAddUp follows it. *)
Reading == /\ RInv /\ edits = 0 /\ run.pc = "read" /\ run.pos < MaxRows
           /\ ~ NameTwice

(* What is known of such an attempt. *)
LEMMA WhileReading ==
    ASSUME Reading
    PROVE  /\ run.pos \in Nat /\ run.pos + 1 \in 1 .. MaxRows /\ MaxRows \in Nat
           /\ Acceptable \subseteq 1 .. MaxRows
           /\ ImportedLines \subseteq Acceptable
           /\ run.accepted \subseteq Acceptable /\ run.accepted \subseteq 1 .. run.pos
           /\ Batch \subseteq run.accepted
           /\ \A l \in Acceptable : l <= run.pos => l \in ImportedLines \cup Batch
           /\ \A l \in ImportedLines : \A k \in Acceptable : k < l => k \in ImportedLines
           /\ ImportedLines = Acceptable \/ Cardinality(ImportedLines) % CHUNK_SIZE = 0
           /\ job.attempts = 1 => ImportedLines \subseteq run.accepted
           /\ Cardinality(Batch) < CHUNK_SIZE
<1>1. ~ OneNameTwice(ImportedLines)
  BY DEF Reading, NameTwice, OneNameTwice
<1>2. /\ run.pos \in Nat /\ run.pos + 1 \in 1 .. MaxRows /\ MaxRows \in Nat
      /\ Acceptable \subseteq 1 .. MaxRows
  BY AcceptableIs, BoundsAssumption DEF Reading, RInv, IInv, TypeOK, Run
<1>3. run.accepted \subseteq 1 .. run.pos /\ Batch \subseteq run.accepted
  BY DEF Reading, RInv, IInv, Batched, Batch
<1> QED
  BY <1>1, <1>2, <1>3 DEF Reading, RInv, RetriesAddUp, Converging, Chunked

(* What is inserted is finite, and not in the batch. *)
LEMMA BatchIsNew ==
    ASSUME Reading
    PROVE  /\ IsFiniteSet(ImportedLines) /\ Cardinality(ImportedLines) \in Nat
           /\ IsFiniteSet(Batch) /\ Cardinality(Batch) \in Nat
           /\ ImportedLines \cap Batch = {}
<1>1. ImportedLines \in SUBSET (1 .. MaxRows) /\ Batch \in SUBSET (1 .. MaxRows)
  BY WhileReading
<1>2. IsFiniteSet(1 .. MaxRows)
  BY WhileReading, FS_Interval
<1>3. ASSUME NEW k \in 1 .. Len(run.batch), NEW i \in DOMAIN customers
      PROVE  customers[i].line # run.batch[k]
  BY DEF Reading, RInv, IInv, Untouched, Batched
<1>4. ImportedLines \cap Batch = {}
  BY <1>3 DEF ImportedLines, Batch
<1> QED
  BY <1>1, <1>2, <1>4, FS_Subset, FS_CardinalityType

(* Every imported row is a customer, unchanged. *)
LEMMA ImportedRow ==
    ASSUME Reading, NEW k \in ImportedLines
    PROVE  \E i \in DOMAIN customers :
              /\ customers[i].live /\ customers[i].line = k
              /\ customers[i].name = file[k].name /\ customers[i].email = file[k].email
<1>1. PICK i \in DOMAIN customers : customers[i].line = k /\ k # 0
  BY DEF ImportedLines
<1>2. customers[i].live /\ ~ customers[i].edited
  BY DEF Reading, RInv, Untouched
<1>3. customers[i].name = file[k].name /\ customers[i].email = file[k].email
  BY <1>1, <1>2 DEF Reading, RInv, IInv, Copied
<1> QED
  BY <1>1, <1>2, <1>3

(* The row about to be read is behind the inserted rows and the batch. *)
AtTheEnd == \A l \in ImportedLines : l <= run.pos

(* So the chunks before it are the inserted ones. *)
LEMMA Place ==
    ASSUME Reading, AtTheEnd
    PROVE  /\ {l \in Acceptable : l < run.pos + 1} = ImportedLines \cup Batch
           /\ Cardinality({l \in Acceptable : l < run.pos + 1})
                 = Cardinality(ImportedLines) + Cardinality(Batch)
<1>1. ASSUME NEW l \in Acceptable PROVE l < run.pos + 1 <=> l <= run.pos
  BY WhileReading
<1>2. Batch \subseteq Acceptable /\ \A l \in Batch : l <= run.pos
  BY WhileReading
<1>3. {l \in Acceptable : l < run.pos + 1} = ImportedLines \cup Batch
  BY <1>1, <1>2, WhileReading DEF AtTheEnd
<1>4. Cardinality(ImportedLines \cup Batch)
         = Cardinality(ImportedLines) + Cardinality(Batch) - Cardinality(ImportedLines \cap Batch)
  BY BatchIsNew, FS_Union
<1>5. Cardinality(ImportedLines \cap Batch) = 0
  BY BatchIsNew, FS_EmptySet
<1>6. PICK a \in Nat : a = Cardinality(ImportedLines)
  BY BatchIsNew
<1>7. PICK b \in Nat : b = Cardinality(Batch)
  BY BatchIsNew
<1>8. Cardinality(ImportedLines \cup Batch) = a + b
  BY <1>4, <1>5, <1>6, <1>7
<1> QED
  BY <1>3, <1>6, <1>7, <1>8

(* The chunk of an inserted row is inserted before it. *)
LEMMA InsertedChunk ==
    ASSUME Reading, AtTheEnd, Cardinality(ImportedLines) % CHUNK_SIZE = 0, NEW k \in ImportedLines
    PROVE  ChunksBefore(Acceptable, k) < ChunksBefore(Acceptable, run.pos + 1)
<1> DEFINE Before == {l \in Acceptable : l < k}
<1>1. Before \in SUBSET (ImportedLines \ {k})
  <2>1. ~ (k < k)
    BY WhileReading
  <2> QED
    BY <2>1, WhileReading
<1> HIDE DEF Before
<1>2. IsFiniteSet(ImportedLines \ {k}) /\ Cardinality(ImportedLines \ {k}) = Cardinality(ImportedLines) - 1
  BY BatchIsNew, FS_RemoveElement
<1>3. /\ IsFiniteSet(Before) /\ Cardinality(Before) \in Nat
      /\ Cardinality(Before) <= Cardinality(ImportedLines \ {k})
  BY <1>1, <1>2, FS_Subset, FS_CardinalityType
<1>4. PICK n \in Nat : n = Cardinality(ImportedLines)
  BY BatchIsNew
<1>5. PICK b \in Nat : b = Cardinality(Batch)
  BY BatchIsNew
<1>6. PICK a \in Nat : a = Cardinality(Before)
  BY <1>3
<1>7. a < n /\ n % CHUNK_SIZE = 0
  BY <1>2, <1>3, <1>4, <1>6
<1>8. a \div CHUNK_SIZE < (n + b) \div CHUNK_SIZE
  BY <1>7, ChunkAssumption, GreaterQuotient
<1>9. Cardinality({l \in Acceptable : l < run.pos + 1}) = n + b
  BY <1>4, <1>5, Place
<1> QED
  BY <1>6, <1>8, <1>9 DEF ChunksBefore, Before

(* A row of the batch is in the chunk of the row about to be read. *)
LEMMA OpenChunk ==
    ASSUME Reading, AtTheEnd, Cardinality(ImportedLines) % CHUNK_SIZE = 0, NEW k \in Batch
    PROVE  ~ (ChunksBefore(Acceptable, k) < ChunksBefore(Acceptable, run.pos + 1))
<1> DEFINE Before == {l \in Acceptable : l < k}
           All    == {l \in Acceptable : l < run.pos + 1}
<1>1. k \in Acceptable /\ k \notin ImportedLines /\ k <= run.pos /\ k \in Nat
  BY WhileReading, BatchIsNew
<1>2. ImportedLines \subseteq Before
  <2>1. ASSUME NEW l \in ImportedLines PROVE l < k
    <3>1. ~ (k < l) /\ k # l
      BY <1>1, WhileReading
    <3>2. l \in Nat
      BY WhileReading
    <3> QED
      BY <1>1, <3>1, <3>2
  <2> QED
    BY <2>1, WhileReading
<1>3. Before \subseteq All
  <2>1. ASSUME NEW l \in Acceptable, l < k PROVE l < run.pos + 1
    <3>1. l \in Nat /\ k \in Nat /\ run.pos \in Nat /\ k <= run.pos
      BY <1>1, WhileReading
    <3> QED
      BY <2>1, <3>1
  <2> QED
    BY <2>1
<1>4. All = ImportedLines \cup Batch /\ Cardinality(All) = Cardinality(ImportedLines) + Cardinality(Batch)
  BY Place
<1>5. IsFiniteSet(ImportedLines \cup Batch)
  BY BatchIsNew, FS_Union
<1>6. IsFiniteSet(All)
  BY <1>4, <1>5
<1> HIDE DEF Before, All
<1>7. IsFiniteSet(Before) /\ Cardinality(Before) <= Cardinality(All)
  BY <1>3, <1>6, FS_Subset
<1>8. Cardinality(ImportedLines) <= Cardinality(Before) /\ Cardinality(Before) \in Nat
  BY <1>2, <1>7, FS_Subset, FS_CardinalityType
<1>9. PICK n \in Nat : n = Cardinality(ImportedLines)
  BY BatchIsNew
<1>10. PICK b \in Nat : b = Cardinality(Batch)
  BY BatchIsNew
<1>11. PICK a \in Nat : a = Cardinality(Before)
  BY <1>8
<1>12. b < CHUNK_SIZE
  BY <1>10, WhileReading
<1>13. n <= a /\ a <= n + b /\ n % CHUNK_SIZE = 0
  BY <1>4, <1>7, <1>8, <1>9, <1>10, <1>11
<1>14. ~ (a \div CHUNK_SIZE < (n + b) \div CHUNK_SIZE)
  BY <1>12, <1>13, ChunkAssumption, SameQuotient
<1>15. Cardinality(All) = n + b
  BY <1>4, <1>9, <1>10
<1> QED
  BY <1>11, <1>14, <1>15 DEF ChunksBefore, Before, All

(* A row the attempt passes over is inserted already, or not acceptable. *)
LEMMA PassedIsImported ==
    ASSUME Reading,
           \/ Row.kind # "data"
           \/ DuplicateInFile(Row, run.accepted)
           \/ Exists(Row),
           run.pos + 1 \in Acceptable
    PROVE  run.pos + 1 \in ImportedLines
<1> DEFINE r == run.pos + 1
<1> SUFFICES ASSUME r \notin ImportedLines PROVE FALSE
  OBVIOUS
<1>0. run.pos \in Nat /\ r \in Nat /\ MaxRows \in Nat
  BY WhileReading
<1>1. r \in Candidates /\ ~ \E k \in Acceptable : KeepsOut(Acceptable, k, r)
  BY AcceptableIs
<1>2. Row.kind = "data" /\ ~ ExistedBefore(Row)
  BY <1>1 DEF Candidates, Row
<1>3. \A k \in Acceptable : k < r => ~ DuplicateInFile(Row, {k})
  BY <1>1 DEF KeepsOut, Row
<1>4. AtTheEnd
  <2>1. ASSUME NEW l \in ImportedLines PROVE l <= run.pos
    <3>1. ~ (r < l) /\ r # l /\ l \in Nat
      BY WhileReading
    <3> QED
      BY <1>0, <3>1
  <2> QED
    BY <2>1 DEF AtTheEnd
<1>5. CASE DuplicateInFile(Row, run.accepted)
  <2>1. PICK k \in run.accepted : DuplicateInFile(Row, {k})
    BY <1>5, DuplicateOfOne
  <2>2. k \in Acceptable /\ k \in 1 .. run.pos
    BY WhileReading
  <2>3. k < r
    BY <1>0, <2>2
  <2> QED
    BY <1>3, <2>1, <2>2, <2>3
<1>6. CASE Exists(Row)
  <2>1. PICK i \in DOMAIN customers :
           \/ SameName(customers[i].name, Row.name)
           \/ Row.email # None /\ customers[i].email = Row.email
    BY <1>6 DEF Exists
  <2>2. /\ i \in 1 .. Len(customers) /\ before \in 0 .. Len(customers) /\ Len(customers) \in Nat
    BY DEF Reading, RInv, IInv, TypeOK, Untouched
  <2>3. ~ (i <= before)
    <3>1. ASSUME i <= before PROVE i \in 1 .. before
      BY <2>2, <3>1
    <3> QED
      BY <1>2, <2>1, <3>1 DEF ExistedBefore
  <2>4. customers[i].line # 0 /\ ~ customers[i].edited
    BY <2>3 DEF Reading, RInv, Untouched
  <2> DEFINE k == customers[i].line
  <2>5. k \in ImportedLines
    BY <2>4 DEF ImportedLines
  <2>6. customers[i].name = file[k].name /\ customers[i].email = file[k].email
    BY <2>4 DEF Reading, RInv, IInv, Copied
  <2> HIDE DEF k
  <2>7. k \in Acceptable /\ k <= run.pos /\ k \in Nat
    BY <1>4, <2>5, WhileReading DEF AtTheEnd
  <2>8. k < r
    BY <1>0, <2>7
  <2>9. SameName(file[k].name, file[r].name)
    <3>1. ~ DuplicateInFile(Row, {k})
      BY <1>3, <2>7, <2>8
    <3>2. ~ (Row.email # None /\ file[k].email = Row.email)
      BY <3>1 DEF DuplicateInFile
    <3> QED
      BY <2>1, <2>6, <3>2 DEF Row
  <2>10. Cardinality(ImportedLines) % CHUNK_SIZE = 0
    BY WhileReading
  <2>11. ChunksBefore(Acceptable, k) < ChunksBefore(Acceptable, r)
    BY <1>4, <2>5, <2>10, InsertedChunk
  <2>12. KeepsOut(Acceptable, k, r)
    BY <2>8, <2>9, <2>11 DEF KeepsOut
  <2> QED
    BY <1>1, <2>7, <2>12
<1> QED
  BY <1>2, <1>5, <1>6

(* A row the attempt accepts is acceptable, or its name inserted already. *)
LEMMA AcceptedIsAcceptable ==
    ASSUME Reading, Row.kind = "data", ~ DuplicateInFile(Row, run.accepted), ~ Exists(Row),
           ~ OneNameTwice(ImportedLines \cup Batch \cup {run.pos + 1})
    PROVE  run.pos + 1 \in Acceptable
<1> DEFINE r == run.pos + 1
<1>0. run.pos \in Nat /\ r \in 1 .. MaxRows /\ MaxRows \in Nat
  BY WhileReading
<1>1. /\ DOMAIN customers = 1 .. Len(customers) /\ before \in 0 .. Len(customers)
      /\ Len(customers) \in Nat /\ \A i \in DOMAIN customers : customers[i].live
  BY DEF Reading, RInv, IInv, TypeOK, Untouched
<1>2. ~ ExistedBefore(Row)
  <2>1. \A i \in 1 .. before : i \in DOMAIN customers /\ customers[i].live
    BY <1>1
  <2> QED
    BY <2>1 DEF ExistedBefore, Exists
<1>3. r \in Candidates
  BY <1>0, <1>2 DEF Candidates, Lines, Row
<1>4. ASSUME NEW k \in ImportedLines
      PROVE  ~ SameName(file[k].name, Row.name) /\ ~ (Row.email # None /\ file[k].email = Row.email)
  <2>1. PICK i \in DOMAIN customers :
           /\ customers[i].live /\ customers[i].line = k
           /\ customers[i].name = file[k].name /\ customers[i].email = file[k].email
    BY ImportedRow
  <2> QED
    BY <2>1 DEF Exists
<1>5. r \notin ImportedLines
  BY <1>4 DEF SameName, Row
<1>6. ASSUME NEW k \in Acceptable, KeepsOut(Acceptable, k, r) PROVE FALSE
  <2>1. k < r /\ k \in Nat
    BY <1>6, WhileReading DEF KeepsOut
  <2>2. k <= run.pos
    BY <1>0, <2>1
  <2>3. CASE k \in ImportedLines
    <3>1. ~ SameName(file[k].name, file[r].name)
      BY <1>4, <2>3 DEF Row
    <3>2. DuplicateInFile(Row, {k})
      BY <1>6, <3>1 DEF KeepsOut, Row
    <3>3. Lower(file[k].name) = Lower(file[r].name)
      BY <1>4, <2>3, <3>2 DEF DuplicateInFile, Row
    <3>4. k # r
      BY <1>5, <2>3
    <3> QED
      BY <2>3, <3>3, <3>4 DEF NameTwice, OneNameTwice
  <2>4. CASE k \in Batch
    <3>1. ~ DuplicateInFile(Row, {k})
      <4>1. k \in run.accepted
        BY <2>4, WhileReading
      <4> QED
        BY <4>1, DuplicateOfOne
    <3>2. ChunksBefore(Acceptable, k) < ChunksBefore(Acceptable, r)
      BY <1>6, <3>1 DEF KeepsOut, Row
    <3>3. k \notin ImportedLines
      BY <2>4, BatchIsNew
    <3>4. AtTheEnd
      <4>1. ASSUME NEW l \in ImportedLines PROVE l <= run.pos
        <5>1. ~ (k < l) /\ l \in Nat
          BY <3>3, WhileReading
        <5> QED
          BY <1>0, <2>1, <2>2, <5>1
      <4> QED
        BY <4>1 DEF AtTheEnd
    <3>5. Cardinality(ImportedLines) % CHUNK_SIZE = 0
      BY <3>3, WhileReading
    <3> QED
      BY <2>4, <3>2, <3>4, <3>5, OpenChunk
  <2> QED
    BY <2>2, <2>3, <2>4, WhileReading
<1> QED
  BY <1>3, <1>6, AcceptableIs

(* Only a retry on SQLite accepts a name in a second case. *)
LEMMA AcceptedNameIsNew ==
    ASSUME Reading, ~ DuplicateInFile(Row, run.accepted), ~ Exists(Row),
           OneNameTwice(ImportedLines \cup Batch \cup {run.pos + 1})
    PROVE  driver = "sqlite" /\ job.attempts > 1
<1> DEFINE r == run.pos + 1
<1>1. PICK k \in ImportedLines \cup Batch : Lower(file[k].name) = Lower(Row.name)
  BY DEF NameTwice, OneNameTwice, Reading, Row
<1>2. k \notin run.accepted
  BY <1>1 DEF DuplicateInFile
<1>3. k \in ImportedLines
  BY <1>2, WhileReading
<1>4. PICK i \in DOMAIN customers : customers[i].live /\ customers[i].name = file[k].name
  BY <1>3, ImportedRow
<1>5. driver # "mysql"
  <2>1. ~ SameName(file[k].name, Row.name)
    BY <1>4 DEF Exists
  <2> QED
    BY <1>1, <2>1 DEF SameName, Lower
<1>6. job.attempts # 1
  BY <1>2, <1>3, WhileReading
<1>7. job.attempts # 0 /\ job.attempts \in Nat
  BY BoundsAssumption DEF Reading, RInv, IInv, TypeOK, Attempts
<1>8. driver \in {"mysql", "sqlite"}
  BY DEF Reading, RInv, IInv, TypeOK
<1> QED
  BY <1>5, <1>6, <1>7, <1>8

(* Steps that neither read a row nor insert any. *)
LEMMA OtherStepsConverge ==
    ASSUME RInv,
           \/ Import \/ Claim \/ Fail \/ Complete \/ Recover \/ CheckFile \/ EndOfFile \/ Unlink
           \/ Throw \/ Crash \/ UNCHANGED vars
    PROVE  Untouched' /\ Chunked' /\ RetriesAddUp' /\ Converging'
<1>0. UNCHANGED <<driver, file, before, customers, edits>>
  BY DEF Import, StoreUpload, CheckHeader, Dispatch, Claim, Fail, Complete, Recover, CheckFile,
     EndOfFile, Unlink, Throw, Crash, vars
<1>1. /\ Acceptable' = Acceptable /\ ImportedLines' = ImportedLines
      /\ OneNameTwice(ImportedLines)' <=> OneNameTwice(ImportedLines)
  BY <1>0, SameAcceptable DEF ImportedLines, NameTwice, OneNameTwice
<1>2. Untouched'
  BY <1>0 DEF RInv, Untouched
<1>3. Chunked'
  <2>1. CASE Claim \/ Fail \/ Complete \/ Crash
    <3>1. run'.batch = <<>> /\ run'.pc \in {"check", "off"}
      BY <2>1 DEF Claim, Fail, Complete, Crash, Fresh, At
    <3>2. Batch' = {} /\ Len(run'.batch) = 0
      BY <3>1 DEF Batch
    <3> QED
      BY <3>1, <3>2, FS_EmptySet DEF Chunked
  <2>2. CASE CheckFile
    <3>1. run'.batch = run.batch /\ run.pc = "check" /\ run'.pc \in {"read", "throw"}
      BY <2>2 DEF CheckFile, Step, At
    <3>2. Batch' = Batch /\ Len(run.batch) = 0
      BY <3>1 DEF Batch, RInv, Chunked
    <3> QED
      BY <3>1, <3>2, ChunkAssumption DEF RInv, Chunked
  <2>3. CASE EndOfFile
    <3>1. /\ run'.batch = run.batch /\ run'.pos = run.pos /\ run.pos = MaxRows
          /\ run'.pc \in {"unlink", "flush"}
      BY <2>3 DEF EndOfFile, Step, At
    <3>2. Batch' = Batch
      BY <3>1 DEF Batch
    <3> QED
      BY <3>1, <3>2 DEF RInv, Chunked
  <2>4. CASE Unlink \/ Throw
    <3>1. run'.batch = run.batch /\ run'.pc \in {"complete", "throw"}
      BY <2>4 DEF Unlink, Throw, Step, At
    <3>2. Batch' = Batch
      BY <3>1 DEF Batch
    <3> QED
      BY <3>1, <3>2 DEF RInv, Chunked
  <2>5. CASE Import \/ Recover \/ UNCHANGED vars
    <3>1. run' = run
      BY <2>5 DEF Import, StoreUpload, CheckHeader, Dispatch, Recover, vars
    <3> QED
      BY <3>1 DEF RInv, Chunked, Batch
  <2> QED
    BY <2>1, <2>2, <2>3, <2>4, <2>5
<1>4. job'.attempts >= job.attempts
  <2>1. job'.attempts = job.attempts \/ job'.attempts = job.attempts + 1
    BY DEF RInv, IInv, Attempts, Import, StoreUpload, CheckHeader, Dispatch, Claim, Fail,
       Complete, Recover, Retried, CheckFile, EndOfFile, Unlink, Throw, Crash, vars
  <2>2. job.attempts \in Nat
    BY BoundsAssumption DEF RInv, IInv, TypeOK
  <2> QED
    BY <2>1, <2>2
<1>5. job.attempts \in Nat /\ job'.attempts \in Nat
  <2>1. TypeOK'
    BY Inductive DEF RInv, IInv, Next, Work
  <2> QED
    BY <2>1, BoundsAssumption DEF RInv, IInv, TypeOK
<1>6. job.attempts > 1 => job'.attempts > 1
  BY <1>4, <1>5
<1>7. RetriesAddUp'
  <2>1. CASE Complete
    <3>1. /\ run.pos = MaxRows /\ run.batch = <<>> /\ run.pc = "complete"
      BY <2>1 DEF Complete, RInv, IInv, Counting
    <3>2. Batch = {} /\ ImportedLines \cup Batch = ImportedLines
      BY <3>1 DEF Batch
    <3>3. edits = 0 /\ ~ OneNameTwice(ImportedLines) => Acceptable \subseteq ImportedLines
      <4>1. \A l \in Acceptable : l <= run.pos
        <5>1. Acceptable \subseteq 1 .. MaxRows
          BY AcceptableIs
        <5>2. \A l \in 1 .. MaxRows : l <= MaxRows
          BY BoundsAssumption
        <5> QED
          BY <3>1, <5>1, <5>2
      <4>2. NameTwice <=> OneNameTwice(ImportedLines)
        BY <3>2 DEF NameTwice
      <4> QED
        BY <3>1, <3>2, <4>1, <4>2 DEF RInv, Converging
    <3>4. edits = 0 /\ ~ OneNameTwice(ImportedLines) => ImportedLines \subseteq Acceptable
      BY DEF RInv, RetriesAddUp
    <3> QED
      BY <1>0, <1>1, <1>6, <3>3, <3>4 DEF RInv, RetriesAddUp
  <2>2. CASE ~ Complete
    <3>1. job'.status = "completed" => job.status = "completed"
      BY <2>2 DEF Import, StoreUpload, CheckHeader, Dispatch, Claim, Fail, Recover, Retried,
         CheckFile, EndOfFile, Unlink, Throw, Crash, vars
    <3> QED
      BY <1>0, <1>1, <1>6, <3>1 DEF RInv, RetriesAddUp
  <2> QED
    BY <2>1, <2>2
<1>8. Converging'
  <2>1. CASE Claim
    <3>1. run'.accepted = {} /\ run'.pos = 0 /\ run'.batch = <<>>
      BY <2>1 DEF Claim, Fresh, At
    <3>2. Batch' = {} /\ ImportedLines' \cup Batch' = ImportedLines
      BY <1>1, <3>1 DEF Batch
    <3>3. \A l \in Acceptable : ~ (l <= 0)
      BY AcceptableIs, BoundsAssumption
    <3>4. job'.attempts = 1 => ImportedLines = {}
      <4>1. job'.attempts = job.attempts + 1
        BY <2>1 DEF Claim
      <4>2. job.attempts = 0 => \A i \in DOMAIN customers : customers[i].line = 0
        BY DEF RInv, IInv, Attempts
      <4> QED
        BY <1>5, <4>1, <4>2 DEF ImportedLines
    <3>5. NameTwice' <=> OneNameTwice(ImportedLines)
      BY <1>0, <3>2 DEF NameTwice, OneNameTwice
    <3> QED
      BY <1>0, <1>1, <1>6, <3>1, <3>3, <3>4, <3>5 DEF RInv, RetriesAddUp, Converging
  <2>2. CASE Fail \/ Complete \/ Crash
    <3>1. run'.pc = "off"
      BY <2>2 DEF Fail, Complete, Crash, Fresh, At
    <3> QED
      BY <3>1 DEF Converging
  <2>3. CASE CheckFile \/ EndOfFile \/ Unlink \/ Throw
    <3>1. /\ run.pc # "off" /\ job' = job
          /\ run'.accepted = run.accepted /\ run'.pos = run.pos /\ run'.batch = run.batch
      BY <2>3 DEF CheckFile, EndOfFile, Unlink, Throw, Step, At
    <3>2. Batch' = Batch /\ (NameTwice' <=> NameTwice)
      BY <1>0, <1>1, <3>1 DEF Batch, NameTwice, OneNameTwice
    <3> QED
      BY <1>0, <1>1, <3>1, <3>2 DEF RInv, Converging
  <2>4. CASE Recover \/ Dispatch
    <3>1. run'.pc = "off"
      BY <2>4 DEF Recover, Dispatch, RInv, IInv, Attempts
    <3> QED
      BY <3>1 DEF Converging
  <2>5. CASE StoreUpload \/ CheckHeader \/ UNCHANGED vars
    <3>1. run' = run /\ job' = job
      BY <2>5 DEF StoreUpload, CheckHeader, vars
    <3>2. Batch' = Batch /\ (NameTwice' <=> NameTwice)
      BY <1>0, <1>1, <3>1 DEF Batch, NameTwice, OneNameTwice
    <3> QED
      BY <1>0, <1>1, <3>1, <3>2 DEF RInv, Converging
  <2> QED
    BY <2>1, <2>2, <2>3, <2>4, <2>5 DEF Import
<1> QED
  BY <1>2, <1>3, <1>7, <1>8

(* An accepted row joins the batch. *)
LEMMA AcceptedRow ==
    ASSUME RInv, ReadRow, Accept
    PROVE  /\ run'.pos = run.pos + 1 /\ run'.accepted = run.accepted \cup {run.pos + 1}
           /\ Batch' = Batch \cup {run.pos + 1}
           /\ Len(run'.batch) = Len(run.batch) + 1
           /\ run'.pc = AfterAccept
<1>1. run.batch \in Seq(1 .. MaxRows)
  BY DEF RInv, IInv, TypeOK, Run
<1>2. /\ run'.accepted = run.accepted \cup {run.pos + 1} /\ run'.pos = run.pos + 1
      /\ run'.batch = Append(run.batch, run.pos + 1) /\ run'.pc = AfterAccept
  BY DEF Accept, At
<1>3. /\ Len(run'.batch) = Len(run.batch) + 1 /\ run'.batch[Len(run.batch) + 1] = run.pos + 1
      /\ \A k \in 1 .. Len(run.batch) : run'.batch[k] = run.batch[k]
      /\ Len(run.batch) \in Nat
  BY <1>1, <1>2
<1>4. \A k \in 1 .. Len(run.batch) + 1 : k \in 1 .. Len(run.batch) \/ k = Len(run.batch) + 1
  BY <1>3
<1>5. Len(run.batch) + 1 \in 1 .. Len(run.batch) + 1 /\ 1 .. Len(run.batch) \subseteq 1 .. Len(run.batch) + 1
  BY <1>3
<1>6. Batch' = Batch \cup {run.pos + 1}
  BY <1>3, <1>4, <1>5 DEF Batch
<1> QED
  BY <1>2, <1>3, <1>6

(* The batch never holds more than a chunk. *)
LEMMA ReadRowChunks ==
    ASSUME RInv, ReadRow
    PROVE  Chunked'
<1>1. /\ run.batch \in Seq(1 .. MaxRows) /\ Len(run.batch) \in Nat /\ Len(run.batch) < CHUNK_SIZE
      /\ Cardinality(Batch) = Len(run.batch) /\ run.pos \in Nat
      /\ run.pc = "read" /\ CHUNK_SIZE \in Nat
  BY ChunkAssumption DEF RInv, IInv, TypeOK, Run, Chunked, ReadRow
<1>2. CASE Accept
  <2>1. run.pos + 1 \notin Batch /\ Batch \in SUBSET (1 .. run.pos)
    <3>1. Batch \in SUBSET (1 .. run.pos)
      BY DEF RInv, IInv, Batched, Batch
    <3> QED
      BY <1>1, <3>1
  <2>2. IsFiniteSet(Batch)
    <3>1. IsFiniteSet(1 .. MaxRows)
      BY BoundsAssumption, FS_Interval
    <3>2. \A k \in 1 .. Len(run.batch) : run.batch[k] \in 1 .. MaxRows
      BY <1>1, ElementOf
    <3>3. Batch \in SUBSET (1 .. MaxRows)
      BY <3>2 DEF Batch
    <3> QED
      BY <3>1, <3>3, FS_Subset
  <2>3. Cardinality(Batch \cup {run.pos + 1}) = Cardinality(Batch) + 1
    BY <2>1, <2>2, FS_AddElement
  <2>4. /\ Batch' = Batch \cup {run.pos + 1} /\ Len(run'.batch) = Len(run.batch) + 1
        /\ run'.pc = AfterAccept
    BY <1>2, AcceptedRow
  <2>5. Cardinality(Batch') = Len(run'.batch)
    BY <1>1, <2>3, <2>4
  <2>6. /\ run'.pc \in {"flush", "read"}
        /\ run'.pc = "flush" => Len(run.batch) + 1 >= CHUNK_SIZE
        /\ run'.pc = "read" => ~ (Len(run.batch) + 1 >= CHUNK_SIZE)
    BY <2>4 DEF AfterAccept
  <2> QED
    BY <1>1, <2>4, <2>5, <2>6 DEF Chunked
<1>3. CASE \E counts \in {run'.counts} : Pass(counts)
  <2>1. run'.batch = run.batch /\ run'.pc = "read"
    BY <1>3 DEF Pass, At
  <2>2. Batch' = Batch
    BY <2>1 DEF Batch
  <2> QED
    BY <1>1, <2>1, <2>2 DEF Chunked
<1> QED
  BY <1>2, <1>3 DEF ReadRow, Pass, At

(* Reading a row: one passed over needs no customer, one accepted is acceptable. *)
LEMMA ReadRowConverges ==
    ASSUME RInv, ReadRow
    PROVE  Untouched' /\ Chunked' /\ RetriesAddUp' /\ Converging'
<1>0. UNCHANGED <<driver, file, before, customers, edits, job>> /\ run.pc = "read" /\ run.pos < MaxRows
  BY DEF ReadRow
<1>1. /\ Acceptable' = Acceptable /\ ImportedLines' = ImportedLines
      /\ OneNameTwice(ImportedLines)' <=> OneNameTwice(ImportedLines)
  BY <1>0, SameAcceptable DEF ImportedLines, NameTwice, OneNameTwice
<1>2. Untouched' /\ RetriesAddUp'
  BY <1>0, <1>1 DEF RInv, Untouched, RetriesAddUp
<1>3. run.pos \in Nat /\ Acceptable \subseteq 1 .. MaxRows /\ MaxRows \in Nat
  BY AcceptableIs, BoundsAssumption DEF RInv, IInv, TypeOK, Run
<1>4. \A l \in Acceptable : l <= run.pos + 1 => l <= run.pos \/ l = run.pos + 1
  BY <1>3
<1>5. ASSUME ~ NameTwice, edits = 0 PROVE Converging'
  <2>0. Reading
    BY <1>0, <1>5 DEF Reading
  <2>1. /\ run.accepted \subseteq Acceptable
        /\ \A l \in Acceptable : l <= run.pos => l \in ImportedLines \cup Batch
        /\ job.attempts = 1 => ImportedLines \subseteq run.accepted
    BY <2>0, WhileReading
  <2>2. CASE /\ Row.kind = "data" /\ ~ DuplicateInFile(Row, run.accepted) /\ ~ Exists(Row)
             /\ Accept
    <3>1. /\ run'.pos = run.pos + 1 /\ run'.accepted = run.accepted \cup {run.pos + 1}
          /\ Batch' = Batch \cup {run.pos + 1}
      BY <2>2, AcceptedRow
    <3>2. /\ ImportedLines' \cup Batch' = ImportedLines \cup Batch \cup {run.pos + 1}
          /\ NameTwice'
                <=> OneNameTwice(ImportedLines \cup Batch \cup {run.pos + 1})
      BY <1>0, <1>1, <3>1 DEF NameTwice, OneNameTwice
    <3>3. CASE OneNameTwice(ImportedLines \cup Batch \cup {run.pos + 1})
      <4>1. driver = "sqlite" /\ job.attempts > 1
        BY <2>0, <2>2, <3>3, AcceptedNameIsNew
      <4> QED
        BY <1>0, <3>2, <3>3, <4>1 DEF Converging
    <3>4. CASE ~ OneNameTwice(ImportedLines \cup Batch \cup {run.pos + 1})
      <4>1. run.pos + 1 \in Acceptable
        BY <2>0, <2>2, <3>4, AcceptedIsAcceptable
      <4> QED
        BY <1>0, <1>1, <1>4, <2>1, <3>1, <3>2, <3>4, <4>1 DEF Converging
    <3> QED
      BY <3>3, <3>4
  <2>3. CASE /\ \/ Row.kind # "data"
                \/ DuplicateInFile(Row, run.accepted)
                \/ Exists(Row)
             /\ \E counts \in {run'.counts} : Pass(counts)
    <3>1. run.pos + 1 \in Acceptable => run.pos + 1 \in ImportedLines
      BY <2>0, <2>3, PassedIsImported
    <3>2. run'.accepted = run.accepted /\ run'.pos = run.pos + 1 /\ run'.batch = run.batch
      BY <2>3 DEF Pass, At
    <3>3. Batch' = Batch /\ (NameTwice' <=> NameTwice)
      BY <1>0, <1>1, <3>2 DEF Batch, NameTwice, OneNameTwice
    <3> QED
      BY <1>0, <1>1, <1>4, <1>5, <2>1, <3>1, <3>2, <3>3 DEF Converging
  <2> QED
    BY <2>2, <2>3 DEF ReadRow, Pass, At
<1>6. ASSUME NameTwice, edits = 0 PROVE Converging'
  <2>1. driver = "sqlite" /\ job.attempts > 1
    BY <1>0, <1>6 DEF RInv, Converging
  <2>2. Batch \subseteq Batch'
    <3>1. CASE Accept
      BY <3>1, AcceptedRow
    <3>2. CASE \E counts \in {run'.counts} : Pass(counts)
      <4>1. run'.batch = run.batch
        BY <3>2 DEF Pass, At
      <4> QED
        BY <4>1 DEF Batch
    <3> QED
      BY <3>1, <3>2 DEF ReadRow, Pass, At
  <2>3. NameTwice'
    BY <1>0, <1>1, <1>6, <2>2 DEF NameTwice, OneNameTwice
  <2> QED
    BY <1>0, <2>1, <2>3 DEF Converging
<1>7. edits # 0 => Converging'
  BY <1>0 DEF Converging
<1> QED
  BY <1>2, <1>5, <1>6, <1>7, ReadRowChunks

(* A flush turns the batch into customers.                                    *)
LEMMA FlushConverges ==
    ASSUME RInv, Flush
    PROVE  Untouched' /\ Chunked' /\ RetriesAddUp' /\ Converging'
<1>1. /\ Len(customers) \in Nat /\ Len(run.batch) \in Nat
      /\ Len(customers') = Len(customers) + Len(run.batch)
      /\ \A i \in 1 .. Len(customers) : customers'[i] = customers[i]
      /\ \A k \in 1 .. Len(run.batch) : IsCopy(customers'[Len(customers) + k], run.batch[k])
      /\ DOMAIN customers = 1 .. Len(customers) /\ DOMAIN customers' = 1 .. Len(customers')
      /\ \A i \in 1 .. Len(customers') :
            i \in 1 .. Len(customers) \/ \E k \in 1 .. Len(run.batch) : i = Len(customers) + k
      /\ \A k \in 1 .. Len(run.batch) : run.batch[k] \in 1 .. MaxRows
  BY FlushedRows DEF RInv
<1>2. UNCHANGED <<driver, file, before, edits, job>> /\ run.pc = "flush"
  BY DEF Flush
<1>3. before \in 0 .. Len(customers)
  BY DEF RInv, Untouched
<1>4. Acceptable' = Acceptable
  <2>1. \A i \in 1 .. before : customers'[i] = customers[i]
    BY <1>1, <1>3
  <2> QED
    BY <1>2, <2>1, SameAcceptable
<1>5. ImportedLines' = ImportedLines \cup Batch
  <2>1. ASSUME NEW i \in DOMAIN customers' PROVE customers'[i].line \in ImportedLines \cup Batch \cup {0}
    <3>1. CASE i \in 1 .. Len(customers)
      BY <1>1, <3>1 DEF ImportedLines
    <3>2. ASSUME NEW k \in 1 .. Len(run.batch), i = Len(customers) + k
          PROVE  customers'[i].line \in Batch
      BY <1>1, <3>2 DEF IsCopy, Batch
    <3> QED
      BY <1>1, <3>1, <3>2
  <2>2. ASSUME NEW l \in ImportedLines PROVE l \in ImportedLines'
    <3>1. PICK i \in DOMAIN customers : customers[i].line = l /\ l # 0
      BY DEF ImportedLines
    <3>2. i \in DOMAIN customers' /\ customers'[i] = customers[i]
      BY <1>1
    <3> QED
      BY <3>1, <3>2 DEF ImportedLines
  <2>3. ASSUME NEW l \in Batch PROVE l \in ImportedLines'
    <3>1. PICK k \in 1 .. Len(run.batch) : run.batch[k] = l
      BY DEF Batch
    <3>2. Len(customers) + k \in DOMAIN customers' /\ l # 0
      BY <1>1, <3>1, BoundsAssumption
    <3>3. customers'[Len(customers) + k].line = l
      BY <1>1, <3>1 DEF IsCopy
    <3> QED
      BY <3>2, <3>3 DEF ImportedLines
  <2>4. 0 \notin Batch
    BY <1>1, BoundsAssumption DEF Batch
  <2>5. ImportedLines' \subseteq ImportedLines \cup Batch
    BY <2>1 DEF ImportedLines
  <2> QED
    BY <2>2, <2>3, <2>5
<1>6. /\ run'.accepted = run.accepted /\ run'.pos = run.pos /\ run'.batch = <<>> /\ Batch' = {}
  BY DEF Flush, At, Batch
<1>7. Untouched'
  <2>1. before \in 0 .. Len(customers')
    BY <1>1, <1>3
  <2>2. ASSUME edits = 0, NEW i \in DOMAIN customers'
        PROVE  /\ customers'[i].live /\ ~ customers'[i].edited
               /\ customers'[i].line = 0 <=> i <= before
    <3>1. CASE i \in 1 .. Len(customers)
      BY <1>1, <2>2, <3>1 DEF RInv, Untouched
    <3>2. ASSUME NEW k \in 1 .. Len(run.batch), i = Len(customers) + k
          PROVE  /\ customers'[i].live /\ ~ customers'[i].edited
                 /\ customers'[i].line # 0 /\ ~ (i <= before)
      <4>1. run.batch[k] # 0 /\ ~ (i <= before)
        BY <1>1, <1>3, <3>2, BoundsAssumption
      <4> QED
        BY <1>1, <3>2, <4>1 DEF IsCopy
    <3> QED
      BY <1>1, <3>1, <3>2
  <2> QED
    BY <1>2, <2>1, <2>2 DEF Untouched
<1>8. OneNameTwice(ImportedLines)' <=> NameTwice
  BY <1>2, <1>5 DEF NameTwice, OneNameTwice
<1>9. /\ Batch \subseteq run.accepted /\ run.accepted \subseteq 1 .. run.pos /\ run.pos \in Nat
      /\ Acceptable \subseteq 1 .. MaxRows /\ MaxRows \in Nat
  BY AcceptableIs, BoundsAssumption DEF RInv, IInv, Batched, Batch, TypeOK, Run
<1>10. ASSUME ~ NameTwice, edits = 0 PROVE RetriesAddUp' /\ Converging'
  <2>1. ~ OneNameTwice(ImportedLines)
    BY <1>10 DEF NameTwice, OneNameTwice
  <2>2. /\ run.accepted \subseteq Acceptable
        /\ \A l \in Acceptable : l <= run.pos => l \in ImportedLines \cup Batch
        /\ job.attempts = 1 => ImportedLines \subseteq run.accepted
    BY <1>2, <1>10 DEF RInv, Converging
  <2>3. /\ ImportedLines \subseteq Acceptable
        /\ \A l \in ImportedLines : \A k \in Acceptable : k < l => k \in ImportedLines
        /\ ImportedLines = Acceptable \/ Cardinality(ImportedLines) % CHUNK_SIZE = 0
    BY <1>10, <2>1 DEF RInv, RetriesAddUp
  <2>4. ASSUME NEW l \in Batch, NEW k \in Acceptable, k < l PROVE k \in ImportedLines \cup Batch
    <3>1. l \in 1 .. run.pos /\ k \in Nat
      BY <1>9
    <3>2. k <= run.pos
      BY <1>9, <2>4, <3>1
    <3> QED
      BY <2>2, <3>2
  <2>5. job'.status = "running"
    BY <1>2 DEF RInv, IInv, Attempts
  <2>6. ImportedLines \cup Batch = Acceptable \/ Cardinality(ImportedLines \cup Batch) % CHUNK_SIZE = 0
    <3>1. CASE run.pos = MaxRows
      <4>1. \A l \in Acceptable : l <= run.pos
        BY <1>9, <3>1
      <4> QED
        BY <1>9, <2>2, <2>3, <4>1
    <3>2. CASE ImportedLines = Acceptable
      BY <1>9, <2>2, <3>2
    <3>3. CASE Len(run.batch) = CHUNK_SIZE /\ Cardinality(ImportedLines) % CHUNK_SIZE = 0
      <4>1. IsFiniteSet(1 .. MaxRows) /\ ImportedLines \in SUBSET (1 .. MaxRows) /\ Batch \in SUBSET (1 .. MaxRows)
        <5>1. IsFiniteSet(1 .. MaxRows)
          BY <1>9, FS_Interval
        <5>2. ImportedLines \in SUBSET (1 .. MaxRows)
          BY <1>9, <2>3
        <5>3. Batch \in SUBSET (1 .. MaxRows)
          BY <1>9, <2>2
        <5> QED
          BY <5>1, <5>2, <5>3
      <4>2. IsFiniteSet(ImportedLines) /\ IsFiniteSet(Batch) /\ Cardinality(ImportedLines) \in Nat
        BY <4>1, FS_Subset, FS_CardinalityType
      <4>3. ImportedLines \cap Batch = {}
        <5>1. ASSUME NEW k \in 1 .. Len(run.batch), NEW i \in DOMAIN customers
              PROVE  customers[i].line # run.batch[k]
          BY <1>10 DEF RInv, IInv, Untouched, Batched
        <5> QED
          BY <5>1 DEF ImportedLines, Batch
      <4>4. Cardinality(ImportedLines \cup Batch)
               = Cardinality(ImportedLines) + Cardinality(Batch) - Cardinality(ImportedLines \cap Batch)
        BY <4>2, FS_Union
      <4>5. Cardinality(ImportedLines \cap Batch) = 0
        BY <4>3, FS_EmptySet
      <4>6. Cardinality(Batch) = CHUNK_SIZE
        BY <3>3 DEF RInv, Chunked
      <4>7. PICK n \in Nat : n = Cardinality(ImportedLines)
        BY <4>2
      <4>8. Cardinality(ImportedLines \cup Batch) = n + CHUNK_SIZE
        BY <4>4, <4>5, <4>6, <4>7, ChunkAssumption
      <4>9. (n + CHUNK_SIZE) % CHUNK_SIZE = 0
        BY <3>3, <4>7, ChunkAssumption, OneChunkMore
      <4> QED
        BY <4>8, <4>9
    <3> QED
      BY <1>2, <2>3, <3>1, <3>2, <3>3 DEF RInv, Chunked
  <2>7. RetriesAddUp'
    <3>1. ImportedLines' \subseteq Acceptable
      BY <1>5, <1>9, <2>2, <2>3
    <3>2. \A l \in ImportedLines' : \A k \in Acceptable : k < l => k \in ImportedLines'
      BY <1>5, <2>3, <2>4
    <3>3. ImportedLines' = Acceptable \/ Cardinality(ImportedLines') % CHUNK_SIZE = 0
      BY <1>5, <2>6
    <3> QED
      BY <1>4, <1>8, <1>10, <2>5, <3>1, <3>2, <3>3 DEF RetriesAddUp
  <2>8. Converging'
    <3>1. ImportedLines' \cup Batch' = ImportedLines \cup Batch
      BY <1>5, <1>6
    <3>2. job.attempts = 1 => ImportedLines' \subseteq run.accepted
      BY <1>5, <1>9, <2>2
    <3>3. ~ NameTwice'
      BY <1>2, <1>10, <3>1 DEF NameTwice, OneNameTwice
    <3> QED
      BY <1>2, <1>4, <1>6, <2>2, <3>1, <3>2, <3>3 DEF Converging
  <2> QED
    BY <2>7, <2>8
<1>11. ASSUME NameTwice, edits = 0 PROVE RetriesAddUp' /\ Converging'
  <2>1. driver = "sqlite" /\ job.attempts > 1
    BY <1>2, <1>11 DEF RInv, Converging
  <2>2. NameTwice'
    BY <1>2, <1>5, <1>11 DEF NameTwice, OneNameTwice
  <2>3. RetriesAddUp'
    BY <1>2, <1>8, <1>11, <2>1 DEF RetriesAddUp
  <2>4. Converging'
    BY <1>2, <2>1, <2>2 DEF Converging
  <2> QED
    BY <2>3, <2>4
<1>12. edits # 0 => RetriesAddUp' /\ Converging'
  BY <1>2 DEF RetriesAddUp, Converging
<1>13. Chunked'
  <2>1. run'.pc = "read" /\ Len(run'.batch) = 0
    BY <1>6 DEF Flush, At
  <2> QED
    BY <1>6, <2>1, FS_EmptySet, ChunkAssumption DEF Chunked
<1> QED
  BY <1>7, <1>10, <1>11, <1>12, <1>13

(* An edit by others ends what RetriesAddUp promises. *)
LEMMA EditsConverge ==
    ASSUME RInv, edits' = edits + 1, before' = before,
           Len(customers') \in Nat, Len(customers') >= Len(customers), run' = run
    PROVE  Untouched' /\ Chunked' /\ RetriesAddUp' /\ Converging'
<1>1. edits' # 0
  BY BoundsAssumption DEF RInv, IInv, TypeOK
<1>2. before' \in 0 .. Len(customers')
  <2>1. before \in 0 .. Len(customers) /\ Len(customers) \in Nat
    BY DEF RInv, IInv, TypeOK, Untouched
  <2> QED
    BY <2>1
<1>3. Chunked'
  BY DEF RInv, Chunked, Batch
<1> QED
  BY <1>1, <1>2, <1>3 DEF Untouched, RetriesAddUp, Converging

(* Every step keeps the stronger invariant.                                   *)
LEMMA Converges == RInv /\ [Next]_vars => RInv'
<1> SUFFICES ASSUME RInv, [Next]_vars PROVE Untouched' /\ Chunked' /\ RetriesAddUp' /\ Converging'
  BY Inductive DEF RInv
<1>0. customers \in Seq(Customer)
  BY DEF RInv, IInv, TypeOK
<1>1. CASE Import \/ Claim \/ Fail \/ Complete \/ Recover \/ CheckFile \/ EndOfFile \/ Unlink
           \/ Throw \/ Crash \/ UNCHANGED vars
  BY <1>1, OtherStepsConverge
<1>2. CASE ReadRow
  BY <1>2, ReadRowConverges
<1>3. CASE Flush
  BY <1>3, FlushConverges
<1>4. ASSUME NEW n \in OtherNames, NEW e \in Emails \cup {None}, AddCustomer(n, e)
      PROVE  Untouched' /\ Chunked' /\ RetriesAddUp' /\ Converging'
  <2>1. /\ edits' = edits + 1 /\ before' = before /\ run' = run
        /\ Len(customers') \in Nat /\ Len(customers') >= Len(customers)
    BY <1>0, <1>4 DEF AddCustomer
  <2> QED
    BY <2>1, EditsConverge
<1>5. ASSUME NEW i \in DOMAIN customers,
             RemoveCustomer(i) \/ \E n \in OtherNames : RenameCustomer(i, n)
      PROVE  Untouched' /\ Chunked' /\ RetriesAddUp' /\ Converging'
  <2>1. /\ edits' = edits + 1 /\ before' = before /\ run' = run
        /\ Len(customers') \in Nat /\ Len(customers') >= Len(customers)
    BY <1>0, <1>5 DEF RemoveCustomer, RenameCustomer, Updated
  <2> QED
    BY <2>1, EditsConverge
<1> QED
  BY <1>1, <1>2, <1>3, <1>4, <1>5 DEF Next, Work, Finished

(* It holds initially.                                                        *)
LEMMA InitiallyConverging == Init => RInv
<1> SUFFICES ASSUME Init PROVE RInv
  OBVIOUS
<1>1. /\ DOMAIN customers = 1 .. Len(customers) /\ Len(customers) \in Nat /\ before = Len(customers)
      /\ \A i \in DOMAIN customers : customers[i].live /\ ~ customers[i].edited /\ customers[i].line = 0
  <2>1. CASE customers = <<>>
    BY <2>1 DEF Init
  <2>2. ASSUME NEW n \in OtherNames, NEW e \in Emails \cup {None},
               customers = <<[name |-> n, email |-> e, live |-> TRUE, line |-> 0, attempt |-> 0,
                             edited |-> FALSE]>>
        PROVE  /\ DOMAIN customers = 1 .. Len(customers) /\ Len(customers) \in Nat
               /\ \A i \in DOMAIN customers :
                     customers[i].live /\ ~ customers[i].edited /\ customers[i].line = 0
    <3> DEFINE c == [name |-> n, email |-> e, live |-> TRUE, line |-> 0, attempt |-> 0, edited |-> FALSE]
    <3>1. c.live /\ ~ c.edited /\ c.line = 0
      OBVIOUS
    <3> HIDE DEF c
    <3>2. customers = <<c>>
      BY <2>2 DEF c
    <3>3. Len(<<c>>) = 1 /\ DOMAIN <<c>> = 1 .. 1 /\ <<c>>[1] = c
      OBVIOUS
    <3>4. \A i \in 1 .. 1 : i = 1
      OBVIOUS
    <3> QED
      BY <3>1, <3>2, <3>3, <3>4
  <2>3. before = Len(customers)
    BY DEF Init
  <2> QED
    BY <2>1, <2>2, <2>3 DEF Init, Existing
<1>2. Untouched
  BY <1>1 DEF Untouched
<1>3. ImportedLines = {}
  BY <1>1 DEF ImportedLines
<1>4. RetriesAddUp
  <2>1. ~ OneNameTwice(ImportedLines) /\ job.status # "completed"
    BY <1>3 DEF NameTwice, OneNameTwice, Init
  <2>2. Cardinality(ImportedLines) % CHUNK_SIZE = 0
    BY <1>3, FS_EmptySet, ChunkAssumption
  <2> QED
    BY <1>3, <2>1, <2>2 DEF RetriesAddUp
<1>5. Converging
  BY DEF Init, Converging, Fresh, At
<1>6. Chunked
  <2>1. run.batch = <<>> /\ run.pc = "off"
    BY DEF Init, Fresh, At
  <2>2. Batch = {} /\ Len(run.batch) = 0
    BY <2>1 DEF Batch
  <2> QED
    BY <2>1, <2>2, FS_EmptySet DEF Chunked
<1> QED
  BY <1>2, <1>4, <1>5, <1>6, Initially DEF RInv

(* However often the job is retried, what it has inserted is whole chunks of  *)
(* what a single run would insert, from the first on, and everything of it by *)
(* the time it completes, as long as nobody edits customers; only a retry on  *)
(* SQLite inserts otherwise, and then one name in two cases.                  *)
THEOREM RetriesConverge == Spec => []RetriesAddUp
<1>1. RInv => RetriesAddUp
  BY DEF RInv
<1> QED
  BY <1>1, InitiallyConverging, Converges, PTL DEF Spec

===============================================================================
