------------------------------ MODULE ImportJob -------------------------------
(***************************************************************************)
(* One CSV import, from the upload to the end of its job:                  *)
(* CustomerTransferService::requestImport, the worker, which takes a lock  *)
(* and runs alone, and CustomerImportJob.  Meanwhile other requests add,   *)
(* remove and rename customers.                                            *)
(*                                                                         *)
(* A row is empty, invalid, or a name and an email.  A name is letters,    *)
(* their accents and their case: mb_strtolower drops the case, the         *)
(* collation of the table on MySQL compares the letters alone, SQLite      *)
(* compares everything.  The other columns, the texts of the errors and    *)
(* the progress messages are left out.                                     *)
(***************************************************************************)
EXTENDS Integers, Sequences, FiniteSets, SequencesExt

CONSTANTS
    Names,          \* <<letters, accents, case>>
    OtherNames,     \* bound: the names that customers get by other requests
    Emails,         \* email addresses, lower-cased by parseRow and the DTO
    None,           \* no email
    CHUNK_SIZE,     \* rows of one INSERT (100)
    MaxAttempts,    \* background_job.max_attempts (3)
    MaxRows,        \* bound: data rows of the file
    MaxEdits        \* bound: what other requests do to the customers

ASSUME ChunkAssumption == CHUNK_SIZE \in Nat \ {0}
ASSUME BoundsAssumption == MaxAttempts \in Nat \ {0} /\ MaxRows \in Nat /\ MaxEdits \in Nat
ASSUME NoneIsNoEmail == None \notin Emails
ASSUME NamesAssumption == OtherNames \subseteq Names

Lower(name) == <<name[1], name[2]>>

Data == [kind : {"data"}, name : Names, email : Emails \cup {None}]
Empty == [kind |-> "empty"]
Invalid == [kind |-> "invalid"]     \* no name, unknown status or malformed email
Files == [1 .. MaxRows -> Data \cup {Empty, Invalid}]

(* A row of the customer table; the last three fields are history. *)
Customer == [name    : Names,
             email   : Emails \cup {None},
             live    : BOOLEAN,             \* deleted_at is null
             line    : 0 .. MaxRows,        \* the row of the file, 0: not imported
             attempt : 0 .. MaxAttempts,    \* the attempt that imported it
             edited  : BOOLEAN]             \* renamed by another request

VARIABLES
    driver,     \* DB_DRIVER
    file,       \* the rows of the uploaded CSV
    header,     \* whether its header names a name column
    stored,     \* whether the file is in storage/imports
    request,    \* the statement requestImport runs next
    job,        \* table background_job
    run,        \* what handle remembers
    result,     \* the result column of the job
    customers,  \* table customer, in order of insertion
    before,     \* history: how many customers there were before the import
    edits       \* bound: changes made by other requests

vars == <<driver, file, header, stored, request, job, run, result, customers, before, edits>>

-------------------------------------------------------------------------------
(* What decides over a row. *)

(* The comparison of the database: utf8mb4_unicode_ci on MySQL. *)
SameName(m, n) == IF driver = "mysql" THEN m[1] = n[1] ELSE m = n

(* Variant, not the code: the name is not looked up. *)
ExistsByEmail(row) ==
    \E i \in DOMAIN customers :
        customers[i].live /\ row.email # None /\ customers[i].email = row.email

(* existsByName or existsByEmail, one SELECT after the other: a customer that *)
(* comes or goes between them decides as if it had before or after both.      *)
Exists(row) ==
    \E i \in DOMAIN customers :
        /\ customers[i].live
        /\ \/ SameName(customers[i].name, row.name)
           \/ row.email # None /\ customers[i].email = row.email

(* validateRow: against the rows this run accepted, by name and by email. *)
DuplicateInFile(row, accepted) ==
    \E l \in accepted :
        \/ Lower(file[l].name) = Lower(row.name)
        \/ row.email # None /\ file[l].email = row.email

Counts == [imported : Nat, skipped : Nat, failed : Nat]
Counted(imported, skipped, failed) ==
    [imported |-> imported, skipped |-> skipped, failed |-> failed]
NoCounts == Counted(0, 0, 0)

Run == [pc       : {"off", "check", "read", "flush", "unlink", "complete", "throw"},
        pos      : 0 .. MaxRows,            \* rows read
        batch    : Seq(1 .. MaxRows),       \* accepted rows, not inserted yet
        accepted : SUBSET (1 .. MaxRows),   \* seenNames and seenEmails
        counts   : Counts]

(* The local variables of handle and process. *)
At(pc, pos, batch, accepted, counts) ==
    [pc |-> pc, pos |-> pos, batch |-> batch, accepted |-> accepted, counts |-> counts]
Fresh(pc) == At(pc, 0, <<>>, {}, NoCounts)
Step(pc) == run' = At(pc, run.pos, run.batch, run.accepted, run.counts)

(* The table before the import: empty, or a customer of somebody else. *)
Existing ==
    {<<>>} \cup
    {<<[name |-> n, email |-> e, live |-> TRUE, line |-> 0, attempt |-> 0, edited |-> FALSE]>> :
        n \in OtherNames, e \in Emails \cup {None}}

Init ==
    /\ driver \in {"mysql", "sqlite"}
    /\ file \in Files
    /\ header \in BOOLEAN
    /\ stored = FALSE
    /\ request = "store"
    /\ job = [status |-> "none", attempts |-> 0]
    /\ run = Fresh("off")
    /\ result = NoCounts
    /\ customers \in Existing /\ before = Len(customers)
    /\ edits = 0

-------------------------------------------------------------------------------
(* requestImport.  An upload that assertImportFile refuses leaves nothing. *)

StoreUpload ==
    /\ request = "store"
    /\ stored' = TRUE
    /\ request' = "header"
    /\ UNCHANGED <<driver, file, header, job, run, result, customers, before, edits>>

(* assertImportHeader; a refused file stays where it is. *)
CheckHeader ==
    /\ request = "header"
    /\ request' = IF header THEN "dispatch" ELSE "done"
    /\ UNCHANGED <<driver, file, header, stored, job, run, result, customers, before, edits>>

Dispatch ==
    /\ request = "dispatch"
    /\ request' = "done"
    /\ job' = [status |-> "pending", attempts |-> 0]
    /\ UNCHANGED <<driver, file, header, stored, run, result, customers, before, edits>>

-------------------------------------------------------------------------------
(* The worker: claims the job, and stores how an attempt ended. *)

Claim ==
    /\ job.status = "pending"
    /\ job' = [status |-> "running", attempts |-> job.attempts + 1]
    /\ run' = Fresh("check")
    /\ UNCHANGED <<driver, file, header, stored, request, result, customers, before, edits>>

Retried == [status   |-> IF job.attempts < MaxAttempts THEN "pending" ELSE "failed",
            attempts |-> job.attempts]

(* An attempt threw: retried with backoff, or failed for good. *)
Fail ==
    /\ run.pc = "throw"
    /\ job' = Retried
    /\ run' = Fresh("off")
    /\ UNCHANGED <<driver, file, header, stored, request, result, customers, before, edits>>

Complete ==
    /\ run.pc = "complete"
    /\ job' = [status |-> "completed", attempts |-> job.attempts]
    /\ result' = run.counts
    /\ run' = Fresh("off")
    /\ UNCHANGED <<driver, file, header, stored, request, customers, before, edits>>

(* The worker process is killed; nothing of the attempt is undone. *)
Crash ==
    /\ run.pc # "off"
    /\ run' = Fresh("off")
    /\ UNCHANGED <<driver, file, header, stored, request, job, result, customers, before, edits>>

(* The next worker finds the stale lease of a job nobody runs. *)
Recover ==
    /\ job.status = "running"
    /\ run.pc = "off"
    /\ job' = Retried
    /\ UNCHANGED <<driver, file, header, stored, request, run, result, customers, before, edits>>

-------------------------------------------------------------------------------
(* CustomerImportJob::handle and process *)

CheckFile ==
    /\ run.pc = "check"
    /\ Step(IF stored THEN "read" ELSE "throw")
    /\ UNCHANGED <<driver, file, header, stored, request, job, result, customers, before, edits>>

Row == file[run.pos + 1]

(* Variant, not the code: a row that is passed over takes the next one along. *)
PassTwo(counts) ==
    run' = At("read", run.pos + 2, run.batch, run.accepted, counts)

(* One turn of the loop that leaves the batch alone. *)
Pass(counts) ==
    run' = At("read", run.pos + 1, run.batch, run.accepted, counts)

(* A full batch is inserted at once. *)
AfterAccept == IF Len(run.batch) + 1 >= CHUNK_SIZE THEN "flush" ELSE "read"

(* Variant, not the code: accepted rows are not remembered. *)
AcceptUnseen ==
    run' = At(AfterAccept, run.pos + 1, Append(run.batch, run.pos + 1), run.accepted, run.counts)

(* The row joins the batch. *)
Accept ==
    run' = At(AfterAccept, run.pos + 1, Append(run.batch, run.pos + 1),
              run.accepted \cup {run.pos + 1}, run.counts)

ReadRow ==
    /\ run.pc = "read"
    /\ run.pos < MaxRows
    /\ \/ /\ Row.kind = "empty"
          /\ Pass(run.counts)
       \/ /\ \/ Row.kind = "invalid"
             \/ Row.kind = "data" /\ DuplicateInFile(Row, run.accepted)
          /\ Pass(Counted(run.counts.imported, run.counts.skipped, run.counts.failed + 1))
       \/ /\ Row.kind = "data" /\ ~DuplicateInFile(Row, run.accepted) /\ Exists(Row)
          /\ Pass(Counted(run.counts.imported, run.counts.skipped + 1, run.counts.failed))
       \/ /\ Row.kind = "data" /\ ~DuplicateInFile(Row, run.accepted) /\ ~Exists(Row)
          /\ Accept
    /\ UNCHANGED <<driver, file, header, stored, request, job, result, customers, before, edits>>

(* Variant, not the code: the last, partial batch is forgotten. *)
DropLastBatch ==
    /\ run.pc = "read"
    /\ run.pos = MaxRows
    /\ Step("unlink")
    /\ UNCHANGED <<driver, file, header, stored, request, job, result, customers, before, edits>>

EndOfFile ==
    /\ run.pc = "read"
    /\ run.pos = MaxRows
    /\ Step(IF run.batch = <<>> THEN "unlink" ELSE "flush")
    /\ UNCHANGED <<driver, file, header, stored, request, job, result, customers, before, edits>>

Imported(l) == [name |-> file[l].name, email |-> file[l].email, live |-> TRUE,
                line |-> l, attempt |-> job.attempts, edited |-> FALSE]

(* flush: one transaction. *)
Flush ==
    /\ run.pc = "flush"
    /\ customers' = customers \o [k \in DOMAIN run.batch |-> Imported(run.batch[k])]
    /\ run' = At("read", run.pos, <<>>, run.accepted,
                 Counted(run.counts.imported + Len(run.batch), run.counts.skipped, run.counts.failed))
    /\ UNCHANGED <<driver, file, header, stored, request, job, result, before, edits>>

(* The finally of handle, after the result. *)
Unlink ==
    /\ run.pc = "unlink"
    /\ stored' = FALSE
    /\ Step("complete")
    /\ UNCHANGED <<driver, file, header, request, job, result, customers, before, edits>>

(* The database throws at a lookup or at the transaction, which it rolls back: *)
(* the finally of handle removes the file on the way out.                      *)
Throw ==
    /\ run.pc \in {"read", "flush"}
    /\ stored' = FALSE
    /\ Step("throw")
    /\ UNCHANGED <<driver, file, header, request, job, result, customers, before, edits>>

-------------------------------------------------------------------------------
(* Other requests, through the API. *)

AddCustomer(n, e) ==
    /\ edits < MaxEdits
    /\ edits' = edits + 1
    /\ customers' = Append(customers, [name |-> n, email |-> e, live |-> TRUE,
                                       line |-> 0, attempt |-> 0, edited |-> FALSE])
    /\ UNCHANGED <<driver, file, header, stored, request, job, run, result, before>>

(* Customer i after an update or a removal. *)
Updated(i, name, live, edited) ==
    customers' = [customers EXCEPT ![i] =
                     [name |-> name, email |-> customers[i].email, live |-> live,
                      line |-> customers[i].line, attempt |-> customers[i].attempt,
                      edited |-> edited]]

RemoveCustomer(i) ==
    /\ edits < MaxEdits
    /\ edits' = edits + 1
    /\ Updated(i, customers[i].name, FALSE, customers[i].edited)
    /\ UNCHANGED <<driver, file, header, stored, request, job, run, result, before>>

RenameCustomer(i, n) ==
    /\ edits < MaxEdits
    /\ edits' = edits + 1
    /\ Updated(i, n, customers[i].live, TRUE)
    /\ UNCHANGED <<driver, file, header, stored, request, job, run, result, before>>

(* Nothing is left to do for this import. *)
Finished ==
    /\ request = "done"
    /\ job.status \in {"none", "completed", "failed"}
    /\ UNCHANGED vars

-------------------------------------------------------------------------------

Import == StoreUpload \/ CheckHeader \/ Dispatch
Work ==
    \/ Claim \/ Fail \/ Complete \/ Recover
    \/ CheckFile \/ ReadRow \/ EndOfFile \/ Flush \/ Unlink

Next ==
    \/ Import \/ Work \/ Throw \/ Crash \/ Finished
    \/ \E n \in OtherNames, e \in Emails \cup {None} : AddCustomer(n, e)
    \/ \E i \in DOMAIN customers : RemoveCustomer(i)
    \/ \E i \in DOMAIN customers, n \in OtherNames : RenameCustomer(i, n)

Spec == Init /\ [][Next]_vars

-------------------------------------------------------------------------------
(* Properties. *)

(* The variables keep their types. *)
TypeOK ==
    /\ driver \in {"mysql", "sqlite"}
    /\ file \in Files
    /\ header \in BOOLEAN /\ stored \in BOOLEAN
    /\ request \in {"store", "header", "dispatch", "done"}
    /\ job \in [status : {"none", "pending", "running", "completed", "failed"},
                attempts : 0 .. MaxAttempts]
    /\ run \in Run
    /\ result \in Counts
    /\ customers \in Seq(Customer)
    /\ before \in Nat
    /\ edits \in 0 .. MaxEdits

Lines == 1 .. MaxRows
Live == {i \in DOMAIN customers : customers[i].live}

(* "Rows whose name or email already exists are skipped, which also makes a  *)
(* retried job safe to run again": whatever attempts die half way and        *)
(* whatever others do meanwhile, one row of the file is two live customers   *)
(* only if somebody renamed the first.                                       *)
NoLineImportedTwice ==
    \A i, j \in Live :
        /\ i # j
        /\ customers[i].line = customers[j].line
        /\ customers[i].line # 0
        => customers[i].edited \/ customers[j].edited

(* What a single run over the file accepts, by definition: every row that is *)
(* no customer from before, unless an accepted row above keeps it out.       *)
ExistedBefore(row) ==
    \E i \in 1 .. before :
        \/ SameName(customers[i].name, row.name)
        \/ row.email # None /\ customers[i].email = row.email

Candidates == {l \in Lines : file[l].kind = "data" /\ ~ ExistedBefore(file[l])}

(* How many chunks have been inserted when row l is read. *)
ChunksBefore(accepted, l) == Cardinality({k \in accepted : k < l}) \div CHUNK_SIZE

(* Row k is in the same file, or a customer already, its chunk inserted. *)
KeepsOut(accepted, k, l) ==
    /\ k < l
    /\ \/ DuplicateInFile(file[l], {k})
       \/ /\ SameName(file[k].name, file[l].name)
          /\ ChunksBefore(accepted, k) < ChunksBefore(accepted, l)

Acceptable ==
    CHOOSE accepted \in SUBSET Candidates :
        \A l \in Candidates :
            l \in accepted <=> ~ \E k \in accepted : KeepsOut(accepted, k, l)

ImportedLines == {customers[i].line : i \in DOMAIN customers} \ {0}

(* Two of the rows have one name to mb_strtolower. *)
OneNameTwice(rows) ==
    \E k, l \in rows : k # l /\ Lower(file[k].name) = Lower(file[l].name)

(* However often the job is retried, what it has inserted so far is what a   *)
(* single run inserts first, in whole chunks, and all of it once the job     *)
(* completes.  Only SQLite can insert what a single run refuses: its         *)
(* comparison tells apart what seenNames does not, and a retry, which starts *)
(* with no seenNames, then inserts one name in two cases.  This is about     *)
(* imports during which nobody edits customers.                              *)
RetriesAddUp ==
    LET imported == ImportedLines
        all      == Acceptable IN
    edits = 0 =>
        IF OneNameTwice(imported)
        THEN driver = "sqlite" /\ job.attempts > 1
        ELSE /\ imported \subseteq all
             /\ \A l \in imported : \A k \in all : k < l => k \in imported
             /\ imported = all \/ Cardinality(imported) % CHUNK_SIZE = 0
             /\ job.status = "completed" => imported = all

(* The result of a completed job accounts for every row of the file, and its *)
(* "imported" counts the customers that attempt inserted.                    *)
ResultAddsUp ==
    LET OfAttempt == {i \in DOMAIN customers :
                         customers[i].line # 0 /\ customers[i].attempt = job.attempts}
        Blank == {l \in Lines : file[l].kind = "empty"} IN
    job.status = "completed" =>
        /\ result.imported = Cardinality(OfAttempt)
        /\ result.imported + result.skipped + result.failed + Cardinality(Blank) = MaxRows

(* "... safe to run again": an attempt finds the file it is to import.       *)
RetryFindsItsFile == run.pc = "check" => stored
===============================================================================
