------------------------------ MODULE ExportJob -------------------------------
(***************************************************************************)
(* Customer exports, from the request to the download:                     *)
(* CustomerTransferService::requestExport, the worker, which takes a lock  *)
(* and runs one job at a time, CustomerExportJob, and the download of      *)
(* Controller\CustomerTransfer.  Meanwhile customers come and go.          *)
(*                                                                         *)
(* All exports here have the same filter.  A file is the sequence of what  *)
(* each write left in it: the header, the ids of the rows, and the torn    *)
(* lines of a disk that was full.                                          *)
(***************************************************************************)
EXTENDS CustomerTable, SequencesExt

CONSTANTS
    Jobs,               \* ids of background_job
    Clients,            \* browsers that download
    None,
    EXPORT_MAX_ROWS,
    MaxAttempts         \* background_job.max_attempts (3)

ASSUME LimitsAssumption == EXPORT_MAX_ROWS \in Nat /\ MaxAttempts \in Nat \ {0}
ASSUME NoneIsNoJob == None \notin Jobs

Header == 0                     \* the line of column names; no customer has this id
Torn == -1                      \* the first part of a line
Lines == Ids \cup {Header, Torn}

VARIABLES
    request,    \* the statement requestExport runs next
    job,        \* table background_job
    run,        \* what handle remembers
    disk,       \* storage/exports: file name -> lines, and parts of lines
    download,   \* what each download remembers
    counted,    \* history: the customers requestExport counted
    answer,     \* history: the rows of the query of the last attempt, in order
    short       \* history: whether the last attempt lost (part of) a line to a full disk

vars == <<customers, request, job, run, disk, download, counted, answer, short, edits>>

(* Variant, not the code: all exports share one file. *)
OneFileForAll(j) == "customer-export.csv"

(* customer-export-{jobId}.csv *)
FileName(j) == j

Job == [status   : {"none", "pending", "running", "completed", "failed"},
        attempts : 0 .. MaxAttempts,
        rows     : 0 .. MaxCustomers]       \* row_count of the result

Run == [pc        : {"off", "count", "open", "query", "row", "report", "complete", "throw"},
        job       : Jobs \cup {None},
        total     : 0 .. MaxCustomers,
        rest      : Seq(Ids),               \* rows the cursor has not yielded yet
        processed : 0 .. MaxCustomers,
        progress  : 0 .. 100]               \* what the callback last reported

Download == [pc   : {"idle", "stat", "read", "done"},
             job  : Jobs \cup {None},
             size : Nat,                    \* Content-Length
             got  : Seq(Lines)]

Off == [pc |-> "off", job |-> None, total |-> 0, rest |-> <<>>, processed |-> 0, progress |-> 0]
Downloading(pc, j, size, got) == [pc |-> pc, job |-> j, size |-> size, got |-> got]
NoDownload == Downloading("idle", None, 0, <<>>)

Started(j) ==
    [pc |-> "count", job |-> j, total |-> 0, rest |-> <<>>, processed |-> 0, progress |-> 0]

(* The local variables of handle after a statement. *)
At(pc, total, rest, processed, progress) ==
    run' = [pc |-> pc, job |-> run.job, total |-> total, rest |-> rest,
            processed |-> processed, progress |-> progress]
Step(pc) == At(pc, run.total, run.rest, run.processed, run.progress)

(* The row of a job after an update. *)
SetJob(j, status, attempts, rows) ==
    job' = [job EXCEPT ![j] = [status |-> status, attempts |-> attempts, rows |-> rows]]

Init ==
    /\ \E n \in 0 .. MaxCustomers : customers = [i \in 1 .. n |-> TRUE]
    /\ request = [j \in Jobs |-> "count"]
    /\ job = [j \in Jobs |-> [status |-> "none", attempts |-> 0, rows |-> 0]]
    /\ run = Off
    /\ disk = [j \in {} |-> <<>>]
    /\ download = [c \in Clients |-> NoDownload]
    /\ counted = [j \in Jobs |-> {}]
    /\ answer = [j \in Jobs |-> <<>>]
    /\ short = [j \in Jobs |-> FALSE]
    /\ edits = 0

-------------------------------------------------------------------------------
(* requestExport *)

(* Variant, not the code: any number of rows is accepted. *)
CountAnyNumber(j) ==
    /\ request[j] = "count"
    /\ counted' = [counted EXCEPT ![j] = Matching]
    /\ request' = [request EXCEPT ![j] = "dispatch"]
    /\ UNCHANGED <<customers, job, run, disk, download, answer, short, edits>>

(* A selection above the limit is refused. *)
Count(j) ==
    /\ request[j] = "count"
    /\ counted' = [counted EXCEPT ![j] = Matching]
    /\ request' = [request EXCEPT ![j] =
                      IF Cardinality(Matching) > EXPORT_MAX_ROWS THEN "refused" ELSE "dispatch"]
    /\ UNCHANGED <<customers, job, run, disk, download, answer, short, edits>>

Dispatch(j) ==
    /\ request[j] = "dispatch"
    /\ request' = [request EXCEPT ![j] = "done"]
    /\ SetJob(j, "pending", job[j].attempts, job[j].rows)
    /\ UNCHANGED <<customers, run, disk, download, counted, answer, short, edits>>

-------------------------------------------------------------------------------
(* The worker.  An attempt that throws or whose process dies is retried until *)
(* the attempts are used up.                                                  *)

Claim(j) ==
    /\ run.pc = "off"
    /\ job[j].status = "pending"
    /\ SetJob(j, "running", job[j].attempts + 1, job[j].rows)
    /\ run' = Started(j)
    /\ UNCHANGED <<customers, request, disk, download, counted, answer, short, edits>>

Retried(j) ==
    SetJob(j, IF job[j].attempts < MaxAttempts THEN "pending" ELSE "failed",
           job[j].attempts, job[j].rows)

Fail ==
    /\ run.pc = "throw"
    /\ Retried(run.job)
    /\ run' = Off
    /\ UNCHANGED <<customers, request, disk, download, counted, answer, short, edits>>

Complete ==
    /\ run.pc = "complete"
    /\ SetJob(run.job, "completed", job[run.job].attempts, run.processed)
    /\ run' = Off
    /\ UNCHANGED <<customers, request, disk, download, counted, answer, short, edits>>

(* The process dies; the row stays "running" until its lease is recovered. *)
Crash ==
    /\ run.pc # "off"
    /\ run' = Off
    /\ UNCHANGED <<customers, request, job, disk, download, counted, answer, short, edits>>

Recover(j) ==
    /\ run.pc = "off"
    /\ job[j].status = "running"
    /\ Retried(j)
    /\ UNCHANGED <<customers, request, run, disk, download, counted, answer, short, edits>>

-------------------------------------------------------------------------------
(* CustomerExportJob::handle *)

(* countGet: only the progress depends on it. *)
CountRows ==
    /\ run.pc = "count"
    /\ At("open", Cardinality(Matching), run.rest, run.processed, run.progress)
    /\ UNCHANGED <<customers, request, job, disk, download, counted, answer, short, edits>>

Write(j, lines) == disk' = [f \in DOMAIN disk \cup {FileName(j)} |->
                               IF f = FileName(j) THEN lines ELSE disk[f]]

(* Variant, not the code: the file is opened with "ab". *)
OpenToAppend ==
    /\ run.pc = "open"
    /\ Write(run.job, IF FileName(run.job) \in DOMAIN disk THEN disk[FileName(run.job)] ELSE <<>>)
    /\ short' = [short EXCEPT ![run.job] = FALSE]
    /\ Step("query")
    /\ UNCHANGED <<customers, request, job, download, counted, answer, edits>>

(* fopen "wb" *)
Open ==
    /\ run.pc = "open"
    /\ Write(run.job, <<>>)
    /\ short' = [short EXCEPT ![run.job] = FALSE]
    /\ Step("query")
    /\ UNCHANGED <<customers, request, job, download, counted, answer, edits>>

(* fwrite and fputcsv: nobody looks at what they return.  A full disk takes   *)
(* the first part of the line, or nothing; there may be room again for the    *)
(* next one.                                                                  *)
Put(j, line) ==
    \/ Write(j, Append(disk[FileName(j)], line)) /\ UNCHANGED short
    \/ /\ short' = [short EXCEPT ![j] = TRUE]
       /\ Write(j, Append(disk[FileName(j)], Torn)) \/ UNCHANGED disk

(* The header line, and the one SELECT behind the cursor. *)
Query ==
    /\ run.pc = "query"
    /\ Put(run.job, Header)
    /\ At("row", run.total, InOrder(Matching), run.processed, run.progress)
    /\ answer' = [answer EXCEPT ![run.job] = InOrder(Matching)]
    /\ UNCHANGED <<customers, request, job, download, counted, edits>>

(* Variant, not the code: the percentage is not capped. *)
UncappedProgress(processed) ==
    IF run.total > 0 THEN (processed * 100) \div run.total ELSE 99

Progress(processed) ==
    IF run.total > 0 /\ (processed * 100) \div run.total < 99
    THEN (processed * 100) \div run.total ELSE 99

(* One row of the loop; every PROGRESS_INTERVAL rows it reports. *)
PutRow ==
    /\ run.pc = "row"
    /\ run.rest # <<>>
    /\ Put(run.job, Head(run.rest))
    /\ \E reports \in BOOLEAN :
          At("row", run.total, Tail(run.rest), run.processed + 1,
             IF reports THEN Progress(run.processed + 1) ELSE run.progress)
    /\ UNCHANGED <<customers, request, job, download, counted, answer, edits>>

(* The cursor ends, and finally closes the file. *)
CloseFile ==
    /\ run.pc = "row"
    /\ run.rest = <<>>
    /\ Step("report")
    /\ UNCHANGED <<customers, request, job, disk, download, counted, answer, short, edits>>

Report ==
    /\ run.pc = "report"
    /\ At("complete", run.total, run.rest, run.processed, 100)
    /\ UNCHANGED <<customers, request, job, disk, download, counted, answer, short, edits>>

(* A query, the cursor, the callback or fopen throws. *)
Throw ==
    /\ run.pc \in {"count", "open", "query", "row", "report"}
    /\ Step("throw")
    /\ UNCHANGED <<customers, request, job, disk, download, counted, answer, short, edits>>

-------------------------------------------------------------------------------
(* Controller\CustomerTransfer::download *)

(* 404 for a job that is not there, 409 for one that is not completed. *)
Ask(c, j) ==
    /\ download[c].pc = "idle"
    /\ job[j].status = "completed"
    /\ download' = [download EXCEPT ![c] = Downloading("stat", j, 0, <<>>)]
    /\ UNCHANGED <<customers, request, job, run, disk, counted, answer, short, edits>>

(* is_file, filesize and fopen; 404 when the file is gone. *)
Stat(c) ==
    /\ download[c].pc = "stat"
    /\ LET j == download[c].job IN
       download' = [download EXCEPT ![c] =
                       IF FileName(j) \in DOMAIN disk
                       THEN Downloading("read", j, Len(disk[FileName(j)]), <<>>)
                       ELSE NoDownload]
    /\ UNCHANGED <<customers, request, job, run, disk, counted, answer, short, edits>>

(* Slim sends the stream in chunks, here of a line. *)
Read(c) ==
    /\ download[c].pc = "read"
    /\ LET j == download[c].job
           lines == disk[FileName(j)]
           got == download[c].got
           size == download[c].size IN
       download' = [download EXCEPT ![c] =
                       IF Len(got) < Len(lines)
                       THEN Downloading("read", j, size, Append(got, lines[Len(got) + 1]))
                       ELSE Downloading("done", j, size, got)]
    /\ UNCHANGED <<customers, request, job, run, disk, counted, answer, short, edits>>

Leave(c) ==
    /\ download[c].pc \in {"read", "done"}
    /\ download' = [download EXCEPT ![c] = NoDownload]
    /\ UNCHANGED <<customers, request, job, run, disk, counted, answer, short, edits>>

-------------------------------------------------------------------------------
(* Other requests. *)

Add ==
    /\ edits < MaxEdits /\ Len(customers) < MaxCustomers
    /\ customers' = Append(customers, TRUE)
    /\ edits' = edits + 1
    /\ UNCHANGED <<request, job, run, disk, download, counted, answer, short>>

(* An update or a removal: customer i starts or stops matching the filter. *)
Change(i) ==
    /\ edits < MaxEdits
    /\ customers' = [customers EXCEPT ![i] = ~@]
    /\ edits' = edits + 1
    /\ UNCHANGED <<request, job, run, disk, download, counted, answer, short>>

Next ==
    \/ \E j \in Jobs : Count(j) \/ Dispatch(j) \/ Claim(j) \/ Recover(j)
    \/ Fail \/ Complete \/ Crash
    \/ CountRows \/ Open \/ Query \/ PutRow \/ CloseFile \/ Report \/ Throw
    \/ \E c \in Clients :
          \/ \E j \in Jobs : Ask(c, j)
          \/ Stat(c) \/ Read(c) \/ Leave(c)
    \/ Add \/ \E i \in DOMAIN customers : Change(i)

Spec == Init /\ [][Next]_vars

-------------------------------------------------------------------------------
(* Properties. *)

(* The variables keep their types. *)
TypeOK ==
    /\ customers \in Seq(BOOLEAN)
    /\ request \in [Jobs -> {"count", "dispatch", "refused", "done"}]
    /\ job \in [Jobs -> Job]
    /\ run \in Run
    /\ DOMAIN disk \subseteq Jobs
    /\ \A f \in DOMAIN disk : disk[f] \in Seq(Lines)
    /\ download \in [Clients -> Download]
    /\ counted \in [Jobs -> SUBSET Ids]
    /\ answer \in [Jobs -> Seq(Ids)]
    /\ short \in [Jobs -> BOOLEAN]
    /\ edits \in 0 .. MaxEdits

(* What job j should write: the header and every row of its query. *)
Whole(j) == <<Header>> \o answer[j]

(* The file is whole; or a full disk took lines from it, and then it has      *)
(* nothing but lines of the whole file and torn ones, and not all of them.    *)
WholeUnlessShort(j, lines) ==
    IF short[j]
    THEN /\ Len(lines) <= Len(Whole(j))
         /\ ToSet(lines) \subseteq ToSet(Whole(j)) \cup {Torn}
         /\ Len(lines) = Len(Whole(j)) => Torn \in ToSet(lines)
    ELSE lines = Whole(j)

(* A download that was not broken off is the header and every row of one      *)
(* query of its own job, with the length it announced and as many rows as     *)
(* the job reports: no retry, crash, other export or edit of a customer shows *)
(* in it.  Only what a full disk refused is missing.                          *)
DownloadIsWhole ==
    \A c \in Clients : download[c].pc = "done" =>
        LET j == download[c].job IN
        /\ download[c].size = Len(download[c].got)
        /\ job[j].rows = Len(answer[j])
        /\ WholeUnlessShort(j, download[c].got)

(* requestExport compares the count with EXPORT_MAX_ROWS and the job does not *)
(* ask again.  Rows beyond the limit are matched by customers that were not   *)
(* there, or did not match, when the request counted.                         *)
OverLimitOnlyByGrowth ==
    \A j \in Jobs :
        Len(answer[j]) <= EXPORT_MAX_ROWS + Cardinality(ToSet(answer[j]) \ counted[j])

(* The count behind the percentages and the rows come from two statements.    *)
(* However the customers change between them, no more than 100 is reported,   *)
(* and 100 only when every row of the query was handed to fputcsv and the     *)
(* file is the whole export; or what a full disk left of it, which handle     *)
(* does not notice.                                                           *)
ProgressIsHonest ==
    /\ run.progress <= 100
    /\ run.progress = 100 =>
          /\ run.processed = Len(answer[run.job])
          /\ FileName(run.job) \in DOMAIN disk
          /\ WholeUnlessShort(run.job, disk[FileName(run.job)])
===============================================================================
