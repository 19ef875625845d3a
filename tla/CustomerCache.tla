---------------------------- MODULE CustomerCache ----------------------------
(***************************************************************************)
(* The cache of the customer list and of the statistics: CacheRedis as     *)
(* CustomerService uses it.  Redis holds a generation counter and, under   *)
(* keys that contain a generation, what some request computed from the     *)
(* database.  A read asks for the generation, then for the entry, and on a *)
(* miss runs two queries and stores their result; a write commits, then    *)
(* increments the generation.                                              *)
(*                                                                         *)
(* The customer table is the number of writes committed so far, and the    *)
(* result of a query is the number it saw.  One action is one Redis        *)
(* command or one SQL statement; every Redis command may fail.  Entries    *)
(* are JSON of any filter and page: Keys stands for the filters in use.    *)
(* The counter has no time to live and Redis is assumed to keep it while   *)
(* it keeps entries.                                                       *)
(***************************************************************************)
EXTENDS Naturals

CONSTANTS
    Requests,   \* PHP processes (the worker among them): this many overlap
    Keys,       \* entity and discriminator of the cached reads
    None,       \* no entry
    MaxWrites   \* bound: writes committed in a behaviour

ASSUME MaxWritesAssumption == MaxWrites \in Nat

Writes == 1 .. MaxWrites
Generations == 0 .. MaxWrites

VARIABLES
    data,       \* the last write committed to the table
    generation, \* Redis: customer:version, 0 while the key is absent
    entry,      \* Redis: the cached result, by generation and key
    req,        \* what each request remembers
    acked,      \* history: writes whose request answered or whose job completed
    imported,   \* history: writes of the import job
    bumpedAt    \* history: the generation a write's bump created, 0 before

vars == <<data, generation, entry, req, acked, imported, bumpedAt>>

(* A result comes from two queries: countGet and get, or statusCounts and    *)
(* countCreatedSince.                                                        *)
Result == [first : Nat, second : Nat]

PC == {"idle", "version", "lookup", "first", "second", "store", "serve", "bump", "answer", "import"}

Request == [pc       : PC,
            key      : Keys \cup {None},
            version  : Nat,             \* CacheRedis::$versions, read once per request
            disabled : BOOLEAN,         \* CacheRedis::$disabled, for this request only
            result   : Result,
            since    : SUBSET Writes,   \* history: acked when the read started
            write    : Nat]             \* the write this request committed

Seen(first, second) == [first |-> first, second |-> second]

Reading(pc, key, version, disabled, result, since) ==
    [pc |-> pc, key |-> key, version |-> version, disabled |-> disabled,
     result |-> result, since |-> since, write |-> 0]

Writing(pc, write) ==
    [pc |-> pc, key |-> None, version |-> 0, disabled |-> FALSE,
     result |-> Seen(0, 0), since |-> {}, write |-> write]

Idle == Writing("idle", 0)

At(r, pc) == req[r].pc = pc
Become(r, q) == req' = [req EXCEPT ![r] = q]
Done(r) == Become(r, Idle)

Init ==
    /\ data = 0
    /\ generation = 0
    /\ entry = [g \in Generations |-> [k \in Keys |-> None]]
    /\ req = [r \in Requests |-> Idle]
    /\ acked = {}
    /\ imported = {}
    /\ bumpedAt = [w \in Writes |-> 0]

-------------------------------------------------------------------------------
(* A read: namespaced, then rememberJson. *)

StartRead(r, k) ==
    /\ At(r, "idle")
    /\ Become(r, Reading("version", k, 0, FALSE, Seen(0, 0), acked))
    /\ UNCHANGED <<data, generation, entry, acked, imported, bumpedAt>>

(* Variant, not the code: a failed GET counts as generation 0, cache enabled. *)
ReadVersionKeepingCache(r) ==
    LET q == req[r] IN
    /\ At(r, "version")
    /\ \/ Become(r, Reading("lookup", q.key, generation, FALSE, q.result, q.since))
       \/ Become(r, Reading("lookup", q.key, 0, FALSE, q.result, q.since))
    /\ UNCHANGED <<data, generation, entry, acked, imported, bumpedAt>>

(* version: GET customer:version, or 0 with the cache disabled. *)
ReadVersion(r) ==
    LET q == req[r] IN
    /\ At(r, "version")
    /\ \/ Become(r, Reading("lookup", q.key, generation, FALSE, q.result, q.since))
       \/ Become(r, Reading("first", q.key, 0, TRUE, q.result, q.since))
    /\ UNCHANGED <<data, generation, entry, acked, imported, bumpedAt>>

(* Variant, not the code: a miss is served like a hit. *)
LookupServingMisses(r) ==
    LET q == req[r] IN
    /\ At(r, "lookup")
    /\ Become(r, Reading("serve", q.key, q.version, FALSE, entry[q.version][q.key], q.since))
    /\ UNCHANGED <<data, generation, entry, acked, imported, bumpedAt>>

(* getJson: a hit is served; a miss and an error run the producer. *)
Lookup(r) ==
    LET q == req[r]
        hit == entry[q.version][q.key]
    IN
    /\ At(r, "lookup")
    /\ \/ /\ hit # None
          /\ Become(r, Reading("serve", q.key, q.version, FALSE, hit, q.since))
       \/ /\ hit = None
          /\ Become(r, Reading("first", q.key, q.version, FALSE, q.result, q.since))
       \/ Become(r, Reading("first", q.key, q.version, TRUE, q.result, q.since))
    /\ UNCHANGED <<data, generation, entry, acked, imported, bumpedAt>>

FirstQuery(r) ==
    LET q == req[r] IN
    /\ At(r, "first")
    /\ Become(r, Reading("second", q.key, q.version, q.disabled, Seen(data, 0), q.since))
    /\ UNCHANGED <<data, generation, entry, acked, imported, bumpedAt>>

(* Variant, not the code: the key is composed after the producer ran. *)
SecondQueryThenVersion(r) ==
    LET q == req[r] IN
    /\ At(r, "second")
    /\ Become(r, Reading(IF q.disabled THEN "serve" ELSE "store", q.key, generation, q.disabled,
                         Seen(q.result.first, data), q.since))
    /\ UNCHANGED <<data, generation, entry, acked, imported, bumpedAt>>

SecondQuery(r) ==
    LET q == req[r] IN
    /\ At(r, "second")
    /\ Become(r, Reading(IF q.disabled THEN "serve" ELSE "store", q.key, q.version, q.disabled,
                         Seen(q.result.first, data), q.since))
    /\ UNCHANGED <<data, generation, entry, acked, imported, bumpedAt>>

(* setJson: SETEX, skipped when the payload is too large or Redis fails. *)
Store(r) ==
    LET q == req[r] IN
    /\ At(r, "store")
    /\ \/ entry' = [entry EXCEPT ![q.version][q.key] = q.result]
       \/ UNCHANGED entry
    /\ Become(r, Reading("serve", q.key, q.version, q.disabled, q.result, q.since))
    /\ UNCHANGED <<data, generation, acked, imported, bumpedAt>>

Serve(r) ==
    /\ At(r, "serve")
    /\ Done(r)
    /\ UNCHANGED <<data, generation, entry, acked, imported, bumpedAt>>

-------------------------------------------------------------------------------
(* A write of the API: the statement of CustomerService::create, update,     *)
(* delete, uploadAvatar or removeAvatar, then bump, then the answer.         *)

Write(r) ==
    /\ At(r, "idle")
    /\ data < MaxWrites
    /\ data' = data + 1
    /\ Become(r, Writing("bump", data + 1))
    /\ UNCHANGED <<generation, entry, acked, imported, bumpedAt>>

(* bump: INCR; when Redis fails it may or may not have been applied, and the *)
(* caller ignores the FALSE it returns.                                      *)
Bump(r) ==
    /\ At(r, "bump")
    /\ \/ /\ generation' = generation + 1
          /\ bumpedAt' = [bumpedAt EXCEPT ![req[r].write] = generation + 1]
       \/ UNCHANGED <<generation, bumpedAt>>
    /\ Become(r, Writing("answer", req[r].write))
    /\ UNCHANGED <<data, entry, acked, imported>>

Answer(r) ==
    /\ At(r, "answer")
    /\ acked' = acked \cup {req[r].write}
    /\ Done(r)
    /\ UNCHANGED <<data, generation, entry, imported, bumpedAt>>

(* The import job commits its chunk and completes; it bumps nothing. *)
ImportChunk(r) ==
    /\ At(r, "idle")
    /\ data < MaxWrites
    /\ data' = data + 1
    /\ imported' = imported \cup {data + 1}
    /\ Become(r, Writing("import", data + 1))
    /\ UNCHANGED <<generation, entry, acked, bumpedAt>>

CompleteImport(r) ==
    /\ At(r, "import")
    /\ acked' = acked \cup {req[r].write}
    /\ Done(r)
    /\ UNCHANGED <<data, generation, entry, imported, bumpedAt>>

-------------------------------------------------------------------------------
(* The environment: a process dies, an entry reaches its time to live. *)

Crash(r) ==
    /\ ~At(r, "idle")
    /\ Done(r)
    /\ UNCHANGED <<data, generation, entry, acked, imported, bumpedAt>>

(* Variant, not the code: SET without a time to live. *)
NeverExpire(g, k) ==
    /\ FALSE
    /\ UNCHANGED vars

Expire(g, k) ==
    /\ entry[g][k] # None
    /\ entry' = [entry EXCEPT ![g][k] = None]
    /\ UNCHANGED <<data, generation, req, acked, imported, bumpedAt>>

(* What a request does once it runs. *)
Proceed(r) ==
    \/ ReadVersion(r) \/ Lookup(r) \/ FirstQuery(r) \/ SecondQuery(r) \/ Store(r) \/ Serve(r)
    \/ Bump(r) \/ Answer(r) \/ CompleteImport(r)

RequestStep(r) ==
    \/ \E k \in Keys : StartRead(r, k)
    \/ Write(r) \/ ImportChunk(r)
    \/ Proceed(r)
    \/ Crash(r)

Next ==
    \/ \E r \in Requests : RequestStep(r)
    \/ \E g \in Generations, k \in Keys : Expire(g, k)

Spec == Init /\ [][Next]_vars

(* PHP goes on with a request it started (or kills it at max_execution_time); *)
(* Redis expires every key that has a time to live.                           *)
Fairness ==
    /\ \A r \in Requests : WF_vars(Proceed(r) \/ Crash(r))
    /\ \A g \in Generations, k \in Keys : WF_vars(Expire(g, k))

FairSpec == Spec /\ Fairness

-------------------------------------------------------------------------------
(* Properties. *)

(* The variables keep their types. *)
TypeOK ==
    /\ data \in Generations
    /\ generation \in Generations
    /\ entry \in [Generations -> [Keys -> Result \cup {None}]]
    /\ req \in [Requests -> Request]
    /\ acked \in SUBSET Writes
    /\ imported \in SUBSET Writes
    /\ bumpedAt \in [Writes -> Generations]

(* The writes a read should have seen, answered before it started, and did not. *)
Missed(r) == {w \in req[r].since : w > req[r].result.first \/ w > req[r].result.second}

(* A read serves every write whose bump took effect and that was answered    *)
(* before the read started: however slowly other requests fill the cache,    *)
(* they fill a generation that read never looks at.                          *)
ReadsAfterBumpAreFresh ==
    \A r \in Requests : At(r, "serve") => \A w \in Missed(r) : bumpedAt[w] = 0

(* An entry of the current generation that is out of date or torn is missing *)
(* only writes that never bumped or have not bumped yet: an in-flight write, *)
(* a failed bump, a crash before the bump, or an import.                     *)
StaleEntryHasPendingWrite ==
    \A k \in Keys :
        LET e == entry[generation][k] IN
        e # None => \A w \in Writes : bumpedAt[w] # 0 => w <= e.first /\ w <= e.second

(* Once the writes stop, what the cache holds of the current generation      *)
(* becomes and stays what the database holds: the time to live repairs what  *)
(* a failed bump, a crash or an import left behind.                          *)
CacheConverges ==
    <>[](\A k \in Keys :
           LET e == entry[generation][k] IN
           e # None => e.first = data /\ e.second = data)

(* CustomerService: "Writes bump the namespace, so this is only the upper    *)
(* bound for externally modified data": a read after an import completed     *)
(* sees its rows.                                                            *)
ReadsAfterImportAreFresh ==
    \A r \in Requests : At(r, "serve") => Missed(r) \cap imported = {}
==============================================================================
