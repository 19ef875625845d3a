-------------------------- MODULE CustomerCacheProofs --------------------------
(***************************************************************************)
(* What the generations of CacheRedis are for, with any number of          *)
(* processes, keys and writes: a write that bumped and was answered is     *)
(* seen by every later read, and an entry of the current generation lacks  *)
(* only writes that never bumped.                                          *)
(*                                                                         *)
(* Neither is inductive, for they say nothing of the requests that are on  *)
(* their way.  The invariant rests on one idea: whatever was read for      *)
(* generation g was read after every bump up to g, whose writes were       *)
(* committed before it.                                                    *)
(***************************************************************************)
EXTENDS CustomerCache, FiniteSetTheorems, TLAPS

(* Every write whose bump created a generation up to g is among the first n. *)
Holds(g, n) == \A w \in Writes : bumpedAt[w] # 0 /\ bumpedAt[w] <= g => w <= n

(* Every write answered before a read started is among the first n. *)
Covers(since, n) == \A w \in since : w <= n

(* What a read knows, from step to step. *)
ReadInv(q) ==
    /\ q.pc \in {"version", "lookup", "first", "second", "store", "serve"} =>
          q.key \in Keys /\ q.since \subseteq acked
    /\ q.pc \in {"lookup", "store"} => ~q.disabled
    /\ q.pc \in {"lookup", "first", "second", "store"} /\ ~q.disabled =>
          /\ q.version <= generation
          /\ \A w \in q.since : bumpedAt[w] <= q.version
    /\ q.pc \in {"second", "store"} =>
          /\ Covers(q.since, q.result.first)
          /\ ~q.disabled => Holds(q.version, q.result.first)
    /\ q.pc = "store" =>
          Covers(q.since, q.result.second) /\ Holds(q.version, q.result.second)
    /\ q.pc = "serve" =>
          \A w \in q.since : bumpedAt[w] # 0 => w <= q.result.first /\ w <= q.result.second

WritePC == {"bump", "answer", "import"}

(* A write is announced by one request, at most once, and before its answer. *)
WriteInv(q) ==
    /\ q.pc \in WritePC => q.write \in Writes /\ q.write <= data /\ q.write \notin acked
    /\ q.pc = "bump" => bumpedAt[q.write] = 0

Exclusive ==
    \A r, s \in Requests :
        r # s /\ req[r].pc \in WritePC /\ req[s].pc \in WritePC => req[r].write # req[s].write

Bumped == {w \in Writes : bumpedAt[w] # 0}

(* What was bumped was committed, and every generation has its write. *)
BumpsAreCommitted ==
    /\ generation <= Cardinality(Bumped)
    /\ \A w \in acked : w <= data
    /\ \A w \in Writes : bumpedAt[w] <= generation /\ (bumpedAt[w] # 0 => w <= data)

(* An entry holds what its generation announced. *)
EntriesHold ==
    \A g \in Generations, k \in Keys :
        entry[g][k] # None =>
            /\ g <= generation
            /\ Holds(g, entry[g][k].first) /\ Holds(g, entry[g][k].second)

RequestsKnow == \A r \in Requests : ReadInv(req[r]) /\ WriteInv(req[r])

IInv == TypeOK /\ BumpsAreCommitted /\ EntriesHold /\ RequestsKnow /\ Exclusive

-------------------------------------------------------------------------------
(* The records. *)

LEMMA ReadingType ==
    ASSUME NEW pc \in PC, NEW key \in Keys \cup {None}, NEW version \in Nat,
           NEW disabled \in BOOLEAN, NEW result \in Result, NEW since \in SUBSET Writes
    PROVE  Reading(pc, key, version, disabled, result, since) \in Request
  BY DEF Reading, Request

LEMMA SeenType == ASSUME NEW m \in Nat, NEW n \in Nat PROVE Seen(m, n) \in Result
  BY DEF Seen, Result

LEMMA WritingType ==
    ASSUME NEW pc \in PC, NEW w \in Nat
    PROVE  Writing(pc, w) \in Request
  <1>1. Seen(0, 0) \in Result
    BY SeenType
  <1> QED BY <1>1 DEF Writing, Request

(* The request that does nothing knows nothing. *)
LEMMA IdleKnows == Idle \in Request /\ Idle.pc = "idle" /\ ReadInv(Idle) /\ WriteInv(Idle)
  <1>1. Idle \in Request
    BY WritingType DEF Idle, PC
  <1>2. Idle.pc = "idle"
    BY DEF Idle, Writing
  <1> QED BY <1>1, <1>2 DEF ReadInv, WriteInv, WritePC

(* There are no more generations than writes. *)
LEMMA GenerationsAreBounded ==
    ASSUME NEW S \in SUBSET Writes
    PROVE  IsFiniteSet(S) /\ Cardinality(S) \in Nat /\ Cardinality(S) <= MaxWrites
  <1>1. IsFiniteSet(Writes) /\ Cardinality(Writes) = MaxWrites
    BY FS_Interval, MaxWritesAssumption DEF Writes
  <1>2. IsFiniteSet(S) /\ Cardinality(S) <= Cardinality(Writes)
    BY <1>1, FS_Subset
  <1>3. Cardinality(S) \in Nat
    BY <1>2, FS_CardinalityType
  <1> QED BY <1>1, <1>2, <1>3

-------------------------------------------------------------------------------
(* One request moves on, and Redis and the table stay what they are. *)
LEMMA BecomeKnows ==
    ASSUME IInv, NEW r \in Requests, NEW q \in Request, ReadInv(q), q.pc \notin WritePC,
           Become(r, q), UNCHANGED <<data, generation, entry, acked, imported, bumpedAt>>
    PROVE  IInv'
  <1>1. TypeOK'
    BY DEF IInv, TypeOK, Become
  <1>2. BumpsAreCommitted' /\ EntriesHold'
    BY DEF IInv, BumpsAreCommitted, Bumped, EntriesHold, Holds
  <1>3. \A s \in Requests : req'[s] = IF s = r THEN q ELSE req[s]
    BY DEF IInv, TypeOK, Become
  <1>4. RequestsKnow'
    <2> SUFFICES ASSUME NEW s \in Requests PROVE (ReadInv(req[s]) /\ WriteInv(req[s]))'
      BY DEF RequestsKnow
    <2>1. CASE s = r
      BY <1>3, <2>1 DEF ReadInv, WriteInv, WritePC, Holds, Covers
    <2>2. CASE s # r
      <3>1. req'[s] = req[s] /\ ReadInv(req[s]) /\ WriteInv(req[s])
        BY <1>3, <2>2 DEF IInv, RequestsKnow
      <3> QED BY <3>1 DEF ReadInv, WriteInv, Holds, Covers
    <2> QED BY <2>1, <2>2
  <1>5. Exclusive'
    BY <1>3 DEF IInv, Exclusive
  <1> QED BY <1>1, <1>2, <1>4, <1>5 DEF IInv

(* What the invariant says of the request that acts. *)
LEMMA Fields ==
    ASSUME IInv, NEW r \in Requests
    PROVE  /\ req[r] \in Request /\ ReadInv(req[r]) /\ WriteInv(req[r])
           /\ req[r].version \in Nat /\ req[r].disabled \in BOOLEAN /\ req[r].since \in SUBSET Writes
           /\ req[r].key \in Keys \cup {None} /\ req[r].result \in Result
           /\ req[r].result.first \in Nat /\ req[r].result.second \in Nat
           /\ data \in Nat /\ generation \in Nat
  BY MaxWritesAssumption DEF IInv, TypeOK, RequestsKnow, Request, Result, Generations

LEMMA InitHolds == Init => IInv
  <1> SUFFICES ASSUME Init PROVE IInv
    OBVIOUS
  <1>1. TypeOK
    BY IdleKnows, MaxWritesAssumption DEF Init, TypeOK, Generations, Writes
  <1>2. BumpsAreCommitted
    <2>1. Bumped \in SUBSET Writes
      BY DEF Bumped
    <2>2. Cardinality(Bumped) \in Nat
      BY <2>1, GenerationsAreBounded
    <2> QED BY <2>2 DEF Init, BumpsAreCommitted
  <1>3. EntriesHold
    BY DEF Init, EntriesHold
  <1>4. RequestsKnow
    BY IdleKnows DEF Init, RequestsKnow
  <1>5. Exclusive
    BY IdleKnows DEF Init, Exclusive, WritePC
  <1> QED BY <1>1, <1>2, <1>3, <1>4, <1>5 DEF IInv

-------------------------------------------------------------------------------
(* The steps of a read. *)

LEMMA StartReadHolds ==
    ASSUME IInv, NEW r \in Requests, NEW k \in Keys, StartRead(r, k)
    PROVE  IInv'
  <1> DEFINE q == Reading("version", k, 0, FALSE, Seen(0, 0), acked)
  <1>1. q \in Request
    BY ReadingType, SeenType DEF IInv, TypeOK, PC
  <1>2. ReadInv(q) /\ q.pc \notin WritePC
    BY DEF ReadInv, Reading, WritePC
  <1>3. Become(r, q)
    BY DEF StartRead
  <1> HIDE DEF q
  <1> QED BY <1>1, <1>2, <1>3, BecomeKnows DEF StartRead

LEMMA ReadVersionHolds ==
    ASSUME IInv, NEW r \in Requests, ReadVersion(r)
    PROVE  IInv'
  <1> DEFINE q == req[r]
             hit == Reading("lookup", q.key, generation, FALSE, q.result, q.since)
             miss == Reading("first", q.key, 0, TRUE, q.result, q.since)
  <1>1. /\ q.key \in Keys /\ q.since \subseteq acked /\ q.result \in Result
        /\ q.since \in SUBSET Writes /\ generation \in Nat
    BY Fields DEF ReadVersion, At, ReadInv
  <1>2. hit \in Request /\ miss \in Request
    BY <1>1, ReadingType DEF PC
  <1>3. \A w \in q.since : bumpedAt[w] <= generation
    BY <1>1 DEF IInv, BumpsAreCommitted
  <1>4. ReadInv(hit) /\ hit.pc \notin WritePC
    BY <1>1, <1>3 DEF ReadInv, Reading, WritePC
  <1>5. ReadInv(miss) /\ miss.pc \notin WritePC
    BY <1>1 DEF ReadInv, Reading, WritePC
  <1>6. Become(r, hit) \/ Become(r, miss)
    BY DEF ReadVersion
  <1> HIDE DEF hit, miss
  <1> QED BY <1>2, <1>4, <1>5, <1>6, BecomeKnows DEF ReadVersion

LEMMA LookupHolds ==
    ASSUME IInv, NEW r \in Requests, Lookup(r)
    PROVE  IInv'
  <1> DEFINE q == req[r]
             e == entry[q.version][q.key]
             hit == Reading("serve", q.key, q.version, FALSE, e, q.since)
             miss == Reading("first", q.key, q.version, FALSE, q.result, q.since)
             error == Reading("first", q.key, q.version, TRUE, q.result, q.since)
  <1>1. /\ q.key \in Keys /\ q.since \subseteq acked /\ q.since \in SUBSET Writes
        /\ q.result \in Result /\ q.version \in Nat
        /\ q.version <= generation
        /\ \A w \in q.since : bumpedAt[w] <= q.version
    BY Fields DEF Lookup, At, ReadInv
  <1>2. q.version \in Generations
    BY <1>1, MaxWritesAssumption DEF IInv, TypeOK, Generations
  <1>3. e # None => e \in Result /\ Holds(q.version, e.first) /\ Holds(q.version, e.second)
    BY <1>1, <1>2 DEF IInv, TypeOK, EntriesHold
  <1>4. miss \in Request /\ error \in Request
    BY <1>1, ReadingType DEF PC
  <1>5. ReadInv(miss) /\ miss.pc \notin WritePC /\ ReadInv(error) /\ error.pc \notin WritePC
    BY <1>1 DEF ReadInv, Reading, WritePC
  <1>6. ASSUME e # None PROVE hit \in Request /\ ReadInv(hit) /\ hit.pc \notin WritePC
    <2>1. hit \in Request
      BY <1>1, <1>3, <1>6, ReadingType DEF PC
    <2>2. \A w \in q.since : bumpedAt[w] # 0 => w <= e.first /\ w <= e.second
      BY <1>1, <1>3, <1>6 DEF Holds
    <2> QED BY <1>1, <2>1, <2>2 DEF ReadInv, Reading, WritePC
  <1>7. (e # None /\ Become(r, hit)) \/ Become(r, miss) \/ Become(r, error)
    BY DEF Lookup
  <1>8. UNCHANGED <<data, generation, entry, acked, imported, bumpedAt>>
    BY DEF Lookup
  <1> HIDE DEF hit, miss, error, e
  <1> QED BY <1>4, <1>5, <1>6, <1>7, <1>8, BecomeKnows

LEMMA FirstQueryHolds ==
    ASSUME IInv, NEW r \in Requests, FirstQuery(r)
    PROVE  IInv'
  <1> DEFINE q == req[r]
             next == Reading("second", q.key, q.version, q.disabled, Seen(data, 0), q.since)
  <1>1. /\ q.key \in Keys /\ q.since \subseteq acked /\ q.since \in SUBSET Writes
        /\ q.version \in Nat /\ q.disabled \in BOOLEAN /\ data \in Nat
        /\ ~q.disabled => q.version <= generation /\ \A w \in q.since : bumpedAt[w] <= q.version
    BY Fields DEF FirstQuery, At, ReadInv
  <1>2. next \in Request
    BY <1>1, ReadingType, SeenType DEF PC
  <1>3. Covers(q.since, data) /\ Holds(q.version, data)
    BY <1>1 DEF IInv, BumpsAreCommitted, Covers, Holds
  <1>4. ReadInv(next) /\ next.pc \notin WritePC
    BY <1>1, <1>3 DEF ReadInv, Reading, Seen, WritePC
  <1>5. Become(r, next)
    BY DEF FirstQuery
  <1> HIDE DEF next
  <1> QED BY <1>2, <1>4, <1>5, BecomeKnows DEF FirstQuery

LEMMA SecondQueryHolds ==
    ASSUME IInv, NEW r \in Requests, SecondQuery(r)
    PROVE  IInv'
  <1> DEFINE q == req[r]
             pc == IF q.disabled THEN "serve" ELSE "store"
             next == Reading(pc, q.key, q.version, q.disabled, Seen(q.result.first, data), q.since)
  <1>1. /\ q.key \in Keys /\ q.since \subseteq acked /\ q.since \in SUBSET Writes
        /\ q.version \in Nat /\ q.disabled \in BOOLEAN /\ data \in Nat /\ q.result.first \in Nat
        /\ ~q.disabled => /\ q.version <= generation
                          /\ \A w \in q.since : bumpedAt[w] <= q.version
                          /\ Holds(q.version, q.result.first)
        /\ Covers(q.since, q.result.first)
    BY Fields DEF SecondQuery, At, ReadInv
  <1>2. pc \in PC
    BY DEF PC
  <1>3. next \in Request
    BY <1>1, <1>2, ReadingType, SeenType
  <1>4. Covers(q.since, data) /\ Holds(q.version, data)
    BY <1>1 DEF IInv, BumpsAreCommitted, Covers, Holds
  <1>5. ReadInv(next) /\ next.pc \notin WritePC
    BY <1>1, <1>4 DEF ReadInv, Reading, Seen, WritePC, Covers
  <1>6. Become(r, next)
    BY DEF SecondQuery
  <1> HIDE DEF next
  <1> QED BY <1>3, <1>5, <1>6, BecomeKnows DEF SecondQuery

LEMMA ServeHolds == ASSUME IInv, NEW r \in Requests, Serve(r) PROVE IInv'
  BY IdleKnows, BecomeKnows DEF Serve, Done, WritePC

LEMMA CrashHolds == ASSUME IInv, NEW r \in Requests, Crash(r) PROVE IInv'
  BY IdleKnows, BecomeKnows DEF Crash, Done, WritePC

(* What a read stores was read after every bump up to the generation of its key. *)
LEMMA StoreHolds ==
    ASSUME IInv, NEW r \in Requests, Store(r)
    PROVE  IInv'
  <1> DEFINE q == req[r]
             next == Reading("serve", q.key, q.version, q.disabled, q.result, q.since)
  <1>1. /\ q.key \in Keys /\ q.since \subseteq acked /\ q.since \in SUBSET Writes
        /\ q.version \in Nat /\ q.disabled \in BOOLEAN /\ q.result \in Result
        /\ q.version <= generation
        /\ Covers(q.since, q.result.first) /\ Covers(q.since, q.result.second)
        /\ Holds(q.version, q.result.first) /\ Holds(q.version, q.result.second)
    BY Fields DEF Store, At, ReadInv
  <1>2. q.version \in Generations
    BY <1>1, MaxWritesAssumption DEF IInv, TypeOK, Generations
  <1>3. next \in Request
    BY <1>1, ReadingType DEF PC
  <1>4. ReadInv(next) /\ next.pc \notin WritePC
    BY <1>1 DEF ReadInv, Reading, WritePC, Covers
  <1>5. Become(r, next) /\ UNCHANGED <<data, generation, acked, imported, bumpedAt>>
    BY DEF Store
  <1>6. \A g \in Generations, k \in Keys :
            entry'[g][k] = entry[g][k]
            \/ (g = q.version /\ k = q.key /\ entry'[g][k] = q.result)
    BY <1>1, <1>2 DEF Store, IInv, TypeOK
  <1>7. entry' \in [Generations -> [Keys -> Result \cup {None}]]
    BY <1>1, <1>2 DEF Store, IInv, TypeOK
  <1> HIDE DEF next
  <1>8. \A s \in Requests : req'[s] = IF s = r THEN next ELSE req[s]
    BY <1>5 DEF IInv, TypeOK, Become
  <1>9. TypeOK'
    BY <1>3, <1>5, <1>7 DEF IInv, TypeOK, Become
  <1>10. BumpsAreCommitted'
    BY <1>5 DEF IInv, BumpsAreCommitted, Bumped
  <1>11. EntriesHold'
    <2> SUFFICES ASSUME NEW g \in Generations, NEW k \in Keys, entry'[g][k] # None
                 PROVE  /\ g <= generation'
                        /\ Holds(g, entry[g][k].first)' /\ Holds(g, entry[g][k].second)'
      BY DEF EntriesHold
    <2>1. CASE entry'[g][k] = entry[g][k]
      BY <1>5, <2>1 DEF IInv, EntriesHold, Holds
    <2>2. CASE g = q.version /\ k = q.key /\ entry'[g][k] = q.result
      BY <1>1, <1>5, <2>2 DEF Holds
    <2> QED BY <1>6, <2>1, <2>2
  <1>12. RequestsKnow'
    <2> SUFFICES ASSUME NEW s \in Requests PROVE (ReadInv(req[s]) /\ WriteInv(req[s]))'
      BY DEF RequestsKnow
    <2>1. CASE s = r
      BY <1>4, <1>5, <1>8, <2>1 DEF ReadInv, WriteInv, WritePC, Holds, Covers
    <2>2. CASE s # r
      <3>1. req'[s] = req[s] /\ ReadInv(req[s]) /\ WriteInv(req[s])
        BY <1>8, <2>2 DEF IInv, RequestsKnow
      <3> QED BY <1>5, <3>1 DEF ReadInv, WriteInv, Holds, Covers
    <2> QED BY <2>1, <2>2
  <1>13. Exclusive'
    BY <1>4, <1>8 DEF IInv, Exclusive
  <1> QED BY <1>9, <1>10, <1>11, <1>12, <1>13 DEF IInv

(* An entry expires. *)
LEMMA ExpireHolds ==
    ASSUME IInv, NEW h \in Generations, NEW l \in Keys, Expire(h, l)
    PROVE  IInv'
  <1>1. UNCHANGED <<data, generation, req, acked, imported, bumpedAt>>
    BY DEF Expire
  <1>2. \A g \in Generations, k \in Keys : entry'[g][k] = entry[g][k] \/ entry'[g][k] = None
    BY DEF Expire, IInv, TypeOK
  <1>3. entry' \in [Generations -> [Keys -> Result \cup {None}]]
    BY DEF Expire, IInv, TypeOK
  <1>4. TypeOK'
    BY <1>1, <1>3 DEF IInv, TypeOK
  <1>5. BumpsAreCommitted' /\ Exclusive'
    BY <1>1 DEF IInv, BumpsAreCommitted, Bumped, Exclusive
  <1>6. EntriesHold'
    BY <1>1, <1>2 DEF IInv, EntriesHold, Holds
  <1>7. RequestsKnow'
    BY <1>1 DEF IInv, RequestsKnow, ReadInv, WriteInv, Holds, Covers
  <1> QED BY <1>4, <1>5, <1>6, <1>7 DEF IInv

-------------------------------------------------------------------------------
(* The steps of a write. *)

(* A write is committed: it is the last one, and nothing has announced it. *)
LEMMA CommitHolds ==
    ASSUME IInv, NEW r \in Requests, NEW pc \in {"bump", "import"}, data < MaxWrites,
           data' = data + 1, Become(r, Writing(pc, data + 1)),
           UNCHANGED <<generation, entry, acked, bumpedAt>>, imported' \in SUBSET Writes
    PROVE  IInv'
  <1> DEFINE q == Writing(pc, data + 1)
  <1>1. data \in Nat /\ data + 1 \in Writes /\ data' \in Generations
    BY MaxWritesAssumption DEF IInv, TypeOK, Generations, Writes
  <1>2. q \in Request /\ q.pc = pc /\ q.write = data + 1
    <2>1. pc \in PC /\ data + 1 \in Nat
      BY <1>1 DEF PC
    <2> QED BY <2>1, WritingType DEF Writing
  <1>3. data + 1 \notin acked /\ bumpedAt[data + 1] = 0
    BY <1>1 DEF IInv, TypeOK, BumpsAreCommitted, Generations
  <1>4. ReadInv(q) /\ (q.write \in Writes /\ q.write <= data' /\ q.write \notin acked
                        /\ bumpedAt[q.write] = 0)
    BY <1>1, <1>2, <1>3 DEF ReadInv
  <1>5. Become(r, q)
    OBVIOUS
  <1> HIDE DEF q
  <1>6. \A s \in Requests : req'[s] = IF s = r THEN q ELSE req[s]
    BY <1>5 DEF IInv, TypeOK, Become
  <1>7. TypeOK'
    BY <1>1, <1>2, <1>5 DEF IInv, TypeOK, Become
  <1>8. BumpsAreCommitted'
    BY <1>1 DEF IInv, TypeOK, BumpsAreCommitted, Bumped, Generations, Writes
  <1>9. EntriesHold'
    BY DEF IInv, EntriesHold, Holds
  <1>10. RequestsKnow'
    <2> SUFFICES ASSUME NEW s \in Requests PROVE (ReadInv(req[s]) /\ WriteInv(req[s]))'
      BY DEF RequestsKnow
    <2>1. CASE s = r
      BY <1>2, <1>4, <1>6, <2>1 DEF ReadInv, WriteInv, WritePC
    <2>2. CASE s # r
      <3>1. req'[s] = req[s] /\ ReadInv(req[s]) /\ WriteInv(req[s])
        BY <1>6, <2>2 DEF IInv, RequestsKnow
      <3>2. ReadInv(req[s])'
        BY <3>1 DEF ReadInv, Holds, Covers
      <3>3. WriteInv(req[s])'
        BY <1>1, <3>1 DEF WriteInv, Writes
      <3> QED BY <3>2, <3>3
    <2> QED BY <2>1, <2>2
  <1>11. Exclusive'
    <2>1. \A s \in Requests : req[s].pc \in WritePC => req[s].write # data + 1
      BY <1>1 DEF IInv, RequestsKnow, WriteInv, Writes
    <2> QED BY <1>2, <1>6, <2>1 DEF IInv, Exclusive
  <1> QED BY <1>7, <1>8, <1>9, <1>10, <1>11 DEF IInv

LEMMA WriteHolds == ASSUME IInv, NEW r \in Requests, Write(r) PROVE IInv'
  BY CommitHolds DEF Write, IInv, TypeOK

LEMMA ImportChunkHolds == ASSUME IInv, NEW r \in Requests, ImportChunk(r) PROVE IInv'
  <1>1. data + 1 \in Writes
    BY MaxWritesAssumption DEF ImportChunk, IInv, TypeOK, Generations, Writes
  <1>2. imported' \in SUBSET Writes
    BY <1>1 DEF ImportChunk, IInv, TypeOK
  <1> QED BY <1>2, CommitHolds DEF ImportChunk

(* The generation moves on, behind every write it announces. *)
LEMMA AnnounceHolds ==
    ASSUME IInv, NEW r \in Requests, At(r, "bump"), Become(r, Writing("answer", req[r].write)),
           generation' = generation + 1,
           bumpedAt' = [bumpedAt EXCEPT ![req[r].write] = generation + 1],
           UNCHANGED <<data, entry, acked, imported>>
    PROVE  IInv'
  <1> DEFINE v == req[r].write
             q == Writing("answer", v)
  <1>1. /\ v \in Writes /\ v <= data /\ v \notin acked /\ bumpedAt[v] = 0
        /\ v \in Nat /\ data \in Nat /\ generation \in Nat
    BY Fields DEF At, WriteInv, WritePC, Writes
  <1>2. q \in Request /\ q.pc = "answer" /\ q.write = v
    BY <1>1, WritingType DEF Writing, PC
  <1>3. Become(r, q)
    OBVIOUS
  <1>4. \A w \in Writes : bumpedAt'[w] = IF w = v THEN generation + 1 ELSE bumpedAt[w]
    BY <1>1 DEF IInv, TypeOK
  <1> HIDE DEF q, v
  <1>5. generation + 1 <= Cardinality(Bumped') /\ Cardinality(Bumped') <= MaxWrites
    <2>1. Bumped' = Bumped \cup {v} /\ v \notin Bumped
      BY <1>1, <1>4 DEF Bumped
    <2>2. IsFiniteSet(Bumped) /\ Cardinality(Bumped) \in Nat
      BY GenerationsAreBounded DEF Bumped
    <2>3. Cardinality(Bumped') = Cardinality(Bumped) + 1
      BY <2>1, <2>2, FS_AddElement
    <2>4. Bumped' \in SUBSET Writes
      BY DEF Bumped
    <2>5. Cardinality(Bumped') <= MaxWrites
      BY <2>4, GenerationsAreBounded
    <2> QED BY <1>1, <2>2, <2>3, <2>5 DEF IInv, BumpsAreCommitted
  <1>6. generation + 1 \in Generations
    <2>1. Cardinality(Bumped') \in Nat
      BY GenerationsAreBounded DEF Bumped
    <2> QED BY <1>1, <1>5, <2>1, MaxWritesAssumption DEF Generations
  <1>7. \A s \in Requests : req'[s] = IF s = r THEN q ELSE req[s]
    BY <1>3 DEF IInv, TypeOK, Become
  <1>8. TypeOK'
    <2>1. bumpedAt' \in [Writes -> Generations]
      BY <1>1, <1>4, <1>6 DEF IInv, TypeOK
    <2> QED BY <1>2, <1>3, <1>6, <2>1 DEF IInv, TypeOK, Become
  <1>9. \A w \in Writes : bumpedAt[w] \in Nat /\ bumpedAt[w] <= generation
    BY MaxWritesAssumption DEF IInv, TypeOK, BumpsAreCommitted, Generations
  <1>10. BumpsAreCommitted'
    BY <1>1, <1>4, <1>5, <1>9 DEF IInv, BumpsAreCommitted
  <1>11. ASSUME NEW g \in Nat, g <= generation, NEW n, Holds(g, n) PROVE Holds(g, n)'
    <2> SUFFICES ASSUME NEW w \in Writes, NEW m, m = n, bumpedAt'[w] # 0, bumpedAt'[w] <= g
                 PROVE  w <= m
      BY <1>11 DEF Holds
    <2>1. w # v
      BY <1>1, <1>4, <1>11
    <2> QED BY <1>4, <1>11, <2>1 DEF Holds
  <1>12. EntriesHold'
    <2> SUFFICES ASSUME NEW g \in Generations, NEW k \in Keys, entry[g][k] # None
                 PROVE  /\ g <= generation + 1
                        /\ Holds(g, entry[g][k].first)' /\ Holds(g, entry[g][k].second)'
      BY DEF EntriesHold
    <2>1. g \in Nat /\ g <= generation /\ Holds(g, entry[g][k].first) /\ Holds(g, entry[g][k].second)
      BY MaxWritesAssumption DEF IInv, EntriesHold, Generations
    <2> QED BY <1>1, <1>4, <1>9, <2>1 DEF Holds
  <1>13. RequestsKnow'
    <2> SUFFICES ASSUME NEW s \in Requests PROVE (ReadInv(req[s]) /\ WriteInv(req[s]))'
      BY DEF RequestsKnow
    <2>1. CASE s = r
      BY <1>1, <1>2, <1>7, <2>1 DEF ReadInv, WriteInv, WritePC
    <2>2. CASE s # r
      <3>1. /\ req'[s] = req[s] /\ ReadInv(req[s]) /\ WriteInv(req[s])
            /\ req[s].version \in Nat
        BY <1>7, <2>2, Fields
      <3>2. \A w \in acked : bumpedAt'[w] = bumpedAt[w]
        BY <1>1, <1>4 DEF IInv, TypeOK
      <3>3. ReadInv(req[s])'
        <4>1. req[s].pc \in {"lookup", "first", "second", "store"} /\ ~req[s].disabled
                  => req[s].version <= generation
          BY <3>1 DEF ReadInv
        <4>2. \A n : req[s].version <= generation /\ Holds(req[s].version, n)
                  => Holds(req[s].version, n)'
          BY <1>1, <1>4, <1>9, <3>1 DEF Holds
        <4> QED BY <1>1, <3>1, <3>2, <4>1, <4>2 DEF ReadInv, Covers, Holds
      <3>4. WriteInv(req[s])'
        <4>1. req[s].pc \in WritePC => req[s].write # v
          BY <2>2 DEF IInv, Exclusive, At, WritePC, v
        <4> QED BY <1>4, <3>1, <4>1 DEF WriteInv, WritePC
      <3> QED BY <3>3, <3>4
    <2> QED BY <2>1, <2>2
  <1>14. Exclusive'
    BY <1>2, <1>7 DEF IInv, Exclusive, At, WritePC, v
  <1> QED BY <1>8, <1>10, <1>12, <1>13, <1>14 DEF IInv

(* The bump fails: the write stays unannounced. *)
LEMMA BumpFailsHolds ==
    ASSUME IInv, NEW r \in Requests, At(r, "bump"), Become(r, Writing("answer", req[r].write)),
           UNCHANGED <<data, generation, entry, acked, imported, bumpedAt>>
    PROVE  IInv'
  <1> DEFINE q == Writing("answer", req[r].write)
  <1>1. req[r].write \in Writes /\ req[r].write <= data /\ req[r].write \notin acked
    BY Fields DEF At, WriteInv, WritePC
  <1>2. q \in Request /\ q.pc = "answer" /\ q.write = req[r].write
    <2>1. req[r].write \in Nat
      BY <1>1 DEF Writes
    <2> QED BY <2>1, WritingType DEF Writing, PC
  <1>3. Become(r, q)
    OBVIOUS
  <1> HIDE DEF q
  <1>4. \A s \in Requests : req'[s] = IF s = r THEN q ELSE req[s]
    BY <1>3 DEF IInv, TypeOK, Become
  <1>5. TypeOK'
    BY <1>2, <1>3 DEF IInv, TypeOK, Become
  <1>6. BumpsAreCommitted' /\ EntriesHold'
    BY DEF IInv, BumpsAreCommitted, Bumped, EntriesHold, Holds
  <1>7. RequestsKnow'
    <2> SUFFICES ASSUME NEW s \in Requests PROVE (ReadInv(req[s]) /\ WriteInv(req[s]))'
      BY DEF RequestsKnow
    <2>1. CASE s = r
      BY <1>1, <1>2, <1>4, <2>1 DEF ReadInv, WriteInv, WritePC
    <2>2. CASE s # r
      <3>1. req'[s] = req[s] /\ ReadInv(req[s]) /\ WriteInv(req[s])
        BY <1>4, <2>2 DEF IInv, RequestsKnow
      <3> QED BY <3>1 DEF ReadInv, WriteInv, Holds, Covers
    <2> QED BY <2>1, <2>2
  <1>8. Exclusive'
    BY <1>2, <1>4 DEF IInv, Exclusive, At, WritePC
  <1> QED BY <1>5, <1>6, <1>7, <1>8 DEF IInv

LEMMA BumpHolds == ASSUME IInv, NEW r \in Requests, Bump(r) PROVE IInv'
  <1>1. CASE generation' = generation + 1 /\ bumpedAt' = [bumpedAt EXCEPT ![req[r].write] = generation + 1]
    BY <1>1, AnnounceHolds DEF Bump
  <1>2. CASE UNCHANGED <<generation, bumpedAt>>
    BY <1>2, BumpFailsHolds DEF Bump
  <1> QED BY <1>1, <1>2 DEF Bump

(* A write is answered: from now on reads must see it, if it was announced. *)
LEMMA AnswerHolds ==
    ASSUME IInv, NEW r \in Requests, req[r].pc \in {"answer", "import"}, Done(r),
           acked' = acked \cup {req[r].write},
           UNCHANGED <<data, generation, entry, imported, bumpedAt>>
    PROVE  IInv'
  <1> DEFINE v == req[r].write
  <1>1. v \in Writes /\ v <= data
    BY Fields DEF WriteInv, WritePC
  <1>2. \A s \in Requests : req'[s] = IF s = r THEN Idle ELSE req[s]
    BY DEF IInv, TypeOK, Done, Become
  <1>3. acked \subseteq acked'
    OBVIOUS
  <1>4. TypeOK'
    BY <1>1, IdleKnows DEF IInv, TypeOK, Done, Become
  <1>5. BumpsAreCommitted'
    BY <1>1 DEF IInv, BumpsAreCommitted, Bumped
  <1>6. EntriesHold'
    BY DEF IInv, EntriesHold, Holds
  <1>7. RequestsKnow'
    <2> SUFFICES ASSUME NEW s \in Requests PROVE (ReadInv(req[s]) /\ WriteInv(req[s]))'
      BY DEF RequestsKnow
    <2>1. CASE s = r
      BY <1>2, <2>1, IdleKnows DEF ReadInv, WriteInv, WritePC
    <2>2. CASE s # r
      <3>1. req'[s] = req[s] /\ ReadInv(req[s]) /\ WriteInv(req[s])
        BY <1>2, <2>2 DEF IInv, RequestsKnow
      <3>2. req[s].pc \in WritePC => req[s].write # v
        BY <2>2 DEF IInv, Exclusive, WritePC
      <3>3. ReadInv(req[s])'
        BY <1>3, <3>1 DEF ReadInv, Holds, Covers
      <3>4. WriteInv(req[s])'
        BY <3>1, <3>2 DEF WriteInv
      <3> QED BY <3>3, <3>4
    <2> QED BY <2>1, <2>2
  <1>8. Exclusive'
    BY <1>2, IdleKnows DEF IInv, Exclusive, WritePC
  <1> QED BY <1>4, <1>5, <1>6, <1>7, <1>8 DEF IInv

LEMMA StutterHolds == ASSUME IInv, UNCHANGED vars PROVE IInv'
  <1>1. TypeOK' /\ BumpsAreCommitted' /\ EntriesHold'
    BY DEF vars, IInv, TypeOK, BumpsAreCommitted, Bumped, EntriesHold, Holds
  <1>2. RequestsKnow' /\ Exclusive'
    BY DEF vars, IInv, RequestsKnow, ReadInv, WriteInv, Holds, Covers, Exclusive
  <1> QED BY <1>1, <1>2 DEF IInv

-------------------------------------------------------------------------------
(* Every step preserves the invariant. *)
LEMMA StepHolds == IInv /\ [Next]_vars => IInv'
  <1> SUFFICES ASSUME IInv, [Next]_vars PROVE IInv'
    OBVIOUS
  <1>1. ASSUME NEW r \in Requests, NEW k \in Keys, StartRead(r, k) PROVE IInv'
    BY <1>1, StartReadHolds
  <1>2. ASSUME NEW r \in Requests, Write(r) \/ ImportChunk(r) PROVE IInv'
    BY <1>2, WriteHolds, ImportChunkHolds
  <1>3. ASSUME NEW r \in Requests, Proceed(r) PROVE IInv'
    <2>1. CASE Answer(r) \/ CompleteImport(r)
      BY <2>1, AnswerHolds DEF Answer, CompleteImport, At
    <2>2. CASE ReadVersion(r) \/ Lookup(r) \/ FirstQuery(r) \/ SecondQuery(r)
      BY <2>2, ReadVersionHolds, LookupHolds, FirstQueryHolds, SecondQueryHolds
    <2>3. CASE Store(r) \/ Serve(r) \/ Bump(r)
      BY <2>3, StoreHolds, ServeHolds, BumpHolds
    <2> QED BY <1>3, <2>1, <2>2, <2>3 DEF Proceed
  <1>4. ASSUME NEW r \in Requests, Crash(r) PROVE IInv'
    BY <1>4, CrashHolds
  <1>5. ASSUME NEW g \in Generations, NEW k \in Keys, Expire(g, k) PROVE IInv'
    BY <1>5, ExpireHolds
  <1>6. CASE UNCHANGED vars
    BY <1>6, StutterHolds
  <1> QED BY <1>1, <1>2, <1>3, <1>4, <1>5, <1>6 DEF Next, RequestStep

(* The inductive invariant holds in every reachable state. *)
LEMMA Inductive == Spec => []IInv
  BY InitHolds, StepHolds, PTL DEF Spec

(* The variables keep their types; above all, the generation counter never *)
(* passes the number of writes, for every INCR belongs to a write.         *)
THEOREM TypeCorrect == Spec => []TypeOK
  <1>1. IInv => TypeOK
    BY DEF IInv
  <1> QED BY Inductive, <1>1, PTL

(* CacheRedis::namespaced and rememberJson: a read serves every write that   *)
(* bumped and was answered before it started, with any number of processes.  *)
THEOREM ReadsAreFresh == Spec => []ReadsAfterBumpAreFresh
  <1>1. IInv => ReadsAfterBumpAreFresh
    <2> SUFFICES ASSUME IInv, NEW r \in Requests, At(r, "serve"), NEW w \in Missed(r)
                 PROVE  bumpedAt[w] = 0
      BY DEF ReadsAfterBumpAreFresh
    <2>1. w \in req[r].since /\ (w > req[r].result.first \/ w > req[r].result.second)
      BY DEF Missed
    <2>2. bumpedAt[w] # 0 => w <= req[r].result.first /\ w <= req[r].result.second
      BY <2>1, Fields DEF At, ReadInv
    <2>3. w \in Nat /\ req[r].result.first \in Nat /\ req[r].result.second \in Nat
      BY <2>1, Fields DEF Writes
    <2> QED BY <2>1, <2>2, <2>3
  <1> QED BY Inductive, <1>1, PTL

(* CacheRedis::bump: an out-of-date entry of the current generation lacks  *)
(* only writes that never bumped.                                          *)
THEOREM StaleEntriesHaveAReason == Spec => []StaleEntryHasPendingWrite
  <1>1. IInv => StaleEntryHasPendingWrite
    <2> SUFFICES ASSUME IInv, NEW k \in Keys, entry[generation][k] # None,
                        NEW w \in Writes, bumpedAt[w] # 0
                 PROVE  w <= entry[generation][k].first /\ w <= entry[generation][k].second
      BY DEF StaleEntryHasPendingWrite
    <2>1. generation \in Generations /\ bumpedAt[w] <= generation
      BY DEF IInv, TypeOK, BumpsAreCommitted
    <2> QED BY <2>1 DEF IInv, EntriesHold, Holds
  <1> QED BY Inductive, <1>1, PTL
===============================================================================
