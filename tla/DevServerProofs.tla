---------------------------- MODULE DevServerProofs ----------------------------
(***************************************************************************)
(* Proofs about DevServer, for pipes of any size, any number of signals    *)
(* and whichever children the options choose.                              *)
(*                                                                         *)
(* NoOrphans speaks of the runner's end.  What holds before it is that     *)
(* somebody will stop every child that is up (Tracked): the child is kept  *)
(* in $processes or about to be, and stopAll, once entered, has it still   *)
(* before it.  That needs the arrays to be arrays (Arrays), for unset      *)
(* drops a child for good only if it has one key, and the signal that      *)
(* makes a child missed to be the end of the script (MissedAtTheEnd).      *)
(***************************************************************************)
EXTENDS DevServer, TLAPS

-------------------------------------------------------------------------------
(* The inductive invariant. *)

Keys(s) == {s[i] : i \in DOMAIN s}
Distinct(s) == \A i, j \in DOMAIN s : s[i] = s[j] => i = j

(* The arrays are arrays, and what the runner still has to do is about       *)
(* children it keeps, what it still has to start about others.               *)
Arrays ==
    /\ Distinct(processes) /\ Distinct(todo) /\ Distinct(starting)
    /\ Keys(todo) \subseteq Keys(processes)
    /\ pc \in {"spawn", "keep"} => starting # <<>> /\ Keys(starting) \cap Keys(processes) = {}
    /\ pc \in {"drop", "await"} => todo # <<>>
    /\ pc = "drop" => ~Up(Head(todo))
    /\ pc = "nap" => "worker" \notin Keys(processes)

(* Somebody will stop n. *)
Watched(n) ==
    /\ pc # "gone"
    /\ n \in Keys(processes) \/ (pc = "keep" /\ n = Head(starting))
    /\ pc \in {"stop", "await"} => n \in Keys(todo)

Tracked == \A n \in Name : Up(n) => killed \/ n \in missed \/ tripped \/ Watched(n)

(* A child is missed once, when the end begins. *)
MissedAtTheEnd == missed # {} => pc \in {"stop", "await", "gone"}

IInv == TypeOK /\ Arrays /\ MissedAtTheEnd /\ Tracked

-------------------------------------------------------------------------------
(* What the sequence operators do to the keys of an array. *)

(* Head and Tail take the first key away, and no other.                      *)
LEMMA HeadTail ==
  ASSUME NEW S, NEW s \in Seq(S), s # <<>>
  PROVE  /\ Head(s) \in S /\ Tail(s) \in Seq(S)
         /\ Keys(s) = {Head(s)} \cup Keys(Tail(s))
         /\ Distinct(s) => Distinct(Tail(s)) /\ Head(s) \notin Keys(Tail(s))
  <1> DEFINE t == Tail(s)
  <1>1. /\ Len(s) \in Nat \ {0} /\ DOMAIN s = 1 .. Len(s)
        /\ Head(s) = s[1] /\ t \in Seq(S)
        /\ DOMAIN t = 1 .. Len(s) - 1
        /\ \A i \in 1 .. Len(s) - 1 : t[i] = s[i + 1]
    OBVIOUS
  <1>2. Head(s) \in S
    BY <1>1
  <1> HIDE DEF t
  <1>3. Keys(s) = {Head(s)} \cup Keys(t)
    <2>1. ASSUME NEW i \in 1 .. Len(s) PROVE s[i] \in {Head(s)} \cup Keys(t)
      <3>1. CASE i = 1
        BY <1>1, <3>1
      <3>2. CASE i # 1
        <4>1. i - 1 \in DOMAIN t /\ t[i - 1] = s[i]
          BY <1>1, <3>2
        <4> QED
          BY <4>1 DEF Keys
      <3> QED
        BY <3>1, <3>2
    <2>2. ASSUME NEW i \in DOMAIN t PROVE t[i] \in Keys(s)
      <3>1. i + 1 \in DOMAIN s /\ t[i] = s[i + 1]
        BY <1>1
      <3> QED
        BY <3>1 DEF Keys
    <2>3. Head(s) \in Keys(s)
      BY <1>1 DEF Keys
    <2>4. Keys(t) \subseteq Keys(s)
      BY <2>2 DEF Keys
    <2>5. Keys(s) \subseteq {Head(s)} \cup Keys(t)
      BY <1>1, <2>1 DEF Keys
    <2> QED
      BY <2>3, <2>4, <2>5
  <1>4. Distinct(s) => Distinct(t) /\ Head(s) \notin Keys(t)
    <2> SUFFICES ASSUME Distinct(s) PROVE Distinct(t) /\ Head(s) \notin Keys(t)
      OBVIOUS
    <2>1. ASSUME NEW i \in DOMAIN t, NEW j \in DOMAIN t, t[i] = t[j] PROVE i = j
      <3>1. i + 1 \in DOMAIN s /\ j + 1 \in DOMAIN s /\ s[i + 1] = s[j + 1] /\ i \in Nat /\ j \in Nat
        BY <1>1, <2>1
      <3> QED
        BY <3>1 DEF Distinct
    <2>2. ASSUME NEW i \in DOMAIN t, t[i] = Head(s) PROVE FALSE
      <3>1. i + 1 \in DOMAIN s /\ 1 \in DOMAIN s /\ s[i + 1] = s[1] /\ i + 1 # 1
        BY <1>1, <2>2
      <3> QED
        BY <3>1 DEF Distinct
    <2> QED
      BY <2>1, <2>2 DEF Distinct, Keys
  <1> QED
    BY <1>1, <1>2, <1>3, <1>4 DEF t

(* Append adds a key.                                                        *)
LEMMA Appended ==
  ASSUME NEW S, NEW s \in Seq(S), NEW n \in S
  PROVE  /\ Append(s, n) \in Seq(S)
         /\ Keys(Append(s, n)) = Keys(s) \cup {n}
         /\ Distinct(s) /\ n \notin Keys(s) => Distinct(Append(s, n))
  <1> DEFINE t == Append(s, n)
  <1>1. /\ Len(s) \in Nat /\ DOMAIN s = 1 .. Len(s) /\ t \in Seq(S)
        /\ DOMAIN t = 1 .. Len(s) + 1
        /\ \A i \in 1 .. Len(s) : t[i] = s[i]
        /\ t[Len(s) + 1] = n
    OBVIOUS
  <1> HIDE DEF t
  <1>2. \A i \in DOMAIN t : (i \in DOMAIN s /\ t[i] = s[i]) \/ (i = Len(s) + 1 /\ t[i] = n)
    BY <1>1
  <1>3. \A i \in DOMAIN s : i \in DOMAIN t /\ t[i] = s[i]
    BY <1>1
  <1>4. Len(s) + 1 \in DOMAIN t
    BY <1>1
  <1>5. Keys(t) = Keys(s) \cup {n}
    BY <1>1, <1>2, <1>3, <1>4 DEF Keys
  <1>6. Distinct(s) /\ n \notin Keys(s) => Distinct(t)
    BY <1>1, <1>2 DEF Keys, Distinct
  <1> QED
    BY <1>1, <1>5, <1>6 DEF t

(* Without takes one key away, wherever it stands.                           *)
LEMMA Unset ==
  ASSUME NEW S, NEW s \in Seq(S), NEW n \in Keys(s), Distinct(s)
  PROVE  /\ Without(s, n) \in Seq(S)
         /\ Keys(Without(s, n)) = Keys(s) \ {n}
         /\ Distinct(Without(s, n))
  <1> DEFINE k == CHOOSE i \in DOMAIN s : s[i] = n
             t == [i \in 1 .. Len(s) - 1 |-> IF i < k THEN s[i] ELSE s[i + 1]]
  <1>1. Without(s, n) = t
    BY DEF Without
  <1>2. k \in DOMAIN s /\ s[k] = n
    BY DEF Keys
  <1>3. Len(s) \in Nat /\ DOMAIN s = 1 .. Len(s) /\ \A i \in 1 .. Len(s) : s[i] \in S
    OBVIOUS
  <1> HIDE DEF k
  <1>4. /\ DOMAIN t = 1 .. Len(s) - 1
        /\ \A i \in 1 .. Len(s) - 1 : t[i] = IF i < k THEN s[i] ELSE s[i + 1]
    OBVIOUS
  <1>5. t \in Seq(S)
    <2>1. Len(s) - 1 \in Nat
      BY <1>2, <1>3
    <2>2. t \in [1 .. Len(s) - 1 -> S]
      BY <1>3, <1>2
    <2> QED
      BY <2>1, <2>2
  <1> HIDE DEF t
  <1>6. \A i \in DOMAIN t : \E j \in DOMAIN s : j # k /\ t[i] = s[j]
    BY <1>2, <1>3, <1>4
  <1>7. \A j \in DOMAIN s : j # k => \E i \in DOMAIN t : t[i] = s[j]
    <2> SUFFICES ASSUME NEW j \in DOMAIN s, j # k PROVE \E i \in DOMAIN t : t[i] = s[j]
      OBVIOUS
    <2>1. CASE j < k
      <3>1. j \in DOMAIN t /\ t[j] = s[j]
        BY <1>2, <1>3, <1>4, <2>1
      <3> QED
        BY <3>1
    <2>2. CASE ~(j < k)
      <3>1. j - 1 \in DOMAIN t /\ t[j - 1] = s[j]
        BY <1>2, <1>3, <1>4, <2>2
      <3> QED
        BY <3>1
    <2> QED
      BY <2>1, <2>2
  <1>8. Keys(t) = Keys(s) \ {n}
    BY <1>2, <1>6, <1>7 DEF Keys, Distinct
  <1>9. Distinct(t)
    <2> SUFFICES ASSUME NEW i \in DOMAIN t, NEW j \in DOMAIN t, t[i] = t[j] PROVE i = j
      BY DEF Distinct
    <2> DEFINE a == IF i < k THEN i ELSE i + 1
               b == IF j < k THEN j ELSE j + 1
    <2>1. a \in DOMAIN s /\ b \in DOMAIN s /\ t[i] = s[a] /\ t[j] = s[b]
      BY <1>2, <1>3, <1>4
    <2>2. a = b
      BY <2>1 DEF Distinct
    <2> QED
      BY <1>2, <1>3, <1>4, <2>2
  <1> QED
    BY <1>1, <1>5, <1>8, <1>9

-------------------------------------------------------------------------------
(* What happens to the children. *)

(* Put leaves the other children alone.                                      *)
LEMMA PutChild ==
  ASSUME TypeOK, NEW n \in Name, NEW state \in {"none", "up", "dead"}, NEW told \in BOOLEAN,
         NEW out \in 0 .. PipeSize, NEW open \in BOOLEAN, Put(n, Proc(state, told, out, open))
  PROVE  /\ child' \in [Name -> Child]
         /\ Up(n)' <=> state = "up"
         /\ \A m \in Name \ {n} : Up(m)' <=> Up(m)
  BY DEF TypeOK, Put, Proc, Child, Up

(* The end of the runner ends no child.                                      *)
LEMMA EndChildren ==
  ASSUME TypeOK, End
  PROVE  /\ child' \in [Name -> Child]
         /\ \A m \in Name : Up(m)' <=> Up(m)
  BY DEF TypeOK, End, Child, Up

(* The fields of a child. *)
LEMMA ChildFields ==
  ASSUME TypeOK, NEW n \in Name
  PROVE  /\ child[n].state \in {"none", "up", "dead"} /\ child[n].told \in BOOLEAN
         /\ child[n].out \in 0 .. PipeSize /\ child[n].open \in BOOLEAN
         /\ Up(n) \in BOOLEAN
  BY DEF TypeOK, Child, Up

(* Only Spawn brings a child up. *)
NoneRises == \A m \in Name : Up(m)' => Up(m)

(* proc_open starts the child that is next, and no other.                    *)
LEMMA SpawnChild ==
  ASSUME TypeOK, Arrays, Spawn
  PROVE  /\ child' \in [Name -> Child] /\ Head(starting) \in Name
         /\ \A m \in Name : Up(m)' <=> m = Head(starting) \/ Up(m)
  <1>1. Head(starting) \in Name
    BY HeadTail DEF TypeOK, Arrays, Spawn
  <1>2. 0 \in 0 .. PipeSize
    BY PipeAssumption
  <1> QED
    BY <1>1, <1>2, PutChild DEF Spawn, NewChild

(* The child at hand in a foreach is a child.                                *)
LEMMA TodoHead ==
  ASSUME TypeOK, todo # <<>>
  PROVE  /\ Head(todo) \in Name /\ Tail(todo) \in Seq(Name)
         /\ Keys(todo) = {Head(todo)} \cup Keys(Tail(todo))
         /\ Distinct(todo) => Distinct(Tail(todo)) /\ Head(todo) \notin Keys(Tail(todo))
  BY HeadTail DEF TypeOK

(* A drain ends no child and starts none.                                    *)
LEMMA DrainChild ==
  ASSUME TypeOK, Drain
  PROVE  child' \in [Name -> Child] /\ \A m \in Name : Up(m)' <=> Up(m)
  <1> DEFINE n == Head(todo)
             left == IF child[n].out > Chunk THEN child[n].out - Chunk ELSE 0
  <1>1. n \in Name /\ Up(n) /\ Put(n, Proc("up", child[n].told, left, child[n].open))
    BY TodoHead DEF Drain
  <1>2. left \in 0 .. PipeSize
    BY <1>1, ChildFields, PipeAssumption
  <1> HIDE DEF n, left
  <1> QED
    BY <1>1, <1>2, PutChild, ChildFields

(* A child that is reaped is not up, and the others stay as they were.       *)
LEMMA ReapChild ==
  ASSUME TypeOK, NEW n \in Name, ~Up(n), Put(n, NoChild)
  PROVE  child' \in [Name -> Child] /\ \A m \in Name : Up(m)' <=> Up(m)
  <1>1. 0 \in 0 .. PipeSize
    BY PipeAssumption
  <1> QED
    BY <1>1, PutChild DEF NoChild

(* proc_terminate tells a child to end; it does not end yet.                 *)
LEMMA TerminateChild ==
  ASSUME TypeOK, Terminate
  PROVE  child' \in [Name -> Child] /\ \A m \in Name : Up(m)' <=> Up(m)
  <1>1. PICK n \in Name : Put(n, Proc(child[n].state, Up(n), child[n].out, FALSE))
    BY TodoHead DEF Terminate
  <1>2. PICK told \in BOOLEAN : told = Up(n)
    BY DEF Up
  <1>3. Put(n, Proc(child[n].state, told, child[n].out, FALSE))
    BY <1>1, <1>2
  <1>4. (Up(n)' <=> child[n].state = "up") /\ \A m \in Name \ {n} : Up(m)' <=> Up(m)
    BY <1>3, PutChild, ChildFields
  <1>5. child' \in [Name -> Child]
    BY <1>3, PutChild, ChildFields
  <1> QED
    BY <1>4, <1>5 DEF Up

(* What the children do by themselves starts none.                           *)
LEMMA OwnStep ==
  ASSUME TypeOK, NEW n \in Name, WriteLine(n) \/ Quit(n) \/ Obey(n)
  PROVE  /\ child' \in [Name -> Child] /\ NoneRises
         /\ UNCHANGED <<runner, pending, signals, history>>
  <1> USE ChildFields DEF NoneRises
  <1>1. CASE WriteLine(n)
    <2>1. child[n].out + 1 \in 0 .. PipeSize
      BY <1>1, PipeAssumption DEF WriteLine
    <2> QED
      BY <1>1, <2>1, PutChild DEF WriteLine
  <1>2. CASE Quit(n)
    BY <1>2, PutChild DEF Quit
  <1>3. CASE Obey(n)
    BY <1>3, PutChild DEF Obey
  <1> QED
    BY <1>1, <1>2, <1>3

-------------------------------------------------------------------------------
(* Types. *)

(* The types, to begin with.                                                 *)
LEMMA InitTypes == Init => TypeOK
  <1> SUFFICES ASSUME Init PROVE TypeOK
    OBVIOUS
  <1>1. starting \in Seq(Name) /\ todo \in Seq(Name) /\ processes \in Seq(Name)
    <2>1. /\ <<"webserver", "worker">> \in Seq(Name) /\ <<"webserver">> \in Seq(Name)
          /\ <<"worker">> \in Seq(Name) /\ <<>> \in Seq(Name)
      BY DEF Name
    <2> QED
      BY <2>1 DEF Init
  <1>2. NoChild \in Child
    BY PipeAssumption DEF NoChild, Proc, Child
  <1>3. pc \in PC
    BY DEF Init, PC
  <1>4. child \in [Name -> Child]
    BY <1>2 DEF Init
  <1>5. signals \in 0 .. MaxSignals
    BY SignalAssumption DEF Init
  <1>6. closed \in SUBSET Name /\ missed \in SUBSET Name /\ mode \in Mode
    BY DEF Init, Mode
  <1>7. running \in BOOLEAN /\ pending \in BOOLEAN /\ tripped \in BOOLEAN /\ killed \in BOOLEAN
    BY DEF Init
  <1> QED
    BY <1>1, <1>3, <1>4, <1>5, <1>6, <1>7 DEF TypeOK

(* Every step keeps the types.                                               *)
LEMMA StepTypes == TypeOK /\ Arrays /\ [Next]_vars => TypeOK'
  <1> SUFFICES ASSUME TypeOK, Arrays, [Next]_vars PROVE TypeOK'
    OBVIOUS
  <1>1. CASE Spawn
    BY <1>1, SpawnChild DEF TypeOK, Spawn, history, PC
  <1>2. CASE SpawnFails
    BY <1>2 DEF TypeOK, SpawnFails, StopAll, history, PC, Mode
  <1>3. CASE Keep
    <2>1. starting # <<>>
      BY <1>3 DEF Arrays, Keep
    <2>2. Head(starting) \in Name /\ Tail(starting) \in Seq(Name)
      BY <2>1, HeadTail DEF TypeOK
    <2>3. Append(processes, Head(starting)) \in Seq(Name)
      BY <2>2 DEF TypeOK
    <2> QED
      BY <1>3, <2>2, <2>3 DEF TypeOK, Keep, history, PC
  <1>4. CASE Turn
    BY <1>4 DEF TypeOK, Turn, history
  <1>5. CASE Drain
    <2>1. Tail(todo) \in Seq(Name)
      BY <1>5, TodoHead DEF Drain
    <2> QED
      BY <1>5, <2>1, DrainChild DEF TypeOK, Drain, history
  <1>6. CASE Reap
    <2>1. Head(todo) \in Name
      BY <1>6, TodoHead DEF Reap
    <2>2. child' \in [Name -> Child]
      BY <1>6, <2>1, ReapChild DEF Reap
    <2> QED
      BY <1>6, <2>1, <2>2 DEF TypeOK, Reap, history, PC
  <1>7. CASE Drop
    <2>1. Tail(todo) \in Seq(Name) /\ Head(todo) \in Keys(processes)
      BY <1>7, TodoHead DEF Drop, Arrays
    <2>2. Without(processes, Head(todo)) \in Seq(Name)
      BY <2>1, Unset DEF TypeOK, Arrays
    <2> QED
      BY <1>7, <2>1, <2>2 DEF TypeOK, Drop, StopAll, history, PC, Mode
  <1>8. CASE Wake
    <2>1. <<"worker">> \in Seq(Name)
      BY DEF Name
    <2> QED
      BY <1>8, <2>1 DEF TypeOK, Wake, history, PC
  <1>9. CASE Terminate
    BY <1>9, TerminateChild DEF TypeOK, Terminate, history, PC
  <1>10. CASE Await
    <2>1. Head(todo) \in Name /\ Tail(todo) \in Seq(Name)
      BY <1>10, TodoHead DEF Await, Arrays
    <2>2. child' \in [Name -> Child]
      BY <1>10, <2>1, ReapChild DEF Await
    <2> QED
      BY <1>10, <2>1, <2>2 DEF TypeOK, Await, history, PC
  <1>11. CASE Trip
    <2>1. CASE mode \in {"script", "handler"}
      BY <1>11, <2>1 DEF TypeOK, Trip, StopAll, PC, Mode
    <2>2. CASE mode \notin {"script", "handler"}
      BY <1>11, <2>2, EndChildren DEF TypeOK, Trip, End, PC
    <2> QED
      BY <2>1, <2>2
  <1>12. CASE Leave
    BY <1>12, EndChildren DEF TypeOK, Leave, End, history, PC
  <1>13. CASE Handle
    <2>1. pc = "keep" => Head(starting) \in Name
      BY HeadTail DEF TypeOK, Arrays
    <2> QED
      BY <1>13, <2>1 DEF TypeOK, Handle, StopAll, PC, Mode
  <1>14. CASE Signal
    BY <1>14, SignalAssumption DEF TypeOK, Signal, runner, history
  <1>15. CASE KillRunner
    BY <1>15, EndChildren DEF TypeOK, KillRunner, End, PC
  <1>16. ASSUME NEW n \in Name, WriteLine(n) \/ Quit(n) \/ Obey(n) PROVE TypeOK'
    BY <1>16, OwnStep DEF TypeOK, runner, history
  <1>17. CASE UNCHANGED vars
    BY <1>17 DEF TypeOK, vars, runner, history
  <1> QED
    BY <1>1, <1>2, <1>3, <1>4, <1>5, <1>6, <1>7, <1>8, <1>9, <1>10, <1>11, <1>12, <1>13,
       <1>14, <1>15, <1>16, <1>17 DEF Next, RunnerStep, Stop

-------------------------------------------------------------------------------
(* The arrays. *)

(* The arrays, to begin with.                                                *)
LEMMA InitArrays == Init => Arrays
  <1> SUFFICES ASSUME Init PROVE Arrays
    OBVIOUS
  <1>1. Keys(<<>>) = {} /\ Distinct(<<>>)
    BY DEF Keys, Distinct
  <1>2. Distinct(starting)
    <2>1. /\ Distinct(<<"webserver", "worker">>) /\ Distinct(<<"webserver">>)
          /\ Distinct(<<"worker">>)
      BY DEF Distinct
    <2> QED
      BY <1>1, <2>1 DEF Init
  <1>3. pc \in {"each", "spawn"} /\ (pc = "spawn" => starting # <<>>)
    BY DEF Init
  <1> QED
    BY <1>1, <1>2, <1>3 DEF Init, Arrays

(* The head of the array in the foreach is a key of it. *)
LEMMA StepArrays == TypeOK /\ Arrays /\ [Next]_vars => Arrays'
  <1> SUFFICES ASSUME TypeOK, Arrays, [Next]_vars PROVE Arrays'
    OBVIOUS
  <1>1. CASE Spawn
    BY <1>1 DEF Arrays, Spawn
  <1>2. CASE SpawnFails
    BY <1>2 DEF Arrays, SpawnFails, StopAll
  <1>3. CASE Keep
    <2>1. starting # <<>> /\ Keys(starting) \cap Keys(processes) = {} /\ Distinct(starting)
      BY <1>3 DEF Arrays, Keep
    <2>2. /\ Head(starting) \in Name
          /\ Keys(starting) = {Head(starting)} \cup Keys(Tail(starting))
          /\ Distinct(Tail(starting)) /\ Head(starting) \notin Keys(Tail(starting))
      BY <2>1, HeadTail DEF TypeOK
    <2>3. Keys(processes') = Keys(processes) \cup {Head(starting)} /\ Distinct(processes')
      BY <1>3, <2>1, <2>2, Appended DEF TypeOK, Arrays, Keep
    <2>4. Keys(Tail(starting)) \cap Keys(processes') = {}
      BY <2>1, <2>2, <2>3
    <2> QED
      BY <1>3, <2>2, <2>3, <2>4 DEF Arrays, Keep
  <1>4. CASE Turn
    BY <1>4 DEF Arrays, Turn
  <1>5. CASE Drain
    <2>1. Distinct(todo') /\ Keys(todo') \subseteq Keys(todo)
      BY <1>5, TodoHead DEF Drain, Arrays
    <2> QED
      BY <1>5, <2>1 DEF Arrays, Drain
  <1>6. CASE Reap
    <2>1. Head(todo) \in Name
      BY <1>6, TodoHead DEF Reap
    <2>2. ~Up(Head(todo))'
      <3>1. \A m \in Name : Up(m)' <=> Up(m)
        BY <1>6, <2>1, ReapChild DEF Reap
      <3> QED
        BY <1>6, <2>1, <3>1 DEF Reap, Up
    <2> QED
      BY <1>6, <2>2 DEF Arrays, Reap
  <1>7. CASE Drop
    <2>1. Head(todo) \in Keys(processes) /\ Distinct(processes)
      BY <1>7, TodoHead DEF Drop, Arrays
    <2>2. /\ Keys(processes') = Keys(processes) \ {Head(todo)}
          /\ Distinct(processes')
      BY <1>7, <2>1, Unset DEF TypeOK, Drop
    <2>3. CASE Head(todo) = "webserver"
      BY <1>7, <2>2, <2>3 DEF Arrays, Drop, StopAll
    <2>4. CASE Head(todo) # "webserver"
      <3>1. /\ Head(todo) = "worker" /\ Distinct(Tail(todo))
            /\ Keys(Tail(todo)) = Keys(todo) \ {Head(todo)}
        BY <1>7, <2>4, TodoHead DEF Drop, Arrays, Name
      <3> QED
        BY <1>7, <2>2, <2>4, <3>1 DEF Arrays, Drop
    <2> QED
      BY <2>3, <2>4
  <1>8. CASE Wake
    <2>1. Keys(<<"worker">>) = {"worker"} /\ Distinct(<<"worker">>) /\ <<"worker">> # <<>>
      BY DEF Keys, Distinct
    <2> QED
      BY <1>8, <2>1 DEF Arrays, Wake
  <1>9. CASE Terminate
    BY <1>9 DEF Arrays, Terminate
  <1>10. CASE Await
    <2>1. Distinct(todo') /\ Keys(todo') \subseteq Keys(todo)
      BY <1>10, TodoHead DEF Await, Arrays
    <2> QED
      BY <1>10, <2>1 DEF Arrays, Await
  <1>11. CASE Trip
    BY <1>11 DEF Arrays, Trip, StopAll, End
  <1>12. CASE Leave
    <2>1. Keys(<<>>) = {} /\ Distinct(<<>>)
      BY DEF Keys, Distinct
    <2> QED
      BY <1>12, <2>1 DEF Arrays, Leave, End
  <1>13. CASE Handle
    BY <1>13 DEF Arrays, Handle, StopAll
  <1>14. CASE Signal
    BY <1>14 DEF Arrays, Signal, runner, Up
  <1>15. CASE KillRunner
    BY <1>15 DEF Arrays, KillRunner, End
  <1>16. ASSUME NEW n \in Name, WriteLine(n) \/ Quit(n) \/ Obey(n) PROVE Arrays'
    <2>1. NoneRises /\ UNCHANGED <<pc, starting, todo, processes>>
      BY <1>16, OwnStep DEF runner
    <2>2. pc = "drop" => Head(todo) \in Name
      BY TodoHead DEF Arrays
    <2>3. pc = "drop" => ~Up(Head(todo))'
      BY <2>1, <2>2 DEF Arrays, NoneRises, Up
    <2> QED
      BY <2>1, <2>3 DEF Arrays
  <1>17. CASE UNCHANGED vars
    BY <1>17 DEF Arrays, vars, runner, Up
  <1> QED
    BY <1>1, <1>2, <1>3, <1>4, <1>5, <1>6, <1>7, <1>8, <1>9, <1>10, <1>11, <1>12, <1>13,
       <1>14, <1>15, <1>16, <1>17 DEF Next, RunnerStep, Stop

-------------------------------------------------------------------------------
(* Nobody is forgotten. *)

(* Every step keeps MissedAtTheEnd.                                          *)
LEMMA StepMissed == MissedAtTheEnd /\ [Next]_vars => MissedAtTheEnd'
  <1> SUFFICES ASSUME MissedAtTheEnd, [Next]_vars PROVE MissedAtTheEnd'
    OBVIOUS
  <1> USE DEF MissedAtTheEnd
  <1>1. CASE Spawn \/ SpawnFails \/ Keep \/ Turn \/ Drain \/ Reap \/ Wake
    BY <1>1 DEF Spawn, SpawnFails, StopAll, Keep, Turn, Drain, Reap, Wake, history
  <1>2. CASE Drop
    BY <1>2 DEF Drop, history
  <1>3. CASE Terminate \/ Await \/ Leave
    BY <1>3 DEF Terminate, Await, Leave, End, history
  <1>4. CASE Trip
    BY <1>4 DEF Trip, StopAll, End
  <1>5. CASE Handle
    BY <1>5 DEF Handle, StopAll
  <1>6. CASE Signal \/ KillRunner
    BY <1>6 DEF Signal, KillRunner, End, runner, history
  <1>7. ASSUME NEW n \in Name, WriteLine(n) \/ Quit(n) \/ Obey(n) PROVE MissedAtTheEnd'
    BY <1>7 DEF WriteLine, Quit, Obey, runner, history
  <1>8. CASE UNCHANGED vars
    BY <1>8 DEF vars, runner, history
  <1> QED
    BY <1>1, <1>2, <1>3, <1>4, <1>5, <1>6, <1>7, <1>8 DEF Next, RunnerStep, Stop

(* Every step leaves somebody to stop a child that is up, or names the reason. *)
LEMMA StepTracked == TypeOK /\ Arrays /\ MissedAtTheEnd /\ Tracked /\ [Next]_vars => Tracked'
  <1> SUFFICES ASSUME TypeOK, Arrays, MissedAtTheEnd, Tracked, [Next]_vars,
                      NEW m \in Name, Up(m)', ~killed', m \notin missed', ~tripped'
               PROVE  Watched(m)'
    BY DEF Tracked
  <1>1. CASE Spawn
    <2>1. m = Head(starting) \/ Up(m)
      BY <1>1, SpawnChild
    <2> QED
      BY <1>1, <2>1 DEF Tracked, Watched, Spawn, history
  <1>2. CASE SpawnFails
    BY <1>2 DEF Tracked, Watched, SpawnFails, StopAll, history, Up
  <1>3. CASE Keep
    <2>1. starting # <<>>
      BY <1>3 DEF Arrays, Keep
    <2>2. Head(starting) \in Name
      BY <2>1, HeadTail DEF TypeOK
    <2>3. Keys(processes') = Keys(processes) \cup {Head(starting)}
      BY <1>3, <2>2, Appended DEF TypeOK, Keep
    <2> QED
      BY <1>3, <2>3 DEF Tracked, Watched, Keep, history, Up
  <1>4. CASE Turn
    BY <1>4 DEF Tracked, Watched, Turn, history, Up
  <1>5. CASE Drain
    <2>1. Up(m)
      BY <1>5, DrainChild
    <2> QED
      BY <1>5, <2>1 DEF Tracked, Watched, Drain, history
  <1>6. CASE Reap
    <2>1. Up(m)
      BY <1>6, TodoHead, ReapChild DEF Reap
    <2> QED
      BY <1>6, <2>1 DEF Tracked, Watched, Reap, history
  <1>7. CASE Drop
    <2>1. Head(todo) \in Keys(processes) /\ Distinct(processes) /\ ~Up(Head(todo))
      BY <1>7, TodoHead DEF Drop, Arrays
    <2>2. Keys(processes') = Keys(processes) \ {Head(todo)}
      BY <1>7, <2>1, Unset DEF TypeOK, Drop
    <2>3. Up(m) /\ m # Head(todo)
      BY <1>7, <2>1 DEF Drop, Up
    <2>4. m \in Keys(processes')
      BY <1>7, <2>2, <2>3 DEF Tracked, Watched, Drop, history
    <2>5. CASE Head(todo) = "webserver"
      BY <1>7, <2>4, <2>5 DEF Watched, Drop, StopAll
    <2>6. CASE Head(todo) # "webserver"
      BY <1>7, <2>4, <2>6 DEF Watched, Drop
    <2> QED
      BY <2>5, <2>6
  <1>8. CASE Wake
    BY <1>8 DEF Tracked, Watched, Wake, history, Up
  <1>9. CASE Terminate
    <2>1. Up(m)
      BY <1>9, TerminateChild
    <2> QED
      BY <1>9, <2>1 DEF Tracked, Watched, Terminate, history
  <1>10. CASE Await
    <2>1. Up(m) /\ todo # <<>>
      BY <1>10, TodoHead, ReapChild DEF Await, Arrays
    <2>2. m # Head(todo)
      BY <1>10, <2>1 DEF Await
    <2>3. m \in Keys(todo) => m \in Keys(Tail(todo))
      BY <2>1, <2>2, TodoHead
    <2> QED
      BY <1>10, <2>1, <2>3 DEF Tracked, Watched, Await, history
  <1>11. CASE Trip
    BY <1>11 DEF Trip
  <1>12. CASE Leave
    <2>1. Up(m) /\ Keys(todo) = {}
      BY <1>12, EndChildren DEF Leave, Keys
    <2> QED
      BY <1>12, <2>1 DEF Tracked, Watched, Leave, history
  <1>13. CASE Handle
    BY <1>13 DEF MissedAtTheEnd, Tracked, Watched, Handle, StopAll, history, Up
  <1>14. CASE Signal
    BY <1>14 DEF Tracked, Watched, Signal, runner, history, Up
  <1>15. CASE KillRunner
    BY <1>15 DEF KillRunner
  <1>16. ASSUME NEW n \in Name, WriteLine(n) \/ Quit(n) \/ Obey(n) PROVE Watched(m)'
    <2>1. Up(m) /\ UNCHANGED <<runner, history>>
      BY <1>16, OwnStep DEF NoneRises
    <2> QED
      BY <2>1 DEF Tracked, Watched, runner, history
  <1>17. CASE UNCHANGED vars
    BY <1>17 DEF Tracked, Watched, vars, runner, history, Up
  <1> QED
    BY <1>1, <1>2, <1>3, <1>4, <1>5, <1>6, <1>7, <1>8, <1>9, <1>10, <1>11, <1>12, <1>13,
       <1>14, <1>15, <1>16, <1>17 DEF Next, RunnerStep, Stop

-------------------------------------------------------------------------------
(* The theorems. *)

(* The invariant holds throughout.                                           *)
LEMMA Invariance == Spec => []IInv
  <1>1. Init => IInv
    BY InitTypes, InitArrays DEF IInv, MissedAtTheEnd, Tracked, Init, Up, NoChild, Proc
  <1>2. IInv /\ [Next]_vars => IInv'
    BY StepTypes, StepArrays, StepMissed, StepTracked DEF IInv
  <1> QED
    BY <1>1, <1>2, PTL DEF Spec

(* The variables keep their types, for pipes of any size and any number of   *)
(* signals.                                                                  *)
THEOREM TypeCorrect == Spec => []TypeOK
  <1>1. IInv => TypeOK
    BY DEF IInv
  <1> QED
    BY <1>1, Invariance, PTL

(* No child outlives the runner, wherever the signals come, unless the runner *)
(* was killed, the child was started and not yet kept, or stopAll met a       *)
(* process that was closed and not yet unset.                                 *)
THEOREM NoOrphansTheorem == Spec => []NoOrphans
  <1>1. IInv => NoOrphans
    BY DEF IInv, Tracked, Watched, NoOrphans
  <1> QED
    BY <1>1, Invariance, PTL
==============================================================================
