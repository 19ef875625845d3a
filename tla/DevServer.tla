------------------------------- MODULE DevServer -------------------------------
(***************************************************************************)
(* The development runner bin/dev-server: it starts the webserver and the  *)
(* worker, prints what they write, restarts the worker, and stops both on  *)
(* SIGINT, SIGTERM and when the webserver ends.                            *)
(*                                                                         *)
(* The runner is one PHP process with asynchronous signals: a handler runs *)
(* between any two of its steps and never comes back, for it ends in       *)
(* exit(0).  proc_close waits in C, where no handler runs, and a handler   *)
(* is not interrupted by another.  exit and an uncaught error both run the *)
(* shutdown function, once.  A process that ends without stopping its      *)
(* children leaves them running, with their pipes closed.                  *)
(*                                                                         *)
(* proc_open is given a string, so that its child is /bin/sh.  The shell   *)
(* is assumed to replace itself by the one command of the string, as dash  *)
(* and bash do: the signal of proc_terminate then reaches PHP itself.      *)
(*                                                                         *)
(* Abstracted: the options are the set of children wanted, the two output  *)
(* pipes of a child are one, a line is a unit, and usleep is no step.      *)
(***************************************************************************)
EXTENDS Naturals, Sequences

CONSTANTS
    PipeSize,   \* lines a pipe holds before its writer waits
    Chunk,      \* lines drain takes from a pipe at a time (8192 bytes)
    MaxSignals  \* bound: SIGINT and SIGTERM the runner gets

ASSUME PipeAssumption == PipeSize \in Nat \ {0} /\ Chunk \in Nat \ {0}
ASSUME SignalAssumption == MaxSignals \in Nat

Name == {"webserver", "worker"}

VARIABLES
    pc,         \* what the runner does next
    starting,   \* the children it has still to start, in order
    todo,       \* the rest of the foreach it is in
    processes,  \* $processes: the children it keeps, in the order of the array
    closed,     \* those of them whose process resource is closed
    running,    \* $running
    mode,       \* whose code runs: the script's, the handler's, the shutdown function's
    pending,    \* a signal waits for its handler
    signals,    \* signals so far
    child,      \* the system's processes
    missed,     \* history: the child that was started and not yet kept when the end came
    tripped,    \* history: stopAll met a closed process
    killed      \* history: the runner died without a handler (SIGKILL, SIGHUP)

runner == <<pc, starting, todo, processes, closed, running, mode>>
history == <<missed, tripped, killed>>
vars == <<runner, pending, signals, child, history>>

-------------------------------------------------------------------------------
PC == {"spawn", "keep", "each", "drop", "nap", "stop", "await", "gone"}
Mode == {"script", "handler", "shutdown", "last"}

(* "told": SIGTERM was sent; "out": lines in the pipe; "open": so is the pipe. *)
Child == [state : {"none", "up", "dead"}, told : BOOLEAN, out : 0 .. PipeSize, open : BOOLEAN]

Proc(state, told, out, open) == [state |-> state, told |-> told, out |-> out, open |-> open]
NoChild == Proc("none", FALSE, 0, FALSE)
NewChild == Proc("up", FALSE, 0, TRUE)

Up(n) == child[n].state = "up"
Put(n, c) == child' = [child EXCEPT ![n] = c]

(* unset($s[$n]): an array has a key once. *)
Without(s, n) ==
    LET k == CHOOSE i \in DOMAIN s : s[i] = n
    IN  [i \in 1 .. Len(s) - 1 |-> IF i < k THEN s[i] ELSE s[i + 1]]

(* The process ends: PHP closes the pipes, and waits for nobody. *)
End ==
    /\ pc' = "gone"
    /\ child' = [n \in Name |-> [child[n] EXCEPT !.open = FALSE]]

(* Enter stopAll. *)
StopAll(as) ==
    /\ pc' = "stop"
    /\ mode' = as
    /\ running' = FALSE

Init ==
    /\ starting \in {<<"webserver", "worker">>, <<"webserver">>, <<"worker">>, <<>>}
    /\ pc = IF starting = <<>> THEN "each" ELSE "spawn"   \* both --no-worker and --worker-only
    /\ todo = <<>> /\ processes = <<>>
    /\ closed = {}
    /\ running = TRUE
    /\ mode = "script"
    /\ pending = FALSE
    /\ signals = 0
    /\ child = [n \in Name |-> NoChild]
    /\ missed = {}
    /\ tripped = FALSE
    /\ killed = FALSE

-------------------------------------------------------------------------------
(* $start: proc_open, then $processes[$name]. *)

Spawn ==
    /\ pc = "spawn"
    /\ Put(Head(starting), NewChild)
    /\ pc' = "keep"
    /\ UNCHANGED <<starting, todo, processes, closed, running, mode, pending, signals, history>>

(* proc_open fails: exit(1), and with it the shutdown function. *)
SpawnFails ==
    /\ pc = "spawn"
    /\ StopAll("shutdown")
    /\ todo' = processes
    /\ UNCHANGED <<starting, processes, closed, pending, signals, child, history>>

Keep ==
    /\ pc = "keep"
    /\ processes' = Append(processes, Head(starting))
    /\ starting' = Tail(starting)
    /\ pc' = IF Tail(starting) = <<>> THEN "each" ELSE "spawn"
    /\ UNCHANGED <<todo, closed, running, mode, pending, signals, child, history>>

-------------------------------------------------------------------------------
(* The main loop. *)

(* Another turn: foreach over the names there are now. *)
Turn ==
    /\ pc = "each" /\ todo = <<>>
    /\ todo' = processes
    /\ UNCHANGED <<pc, starting, processes, closed, running, mode, pending, signals, child, history>>

(* Variant, not the code: only a child that ended is drained. *)
SkipDrain ==
    /\ pc = "each" /\ todo # <<>> /\ Up(Head(todo))
    /\ todo' = Tail(todo)
    /\ UNCHANGED <<pc, starting, processes, closed, running, mode, pending, signals, child, history>>

(* Variant, not the code: a drain takes a full chunk whatever the pipe holds. *)
DrainFullChunk ==
    LET n == Head(todo)
        c == child[n]
    IN
    /\ pc = "each" /\ todo # <<>> /\ Up(n)
    /\ Put(n, Proc("up", c.told, c.out - Chunk, c.open))
    /\ todo' = Tail(todo)
    /\ UNCHANGED <<pc, starting, processes, closed, running, mode, pending, signals, history>>

(* The child runs: drain one chunk. *)
Drain ==
    LET n == Head(todo)
        c == child[n]
    IN
    /\ pc = "each" /\ todo # <<>> /\ Up(n)
    /\ Put(n, Proc("up", c.told, IF c.out > Chunk THEN c.out - Chunk ELSE 0, c.open))
    /\ todo' = Tail(todo)
    /\ UNCHANGED <<pc, starting, processes, closed, running, mode, pending, signals, history>>

(* It does not: drain, fclose, proc_close. *)
Reap ==
    LET n == Head(todo) IN
    /\ pc = "each" /\ todo # <<>> /\ ~Up(n)
    /\ Put(n, NoChild)
    /\ closed' = closed \cup {n}
    /\ pc' = "drop"
    /\ UNCHANGED <<starting, todo, processes, running, mode, pending, signals, history>>

(* Variant, not the code: the worker is not restarted. *)
DropAndForget ==
    LET n == Head(todo) IN
    /\ pc = "drop"
    /\ processes' = Without(processes, n)
    /\ closed' = closed \ {n}
    /\ IF n = "webserver"
       THEN StopAll("script") /\ todo' = Without(processes, n)
       ELSE pc' = "each" /\ todo' = Tail(todo) /\ UNCHANGED <<running, mode>>
    /\ UNCHANGED <<starting, pending, signals, child, history>>

(* unset; then stopAll for the webserver, sleep(2) for the worker. *)
Drop ==
    LET n == Head(todo) IN
    /\ pc = "drop"
    /\ processes' = Without(processes, n)
    /\ closed' = closed \ {n}
    /\ IF n = "webserver"
       THEN StopAll("script") /\ todo' = Without(processes, n)
       ELSE pc' = "nap" /\ todo' = Tail(todo) /\ UNCHANGED <<running, mode>>
    /\ UNCHANGED <<starting, pending, signals, child, history>>

Wake ==
    /\ pc = "nap"
    /\ starting' = <<"worker">>
    /\ pc' = "spawn"
    /\ UNCHANGED <<todo, processes, closed, running, mode, pending, signals, child, history>>

-------------------------------------------------------------------------------
(* stopAll, child by child: proc_terminate and fclose, then proc_close. *)

(* Variant, not the code: the pipes stay open while proc_close waits. *)
TerminateWithOpenPipes ==
    LET n == Head(todo) IN
    /\ pc = "stop" /\ todo # <<>> /\ n \notin closed
    /\ Put(n, Proc(child[n].state, Up(n), child[n].out, child[n].open))
    /\ pc' = "await"
    /\ UNCHANGED <<starting, todo, processes, closed, running, mode, pending, signals, history>>

Terminate ==
    LET n == Head(todo) IN
    /\ pc = "stop" /\ todo # <<>> /\ n \notin closed
    /\ Put(n, Proc(child[n].state, Up(n), child[n].out, FALSE))
    /\ pc' = "await"
    /\ UNCHANGED <<starting, todo, processes, closed, running, mode, pending, signals, history>>

Await ==
    LET n == Head(todo) IN
    /\ pc = "await" /\ ~Up(n)
    /\ Put(n, NoChild)
    /\ closed' = closed \cup {n}
    /\ todo' = Tail(todo)
    /\ pc' = "stop"
    /\ UNCHANGED <<starting, processes, running, mode, pending, signals, history>>

(* proc_get_status throws on a process that is already closed.  The error   *)
(* ends the script, and the shutdown function meets the same process.       *)
Trip ==
    /\ pc = "stop" /\ todo # <<>> /\ Head(todo) \in closed
    /\ tripped' = TRUE
    /\ IF mode \in {"script", "handler"}
       THEN StopAll("shutdown") /\ todo' = processes /\ UNCHANGED child
       ELSE End /\ UNCHANGED <<todo, running, mode>>
    /\ UNCHANGED <<starting, processes, closed, pending, signals, missed, killed>>

(* $processes = [], and the end of the script, of the handler (exit) or of  *)
(* the shutdown function; the shutdown function then has nothing to stop.   *)
Leave ==
    /\ pc = "stop" /\ todo = <<>>
    /\ processes' = <<>> /\ closed' = {}
    /\ End
    /\ UNCHANGED <<starting, todo, running, mode, pending, signals, history>>

Stop == Terminate \/ Await \/ Trip \/ Leave

-------------------------------------------------------------------------------
(* Signals.  "last": the handler runs in the shutdown function. *)

(* Variant, not the code: the handler leaves without stopAll, and nothing is *)
(* registered for the shutdown.                                              *)
HandleWithoutStopAll ==
    /\ pending
    /\ pc \notin {"await", "gone"}
    /\ mode \in {"script", "shutdown"}
    /\ pending' = FALSE
    /\ End
    /\ missed' = IF pc = "keep" THEN {Head(starting)} ELSE missed
    /\ UNCHANGED <<starting, todo, processes, closed, running, mode, signals, tripped, killed>>

Handle ==
    /\ pending
    /\ pc \notin {"await", "gone"}
    /\ mode \in {"script", "shutdown"}
    /\ pending' = FALSE
    /\ StopAll(IF mode = "script" THEN "handler" ELSE "last")
    /\ todo' = processes
    /\ missed' = IF pc = "keep" THEN {Head(starting)} ELSE missed
    /\ UNCHANGED <<starting, processes, closed, signals, child, tripped, killed>>

Signal ==
    /\ pc # "gone"
    /\ signals < MaxSignals
    /\ signals' = signals + 1
    /\ pending' = TRUE
    /\ UNCHANGED <<runner, child, history>>

KillRunner ==
    /\ pc # "gone"
    /\ End
    /\ killed' = TRUE
    /\ UNCHANGED <<starting, todo, processes, closed, running, mode, pending, signals, missed, tripped>>

-------------------------------------------------------------------------------
(* The children. *)

WriteLine(n) ==
    /\ Up(n) /\ child[n].open /\ child[n].out < PipeSize
    /\ Put(n, Proc("up", child[n].told, child[n].out + 1, TRUE))
    /\ UNCHANGED <<runner, pending, signals, history>>

(* It ends on its own: a crash, a taken port, the worker's recycling. *)
Quit(n) ==
    /\ Up(n)
    /\ Put(n, Proc("dead", child[n].told, child[n].out, child[n].open))
    /\ UNCHANGED <<runner, pending, signals, history>>

(* It ends because it was told, after its last words: a full pipe holds it up. *)
Obey(n) ==
    /\ Up(n) /\ child[n].told
    /\ child[n].open => child[n].out < PipeSize
    /\ Put(n, Proc("dead", TRUE, child[n].out, child[n].open))
    /\ UNCHANGED <<runner, pending, signals, history>>

RunnerStep ==
    \/ Spawn \/ SpawnFails \/ Keep
    \/ Turn \/ Drain \/ Reap \/ Drop \/ Wake
    \/ Stop
    \/ Handle

Next ==
    \/ RunnerStep
    \/ Signal \/ KillRunner
    \/ \E n \in Name : WriteLine(n) \/ Quit(n) \/ Obey(n)

(* The runner keeps running, a signal that stays deliverable gets its        *)
(* handler, and a child that was told to end and may write does end.         *)
Spec ==
    /\ Init /\ [][Next]_vars
    /\ WF_vars(RunnerStep) /\ WF_vars(Handle)
    /\ \A n \in Name : WF_vars(Obey(n))

-------------------------------------------------------------------------------
(* Properties. *)

TypeOK ==
    /\ pc \in PC
    /\ starting \in Seq(Name) /\ todo \in Seq(Name) /\ processes \in Seq(Name)
    /\ closed \in SUBSET Name
    /\ running \in BOOLEAN
    /\ mode \in Mode
    /\ pending \in BOOLEAN
    /\ signals \in 0 .. MaxSignals
    /\ child \in [Name -> Child]
    /\ missed \in SUBSET Name
    /\ tripped \in BOOLEAN /\ killed \in BOOLEAN

(* No child outlives the runner, unless the runner was killed, the signal    *)
(* came between proc_open and $processes, or stopAll met a process the loop  *)
(* had closed and not yet unset.                                             *)
NoOrphans ==
    \A n \in Name : pc = "gone" /\ Up(n) => killed \/ n \in missed \/ tripped

(* "Press Ctrl+C to stop": a signal ends the runner, whatever it is doing    *)
(* and however full the pipes are; so does the end of the webserver.         *)
StopsWhenAsked ==
    /\ pending ~> pc = "gone"
    /\ child["webserver"].state = "dead" ~> pc = "gone"

(* bin/dev-server: the runner "restarts the worker if it exits".             *)
WorkerComesBack ==
    child["worker"].state = "dead" ~> Up("worker") \/ ~running \/ pc = "gone"

(* A child that waits for room in its pipe gets it: no nap of the runner and *)
(* no restart of the other child leaves it waiting for good.                 *)
Stalled(n) == Up(n) /\ child[n].open /\ child[n].out = PipeSize

NobodyStaysStalled == \A n \in Name : Stalled(n) ~> ~Stalled(n)
==============================================================================
