------------------------------- MODULE EnvCache --------------------------------
(***************************************************************************)
(* The bootstrap's configuration: DotEnv.php, which every web request, the *)
(* worker and every command runs first.  It reads .env, or the copy of its *)
(* parsed values in storage/cache/env.cache.json when the copy carries the *)
(* modification time and the size that .env has now.                       *)
(*                                                                         *)
(* One action is one access to a file, and processes, editors of .env and  *)
(* the clock interleave between any two.  is_dir and is_readable leave     *)
(* another file in PHP's one-entry stat cache, so that each comparison and *)
(* each stamp asks the file system, and asks it once for time and size.    *)
(*                                                                         *)
(* Abstracted: a content of .env is a value with a size and a meaning, the *)
(* parsed values are named by the content they come from, and a name that  *)
(* the process environment already holds (populate leaves it alone) is not *)
(* part of the meaning.  A content somebody is still writing is a content. *)
(* The temporary file is private to its process until the rename.          *)
(***************************************************************************)
EXTENDS Naturals

CONSTANTS
    Proc,       \* PHP processes: at most this many bootstraps overlap
    Text,       \* contents of .env
    Size,       \* filesize() of a content
    Meaning,    \* what Dotenv parses out of a content, Fail when it throws
    Unset,      \* the meaning of no .env at all
    Fail,       \* the meaning of a content that makes the bootstrap throw
    Locked,     \* the meaning of a file that may not be read
    None,       \* no content, no stamp, no entry
    MaxClock,   \* bound: filemtime() stays within 0..MaxClock
    MaxEdits    \* bound: changes of .env

ASSUME SizeAssumption == Size \in [Text -> Nat]
ASSUME BoundsAssumption == MaxClock \in Nat /\ MaxEdits \in Nat
ASSUME NoneIsNoContent == None \notin Text
ASSUME UnsetIsNoFailure == Unset # Fail

VARIABLES
    env,        \* .env: its mode, content and modification time
    clock,      \* the second the file system stamps a change with
    edits,      \* changes of .env so far
    cache,      \* env.cache.json
    load,       \* what each bootstrap remembers
    raced,      \* history: bootstraps whose .env changed since they parsed it, or
                \*          closed before they did
    had,        \* history: the stamps .env had, each with its content
    during      \* history: what .env meant while a bootstrap ran

envVars == <<env, clock, edits, cache, load, raced, had, during>>

-------------------------------------------------------------------------------
Stamp == (0 .. MaxClock) \X {Size[t] : t \in Text}
Entry == [stamp : Stamp \cup {None}, text : Text \cup {None}, raced : BOOLEAN]
Outcome == {Meaning[t] : t \in Text} \cup {Unset, Locked}

PC == {"idle", "absent", "lookup", "compare", "parse", "stamp", "rename", "ready", "failed"}

(* "entry" is the copy it read, later the one it will rename into place. *)
Load == [pc : PC, text : Text \cup {None}, entry : Entry \cup {None}]

Loading(pc, text, entry) == [pc |-> pc, text |-> text, entry |-> entry]
Resting == Loading("idle", None, None)

In(p, pc) == load[p].pc = pc
Become(p, l) == load' = [load EXCEPT ![p] = l]

NoFile == [mode |-> "absent", text |-> None, mtime |-> 0]
File == {NoFile} \cup [mode : {"hidden", "readable"}, text : Text, mtime : 0 .. MaxClock]

Exists(file) == file.mode # "absent"
Readable(file) == file.mode = "readable"
StampOf(file) == IF Exists(file) THEN <<file.mtime, Size[file.text]>> ELSE None
PairOf(file) == <<StampOf(file), file.text>>
MeaningOf(text) == IF text = None THEN Unset ELSE Meaning[text]
OutcomeOf(file) ==
    IF Readable(file) THEN Meaning[file.text] ELSE IF Exists(file) THEN Locked ELSE Unset

(* What the bootstrap of p loaded, once it is "ready". *)
Loaded(p) == MeaningOf(load[p].text)

(* The copy may be left from an earlier .env: storage/cache outlives it. *)
EnvInit ==
    /\ clock \in 0 .. MaxClock
    /\ env \in {file \in File : file.mode # "hidden" /\ file.mtime <= clock}
    /\ \/ /\ cache = None
          /\ had = {PairOf(env)}
       \/ \E old \in {file \in File : Readable(file) /\ file.mtime <= clock} :
             /\ Meaning[old.text] # Fail
             /\ cache = [stamp |-> StampOf(old), text |-> old.text, raced |-> FALSE]
             /\ had = {PairOf(env), PairOf(old)}
    /\ edits = 0
    /\ load = [p \in Proc |-> Resting]
    /\ raced = {}
    /\ during = [p \in Proc |-> {}]

-------------------------------------------------------------------------------
(* is_readable, and file_exists when it says no: two looks at the file. *)

Begin(p) ==
    /\ In(p, "idle")
    /\ Become(p, Loading(IF Readable(env) THEN "lookup" ELSE "absent", None, None))
    /\ during' = [during EXCEPT ![p] = {OutcomeOf(env)}]
    /\ UNCHANGED <<env, clock, edits, cache, raced, had>>

CheckAbsent(p) ==
    /\ In(p, "absent")
    /\ Become(p, Loading(IF Exists(env) THEN "failed" ELSE "ready", None, None))
    /\ UNCHANGED <<env, clock, edits, cache, raced, had, during>>

(* The cached copy is read, then compared with what .env looks like now.  A *)
(* copy may be there and be another user's, whom alone it lets read it.     *)

ReadCopy(p) ==
    /\ In(p, "lookup")
    /\ \/ Become(p, Loading("parse", None, None))
       \/ cache # None /\ Become(p, Loading("compare", None, cache))
    /\ UNCHANGED <<env, clock, edits, cache, raced, had, during>>

(* Variant, not the code: the copy is compared by its time only. *)
CompareTime(p) ==
    LET copy == load[p].entry
        Time(stamp) == IF stamp = None THEN None ELSE stamp[1] IN
    /\ In(p, "compare")
    /\ Become(p, IF Time(copy.stamp) = Time(StampOf(env))
                 THEN Loading("ready", copy.text, copy)
                 ELSE Loading("parse", None, None))
    /\ UNCHANGED <<env, clock, edits, cache, raced, had, during>>

(* Variant, not the code: an outdated copy gets the present stamp. *)
CompareAndRestamp(p) ==
    LET copy == load[p].entry IN
    /\ In(p, "compare")
    /\ Become(p, IF copy.stamp = StampOf(env)
                 THEN Loading("ready", copy.text, copy)
                 ELSE Loading("stamp", copy.text, None))
    /\ UNCHANGED <<env, clock, edits, cache, raced, had, during>>

(* Variant, not the code: any copy will do. *)
TrustCopy(p) ==
    /\ In(p, "compare")
    /\ Become(p, Loading("ready", load[p].entry.text, load[p].entry))
    /\ UNCHANGED <<env, clock, edits, cache, raced, had, during>>

(* No stamp matches no stamp: filemtime() of a file that is gone is false,   *)
(* now as it was when the copy was made.                                     *)
Compare(p) ==
    LET copy == load[p].entry IN
    /\ In(p, "compare")
    /\ Become(p, IF copy.stamp = StampOf(env)
                 THEN Loading("ready", copy.text, copy)
                 ELSE Loading("parse", None, None))
    /\ UNCHANGED <<env, clock, edits, cache, raced, had, during>>

(* Dotenv::parse of what file_get_contents returns, '' for a file that went *)
(* away or was closed to the process; a content it cannot parse throws.     *)
Parse(p) ==
    LET text == IF Readable(env) THEN env.text ELSE None IN
    /\ In(p, "parse")
    /\ Become(p, Loading(IF MeaningOf(text) = Fail THEN "failed" ELSE "stamp", text, None))
    /\ raced' = IF Readable(env) THEN raced \ {p} ELSE raced \cup {p}
    /\ UNCHANGED <<env, clock, edits, cache, had, during>>

(* The stamp is what .env looks like by now, not what it did when parsed. *)
(* A directory that cannot be written, values that are not UTF-8, and a   *)
(* full disk leave the copy alone.                                        *)
SkipCopy(p) ==
    /\ In(p, "stamp")
    /\ Become(p, Loading("ready", load[p].text, None))
    /\ raced' = raced \ {p}
    /\ UNCHANGED <<env, clock, edits, cache, had, during>>

MakeCopy(p) ==
    /\ In(p, "stamp")
    /\ Become(p, Loading("rename", load[p].text,
                         [stamp |-> StampOf(env), text |-> load[p].text, raced |-> p \in raced]))
    /\ raced' = raced \ {p}
    /\ UNCHANGED <<env, clock, edits, cache, had, during>>

(* The rename replaces the copy at once; @rename may also fail. *)
InstallCopy(p) ==
    /\ In(p, "rename")
    /\ cache' \in {load[p].entry, cache}
    /\ Become(p, Loading("ready", load[p].text, None))
    /\ UNCHANGED <<env, clock, edits, raced, had, during>>

(* The process answers and ends, or dies on the way. *)
Finish(p) ==
    /\ load[p].pc \in {"ready", "failed"}
    /\ Become(p, Resting)
    /\ during' = [during EXCEPT ![p] = {}]
    /\ UNCHANGED <<env, clock, edits, cache, raced, had>>

Die(p) ==
    /\ load[p].pc \notin {"idle", "ready", "failed"}
    /\ Become(p, Resting)
    /\ during' = [during EXCEPT ![p] = {}]
    /\ raced' = raced \ {p}
    /\ UNCHANGED <<env, clock, edits, cache, had>>

-------------------------------------------------------------------------------
(* The environment. *)

(* Somebody saves, moves, restores, opens or closes .env.  A copied file may *)
(* bring an older modification time along; closing it (chmod) changes none.  *)
Edit(file) ==
    /\ edits < MaxEdits
    /\ file.mtime <= clock
    /\ file # env
    /\ file.mode = "hidden" => file = [env EXCEPT !.mode = "hidden"]
    /\ env' = file
    /\ edits' = edits + 1
    /\ had' = had \cup {PairOf(file)}
    /\ raced' = raced \cup {p \in Proc : In(p, "stamp")}
    /\ during' = [p \in Proc |-> IF In(p, "idle") THEN {} ELSE during[p] \cup {OutcomeOf(file)}]
    /\ UNCHANGED <<clock, cache, load>>

Second ==
    /\ clock < MaxClock
    /\ clock' = clock + 1
    /\ UNCHANGED <<env, edits, cache, load, raced, had, during>>

Bootstrap(p) ==
    \/ CheckAbsent(p) \/ ReadCopy(p) \/ Compare(p) \/ Parse(p)
    \/ SkipCopy(p) \/ MakeCopy(p) \/ InstallCopy(p)

EnvNext ==
    \/ \E p \in Proc : Begin(p) \/ Bootstrap(p) \/ Finish(p) \/ Die(p)
    \/ \E file \in File : Edit(file)
    \/ Second

EnvSpec == EnvInit /\ [][EnvNext]_envVars

-------------------------------------------------------------------------------
(* Properties. *)

EnvTypeOK ==
    /\ env \in File
    /\ clock \in 0 .. MaxClock
    /\ edits \in 0 .. MaxEdits
    /\ cache \in Entry \cup {None}
    /\ load \in [Proc -> Load]
    /\ raced \in SUBSET Proc
    /\ had \in SUBSET ((Stamp \cup {None}) \X (Text \cup {None}))
    /\ during \in [Proc -> SUBSET Outcome]

(* Two contents were seen under one time and size: the edit that keeps both. *)
Twin(stamp) ==
    \E a, b \in had : a[1] = stamp /\ b[1] = stamp /\ a[2] # b[2]

Excused(entry) == entry.raced \/ Twin(entry.stamp)

(* The copy is mistaken for the present .env in two ways only: the edit that *)
(* keeps time and size, which docs/architecture.md names, and a change under *)
(* the process that wrote the copy, between its parse and its stamp or, when *)
(* it closed the file, before the parse.  No order of renames, no crash and  *)
(* no restored file does it.                                                 *)
StaleCopyHasACause ==
    cache # None /\ cache.stamp = StampOf(env) /\ cache.text # env.text
        => Excused(cache)

(* A bootstrap ends with what .env meant at some moment while it ran, and    *)
(* fails only if .env could not be parsed at such a moment or was not there  *)
(* at one of its two looks; the exceptions are those of StaleCopyHasACause   *)
(* and a file that was closed to the process at some moment.                 *)
LoadIsCurrent ==
    \A p \in Proc : Locked \notin during[p] =>
        /\ In(p, "ready") =>
              Loaded(p) \in during[p] \/ (load[p].entry # None /\ Excused(load[p].entry))
        /\ In(p, "failed") => Fail \in during[p] \/ Unset \in during[p]
==============================================================================
