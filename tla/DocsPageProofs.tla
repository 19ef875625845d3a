---------------------------- MODULE DocsPageProofs ----------------------------
(***************************************************************************)
(* Proofs about EnvCache, for any number of processes and contents, and    *)
(* about DocsPage on top of it, for any number of sites and faults.  As    *)
(* far as .env is concerned a page is one bootstrap among others, so that  *)
(* what is shown of EnvCache carries over to the page.                     *)
(***************************************************************************)
EXTENDS DocsPage, TLAPS

-------------------------------------------------------------------------------
(* EnvCache.  Its type correctness needs to know who holds a copy. *)

CopyInHand == \A p \in Proc : load[p].pc \in {"compare", "rename"} => load[p].entry \in Entry

(* What a process may remember. *)
Sound(l) ==
    /\ l \in Load
    /\ l.pc \in {"compare", "rename"} => l.entry \in Entry

(* Loads are built from a step, a content and a copy. *)
LEMMA LoadingTypes ==
  ASSUME NEW pc \in PC, NEW text \in Text \cup {None}, NEW entry \in Entry \cup {None},
         pc \in {"compare", "rename"} => entry \in Entry
  PROVE  Sound(Loading(pc, text, entry))
  BY DEF Sound, Loading, Load

(* One process moves on and the others stay what they are. *)
LEMMA BecomeTypes ==
  ASSUME NEW p \in Proc, NEW l, Sound(l), Become(p, l), EnvTypeOK, CopyInHand
  PROVE  load' \in [Proc -> Load] /\ CopyInHand'
  BY DEF Become, Sound, EnvTypeOK, CopyInHand

(* A file has a stamp of the right type, and a meaning. *)
LEMMA FileTypes ==
  ASSUME NEW file \in File
  PROVE  /\ StampOf(file) \in Stamp \cup {None}
         /\ file.text \in Text \cup {None}
         /\ Readable(file) => file.text \in Text
         /\ PairOf(file) \in (Stamp \cup {None}) \X (Text \cup {None})
         /\ OutcomeOf(file) \in Outcome
  <1>1. CASE file = NoFile
    BY <1>1 DEF NoFile, StampOf, PairOf, OutcomeOf, Exists, Readable, Outcome
  <1>2. CASE file \in [mode : {"hidden", "readable"}, text : Text, mtime : 0 .. MaxClock]
    <2>1. file.text \in Text /\ file.mtime \in 0 .. MaxClock
      BY <1>2
    <2>2. <<file.mtime, Size[file.text]>> \in Stamp
      BY <2>1 DEF Stamp
    <2> QED
      BY <1>2, <2>1, <2>2 DEF StampOf, PairOf, OutcomeOf, Exists, Readable, Outcome
  <1> QED
    BY <1>1, <1>2 DEF File

(* The first copy is one an earlier .env left. *)
LEMMA EnvInitTypes == EnvInit => EnvTypeOK /\ CopyInHand
  <1> SUFFICES ASSUME EnvInit PROVE EnvTypeOK /\ CopyInHand
    OBVIOUS
  <1>1. env \in File /\ clock \in 0 .. MaxClock /\ edits \in 0 .. MaxEdits
    BY BoundsAssumption DEF EnvInit
  <1>2. PairOf(env) \in (Stamp \cup {None}) \X (Text \cup {None})
    BY <1>1, FileTypes
  <1>3. cache \in Entry \cup {None} /\ had \in SUBSET ((Stamp \cup {None}) \X (Text \cup {None}))
    <2>1. CASE cache = None /\ had = {PairOf(env)}
      BY <2>1, <1>2
    <2>2. ASSUME NEW old \in File, Readable(old), had = {PairOf(env), PairOf(old)},
                 cache = [stamp |-> StampOf(old), text |-> old.text, raced |-> FALSE]
          PROVE  cache \in Entry \cup {None}
                 /\ had \in SUBSET ((Stamp \cup {None}) \X (Text \cup {None}))
      BY <2>2, <1>2, FileTypes DEF Entry
    <2> QED
      BY <2>1, <2>2 DEF EnvInit
  <1>4. Sound(Resting)
    BY LoadingTypes DEF Resting, PC
  <1>5. load \in [Proc -> Load] /\ CopyInHand
    BY <1>4 DEF EnvInit, Sound, CopyInHand
  <1> QED
    BY <1>1, <1>3, <1>5 DEF EnvInit, EnvTypeOK

(* Every access keeps the types. *)
LEMMA EnvStepTypes == EnvTypeOK /\ CopyInHand /\ [EnvNext]_envVars => EnvTypeOK' /\ CopyInHand'
  <1> SUFFICES ASSUME EnvTypeOK, CopyInHand, [EnvNext]_envVars PROVE EnvTypeOK' /\ CopyInHand'
    OBVIOUS
  <1>0. /\ env \in File
        /\ \A p \in Proc : load[p] \in Load /\ during[p] \in SUBSET Outcome
    BY DEF EnvTypeOK
  <1>a. OutcomeOf(env) \in Outcome /\ StampOf(env) \in Stamp \cup {None}
        /\ (Readable(env) => env.text \in Text)
    BY <1>0, FileTypes
  <1>b. \A p \in Proc : load[p].text \in Text \cup {None} /\ load[p].entry \in Entry \cup {None}
    BY <1>0 DEF Load
  <1>1. CASE UNCHANGED envVars
    BY <1>1 DEF envVars, EnvTypeOK, CopyInHand
  <1>2. ASSUME NEW p \in Proc, Begin(p) PROVE EnvTypeOK' /\ CopyInHand'
    <2>1. Sound(Loading(IF Readable(env) THEN "lookup" ELSE "absent", None, None))
      BY LoadingTypes DEF PC
    <2> QED
      BY <1>2, <1>a, <2>1, BecomeTypes DEF Begin, EnvTypeOK
  <1>3. ASSUME NEW p \in Proc, CheckAbsent(p) PROVE EnvTypeOK' /\ CopyInHand'
    <2>1. Sound(Loading(IF Exists(env) THEN "failed" ELSE "ready", None, None))
      BY LoadingTypes DEF PC
    <2> QED
      BY <1>3, <2>1, BecomeTypes DEF CheckAbsent, EnvTypeOK
  <1>4. ASSUME NEW p \in Proc, ReadCopy(p) PROVE EnvTypeOK' /\ CopyInHand'
    <2>1. /\ Sound(Loading("parse", None, None))
          /\ cache # None => Sound(Loading("compare", None, cache))
      BY LoadingTypes DEF PC, EnvTypeOK
    <2> QED
      BY <1>4, <2>1, BecomeTypes DEF ReadCopy, EnvTypeOK
  <1>5. ASSUME NEW p \in Proc, Compare(p) PROVE EnvTypeOK' /\ CopyInHand'
    <2> DEFINE copy == load[p].entry
    <2>1. copy \in Entry /\ copy.text \in Text \cup {None}
      BY <1>5 DEF Compare, In, CopyInHand, Entry
    <2>2. Sound(Loading("ready", copy.text, copy)) /\ Sound(Loading("parse", None, None))
      BY <2>1, LoadingTypes DEF PC
    <2> QED
      BY <1>5, <2>2, BecomeTypes DEF Compare, EnvTypeOK
  <1>6. ASSUME NEW p \in Proc, Parse(p) PROVE EnvTypeOK' /\ CopyInHand'
    <2> DEFINE text == IF Readable(env) THEN env.text ELSE None
    <2>1. text \in Text \cup {None}
      BY <1>a
    <2>2. Sound(Loading(IF MeaningOf(text) = Fail THEN "failed" ELSE "stamp", text, None))
      BY <2>1, LoadingTypes DEF PC
    <2>3. load' \in [Proc -> Load] /\ CopyInHand'
      BY <1>6, <2>2, BecomeTypes DEF Parse
    <2> QED
      BY <1>6, <2>3 DEF Parse, EnvTypeOK
  <1>7. ASSUME NEW p \in Proc, SkipCopy(p) PROVE EnvTypeOK' /\ CopyInHand'
    <2>1. Sound(Loading("ready", load[p].text, None))
      BY <1>b, LoadingTypes DEF PC
    <2> QED
      BY <1>7, <2>1, BecomeTypes DEF SkipCopy, EnvTypeOK
  <1>8. ASSUME NEW p \in Proc, MakeCopy(p) PROVE EnvTypeOK' /\ CopyInHand'
    <2> DEFINE made == [stamp |-> StampOf(env), text |-> load[p].text, raced |-> p \in raced]
    <2>1. made \in Entry
      BY <1>a, <1>b DEF Entry
    <2>2. Sound(Loading("rename", load[p].text, made))
      BY <1>b, <2>1, LoadingTypes DEF PC
    <2> QED
      BY <1>8, <2>2, BecomeTypes DEF MakeCopy, EnvTypeOK
  <1>9. ASSUME NEW p \in Proc, InstallCopy(p) PROVE EnvTypeOK' /\ CopyInHand'
    <2>1. Sound(Loading("ready", load[p].text, None))
      BY <1>b, LoadingTypes DEF PC
    <2>2. cache' \in Entry \cup {None}
      BY <1>9, <1>b DEF InstallCopy, EnvTypeOK
    <2> QED
      BY <1>9, <2>1, <2>2, BecomeTypes DEF InstallCopy, EnvTypeOK
  <1>10. Sound(Resting)
    BY LoadingTypes DEF Resting, PC
  <1>11. ASSUME NEW p \in Proc, Finish(p) PROVE EnvTypeOK' /\ CopyInHand'
    BY <1>11, <1>10, BecomeTypes DEF Finish, EnvTypeOK
  <1>12. ASSUME NEW p \in Proc, Die(p) PROVE EnvTypeOK' /\ CopyInHand'
    BY <1>12, <1>10, BecomeTypes DEF Die, EnvTypeOK
  <1>13. ASSUME NEW file \in File, Edit(file) PROVE EnvTypeOK' /\ CopyInHand'
    <2>1. PairOf(file) \in (Stamp \cup {None}) \X (Text \cup {None}) /\ OutcomeOf(file) \in Outcome
      BY FileTypes
    <2>2. edits' \in 0 .. MaxEdits
      BY <1>13, BoundsAssumption DEF Edit, EnvTypeOK
    <2>3. during' \in [Proc -> SUBSET Outcome]
      BY <1>0, <1>13, <2>1 DEF Edit
    <2> QED
      BY <1>13, <2>1, <2>2, <2>3 DEF Edit, EnvTypeOK, CopyInHand
  <1>14. CASE Second
    BY <1>14, BoundsAssumption DEF Second, EnvTypeOK, CopyInHand
  <1>15. \/ \E p \in Proc : \/ Begin(p) \/ CheckAbsent(p) \/ ReadCopy(p) \/ Compare(p)
                            \/ Parse(p) \/ SkipCopy(p) \/ MakeCopy(p) \/ InstallCopy(p)
                            \/ Finish(p) \/ Die(p)
         \/ \E file \in File : Edit(file)
         \/ Second
         \/ UNCHANGED envVars
    BY DEF EnvNext, Bootstrap
  <1> QED
    BY <1>1, <1>2, <1>3, <1>4, <1>5, <1>6, <1>7, <1>8, <1>9, <1>11, <1>12, <1>13, <1>14, <1>15

(* The variables keep their types. *)
THEOREM EnvTypeCorrect == EnvSpec => []EnvTypeOK
  BY EnvInitTypes, EnvStepTypes, PTL DEF EnvSpec

-------------------------------------------------------------------------------
(* The copy.  An entry that no change of .env raced carries a stamp .env had *)
(* together with the very content it was parsed from; so does .env itself.   *)

Vouched(entry) == entry # None => entry.raced \/ <<entry.stamp, entry.text>> \in had

CopiesAreVouched == Vouched(cache) /\ \A p \in Proc : Vouched(load[p].entry)

PresentWasSeen == PairOf(env) \in had

(* A process that nothing raced is about to stamp what it parsed. *)
ParsedIsPresent == \A p \in Proc : In(p, "stamp") /\ p \notin raced => load[p].text = env.text

CopyInv == CopiesAreVouched /\ PresentWasSeen /\ ParsedIsPresent

(* An entry somebody vouches for is mistaken for .env only with an excuse. *)
LEMMA MistakenIsExcused ==
  ASSUME PresentWasSeen, NEW entry, entry # None, Vouched(entry),
         entry.stamp = StampOf(env), entry.text # env.text
  PROVE  Excused(entry)
  BY Zenon DEF PresentWasSeen, Vouched, PairOf, Excused, Twin

(* An earlier copy was parsed from a .env that had its stamp. *)
LEMMA EnvInitCopies == EnvInit => CopyInv
  <1> SUFFICES ASSUME EnvInit PROVE CopyInv
    OBVIOUS
  <1>1. Vouched(cache) /\ PresentWasSeen
    <2>1. CASE cache = None /\ had = {PairOf(env)}
      BY <2>1 DEF Vouched, PresentWasSeen
    <2>2. ASSUME NEW old \in File, had = {PairOf(env), PairOf(old)},
                 cache = [stamp |-> StampOf(old), text |-> old.text, raced |-> FALSE]
          PROVE  Vouched(cache) /\ PresentWasSeen
      BY <2>2 DEF Vouched, PresentWasSeen, PairOf
    <2> QED
      BY <2>1, <2>2 DEF EnvInit
  <1>2. \A p \in Proc : load[p] = Resting
    BY DEF EnvInit
  <1> QED
    BY <1>1, <1>2 DEF CopyInv, CopiesAreVouched, Vouched, ParsedIsPresent, Resting, Loading, In

(* A step of p that leaves .env and its history alone, and after which p     *)
(* holds nothing, or a copy somebody vouches for.                            *)
LEMMA BecomeCopies ==
  ASSUME CopyInv, EnvTypeOK, NEW p \in Proc, NEW l, Become(p, l), Vouched(l.entry), l.pc # "stamp",
         UNCHANGED <<env, had>>, raced \ {p} \subseteq raced', Vouched(cache)'
  PROVE  CopyInv'
  <1>1. \A q \in Proc : load'[q] = IF q = p THEN l ELSE load[q]
    BY DEF Become, EnvTypeOK
  <1>2. CopiesAreVouched'
    BY <1>1 DEF CopyInv, CopiesAreVouched, Vouched
  <1>3. ParsedIsPresent'
    BY <1>1 DEF CopyInv, ParsedIsPresent, In
  <1> QED
    BY <1>2, <1>3 DEF CopyInv, PresentWasSeen, PairOf, StampOf, Exists

(* Every access keeps the copies vouched for. *)
LEMMA EnvStepCopies == EnvTypeOK /\ CopyInv /\ [EnvNext]_envVars => CopyInv'
  <1> SUFFICES ASSUME EnvTypeOK, CopyInv, [EnvNext]_envVars PROVE CopyInv'
    OBVIOUS
  <1>0. /\ \A pc, text : LET l == Loading(pc, text, None) IN l.entry = None /\ l.pc = pc
        /\ \A pc, text, entry : LET l == Loading(pc, text, entry) IN l.entry = entry /\ l.pc = pc
        /\ Vouched(None)
    BY DEF Loading, Vouched
  <1>a. Vouched(cache) /\ \A p \in Proc : Vouched(load[p].entry)
    BY DEF CopyInv, CopiesAreVouched
  <1>b. cache' = cache /\ had' = had => Vouched(cache)'
    BY <1>a DEF Vouched
  <1>1. CASE UNCHANGED envVars
    BY <1>1 DEF envVars, CopyInv, CopiesAreVouched, Vouched, PresentWasSeen, ParsedIsPresent, In,
                PairOf, StampOf, Exists
  <1>2. ASSUME NEW p \in Proc, Begin(p) PROVE CopyInv'
    <2> DEFINE l == Loading(IF Readable(env) THEN "lookup" ELSE "absent", None, None)
    <2>1. Vouched(l.entry) /\ l.pc # "stamp"
      BY <1>0
    <2>2. Become(p, l) /\ UNCHANGED <<env, cache, raced, had>>
      BY <1>2 DEF Begin
    <2> HIDE DEF l
    <2> QED
      BY <1>b, <2>1, <2>2, BecomeCopies
  <1>3. ASSUME NEW p \in Proc, CheckAbsent(p) PROVE CopyInv'
    <2> DEFINE l == Loading(IF Exists(env) THEN "failed" ELSE "ready", None, None)
    <2>1. Vouched(l.entry) /\ l.pc # "stamp"
      BY <1>0
    <2>2. Become(p, l) /\ UNCHANGED <<env, cache, raced, had>>
      BY <1>3 DEF CheckAbsent
    <2> HIDE DEF l
    <2> QED
      BY <1>b, <2>1, <2>2, BecomeCopies
  <1>4. ASSUME NEW p \in Proc, ReadCopy(p) PROVE CopyInv'
    <2>1. UNCHANGED <<env, cache, raced, had>>
      BY <1>4 DEF ReadCopy
    <2>2. PICK l \in {Loading("parse", None, None), Loading("compare", None, cache)} : Become(p, l)
      BY <1>4 DEF ReadCopy
    <2>3. Vouched(l.entry) /\ l.pc # "stamp"
      BY <1>0, <1>a
    <2> QED
      BY <1>b, <2>1, <2>2, <2>3, BecomeCopies
  <1>5. ASSUME NEW p \in Proc, Compare(p) PROVE CopyInv'
    <2> DEFINE copy == load[p].entry
               l == IF copy.stamp = StampOf(env)
                    THEN Loading("ready", copy.text, copy) ELSE Loading("parse", None, None)
    <2>1. Vouched(l.entry) /\ l.pc # "stamp"
      BY <1>0, <1>a
    <2>2. Become(p, l) /\ UNCHANGED <<env, cache, raced, had>>
      BY <1>5 DEF Compare
    <2> HIDE DEF l
    <2> QED
      BY <1>b, <2>1, <2>2, BecomeCopies
  <1>6. ASSUME NEW p \in Proc, Parse(p) PROVE CopyInv'
    <2>1. UNCHANGED <<env, cache, had>> /\ raced \ {p} \subseteq raced'
      BY <1>6 DEF Parse
    <2>2. \A q \in Proc \ {p} : load'[q] = load[q]
      BY <1>6 DEF Parse, Become, EnvTypeOK
    <2>3. /\ load'[p].entry = None
          /\ Readable(env) => load'[p].text = env.text
          /\ ~Readable(env) => p \in raced'
      BY <1>6, <1>0 DEF Parse, Become, Loading, EnvTypeOK
    <2>4. CopiesAreVouched'
      BY <1>a, <2>1, <2>2, <2>3 DEF CopiesAreVouched, Vouched
    <2>5. ParsedIsPresent'
      BY <2>1, <2>2, <2>3 DEF CopyInv, ParsedIsPresent, In
    <2> QED
      BY <2>1, <2>4, <2>5 DEF CopyInv, PresentWasSeen, PairOf, StampOf, Exists
  <1>7. ASSUME NEW p \in Proc, SkipCopy(p) PROVE CopyInv'
    <2> DEFINE l == Loading("ready", load[p].text, None)
    <2>1. Vouched(l.entry) /\ l.pc # "stamp"
      BY <1>0
    <2>2. Become(p, l) /\ UNCHANGED <<env, cache, had>> /\ raced' = raced \ {p}
      BY <1>7 DEF SkipCopy
    <2> HIDE DEF l
    <2> QED
      BY <1>b, <2>1, <2>2, BecomeCopies
  <1>8. ASSUME NEW p \in Proc, MakeCopy(p) PROVE CopyInv'
    <2> DEFINE made == [stamp |-> StampOf(env), text |-> load[p].text, raced |-> p \in raced]
               l == Loading("rename", load[p].text, made)
    <2>1. made.raced \/ <<made.stamp, made.text>> \in had
      BY <1>8 DEF MakeCopy, CopyInv, ParsedIsPresent, PresentWasSeen, PairOf
    <2>2. Vouched(l.entry) /\ l.pc # "stamp"
      BY <1>0, <2>1 DEF Vouched
    <2>3. Become(p, l) /\ UNCHANGED <<env, cache, had>> /\ raced' = raced \ {p}
      BY <1>8 DEF MakeCopy
    <2> HIDE DEF l
    <2> QED
      BY <1>b, <2>2, <2>3, BecomeCopies
  <1>9. ASSUME NEW p \in Proc, InstallCopy(p) PROVE CopyInv'
    <2> DEFINE l == Loading("ready", load[p].text, None)
    <2>1. Vouched(l.entry) /\ l.pc # "stamp"
      BY <1>0
    <2>2. Become(p, l) /\ UNCHANGED <<env, raced, had>> /\ cache' \in {load[p].entry, cache}
      BY <1>9 DEF InstallCopy
    <2>3. Vouched(cache)'
      BY <1>a, <2>2 DEF Vouched
    <2> HIDE DEF l
    <2> QED
      BY <2>1, <2>2, <2>3, BecomeCopies
  <1>10. Vouched(Resting.entry) /\ Resting.pc # "stamp"
    BY <1>0 DEF Resting
  <1>11. ASSUME NEW p \in Proc, Finish(p) \/ Die(p) PROVE CopyInv'
    <2>1. Become(p, Resting) /\ UNCHANGED <<env, cache, had>> /\ raced \ {p} \subseteq raced'
      BY <1>11 DEF Finish, Die
    <2> QED
      BY <1>b, <1>10, <2>1, BecomeCopies
  <1>12. ASSUME NEW file \in File, Edit(file) PROVE CopyInv'
    <2>1. env' = file /\ had' = had \cup {PairOf(file)} /\ UNCHANGED <<cache, load>>
          /\ raced' = raced \cup {p \in Proc : In(p, "stamp")}
      BY <1>12 DEF Edit
    <2>2. CopiesAreVouched'
      BY <1>a, <2>1 DEF CopiesAreVouched, Vouched
    <2>3. ParsedIsPresent'
      BY <2>1 DEF ParsedIsPresent, In
    <2> QED
      BY <2>1, <2>2, <2>3 DEF CopyInv, PresentWasSeen, PairOf, StampOf, Exists
  <1>13. CASE Second
    BY <1>13 DEF Second, CopyInv, CopiesAreVouched, Vouched, PresentWasSeen, ParsedIsPresent, In,
                 PairOf, StampOf, Exists
  <1>14. \/ \E p \in Proc : \/ Begin(p) \/ CheckAbsent(p) \/ ReadCopy(p) \/ Compare(p)
                            \/ Parse(p) \/ SkipCopy(p) \/ MakeCopy(p) \/ InstallCopy(p)
                            \/ Finish(p) \/ Die(p)
         \/ \E file \in File : Edit(file)
         \/ Second
         \/ UNCHANGED envVars
    BY DEF EnvNext, Bootstrap
  <1> QED
    BY <1>1, <1>2, <1>3, <1>4, <1>5, <1>6, <1>7, <1>8, <1>9, <1>11, <1>12, <1>13, <1>14

(* However bootstraps, edits, failed renames and deaths interleave, a copy   *)
(* that passes for the present .env and is not has one of the named causes.  *)
THEOREM StalenessHasACause == EnvSpec => []StaleCopyHasACause
  <1>1. CopyInv => StaleCopyHasACause
    BY MistakenIsExcused DEF CopyInv, CopiesAreVouched, StaleCopyHasACause
  <1> QED
    BY <1>1, EnvInitTypes, EnvStepTypes, EnvInitCopies, EnvStepCopies, PTL DEF EnvSpec

-------------------------------------------------------------------------------
(* What a bootstrap loads.  Whatever .env means now it meant while every     *)
(* bootstrap under way ran, and a load fits what .env meant meanwhile.       *)

PresentIsDuring == \A p \in Proc : ~In(p, "idle") => OutcomeOf(env) \in during[p]

Fits(l, seen) ==
    /\ l.pc = "compare" => l.entry # None
    /\ Locked \notin seen =>
        /\ l.pc = "absent" => Unset \in seen
        /\ l.pc \in {"stamp", "rename"} => MeaningOf(l.text) \in seen
        /\ l.pc = "ready" => MeaningOf(l.text) \in seen \/ (l.entry # None /\ Excused(l.entry))
        /\ l.pc = "failed" => Fail \in seen \/ Unset \in seen

LoadInv == PresentIsDuring /\ \A p \in Proc : Fits(load[p], during[p])

(* Nobody has begun. *)
LEMMA EnvInitLoads == EnvInit => LoadInv
  BY DEF EnvInit, LoadInv, PresentIsDuring, Fits, Resting, Loading, In

(* More contents and more meanings keep a load fitting. *)
LEMMA FitsLasts ==
  ASSUME had \subseteq had', NEW l, NEW seen, NEW more, seen \subseteq more, Fits(l, seen)
  PROVE  Fits(l, more)'
  BY DEF Fits, Excused, Twin, MeaningOf

(* A step of p that leaves .env alone and fits what .env means. *)
LEMMA BecomeFits ==
  ASSUME LoadInv, EnvTypeOK, NEW p \in Proc, NEW l, NEW seen, Become(p, l), UNCHANGED <<env, had>>,
         during' = [during EXCEPT ![p] = seen], Fits(l, seen),
         l.pc = "idle" \/ OutcomeOf(env) \in seen
  PROVE  LoadInv'
  <1>1. \A q \in Proc : /\ load'[q] = IF q = p THEN l ELSE load[q]
                        /\ during'[q] = IF q = p THEN seen ELSE during[q]
    BY DEF Become, EnvTypeOK
  <1>2. ASSUME NEW q \in Proc PROVE Fits(load[q], during[q])'
    <2>1. ASSUME NEW k, NEW some, k = load'[q], some = during'[q] PROVE Fits(k, some)
      BY <1>1, <2>1 DEF LoadInv
    <2>2. ASSUME NEW k, NEW some, k = load'[q], some = during'[q] PROVE Fits(k, some)'
      BY <2>1, <2>2, FitsLasts
    <2> QED
      BY <2>2 DEF Fits, Excused, Twin, MeaningOf
  <1>3. PresentIsDuring'
    BY <1>1 DEF LoadInv, PresentIsDuring, In, OutcomeOf, Readable, Exists
  <1> QED
    BY <1>2, <1>3 DEF LoadInv

(* The same for a step after the first look. *)
LEMMA ContinueFits ==
  ASSUME LoadInv, EnvTypeOK, NEW p \in Proc, NEW l, Become(p, l), ~In(p, "idle"),
         UNCHANGED <<env, had, during>>, Fits(l, during[p])
  PROVE  LoadInv'
  <1>1. during' = [during EXCEPT ![p] = during[p]] /\ OutcomeOf(env) \in during[p]
    BY DEF EnvTypeOK, LoadInv, PresentIsDuring
  <1> QED
    BY <1>1, BecomeFits

(* A copy that passes for .env means what .env means, or is excused. *)
LEMMA CompareFits ==
  ASSUME EnvTypeOK, CopyInv, LoadInv, NEW p \in Proc, In(p, "compare"),
         load[p].entry.stamp = StampOf(env)
  PROVE  Fits(Loading("ready", load[p].entry.text, load[p].entry), during[p])
  <1> DEFINE copy == load[p].entry
  <1>1. copy # None /\ Vouched(copy)
    BY DEF LoadInv, Fits, In, CopyInv, CopiesAreVouched
  <1>2. copy.text = env.text \/ Excused(copy)
    BY <1>1, MistakenIsExcused DEF CopyInv
  <1>3. OutcomeOf(env) \in during[p]
    BY DEF LoadInv, PresentIsDuring, In
  <1>4. Locked \notin during[p] =>
           \/ Readable(env) /\ Meaning[env.text] \in during[p]
           \/ ~ Exists(env) /\ Unset \in during[p]
    BY <1>3 DEF OutcomeOf, Readable, Exists
  <1>5. Readable(env) => MeaningOf(env.text) = Meaning[env.text]
    <2>1. Readable(env) => env.text \in Text
      BY FileTypes DEF EnvTypeOK
    <2> QED
      BY <2>1, NoneIsNoContent DEF MeaningOf
  <1>6. ~ Exists(env) => MeaningOf(env.text) = Unset
    BY DEF EnvTypeOK, File, NoFile, Exists, MeaningOf
  <1> QED
    BY <1>1, <1>2, <1>4, <1>5, <1>6 DEF Fits, Loading

(* What was parsed means what .env means, '' what no .env does. *)
LEMMA ParseFits ==
  ASSUME EnvTypeOK, LoadInv, NEW p \in Proc, In(p, "parse"),
         NEW text, text = IF Readable(env) THEN env.text ELSE None
  PROVE  Locked \notin during[p] => MeaningOf(text) \in during[p]
  <1>1. OutcomeOf(env) \in during[p]
    BY DEF LoadInv, PresentIsDuring, In
  <1>2. Readable(env) => env.text \in Text
    BY FileTypes DEF EnvTypeOK
  <1> QED
    BY <1>1, <1>2, NoneIsNoContent DEF MeaningOf, OutcomeOf

(* Every access keeps the loads fitting. *)
LEMMA EnvStepLoads == EnvTypeOK /\ CopyInv /\ LoadInv /\ [EnvNext]_envVars => LoadInv'
  <1> SUFFICES ASSUME EnvTypeOK, CopyInv, LoadInv, [EnvNext]_envVars PROVE LoadInv'
    OBVIOUS
  <1>0. \A pc, text, entry : LET l == Loading(pc, text, entry) IN
            l.pc = pc /\ l.text = text /\ l.entry = entry
    BY DEF Loading
  <1>a. \A p \in Proc : Fits(load[p], during[p])
    BY DEF LoadInv
  <1>1. CASE UNCHANGED envVars
    BY <1>1 DEF envVars, LoadInv, PresentIsDuring, In, OutcomeOf, Readable, Exists, Fits, Excused,
                Twin, MeaningOf
  <1>2. ASSUME NEW p \in Proc, Begin(p) PROVE LoadInv'
    <2>1. Fits(Loading(IF Readable(env) THEN "lookup" ELSE "absent", None, None), {OutcomeOf(env)})
      BY <1>0 DEF Fits, OutcomeOf
    <2> QED
      BY <1>2, <2>1, BecomeFits DEF Begin
  <1>3. ASSUME NEW p \in Proc, CheckAbsent(p) PROVE LoadInv'
    <2>1. Fits(Loading(IF Exists(env) THEN "failed" ELSE "ready", None, None), during[p])
      BY <1>0, <1>a, <1>3 DEF CheckAbsent, In, Fits, MeaningOf
    <2>2. ~In(p, "idle")
      BY <1>3 DEF CheckAbsent, In
    <2> QED
      BY <1>3, <2>1, <2>2, ContinueFits DEF CheckAbsent
  <1>4. ASSUME NEW p \in Proc, ReadCopy(p) PROVE LoadInv'
    <2>1. /\ Fits(Loading("parse", None, None), during[p])
          /\ cache # None => Fits(Loading("compare", None, cache), during[p])
      BY <1>0 DEF Fits
    <2>2. ~In(p, "idle")
      BY <1>4 DEF ReadCopy, In
    <2> QED
      BY <1>4, <2>1, <2>2, ContinueFits DEF ReadCopy
  <1>5. ASSUME NEW p \in Proc, Compare(p) PROVE LoadInv'
    <2> DEFINE copy == load[p].entry
    <2>1. ~In(p, "idle") /\ In(p, "compare")
      BY <1>5 DEF Compare, In
    <2>2. CASE copy.stamp = StampOf(env)
      <3>1. Fits(Loading("ready", copy.text, copy), during[p])
        BY <2>1, <2>2, CompareFits
      <3> QED
        BY <1>5, <2>1, <2>2, <3>1, ContinueFits DEF Compare
    <2>3. CASE copy.stamp # StampOf(env)
      <3>1. Fits(Loading("parse", None, None), during[p])
        BY <1>0 DEF Fits
      <3> QED
        BY <1>5, <2>1, <2>3, <3>1, ContinueFits DEF Compare
    <2> QED
      BY <2>2, <2>3
  <1>6. ASSUME NEW p \in Proc, Parse(p) PROVE LoadInv'
    <2> DEFINE text == IF Readable(env) THEN env.text ELSE None
               l == Loading(IF MeaningOf(text) = Fail THEN "failed" ELSE "stamp", text, None)
    <2>1. ~In(p, "idle") /\ In(p, "parse")
      BY <1>6 DEF Parse, In
    <2>2. Locked \notin during[p] => MeaningOf(text) \in during[p]
      BY <2>1, ParseFits
    <2>3. Fits(l, during[p])
      BY <1>0, <2>2 DEF Fits
    <2>4. Become(p, l) /\ UNCHANGED <<env, had, during>>
      BY <1>6 DEF Parse
    <2> QED
      BY <2>1, <2>3, <2>4, ContinueFits
  <1>7. ASSUME NEW p \in Proc, SkipCopy(p) PROVE LoadInv'
    <2>1. Fits(Loading("ready", load[p].text, None), during[p])
      BY <1>0, <1>a, <1>7 DEF SkipCopy, In, Fits
    <2>2. ~In(p, "idle")
      BY <1>7 DEF SkipCopy, In
    <2> QED
      BY <1>7, <2>1, <2>2, ContinueFits DEF SkipCopy
  <1>8. ASSUME NEW p \in Proc, MakeCopy(p) PROVE LoadInv'
    <2> DEFINE made == [stamp |-> StampOf(env), text |-> load[p].text, raced |-> p \in raced]
    <2>1. Fits(Loading("rename", load[p].text, made), during[p])
      BY <1>0, <1>a, <1>8 DEF MakeCopy, In, Fits
    <2>2. ~In(p, "idle")
      BY <1>8 DEF MakeCopy, In
    <2> QED
      BY <1>8, <2>1, <2>2, ContinueFits DEF MakeCopy
  <1>9. ASSUME NEW p \in Proc, InstallCopy(p) PROVE LoadInv'
    <2>1. Fits(Loading("ready", load[p].text, None), during[p])
      BY <1>0, <1>a, <1>9 DEF InstallCopy, In, Fits
    <2>2. ~In(p, "idle")
      BY <1>9 DEF InstallCopy, In
    <2> QED
      BY <1>9, <2>1, <2>2, ContinueFits DEF InstallCopy
  <1>10. ASSUME NEW p \in Proc, Finish(p) \/ Die(p) PROVE LoadInv'
    <2>1. Fits(Resting, {}) /\ Resting.pc = "idle"
      BY <1>0 DEF Fits, Resting
    <2> QED
      BY <1>10, <2>1, BecomeFits DEF Finish, Die
  <1>11. ASSUME NEW file \in File, Edit(file) PROVE LoadInv'
    <2>1. env' = file /\ had \subseteq had' /\ load' = load
          /\ \A p \in Proc : during'[p] = IF In(p, "idle") THEN {} ELSE during[p] \cup {OutcomeOf(file)}
      BY <1>11 DEF Edit
    <2>2. PresentIsDuring'
      BY <2>1 DEF PresentIsDuring, In, OutcomeOf, Readable, Exists
    <2>3. ASSUME NEW p \in Proc PROVE Fits(load[p], during[p])'
      <3>1. CASE In(p, "idle")
        BY <2>1, <3>1 DEF In, Fits
      <3>2. CASE ~In(p, "idle")
        <4>1. ASSUME NEW l, NEW more, l = load[p], more = during'[p] PROVE Fits(l, more)'
          BY <1>a, <2>1, <3>2, <4>1, FitsLasts
        <4> QED
          BY <2>1, <4>1 DEF Fits, Excused, Twin, MeaningOf
      <3> QED
        BY <3>1, <3>2
    <2> QED
      BY <2>2, <2>3 DEF LoadInv
  <1>12. CASE Second
    BY <1>12 DEF Second, LoadInv, PresentIsDuring, In, OutcomeOf, Readable, Exists, Fits, Excused,
                 Twin, MeaningOf
  <1>13. \/ \E p \in Proc : \/ Begin(p) \/ CheckAbsent(p) \/ ReadCopy(p) \/ Compare(p)
                            \/ Parse(p) \/ SkipCopy(p) \/ MakeCopy(p) \/ InstallCopy(p)
                            \/ Finish(p) \/ Die(p)
         \/ \E file \in File : Edit(file)
         \/ Second
         \/ UNCHANGED envVars
    BY DEF EnvNext, Bootstrap
  <1> QED
    BY <1>1, <1>2, <1>3, <1>4, <1>5, <1>6, <1>7, <1>8, <1>9, <1>10, <1>11, <1>12, <1>13

(* A bootstrap loads what .env meant at some moment while it ran, and fails  *)
(* only for a moment at which .env could not be parsed or was not there; the *)
(* exceptions are the excused copies and a file closed to the process.       *)
THEOREM LoadsAreCurrent == EnvSpec => []LoadIsCurrent
  <1>1. LoadInv => LoadIsCurrent
    BY DEF LoadInv, Fits, LoadIsCurrent, In, Loaded
  <1> QED
    BY <1>1, EnvInitTypes, EnvStepTypes, EnvInitCopies, EnvStepCopies, EnvInitLoads, EnvStepLoads,
       PTL DEF EnvSpec

-------------------------------------------------------------------------------
(* A content that makes the bootstrap throw is never copied or loaded. *)

Good(text) == MeaningOf(text) # Fail

NothingBroken ==
    /\ cache # None => Good(cache.text)
    /\ \A p \in Proc :
          /\ load[p].pc \in {"compare", "rename"} /\ load[p].entry # None => Good(load[p].entry.text)
          /\ load[p].pc \in {"stamp", "rename", "ready"} => Good(load[p].text)

(* No .env at all is no failure, and neither is the earlier copy. *)
LEMMA EnvInitGood == EnvInit => NothingBroken
  <1> SUFFICES ASSUME EnvInit PROVE NothingBroken
    OBVIOUS
  <1>1. cache # None => Good(cache.text)
    <2>1. ASSUME NEW old \in File, Readable(old), Meaning[old.text] # Fail,
                 cache = [stamp |-> StampOf(old), text |-> old.text, raced |-> FALSE]
          PROVE  Good(cache.text)
      <3>1. old.text \in Text /\ cache.text = old.text
        BY <2>1, FileTypes
      <3> QED
        BY <2>1, <3>1, NoneIsNoContent DEF Good, MeaningOf
    <2> QED
      BY <2>1 DEF EnvInit
  <1> QED
    BY <1>1 DEF EnvInit, NothingBroken, Resting, Loading

(* Every access keeps what is broken out. *)
LEMMA EnvStepGood ==
  EnvTypeOK /\ LoadInv /\ NothingBroken /\ [EnvNext]_envVars => NothingBroken'
  <1> SUFFICES ASSUME EnvTypeOK, LoadInv, NothingBroken, [EnvNext]_envVars PROVE NothingBroken'
    OBVIOUS
  <1>0. /\ \A pc, text, entry : LET l == Loading(pc, text, entry) IN
               l.pc = pc /\ l.text = text /\ l.entry = entry
        /\ Good(None)
    BY UnsetIsNoFailure DEF Loading, Good, MeaningOf
  <1> DEFINE Fine(l) ==
        /\ l.pc \in {"compare", "rename"} /\ l.entry # None => Good(l.entry.text)
        /\ l.pc \in {"stamp", "rename", "ready"} => Good(l.text)
  <1>a. \A p \in Proc : Fine(load[p]) /\ (In(p, "compare") => load[p].entry # None)
    BY DEF NothingBroken, LoadInv, Fits, In
  <1>b. ASSUME NEW p \in Proc, NEW l, Fine(l), Become(p, l), cache' # None => Good(cache'.text)
        PROVE  NothingBroken'
    BY <1>a, <1>b DEF Become, EnvTypeOK, NothingBroken, Good, MeaningOf
  <1>c. cache' = cache => (cache' # None => Good(cache'.text))
    BY DEF NothingBroken
  <1> HIDE DEF Fine
  <1>1. CASE UNCHANGED envVars
    BY <1>1 DEF envVars, NothingBroken, Good, MeaningOf
  <1>2. ASSUME NEW p \in Proc, Begin(p) PROVE NothingBroken'
    <2>1. Fine(Loading(IF Readable(env) THEN "lookup" ELSE "absent", None, None))
      BY <1>0 DEF Fine
    <2> QED
      BY <1>2, <1>b, <1>c, <2>1 DEF Begin
  <1>3. ASSUME NEW p \in Proc, CheckAbsent(p) PROVE NothingBroken'
    <2>1. Fine(Loading(IF Exists(env) THEN "failed" ELSE "ready", None, None))
      BY <1>0 DEF Fine
    <2> QED
      BY <1>3, <1>b, <1>c, <2>1 DEF CheckAbsent
  <1>4. ASSUME NEW p \in Proc, ReadCopy(p) PROVE NothingBroken'
    <2>1. /\ Fine(Loading("parse", None, None))
          /\ cache # None => Fine(Loading("compare", None, cache))
      BY <1>0 DEF Fine, NothingBroken
    <2> QED
      BY <1>4, <1>b, <1>c, <2>1 DEF ReadCopy
  <1>5. ASSUME NEW p \in Proc, Compare(p) PROVE NothingBroken'
    <2> DEFINE copy == load[p].entry
    <2>1. Good(copy.text)
      BY <1>5, <1>a DEF Compare, In, Fine
    <2>2. Fine(Loading("ready", copy.text, copy)) /\ Fine(Loading("parse", None, None))
      BY <1>0, <2>1 DEF Fine
    <2> QED
      BY <1>5, <1>b, <1>c, <2>2 DEF Compare
  <1>6. ASSUME NEW p \in Proc, Parse(p) PROVE NothingBroken'
    <2> DEFINE text == IF Readable(env) THEN env.text ELSE None
               l == Loading(IF MeaningOf(text) = Fail THEN "failed" ELSE "stamp", text, None)
    <2>1. Fine(l)
      BY <1>0 DEF Fine, Good
    <2>2. Become(p, l) /\ cache' = cache
      BY <1>6 DEF Parse
    <2> QED
      BY <1>b, <1>c, <2>1, <2>2
  <1>7. ASSUME NEW p \in Proc, SkipCopy(p) PROVE NothingBroken'
    <2>1. Fine(Loading("ready", load[p].text, None))
      BY <1>0, <1>a, <1>7 DEF SkipCopy, In, Fine
    <2> QED
      BY <1>7, <1>b, <1>c, <2>1 DEF SkipCopy
  <1>8. ASSUME NEW p \in Proc, MakeCopy(p) PROVE NothingBroken'
    <2> DEFINE made == [stamp |-> StampOf(env), text |-> load[p].text, raced |-> p \in raced]
    <2>1. Fine(Loading("rename", load[p].text, made))
      BY <1>0, <1>a, <1>8 DEF MakeCopy, In, Fine
    <2> QED
      BY <1>8, <1>b, <1>c, <2>1 DEF MakeCopy
  <1>9. ASSUME NEW p \in Proc, InstallCopy(p) PROVE NothingBroken'
    <2>1. Fine(Loading("ready", load[p].text, None))
      BY <1>0, <1>a, <1>9 DEF InstallCopy, In, Fine
    <2>2. cache' # None => Good(cache'.text)
      BY <1>a, <1>9 DEF InstallCopy, In, Fine, NothingBroken
    <2> QED
      BY <1>9, <1>b, <2>1, <2>2 DEF InstallCopy
  <1>10. ASSUME NEW p \in Proc, Finish(p) \/ Die(p) PROVE NothingBroken'
    <2>1. Fine(Resting)
      BY <1>0 DEF Fine, Resting
    <2> QED
      BY <1>10, <1>b, <1>c, <2>1 DEF Finish, Die
  <1>11. CASE Second \/ \E file \in File : Edit(file)
    BY <1>11 DEF Second, Edit, NothingBroken, Good, MeaningOf
  <1>12. \/ \E p \in Proc : \/ Begin(p) \/ CheckAbsent(p) \/ ReadCopy(p) \/ Compare(p)
                            \/ Parse(p) \/ SkipCopy(p) \/ MakeCopy(p) \/ InstallCopy(p)
                            \/ Finish(p) \/ Die(p)
         \/ \E file \in File : Edit(file)
         \/ Second
         \/ UNCHANGED envVars
    BY DEF EnvNext, Bootstrap
  <1> QED
    BY <1>1, <1>2, <1>3, <1>4, <1>5, <1>6, <1>7, <1>8, <1>9, <1>10, <1>11, <1>12


-------------------------------------------------------------------------------
(* DocsPage.  Every step is a step of EnvCache or leaves its variables alone. *)
LEMMA StepIsEnvStep == [Next]_vars => [EnvNext]_envVars
  <1> SUFFICES ASSUME [Next]_vars PROVE EnvNext \/ UNCHANGED envVars
    BY DEF envVars
  <1>1. CASE UNCHANGED vars
    BY <1>1 DEF vars
  <1>2. CASE Open \/ Render \/ Refuse
    BY <1>2, ServerAssumption DEF Open, Render, Refuse, EnvNext
  <1>3. ASSUME NEW p \in Proc, Visit(p) \/ Boot(p) \/ Leave(p) \/ Kill(p) PROVE EnvNext
    BY <1>3 DEF Visit, Boot, Leave, Kill, EnvNext
  <1>4. CASE Browse \/ (\E s \in Script : LoseScript(s)) \/ LoseSpec
    BY <1>4 DEF Browse, LoadScripts, OnLoad, FetchSpec, LoseScript, LoseSpec
  <1>5. ASSUME NEW file \in File, Change(file) PROVE EnvNext
    BY <1>5 DEF Change, EnvNext
  <1>6. CASE Wait
    BY <1>6 DEF Wait, EnvNext
  <1> QED
    BY <1>1, <1>2, <1>3, <1>4, <1>5, <1>6 DEF Next

(* The page uses the bootstrap as EnvCache specifies it. *)
THEOREM PageRunsEnvCache == Spec => EnvSpec
  <1>1. Init => EnvInit
    BY DEF Init
  <1> QED
    BY <1>1, StepIsEnvStep, PTL DEF Spec, EnvSpec

(* A copy of .env that passes for the present one and is not has a cause,    *)
(* whatever the page and its faults do.                                      *)
THEOREM PageStalenessHasACause == Spec => []StaleCopyHasACause
  BY PageRunsEnvCache, StalenessHasACause, PTL

(* The process of the page, like every other, loads what .env meant while it *)
(* ran, or has an excuse.                                                    *)
THEOREM PageLoadsAreCurrent == Spec => []LoadIsCurrent
  BY PageRunsEnvCache, LoadsAreCurrent, PTL

-------------------------------------------------------------------------------
(* What holds of EnvCache throughout, as one formula. *)

EnvInv == EnvTypeOK /\ CopyInHand /\ CopyInv /\ LoadInv /\ NothingBroken

LEMMA InitEnvInv == Init => EnvInv
  BY EnvInitTypes, EnvInitCopies, EnvInitLoads, EnvInitGood DEF Init, EnvInv

LEMMA StepEnvInv == EnvInv /\ [Next]_vars => EnvInv'
  BY StepIsEnvStep, EnvStepTypes, EnvStepCopies, EnvStepLoads, EnvStepGood DEF EnvInv

-------------------------------------------------------------------------------
(* The page.  Why it may break is known from the moment it is rendered. *)

PageTypes ==
    /\ site \in Sites
    /\ page \in [pc : PagePC, base : (Origin \X Path) \cup {None},
                 scripts : SUBSET Script, cause : Cause]
    /\ faults \in 0 .. MaxFaults

PageInv ==
    /\ PageTypes
    /\ page.pc = "linked" /\ page.cause = "none" => Reached(page.base)
    /\ page.pc = "loaded" /\ page.cause = "none" => page.scripts = Script
    /\ BrokenPageHasACause

(* Pages are built from their parts. *)
LEMMA BecomePage ==
  ASSUME site \in Sites, site' = site, faults' \in 0 .. MaxFaults,
         NEW pc \in PagePC, NEW base \in (Origin \X Path) \cup {None},
         NEW scripts \in SUBSET Script, NEW cause \in Cause, page' = Page(pc, base, scripts, cause)
  PROVE  /\ PageTypes'
         /\ page'.pc = pc /\ page'.base = base /\ page'.scripts = scripts /\ page'.cause = cause
  BY DEF Page, PageTypes

(* The address of the rendered page, and what an untroubled one leads to. *)
LEMMA RenderLinks ==
  ASSUME EnvInv, site \in Sites, In(Server, "ready")
  PROVE  /\ BaseUrl(Loaded(Server)) \in Origin \X Path
         /\ WhyBroken(Server) \in Cause
         /\ WhyBroken(Server) = "none" => Reached(BaseUrl(Loaded(Server)))
  <1>1. Loaded(Server) # Fail /\ load[Server].text \in Text \cup {None}
    BY ServerAssumption DEF EnvInv, NothingBroken, EnvTypeOK, Load, In, Good, Loaded
  <1>2. Loaded(Server) \in (Origin \X Path) \cup {Unset}
    BY <1>1, MeaningAssumption DEF Loaded, MeaningOf
  <1>3. BaseUrl(Loaded(Server)) \in Origin \X Path
    BY <1>2, SitesAssumption DEF BaseUrl
  <1>4. WhyBroken(Server) \in Cause
    BY DEF WhyBroken, Cause
  <1>5. ASSUME WhyBroken(Server) = "none" PROVE Reached(BaseUrl(Loaded(Server)))
    <2>1. /\ Locked \notin during[Server]
          /\ \A m \in during[Server] \ {Fail, Locked} : Reached(BaseUrl(m))
          /\ ~(load[Server].entry # None /\ Excused(load[Server].entry))
      BY <1>5 DEF WhyBroken
    <2>2. Loaded(Server) \in during[Server]
      BY <2>1, ServerAssumption DEF EnvInv, LoadInv, Fits, In, Loaded
    <2> QED
      BY <1>1, <2>1, <2>2
  <1> QED
    BY <1>3, <1>4, <1>5

(* No page is open. *)
LEMMA InitPage == Init => PageInv
  <1>1. "closed" \in PagePC /\ "none" \in Cause
    BY DEF PagePC, Cause
  <1> QED
    BY <1>1, FaultsAssumption DEF Init, Page, PageInv, PageTypes, BrokenPageHasACause

(* Every step keeps the page explained. *)
LEMMA StepPage == EnvInv /\ PageInv /\ [Next]_vars => PageInv'
  <1> SUFFICES ASSUME EnvInv, PageInv, [Next]_vars PROVE PageInv'
    OBVIOUS
  <1>0. /\ site \in Sites /\ page.cause \in Cause /\ page.base \in (Origin \X Path) \cup {None}
        /\ page.scripts \in SUBSET Script /\ faults \in 0 .. MaxFaults
    BY DEF PageInv, PageTypes
  <1>a. /\ {"asking", "linked", "loaded", "fetching", "shown", "nospec", "blank", "error"} \subseteq PagePC
        /\ {"none", "lost"} \subseteq Cause
    BY DEF PagePC, Cause
  <1>b. faults < MaxFaults => faults + 1 \in 0 .. MaxFaults
    BY <1>0, FaultsAssumption
  <1>1. CASE UNCHANGED <<site, page, faults>>
    BY <1>1 DEF PageInv, PageTypes, BrokenPageHasACause, Reached
  (* A page that is neither linked nor loaded nor settled needs no reason. *)
  <1>2. ASSUME NEW pc \in {"asking", "fetching", "error"}, NEW cause \in Cause,
               page' = Page(pc, None, {}, cause), site' = site, faults' \in 0 .. MaxFaults
        PROVE  PageInv'
    <2>1. PageTypes' /\ page'.pc = pc
      BY <1>0, <1>2, <1>a, BecomePage
    <2> QED
      BY <2>1 DEF PageInv, BrokenPageHasACause
  <1>3. CASE Open
    BY <1>3, <1>0, <1>a, <1>2 DEF Open
  <1>4. CASE Render
    <2> DEFINE base == BaseUrl(Loaded(Server))
               cause == WhyBroken(Server)
    <2>1. base \in Origin \X Path /\ cause \in Cause /\ (cause = "none" => Reached(base))
      BY <1>0, <1>4, RenderLinks DEF Render
    <2>2. page' = Page("linked", base, {}, cause) /\ site' = site /\ faults' = faults
      BY <1>4 DEF Render
    <2> HIDE DEF base, cause
    <2>3. PageTypes' /\ page'.pc = "linked" /\ page'.base = base /\ page'.cause = cause
      BY <1>0, <1>a, <2>1, <2>2, BecomePage
    <2> QED
      BY <2>1, <2>2, <2>3 DEF PageInv, BrokenPageHasACause, Reached
  <1>5. CASE Refuse
    BY <1>5, <1>2, <1>0 DEF Refuse, Showing
  <1>6. ASSUME NEW p \in Proc, Kill(p) PROVE PageInv'
    <2>1. faults' \in 0 .. MaxFaults /\ site' = site
      BY <1>6, <1>b DEF Kill
    <2>2. CASE page' = page
      BY <2>1, <2>2 DEF PageInv, PageTypes, BrokenPageHasACause, Reached
    <2> QED
      BY <1>0, <1>2, <1>6, <2>1, <2>2 DEF Kill, Showing
  <1>7. CASE LoadScripts
    <2> DEFINE scripts == IF Reached(page.base) THEN Script ELSE {}
    <2>1. scripts \in SUBSET Script
      OBVIOUS
    <2>2. page' = Page("loaded", None, scripts, page.cause) /\ site' = site /\ faults' = faults
      BY <1>7 DEF LoadScripts
    <2>3. page.cause = "none" => scripts = Script
      BY <1>7 DEF LoadScripts, PageInv
    <2> HIDE DEF scripts
    <2>4. PageTypes' /\ page'.pc = "loaded" /\ page'.scripts = scripts /\ page'.cause = page.cause
      BY <1>0, <1>a, <2>1, <2>2, BecomePage
    <2> QED
      BY <2>3, <2>4 DEF PageInv, BrokenPageHasACause
  <1>8. ASSUME NEW s \in Script, LoseScript(s) PROVE PageInv'
    <2> DEFINE scripts == page.scripts \ {s}
    <2>1. scripts \in SUBSET Script
      BY <1>0
    <2>2. page' = Page("loaded", None, scripts, "lost") /\ site' = site /\ faults' \in 0 .. MaxFaults
      BY <1>8, <1>b DEF LoseScript
    <2> HIDE DEF scripts
    <2>3. PageTypes' /\ page'.pc = "loaded" /\ page'.cause = "lost"
      BY <1>0, <1>a, <2>1, <2>2, BecomePage
    <2> QED
      BY <2>3 DEF PageInv, BrokenPageHasACause
  <1>9. CASE OnLoad
    <2>1. page.scripts # Script => page.cause # "none"
      BY <1>9 DEF OnLoad, PageInv
    <2>2. site' = site /\ faults' = faults
      BY <1>9 DEF OnLoad
    <2>3. CASE page.scripts = Script
      BY <1>0, <1>2, <1>9, <2>2, <2>3 DEF OnLoad, Showing
    <2>4. CASE page.scripts # Script
      <3>1. page' = Page("blank", None, {}, page.cause)
        BY <1>9, <2>4 DEF OnLoad, Showing
      <3>2. PageTypes' /\ page'.pc = "blank" /\ page'.cause = page.cause
        BY <1>0, <1>a, <2>2, <3>1, BecomePage
      <3> QED
        BY <2>1, <2>4, <3>2 DEF PageInv, BrokenPageHasACause
    <2> QED
      BY <2>3, <2>4
  <1>10. CASE FetchSpec
    <2>1. site.page \in Origin \X Path /\ site.page \in site.reach
      BY <1>0, SitesAssumption
    <2>2. site.page[2] = Root => Reached(SpecAddress)
      BY <2>1 DEF Reached, SpecAddress
    <2>3. site' = site /\ faults' = faults
      BY <1>10 DEF FetchSpec
    <2>4. CASE Reached(SpecAddress)
      <3>1. page' = Page("shown", None, {}, page.cause)
        BY <1>10, <2>4 DEF FetchSpec, Showing
      <3>2. PageTypes' /\ page'.pc = "shown"
        BY <1>0, <1>a, <2>3, <3>1, BecomePage
      <3> QED
        BY <2>3, <2>4, <3>2 DEF PageInv, BrokenPageHasACause, Reached, SpecAddress
    <2>5. CASE ~Reached(SpecAddress)
      <3>1. page' = Page("nospec", None, {}, page.cause)
        BY <1>10, <2>5 DEF FetchSpec, Showing
      <3>2. PageTypes' /\ page'.pc = "nospec"
        BY <1>0, <1>a, <2>3, <3>1, BecomePage
      <3> QED
        BY <2>2, <2>3, <2>5, <3>2 DEF PageInv, BrokenPageHasACause
    <2> QED
      BY <2>4, <2>5
  <1>11. CASE LoseSpec
    <2>1. page' = Page("nospec", None, {}, "lost") /\ site' = site /\ faults' \in 0 .. MaxFaults
      BY <1>11, <1>b DEF LoseSpec
    <2>2. PageTypes' /\ page'.pc = "nospec" /\ page'.cause = "lost"
      BY <1>0, <1>a, <2>1, BecomePage
    <2> QED
      BY <2>2 DEF PageInv, BrokenPageHasACause
  <1>12. ASSUME NEW p \in Proc, Visit(p) \/ Boot(p) \/ Leave(p) PROVE PageInv'
    BY <1>12, <1>1 DEF Visit, Boot, Leave
  <1>13. CASE Wait \/ \E file \in File : Change(file)
    BY <1>13, <1>1 DEF Wait, Change
  <1>14. CASE UNCHANGED vars
    BY <1>14, <1>1 DEF vars
  <1> QED
    BY <1>3, <1>4, <1>5, <1>6, <1>7, <1>8, <1>9, <1>10, <1>11, <1>12, <1>13, <1>14
       DEF Next, Browse

(* The variables keep their types. *)
THEOREM TypeCorrect == Spec => []TypeOK
  <1>1. EnvInv /\ PageInv => TypeOK
    BY DEF EnvInv, PageInv, PageTypes, TypeOK
  <1> QED
    BY <1>1, InitEnvInv, StepEnvInv, InitPage, StepPage, PTL DEF Spec

(* An empty documentation page has one of the named causes, and a page of a  *)
(* site without a base path shows the specification unless a fetch is lost.  *)
THEOREM BrokenPagesHaveACause == Spec => []BrokenPageHasACause
  <1>1. PageInv => BrokenPageHasACause
    BY DEF PageInv
  <1> QED
    BY <1>1, InitEnvInv, StepEnvInv, InitPage, StepPage, PTL DEF Spec
===============================================================================
