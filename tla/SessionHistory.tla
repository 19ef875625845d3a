----------------------------- MODULE SessionHistory ----------------------------
(***************************************************************************)
(* AuthSessions with history variables: which sessions overlapping         *)
(* requests worked on, and which were opened with a password that has been *)
(* replaced since.  Every step is a step of AuthSessions; the variables    *)
(* only watch, so that what one request at a time guarantees can be stated *)
(* for every session that no two requests contend for.                     *)
(***************************************************************************)
EXTENDS AuthSessions

ASSUME RequestsAreNoFamilies == Requests \cap Family = {}    \* "outdated" has both

VARIABLES
    contended,  \* families two requests worked on at the same time
    outdated,   \* families, and requests about to open one, whose password was replaced
    spared      \* families of "outdated" that have a reason to live on

history == <<contended, outdated, spared>>

(* The families r is about to rotate, to end, or to choose among. *)
Claimed(r) ==
    IF req[r].pc \in {"owner", "rotate", "insert", "reuse", "logout"} THEN {req[r].family} \ {None}
    ELSE IF req[r].pc \in {"store", "keep", "cut"} THEN {row[t].family : t \in OfUser(req[r].user)}
    ELSE {}

Contended == {f \in Family : \E r, s \in Requests : r # s /\ f \in Claimed(r) \cap Claimed(s)}

(* A login or registration of u that has verified its password. *)
Opening(r, u) ==
    /\ req[r].user = u
    /\ At(r, "prune") \/ At(r, "reload") \/ (At(r, "insert") /\ req[r].family = None)

FamiliesOf(u) == {row[t].family : t \in OfUser(u)}

HInit == Init /\ contended = {} /\ outdated = {} /\ spared = {}

(* The password of u changes: every session of u, and every login under way, *)
(* was opened with the old one.                                              *)
HStorePassword(r) ==
    LET u == req[r].user IN
    /\ StorePassword(r)
    /\ outdated' = outdated \cup FamiliesOf(u) \cup {s \in Requests : Opening(s, u)}
    /\ spared' = spared \ FamiliesOf(u)

(* The family of the cookie is kept on purpose. *)
HCutOtherSessions(r) ==
    /\ CutOtherSessions(r)
    /\ spared' = spared \cup ({req[r].family} \ {None})
    /\ UNCHANGED outdated

(* A login that verified the old password opens its session after all. *)
HInsert(r) ==
    LET opened == IF r \in outdated THEN UsedFamilies' \ UsedFamilies ELSE {} IN
    /\ Insert(r)
    /\ outdated' = (outdated \ {r}) \cup opened
    /\ spared' = spared \cup opened

(* A change of password that dies spares the sessions it was to end. *)
HCrash(r) ==
    /\ Crash(r)
    /\ outdated' = outdated \ {r}
    /\ spared' = IF At(r, "keep") \/ At(r, "cut") THEN spared \cup FamiliesOf(req[r].user) ELSE spared

HReloadAccount(r) ==
    /\ ReloadAccount(r)
    /\ outdated' = IF At(r, "idle")' THEN outdated \ {r} ELSE outdated
    /\ UNCHANGED spared

HRequestStep(r) ==
    \/ HStorePassword(r) \/ HCutOtherSessions(r) \/ HInsert(r) \/ HCrash(r) \/ HReloadAccount(r)
    \/ /\ UNCHANGED <<outdated, spared>>
       /\ \/ \E u \in Users, p \in Passwords : Register(r, u, p) \/ Login(r, u, p)
          \/ \E u \in Users, old, new \in Passwords, cookie \in Token \cup {None} :
                ChangePassword(r, u, old, new, cookie)
          \/ \E t \in Token : Refresh(r, t) \/ Logout(r, t)
          \/ CreateAccount(r) \/ PruneExpired(r)
          \/ FindOwner(r) \/ Rotate(r) \/ KillReusedFamily(r) \/ RevokeStale(r)
          \/ EndFamily(r)
          \/ FindKeptFamily(r)
          \/ Respond(r)

(* Time stands still and nobody deactivates an account: both only take *)
(* sessions away, and AuthSessions' own runs have them.                *)
HNext ==
    /\ \E r \in Requests : HRequestStep(r)
    /\ contended' = contended \cup Contended'

HSpec == HInit /\ [][HNext]_<<vars, history>>

-------------------------------------------------------------------------------
(* Properties. *)

(* RefreshTokenModel: "Rotation keeps one token per session family."; logout *)
(* and reuse detection revoke the family, a password change every other      *)
(* session.  All this holds for every family no two requests contended for:  *)
(* one usable token at most, and none once the session was ended.  (For the  *)
(* others neither holds: two refreshes that both read a token unrevoked both *)
(* insert a successor, and one that read it before the end inserts after it.)*)
UncontendedPromisesHold ==
    \A f \in Family \ contended :
        /\ \A s, t \in InFamily(f) : Live(s) /\ Live(t) => s = t
        /\ ended[f] \in {"logout", "reuse", "password"} => \A t \in InFamily(f) : ~Live(t)

(* AuthService::changePassword revokes every other session of the account.   *)
(* A session opened with a replaced password is usable only while the change *)
(* is under way, or if it is the one the change kept, if the change died, if *)
(* its login overtook the change, or if it was contended for.                *)
OldPasswordOpensNothing ==
    \A f \in Family \cap outdated :
        \/ \A t \in InFamily(f) : ~Live(t)
        \/ f \in spared \cup contended
        \/ \E r \in Requests : req[r].pc \in {"keep", "cut"} /\ f \in Claimed(r)
==============================================================================
