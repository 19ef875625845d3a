---------------------------- MODULE AuthSessions -----------------------------
(***************************************************************************)
(* Accounts and refresh-token sessions: AuthService over UserModel and     *)
(* RefreshTokenModel.                                                      *)
(*                                                                         *)
(* Every request is a PHP process; the services run their SQL statements   *)
(* one by one and outside any transaction, so one action is one statement  *)
(* and requests interleave between any two.  A request may die before any  *)
(* of its statements (Crash): a killed process, an exception of the        *)
(* database, and, at "respond", an answer the client never receives.       *)
(*                                                                         *)
(* Abstracted: hashes, names, user agents, last_login_at and the access    *)
(* token.  A password is a value, a refresh token and a family id are      *)
(* fresh values, since random_bytes never repeats one.  A request that the *)
(* service turns away before it writes anything (unknown cookie, wrong     *)
(* password) changes nothing and is a stuttering step.                     *)
(***************************************************************************)
EXTENDS Naturals

CONSTANTS
    Requests,   \* PHP processes: at most this many requests overlap
    Users,      \* accounts; one per email, which uq_user_email keeps unique
    Passwords,
    Token,      \* refresh tokens that random_bytes may return
    Family,     \* family ids that random_bytes may return
    None,       \* SQL NULL, and a field that holds nothing
    TTL,        \* REFRESH_TOKEN_TTL_DAYS, in ticks of the clock
    MaxClock    \* bound: the clock stops here

ASSUME NoneIsNoValue == None \notin Users \cup Passwords \cup Token \cup Family
ASSUME TTLAssumption == TTL \in Nat \ {0}
ASSUME MaxClockAssumption == MaxClock \in Nat

VARIABLES
    account,    \* table user: "none", "active", or "deleted" (deleted_at is set)
    password,   \* table user: the password behind password_hash
    row,        \* table refresh_token, by token_hash
    clock,      \* time()
    cookies,    \* refresh tokens some client received in a Set-Cookie
    req,        \* what each request remembers between two of its statements
    ended       \* history: what ended each family last, "no" if nothing did

vars == <<account, password, row, clock, cookies, req, ended>>

-------------------------------------------------------------------------------
(* The refresh_token table.  "parent" is history: the token a refresh read. *)

Row == [user    : Users \cup {None},
        family  : Family \cup {None},
        parent  : Token \cup {None},
        expires : Nat,
        revoked : BOOLEAN]

NoRow == [user |-> None, family |-> None, parent |-> None, expires |-> 0, revoked |-> FALSE]

Issued(t) == row[t].user # None
Live(t) == Issued(t) /\ ~row[t].revoked
Expired(t) == row[t].expires <= clock
InFamily(f) == {t \in Token : row[t].family = f}
OfUser(u) == {t \in Token : row[t].user = u}
UsedFamilies == {row[t].family : t \in {s \in Token : Issued(s)}}

(* UPDATE refresh_token SET revoked_at = now WHERE <one of S> AND revoked_at IS NULL *)
RevokeRows(S) ==
    row' = [t \in Token |-> IF t \in S /\ Issued(t) THEN [row[t] EXCEPT !.revoked = TRUE] ELSE row[t]]

-------------------------------------------------------------------------------
(* The requests.  "pc" names the statement a request runs next. *)

PC == {"idle", "create", "reload", "prune", "owner", "rotate", "insert", "respond",
       "reuse", "stale", "logout", "store", "keep", "cut"}

Request == [pc       : PC,
            user     : Users \cup {None},       \* the account it acts for
            password : Passwords \cup {None},   \* the password it will store
            cookie   : Token \cup {None},       \* the refresh token it holds
            family   : Family \cup {None}]      \* the family of that token

Doing(pc, user, pw, cookie, family) ==
    [pc |-> pc, user |-> user, password |-> pw, cookie |-> cookie, family |-> family]

Idle == Doing("idle", None, None, None, None)

At(r, pc) == req[r].pc = pc
Goto(r, pc) == req' = [req EXCEPT ![r].pc = pc]
Start(r, fields) == At(r, "idle") /\ req' = [req EXCEPT ![r] = fields]
Done(r) == req' = [req EXCEPT ![r] = Idle]

End(families, cause) ==
    ended' = [f \in Family |-> IF f \in families THEN cause ELSE ended[f]]

Init ==
    /\ account \in [Users -> {"none", "active"}]      \* the seeder creates accounts
    /\ password \in [Users -> Passwords \cup {None}]
    /\ \A u \in Users : account[u] = "none" <=> password[u] = None
    /\ row = [t \in Token |-> NoRow]
    /\ clock = 0
    /\ cookies = {}
    /\ req = [r \in Requests |-> Idle]
    /\ ended = [f \in Family |-> "no"]

-------------------------------------------------------------------------------
(* createSession: a fresh token, in the family of the rotated token or in a *)
(* fresh one.  The response delivers the token.                             *)

Insert(r) ==
    /\ At(r, "insert")
    /\ \E t \in {s \in Token : ~Issued(s)},
          f \in IF req[r].family = None THEN Family \ UsedFamilies ELSE {req[r].family} :
         /\ row' = [row EXCEPT ![t] = [user    |-> req[r].user,
                                       family  |-> f,
                                       parent  |-> req[r].cookie,
                                       expires |-> clock + TTL,
                                       revoked |-> FALSE]]
         /\ req' = [req EXCEPT ![r] = Doing("respond", None, None, t, None)]
    /\ UNCHANGED <<account, password, clock, cookies, ended>>

Respond(r) ==
    /\ At(r, "respond")
    /\ cookies' = cookies \cup {req[r].cookie}
    /\ Done(r)
    /\ UNCHANGED <<account, password, row, clock, ended>>

-------------------------------------------------------------------------------
(* register: existsByEmail, create, findById, createSession.  existsByEmail *)
(* overlooks a deleted account, the unique index does not.                  *)

Register(r, u, p) ==
    /\ account[u] # "active"
    /\ Start(r, Doing("create", u, p, None, None))
    /\ UNCHANGED <<account, password, row, clock, cookies, ended>>

CreateAccount(r) ==
    LET u == req[r].user IN
    /\ At(r, "create")
    /\ \/ /\ account[u] = "none"
          /\ account' = [account EXCEPT ![u] = "active"]
          /\ password' = [password EXCEPT ![u] = req[r].password]
          /\ req' = [req EXCEPT ![r] = Doing("reload", u, None, None, None)]
       \/ /\ account[u] # "none"          \* uq_user_email: the INSERT fails
          /\ Done(r)
          /\ UNCHANGED <<account, password>>
    /\ UNCHANGED <<row, clock, cookies, ended>>

ReloadAccount(r) ==
    /\ At(r, "reload")
    /\ IF account[req[r].user] = "active" THEN Goto(r, "insert") ELSE Done(r)
    /\ UNCHANGED <<account, password, row, clock, cookies, ended>>

(* login: findByEmail and password_verify, revokeExpiredForUser, createSession. *)

Login(r, u, p) ==
    /\ account[u] = "active" /\ password[u] = p
    /\ Start(r, Doing("prune", u, None, None, None))
    /\ UNCHANGED <<account, password, row, clock, cookies, ended>>

PruneExpired(r) ==
    /\ At(r, "prune")
    /\ RevokeRows({t \in OfUser(req[r].user) : row[t].expires < clock})
    /\ Goto(r, "insert")
    /\ UNCHANGED <<account, password, clock, cookies, ended>>

-------------------------------------------------------------------------------
(* refresh: findByHash decides; then revokeFamily (reuse), revoke (expired), *)
(* or findById, revoke, createSession (rotation).                            *)

(* Variant, not the code: a rotated token is accepted again. *)
RefreshIgnoringRevocation(r, t) ==
    /\ t \in cookies /\ Issued(t)
    /\ Start(r, Doing(IF Expired(t) THEN "stale" ELSE "owner",
                      row[t].user, None, t, row[t].family))
    /\ UNCHANGED <<account, password, row, clock, cookies, ended>>

Refresh(r, t) ==
    /\ t \in cookies /\ Issued(t)
    /\ Start(r, Doing(IF row[t].revoked THEN "reuse" ELSE IF Expired(t) THEN "stale" ELSE "owner",
                      row[t].user, None, t, row[t].family))
    /\ UNCHANGED <<account, password, row, clock, cookies, ended>>

(* Variant, not the code: reuse revokes every family of the account. *)
KillReusedUser(r) ==
    /\ At(r, "reuse")
    /\ RevokeRows(OfUser(req[r].user))
    /\ End({req[r].family}, "reuse")
    /\ Done(r)
    /\ UNCHANGED <<account, password, clock, cookies>>

(* Variant, not the code: reuse revokes the token, not its family. *)
KillReusedToken(r) ==
    /\ At(r, "reuse")
    /\ RevokeRows({req[r].cookie})
    /\ End({req[r].family}, "reuse")
    /\ Done(r)
    /\ UNCHANGED <<account, password, clock, cookies>>

KillReusedFamily(r) ==
    /\ At(r, "reuse")
    /\ RevokeRows(InFamily(req[r].family))
    /\ End({req[r].family}, "reuse")
    /\ Done(r)
    /\ UNCHANGED <<account, password, clock, cookies>>

RevokeStale(r) ==
    /\ At(r, "stale")
    /\ RevokeRows({req[r].cookie})
    /\ Done(r)
    /\ UNCHANGED <<account, password, clock, cookies, ended>>

(* Variant, not the code: refresh does not look the account up. *)
FindAnyOwner(r) ==
    /\ At(r, "owner")
    /\ Goto(r, "rotate")
    /\ UNCHANGED <<account, password, row, clock, cookies, ended>>

(* Variant, not the code: refresh inserts without revoking. *)
FindOwnerAndInsert(r) ==
    /\ At(r, "owner")
    /\ IF account[req[r].user] = "active" THEN Goto(r, "insert") ELSE Done(r)
    /\ UNCHANGED <<account, password, row, clock, cookies, ended>>

FindOwner(r) ==
    /\ At(r, "owner")
    /\ IF account[req[r].user] = "active" THEN Goto(r, "rotate") ELSE Done(r)
    /\ UNCHANGED <<account, password, row, clock, cookies, ended>>

Rotate(r) ==
    /\ At(r, "rotate")
    /\ RevokeRows({req[r].cookie})
    /\ Goto(r, "insert")
    /\ UNCHANGED <<account, password, clock, cookies, ended>>

-------------------------------------------------------------------------------
(* logout: findByHash, revokeFamily. *)

Logout(r, t) ==
    /\ t \in cookies /\ Issued(t)
    /\ Start(r, Doing("logout", None, None, None, row[t].family))
    /\ UNCHANGED <<account, password, row, clock, cookies, ended>>

EndFamily(r) ==
    /\ At(r, "logout")
    /\ RevokeRows(InFamily(req[r].family))
    /\ End({req[r].family}, "logout")
    /\ Done(r)
    /\ UNCHANGED <<account, password, clock, cookies>>

(* changePassword: findById and password_verify, updatePassword, findByHash *)
(* of the cookie (any cookie, another account's included), and one of       *)
(* revokeAllForUser and revokeAllForUserExceptFamily.                       *)

ChangePassword(r, u, old, new, cookie) ==
    /\ account[u] = "active" /\ password[u] = old /\ new # old
    /\ cookie \in cookies \cup {None}
    /\ Start(r, Doing("store", u, new, cookie, None))
    /\ UNCHANGED <<account, password, row, clock, cookies, ended>>

StorePassword(r) ==
    /\ At(r, "store")
    /\ password' = [password EXCEPT ![req[r].user] = req[r].password]
    /\ Goto(r, "keep")
    /\ UNCHANGED <<account, row, clock, cookies, ended>>

(* Variant, not the code: the cookie is taken for a family id. *)
FindKeptToken(r) ==
    /\ At(r, "keep")
    /\ req' = [req EXCEPT ![r] = Doing("cut", req[r].user, None, None, req[r].cookie)]
    /\ UNCHANGED <<account, password, row, clock, cookies, ended>>

FindKeptFamily(r) ==
    LET c == req[r].cookie
        kept == IF c = None THEN None ELSE row[c].family
    IN
    /\ At(r, "keep")
    /\ req' = [req EXCEPT ![r] = Doing("cut", req[r].user, None, None, kept)]
    /\ UNCHANGED <<account, password, row, clock, cookies, ended>>

(* Variant, not the code: the session of the cookie is ended, the others stay. *)
CutKeptSession(r) ==
    LET kept == {t \in OfUser(req[r].user) : row[t].family = req[r].family} IN
    /\ At(r, "cut")
    /\ RevokeRows(kept)
    /\ End({row[t].family : t \in kept}, "password")
    /\ Done(r)
    /\ UNCHANGED <<account, password, clock, cookies>>

CutOtherSessions(r) ==
    LET others == {t \in OfUser(req[r].user) : row[t].family # req[r].family} IN
    /\ At(r, "cut")
    /\ RevokeRows(others)
    /\ End({row[t].family : t \in others}, "password")
    /\ Done(r)
    /\ UNCHANGED <<account, password, clock, cookies>>

-------------------------------------------------------------------------------
(* The environment. *)

(* The process dies before its next statement.  A rotation that dies leaves *)
(* its family without a usable token, which "ended" records.                *)
Crash(r) ==
    /\ ~At(r, "idle")
    /\ IF At(r, "insert") /\ req[r].family # None
       THEN End({req[r].family}, "crash")
       ELSE UNCHANGED ended
    /\ Done(r)
    /\ UNCHANGED <<account, password, row, clock, cookies>>

(* An operator soft-deletes an account in the database. *)
Deactivate(u) ==
    /\ account[u] = "active"
    /\ account' = [account EXCEPT ![u] = "deleted"]
    /\ UNCHANGED <<password, row, clock, cookies, req, ended>>

Tick ==
    /\ clock < MaxClock
    /\ clock' = clock + 1
    /\ UNCHANGED <<account, password, row, cookies, req, ended>>

RequestStep(r) ==
    \/ \E u \in Users, p \in Passwords : Register(r, u, p) \/ Login(r, u, p)
    \/ \E u \in Users, old, new \in Passwords, cookie \in Token \cup {None} :
          ChangePassword(r, u, old, new, cookie)
    \/ \E t \in Token : Refresh(r, t) \/ Logout(r, t)
    \/ CreateAccount(r) \/ ReloadAccount(r) \/ PruneExpired(r)
    \/ FindOwner(r) \/ Rotate(r) \/ KillReusedFamily(r) \/ RevokeStale(r)
    \/ EndFamily(r)
    \/ StorePassword(r) \/ FindKeptFamily(r) \/ CutOtherSessions(r)
    \/ Insert(r) \/ Respond(r)
    \/ Crash(r)

Next ==
    \/ \E r \in Requests : RequestStep(r)
    \/ \E u \in Users : Deactivate(u)
    \/ Tick

Spec == Init /\ [][Next]_vars

-------------------------------------------------------------------------------
(* Properties. *)

(* The variables keep their types. *)
TypeOK ==
    /\ account \in [Users -> {"none", "active", "deleted"}]
    /\ password \in [Users -> Passwords \cup {None}]
    /\ row \in [Token -> Row]
    /\ clock \in Nat
    /\ cookies \in SUBSET Token
    /\ req \in [Requests -> Request]
    /\ ended \in [Family -> {"no", "reuse", "logout", "password", "crash"}]

(* refresh revokes the token it read before it inserts the successor: no     *)
(* interleaving and no crash leaves a token usable beside its own successor. *)
RotatedTokenIsRevoked ==
    \A t \in Token : Issued(t) /\ row[t].parent # None => row[row[t].parent].revoked

(* A family belongs to one account, so revokeFamily, which does not look at  *)
(* user_id, never signs out somebody else.                                   *)
FamilyHasOneOwner ==
    \A s, t \in Token :
        Issued(s) /\ Issued(t) /\ row[s].family = row[t].family => row[s].user = row[t].user

(* A session is lost for a reason only: a family nobody ended and nobody is  *)
(* rotating has a newest token that is usable or past its expiry.  Reuse     *)
(* detection, logout, a password change and the pruning at login of other    *)
(* sessions never take it.                                                   *)
SessionsAreNotLost ==
    \A f \in UsedFamilies :
        \/ ended[f] # "no"
        \/ \E r \in Requests : At(r, "insert") /\ req[r].family = f
        \/ \E t \in InFamily(f) :
              (Live(t) \/ Expired(t)) /\ \A s \in Token : row[s].parent # t

(* Nothing is usable in f, and no refresh that read one of f's tokens while  *)
(* it was usable is still under way.                                         *)
Dead(f) ==
    /\ f \in UsedFamilies
    /\ \A t \in InFamily(f) : ~Live(t)
    /\ \A r \in Requests : req[r].pc \in {"owner", "rotate", "insert"} => req[r].family # f

(* No sequence of requests, replays of old cookies included, brings a dead   *)
(* session back to life: refresh only rotates a token it read unrevoked.     *)
DeadFamilyStaysDead == [][\A f \in Family : Dead(f) => Dead(f)']_vars

(* u is deactivated, and no request that read u while it was active is still *)
(* on its way to a new token.                                                *)
CutOff(u) ==
    /\ account[u] = "deleted"
    /\ \A r \in Requests : req[r].pc \in {"prune", "rotate", "insert"} => req[r].user # u

(* A deactivated account gets no further token: neither a login nor a        *)
(* refresh that starts, or looks the account up, after the deactivation      *)
(* reaches createSession.                                                    *)
DeactivatedAccountGetsNoToken ==
    [][\A u \in Users : CutOff(u) => CutOff(u)' /\ OfUser(u)' = OfUser(u)]_vars

(* AuthSessions implements the ledger of its tokens. *)
Ledger == INSTANCE SessionLedger WITH
    ledger <- [t \in Token |-> [user   |-> row[t].user,
                                family |-> row[t].family,
                                parent |-> row[t].parent,
                                live   |-> Live(t)]]

(* Whatever the interleaving, each statement opens a session, extends one by *)
(* the successor of a dead token, closes tokens of a single account, or      *)
(* leaves the tokens alone.                                                  *)
ImplementsLedger == Ledger!LedgerSpec
==============================================================================
