---------------------------- MODULE AccessControl -----------------------------
(***************************************************************************)
(* Who may do what: the access tokens JwtHelper signs and checks, and the  *)
(* middlewares the route files put in front of the controllers.            *)
(*                                                                         *)
(* A token is its claims: the account as the statement of login, register  *)
(* or refresh read it (AuthSessions models those), and an expiry.  Nothing *)
(* looks the account up again but the routes under /auth.  The signature   *)
(* is sound: a client holds the tokens it was given and no others.  A      *)
(* request is slow: accounts change and time passes between its steps.     *)
(***************************************************************************)
EXTENDS Naturals, Sequences, FiniteSets, SequencesExt

CONSTANTS
    Requests,   \* PHP processes
    Users,      \* accounts
    None,
    ACCESS_TTL, \* JWT_ACCESS_TTL, in ticks
    TTL,        \* JWT_TTL, the lifetime of a token of bin/generate-token
    MaxClock,   \* bound: the clock stops here
    MaxTokens   \* bound: tokens clients hold

ASSUME LifetimesAssumption == ACCESS_TTL \in Nat \ {0} /\ TTL \in Nat \ {0} /\ MaxClock \in Nat
ASSUME NoneIsNoUser == None \notin Users

Types == {"admin", "staff"}
Times == 0 .. MaxClock

VARIABLES
    clock,      \* time()
    account,    \* table user: type, and whether deleted_at is null
    tokens,     \* the access tokens clients hold
    req,        \* what each request remembers
    wasAdmin,   \* history: the ticks during which each account was an active admin
    last        \* history: the call the last step carried out, if any

vars == <<clock, account, tokens, req, wasAdmin, last>>

-------------------------------------------------------------------------------
(* The routes, by kind, with the middlewares in the order add() names them.  *)
(* Slim runs the one added last first.                                       *)

Added == [read    |-> <<"authentication">>,
          write   |-> <<"authorization", "authentication">>,
          profile |-> <<"authentication">>]
Routes == DOMAIN Added

(* Variant, not the code: the write routes forget AuthorizationMiddleware. *)
ChainWithoutRoles(route) == <<"authentication">>

Chain(route) == Reverse(Added[route])

Token == [id    : Users,
          type  : Types,
          exp   : Nat,
          by    : {"session", "tool"},
          read  : Times,                \* history: when the account was read
          built : Times]                \* history: when the token was built

ASSUME NoneIsNoToken == None \notin Token

Request == [pc    : {"idle", "build", "middleware"},
            id    : Users \cup {None},      \* build: the account that was read
            type  : Types \cup {None},
            read  : Times,
            route : Routes \cup {None},
            token : Token \cup {None},      \* the Authorization header
            user  : BOOLEAN,                \* the attribute AuthenticationMiddleware sets
            at    : Times,                  \* history: when it set it
            left  : Seq({"authentication", "authorization"})]   \* middlewares still to run

(* A request that has read an account, and one on its way to a controller. *)
Building(id, type, read) ==
    [pc |-> "build", id |-> id, type |-> type, read |-> read,
     route |-> None, token |-> None, user |-> FALSE, at |-> 0, left |-> <<>>]

Passing(route, token, user, at, left) ==
    [pc |-> "middleware", id |-> None, type |-> None, read |-> 0,
     route |-> route, token |-> token, user |-> user, at |-> at, left |-> left]

Idle == [pc |-> "idle", id |-> None, type |-> None, read |-> 0,
         route |-> None, token |-> None, user |-> FALSE, at |-> 0, left |-> <<>>]

Call == [route : Routes, token : Token, at : Times]

Quiet == last' = None

At(r, pc) == req[r].pc = pc
Become(r, q) == req' = [req EXCEPT ![r] = q]

IsAdmin(u) == account[u].active /\ account[u].type = "admin"
Observe(table, now) ==
    [u \in Users |-> IF table[u].active /\ table[u].type = "admin"
                     THEN wasAdmin[u] \cup {now} ELSE wasAdmin[u]]

Init ==
    /\ clock = 0
    /\ account \in [Users -> [type : Types, active : {TRUE}]]
    /\ tokens = {}
    /\ req = [r \in Requests |-> Idle]
    /\ wasAdmin = [u \in Users |-> IF IsAdmin(u) THEN {0} ELSE {}]
    /\ last = None

-------------------------------------------------------------------------------
(* Tokens. *)

Room == Cardinality(tokens) < MaxTokens

(* login, register and refresh read the account, and build the token from    *)
(* that row at the end, whatever became of the account since.                *)
ReadAccount(r, u) ==
    /\ At(r, "idle")
    /\ account[u].active
    /\ Become(r, Building(u, account[u].type, clock))
    /\ Quiet /\ UNCHANGED <<clock, account, tokens, wasAdmin>>

(* Variant, not the code: the token of a session gets the long lifetime. *)
BuildLongToken(r) ==
    /\ At(r, "build") /\ Room
    /\ tokens' = tokens \cup {[id |-> req[r].id, type |-> req[r].type, exp |-> clock + TTL,
                               by |-> "session", read |-> req[r].read, built |-> clock]}
    /\ Become(r, Idle)
    /\ Quiet /\ UNCHANGED <<clock, account, wasAdmin>>

(* Variant, not the code: an access token built without an account. *)
BuildTokenForNobody(r) ==
    /\ At(r, "build") /\ Room
    /\ tokens' = tokens \cup {[id |-> None, type |-> None, exp |-> clock + ACCESS_TTL,
                               by |-> "session", read |-> req[r].read, built |-> clock]}
    /\ Become(r, Idle)
    /\ Quiet /\ UNCHANGED <<clock, account, wasAdmin>>

BuildToken(r) ==
    /\ At(r, "build") /\ Room
    /\ tokens' = tokens \cup {[id |-> req[r].id, type |-> req[r].type, exp |-> clock + ACCESS_TTL,
                               by |-> "session", read |-> req[r].read, built |-> clock]}
    /\ Become(r, Idle)
    /\ Quiet /\ UNCHANGED <<clock, account, wasAdmin>>

(* bin/generate-token: any claims the operator likes; the table is not asked. *)
GenerateToken(u, type) ==
    /\ Room
    /\ tokens' = tokens \cup {[id |-> u, type |-> type, exp |-> clock + TTL,
                               by |-> "tool", read |-> clock, built |-> clock]}
    /\ Quiet /\ UNCHANGED <<clock, account, req, wasAdmin>>

(* A client forgets a token. *)
Discard(t) ==
    /\ tokens' = tokens \ {t}
    /\ Quiet /\ UNCHANGED <<clock, account, req, wasAdmin>>

-------------------------------------------------------------------------------
(* A request with a bearer token. *)

Receive(r, route, t) ==
    /\ At(r, "idle")
    /\ Become(r, Passing(route, t, FALSE, 0, Chain(route)))
    /\ Quiet /\ UNCHANGED <<clock, account, tokens, wasAdmin>>

(* Variant, not the code: the clock of the validator stands still. *)
ValidForEver(t) == TRUE

(* claims: StrictValidAt with no leeway. *)
Valid(t) == clock < t.exp

Reaches(r, middleware) == req[r].left # <<>> /\ Head(req[r].left) = middleware

(* AuthenticationMiddleware: 401, or the claims as the attribute "user". *)
Authenticate(r) ==
    LET q == req[r] IN
    /\ At(r, "middleware") /\ Reaches(r, "authentication")
    /\ Become(r, IF Valid(q.token) THEN Passing(q.route, q.token, TRUE, clock, Tail(q.left)) ELSE Idle)
    /\ Quiet /\ UNCHANGED <<clock, account, tokens, wasAdmin>>

(* AuthorizationMiddleware([ADMIN]): 401 without the attribute, 403 by type. *)
Authorize(r) ==
    LET q == req[r] IN
    /\ At(r, "middleware") /\ Reaches(r, "authorization")
    /\ Become(r, IF q.user /\ q.token.type = "admin"
                 THEN Passing(q.route, q.token, q.user, q.at, Tail(q.left))
                 ELSE Idle)
    /\ Quiet /\ UNCHANGED <<clock, account, tokens, wasAdmin>>

(* findById of the account the token names. *)
Known(r) == account[req[r].token.id].active

(* The controller.  The routes under /auth look the account up, and refuse    *)
(* one that is gone.                                                          *)
Handle(r) ==
    /\ At(r, "middleware")
    /\ req[r].left = <<>>
    /\ last' = IF req[r].route = "profile" /\ ~Known(r) THEN None
               ELSE [route |-> req[r].route, token |-> req[r].token, at |-> req[r].at]
    /\ Become(r, Idle)
    /\ UNCHANGED <<clock, account, tokens, wasAdmin>>

-------------------------------------------------------------------------------
(* The operator and the clock. *)

ChangeAccount(u, type, active) ==
    /\ account' = [account EXCEPT ![u] = [type |-> type, active |-> active]]
    /\ wasAdmin' = Observe(account', clock)
    /\ Quiet /\ UNCHANGED <<clock, tokens, req>>

Tick ==
    /\ clock < MaxClock
    /\ clock' = clock + 1
    /\ wasAdmin' = Observe(account, clock')
    /\ Quiet /\ UNCHANGED <<account, tokens, req>>

Next ==
    \/ \E r \in Requests :
          \/ \E u \in Users : ReadAccount(r, u)
          \/ BuildToken(r)
          \/ \E route \in Routes, t \in tokens : Receive(r, route, t)
          \/ Authenticate(r) \/ Authorize(r) \/ Handle(r)
    \/ \E u \in Users, type \in Types : GenerateToken(u, type)
    \/ \E t \in tokens : Discard(t)
    \/ \E u \in Users, type \in Types, active \in BOOLEAN : ChangeAccount(u, type, active)
    \/ Tick

Spec == Init /\ [][Next]_vars

-------------------------------------------------------------------------------
(* Properties. *)

(* The variables keep their types. *)
TypeOK ==
    /\ clock \in Times
    /\ account \in [Users -> [type : Types, active : BOOLEAN]]
    /\ tokens \in SUBSET Token
    /\ req \in [Requests -> Request]
    /\ wasAdmin \in [Users -> SUBSET Times]
    /\ last \in Call \cup {None}

(* Who writes customers by a session was an active admin when the session    *)
(* read the account, and was authenticated within one access-token lifetime  *)
(* of getting the token: no route, order of middlewares or slow request      *)
(* makes the role a token carries older than that.                           *)
WriterWasAdmin ==
    last # None /\ last.route = "write" =>
        /\ last.token.type = "admin"
        /\ last.token.by = "session" =>
              /\ last.token.read \in wasAdmin[last.token.id]
              /\ last.at < last.token.built + ACCESS_TTL

(* u is no admin, its sessions' admin tokens have expired, and no request    *)
(* still acts on what it read or checked before.                             *)
LockedOut(u) ==
    LET AdminToken(t) == t.id = u /\ t.type = "admin" /\ t.by = "session" IN
    /\ ~IsAdmin(u)
    /\ \A t \in tokens : AdminToken(t) => t.exp <= clock
    /\ \A r \in Requests :
          /\ ~(At(r, "build") /\ req[r].id = u /\ req[r].type = "admin")
          /\ req[r].token # None /\ AdminToken(req[r].token) => req[r].token.exp <= clock /\ ~req[r].user

(* A demoted or deactivated account that is locked out stays so until it is  *)
(* promoted again: no sequence of logins, refreshes, old tokens and slow     *)
(* requests lets its sessions write another customer.                        *)
LockedOutStaysOut ==
    [][\A u \in Users :
          LockedOut(u) /\ ~IsAdmin(u)' =>
              /\ LockedOut(u)'
              /\ last' # None /\ last'.token.id = u /\ last'.token.by = "session"
                    => last'.route # "write"]_vars
===============================================================================
