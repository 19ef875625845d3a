-------------------------- MODULE AccessControlProofs --------------------------
(***************************************************************************)
(* That a writer was an admin when its session read the account, and that  *)
(* an account which is locked out stays locked out, for every set of       *)
(* requests and accounts and every lifetime of the tokens.                 *)
(*                                                                         *)
(* WriterWasAdmin is not inductive: it speaks of the call just made, and   *)
(* not of the tokens and the half-checked requests that calls come from.   *)
(* The invariant adds that every token of a session is vouched for, that   *)
(* so is what a request read or carries, and how far along the chain of    *)
(* the write routes a request has been checked.                            *)
(***************************************************************************)
EXTENDS AccessControl, TLAPS

(* A token of a session lives for ACCESS_TTL and names a role its account had. *)
Vouched(t) ==
    t.by = "session" =>
        /\ t.exp = t.built + ACCESS_TTL
        /\ t.type = "admin" => t.read \in wasAdmin[t.id]

(* How far a request has come along the chain of a write route. *)
Checked(q) ==
    q.route = "write" =>
        \/ q.left = <<"authentication", "authorization">>
        \/ q.left = <<"authorization">> /\ q.user /\ q.at < q.token.exp
        \/ q.left = <<>> /\ q.user /\ q.at < q.token.exp /\ q.token.type = "admin"

ReadHonestly(q) ==
    q.pc = "build" =>
        /\ q.id \in Users /\ q.type \in Types
        /\ q.type = "admin" => q.read \in wasAdmin[q.id]

PassesHonestly(q) ==
    q.pc = "middleware" =>
        /\ q.token \in Token /\ q.route \in Routes
        /\ Vouched(q.token)
        /\ Checked(q)

AdminsAreSeen == \A u \in Users : IsAdmin(u) => clock \in wasAdmin[u]

TokensHonest == \A t \in tokens : Vouched(t)

RequestsHonest == \A r \in Requests : ReadHonestly(req[r]) /\ PassesHonestly(req[r])

IInv ==
    /\ TypeOK
    /\ AdminsAreSeen
    /\ TokensHonest
    /\ RequestsHonest
    /\ WriterWasAdmin

-------------------------------------------------------------------------------
(* The chain of middlewares of each kind of route, in the order they run. *)
LEMMA ChainOfRoute ==
    /\ Chain("read") = <<"authentication">>
    /\ Chain("profile") = <<"authentication">>
    /\ Chain("write") = <<"authentication", "authorization">>
  BY SMTT(30) DEF Chain, Added, Reverse

(* The chain of a route is a sequence of middlewares. *)
LEMMA ChainType ==
    ASSUME NEW route \in Routes
    PROVE  Chain(route) \in Seq({"authentication", "authorization"})
  <1>1. route \in {"read", "write", "profile"}
    BY DEF Routes, Added
  <1>2. <<"authentication">> \in Seq({"authentication", "authorization"})
    OBVIOUS
  <1>3. <<"authentication", "authorization">> \in Seq({"authentication", "authorization"})
    OBVIOUS
  <1> QED BY <1>1, <1>2, <1>3, ChainOfRoute

(* The first of the middlewares still to run, and the rest. *)
LEMMA ChainHeads ==
    /\ Head(<<"authentication", "authorization">>) = "authentication"
    /\ Head(<<"authorization">>) = "authorization"
  OBVIOUS

LEMMA ChainTails ==
    /\ Tail(<<"authentication", "authorization">>) = <<"authorization">>
    /\ Tail(<<"authorization">>) = <<>>
  <1>1. Tail(<<"authentication", "authorization">>) = <<"authorization">>
    OBVIOUS
  <1>2. Tail(<<"authorization">>) = <<>>
    OBVIOUS
  <1> QED BY <1>1, <1>2

(* The three records a request can become are requests. *)
LEMMA IdleType == Idle \in Request
  BY LifetimesAssumption DEF Idle, Request, Times

LEMMA BuildingType ==
    ASSUME NEW u \in Users, NEW type \in Types, NEW read \in Times
    PROVE  Building(u, type, read) \in Request
  BY LifetimesAssumption DEF Building, Request, Times

LEMMA PassingType ==
    ASSUME NEW route \in Routes, NEW t \in Token, NEW user \in BOOLEAN, NEW at \in Times,
           NEW left \in Seq({"authentication", "authorization"})
    PROVE  Passing(route, t, user, at, left) \in Request
  BY LifetimesAssumption DEF Passing, Request, Times

-------------------------------------------------------------------------------
(* One request becomes q, the others stay what they are. *)
Sound(q) == q \in Request /\ ReadHonestly(q) /\ PassesHonestly(q)

LEMMA BecomeSound ==
    ASSUME IInv, NEW r \in Requests, NEW q, Sound(q), Become(r, q),
           UNCHANGED <<clock, account, tokens, wasAdmin>>, Quiet
    PROVE  IInv'
  <1>1. TypeOK'
    BY DEF IInv, TypeOK, Sound, Become, Quiet
  <1>2. AdminsAreSeen' /\ TokensHonest'
    BY DEF IInv, AdminsAreSeen, IsAdmin, TokensHonest, Vouched
  <1>3. RequestsHonest'
    <2> SUFFICES ASSUME NEW s \in Requests PROVE (ReadHonestly(req[s]) /\ PassesHonestly(req[s]))'
      BY DEF RequestsHonest
    <2>1. req'[s] = q \/ req'[s] = req[s]
      BY DEF IInv, TypeOK, Become
    <2>2. ReadHonestly(req[s]) /\ PassesHonestly(req[s])
      BY DEF IInv, RequestsHonest
    <2> QED
      BY <2>1, <2>2 DEF Sound, ReadHonestly, PassesHonestly, Vouched, Checked
  <1>4. WriterWasAdmin'
    BY DEF Quiet, WriterWasAdmin
  <1> QED BY <1>1, <1>2, <1>3, <1>4 DEF IInv

(* The request that does nothing is sound. *)
LEMMA IdleIsSound == Sound(Idle)
  BY IdleType DEF Sound, Idle, ReadHonestly, PassesHonestly

(* What the middleware's request is made of. *)
LEMMA PassingFields ==
    ASSUME IInv, NEW r \in Requests, At(r, "middleware")
    PROVE  /\ req[r].token \in Token /\ req[r].route \in Routes
           /\ req[r].user \in BOOLEAN /\ req[r].at \in Times
           /\ req[r].left \in Seq({"authentication", "authorization"})
           /\ Vouched(req[r].token) /\ Checked(req[r])
  BY DEF IInv, TypeOK, RequestsHonest, PassesHonestly, At, Request

(* A request on its way is sound when its parts are. *)
LEMMA PassingIsSound ==
    ASSUME NEW route \in Routes, NEW t \in Token, NEW user \in BOOLEAN, NEW at \in Times,
           NEW left \in Seq({"authentication", "authorization"}),
           Vouched(t), Checked(Passing(route, t, user, at, left))
    PROVE  Sound(Passing(route, t, user, at, left))
  <1>1. Passing(route, t, user, at, left) \in Request
    BY PassingType
  <1>2. ReadHonestly(Passing(route, t, user, at, left))
    BY DEF ReadHonestly, Passing
  <1>3. PassesHonestly(Passing(route, t, user, at, left))
    BY DEF PassesHonestly, Passing
  <1> QED BY <1>1, <1>2, <1>3 DEF Sound

(* One more token, vouched for. *)
LEMMA AddToken ==
    ASSUME IInv, NEW t \in Token, Vouched(t), tokens' = tokens \cup {t},
           UNCHANGED <<clock, account, req, wasAdmin>>, Quiet
    PROVE  IInv'
  <1>1. TypeOK'
    BY DEF IInv, TypeOK, Quiet
  <1>2. AdminsAreSeen' /\ TokensHonest'
    BY DEF IInv, AdminsAreSeen, IsAdmin, TokensHonest, Vouched
  <1>3. RequestsHonest'
    BY DEF IInv, RequestsHonest, ReadHonestly, PassesHonestly, Vouched, Checked
  <1>4. WriterWasAdmin'
    BY DEF Quiet, WriterWasAdmin
  <1> QED BY <1>1, <1>2, <1>3, <1>4 DEF IInv

-------------------------------------------------------------------------------
(* The invariant holds initially, and every action preserves it. *)

LEMMA InitHolds == Init => IInv
  <1> SUFFICES ASSUME Init PROVE IInv
    OBVIOUS
  <1>1. TypeOK
    <2>1. clock \in Times
      BY LifetimesAssumption DEF Init, Times
    <2>2. account \in [Users -> [type : Types, active : BOOLEAN]]
      BY DEF Init
    <2>3. req \in [Requests -> Request]
      BY IdleType DEF Init
    <2>4. wasAdmin \in [Users -> SUBSET Times]
      BY <2>1 DEF Init
    <2> QED BY <2>1, <2>2, <2>3, <2>4 DEF Init, TypeOK
  <1>2. AdminsAreSeen /\ TokensHonest
    BY DEF Init, AdminsAreSeen, TokensHonest
  <1>3. RequestsHonest
    BY IdleIsSound DEF Init, RequestsHonest, Sound
  <1>4. WriterWasAdmin
    BY DEF Init, WriterWasAdmin
  <1> QED BY <1>1, <1>2, <1>3, <1>4 DEF IInv

LEMMA ReadAccountHolds ==
    ASSUME IInv, NEW r \in Requests, NEW u \in Users, ReadAccount(r, u)
    PROVE  IInv'
  <1>1. account[u].type \in Types /\ clock \in Times
    BY DEF IInv, TypeOK
  <1>2. Building(u, account[u].type, clock) \in Request
    BY <1>1, BuildingType
  <1>3. account[u].type = "admin" => clock \in wasAdmin[u]
    BY DEF ReadAccount, IInv, AdminsAreSeen, IsAdmin
  <1>4. Sound(Building(u, account[u].type, clock))
    BY <1>1, <1>2, <1>3 DEF Sound, Building, ReadHonestly, PassesHonestly
  <1> QED BY <1>4, BecomeSound DEF ReadAccount

LEMMA BuildTokenHolds ==
    ASSUME IInv, NEW r \in Requests, BuildToken(r)
    PROVE  IInv'
  <1> DEFINE t == [id |-> req[r].id, type |-> req[r].type, exp |-> clock + ACCESS_TTL,
                   by |-> "session", read |-> req[r].read, built |-> clock]
  <1>1. /\ req[r].id \in Users /\ req[r].type \in Types /\ req[r].read \in Times
        /\ req[r].type = "admin" => req[r].read \in wasAdmin[req[r].id]
    BY DEF BuildToken, At, IInv, TypeOK, RequestsHonest, ReadHonestly, Request
  <1>2. clock \in Times /\ clock + ACCESS_TTL \in Nat
    BY LifetimesAssumption DEF IInv, TypeOK, Times
  <1>3. t \in Token
    BY <1>1, <1>2 DEF Token
  <1>4. Vouched(t)
    BY <1>1 DEF Vouched
  <1>5. tokens' = tokens \cup {t}
    BY DEF BuildToken
  <1> HIDE DEF t
  <1>6. TypeOK'
    BY <1>3, <1>5, IdleType DEF BuildToken, Become, Quiet, IInv, TypeOK
  <1>7. AdminsAreSeen' /\ TokensHonest'
    BY <1>4, <1>5 DEF BuildToken, IInv, AdminsAreSeen, IsAdmin, TokensHonest, Vouched
  <1>8. RequestsHonest'
    <2> SUFFICES ASSUME NEW s \in Requests PROVE (ReadHonestly(req[s]) /\ PassesHonestly(req[s]))'
      BY DEF RequestsHonest
    <2>1. req'[s] = Idle \/ req'[s] = req[s]
      BY DEF BuildToken, IInv, TypeOK, Become
    <2>2. ReadHonestly(req[s]) /\ PassesHonestly(req[s])
      BY DEF IInv, RequestsHonest
    <2>3. wasAdmin' = wasAdmin
      BY DEF BuildToken
    <2> QED
      BY <2>1, <2>2, <2>3, IdleIsSound DEF Sound, ReadHonestly, PassesHonestly, Vouched, Checked
  <1>9. WriterWasAdmin'
    BY DEF BuildToken, Quiet, WriterWasAdmin
  <1> QED BY <1>6, <1>7, <1>8, <1>9 DEF IInv

LEMMA GenerateTokenHolds ==
    ASSUME IInv, NEW u \in Users, NEW type \in Types, GenerateToken(u, type)
    PROVE  IInv'
  <1> DEFINE t == [id |-> u, type |-> type, exp |-> clock + TTL,
                   by |-> "tool", read |-> clock, built |-> clock]
  <1>1. clock \in Times /\ clock + TTL \in Nat
    BY LifetimesAssumption DEF IInv, TypeOK, Times
  <1>2. t \in Token
    BY <1>1 DEF Token
  <1>3. Vouched(t)
    BY DEF Vouched
  <1>4. tokens' = tokens \cup {t}
    BY DEF GenerateToken
  <1> HIDE DEF t
  <1> QED BY <1>2, <1>3, <1>4, AddToken DEF GenerateToken

LEMMA DiscardHolds ==
    ASSUME IInv, NEW t \in tokens, Discard(t)
    PROVE  IInv'
  <1>1. TypeOK'
    BY DEF Discard, IInv, TypeOK, Quiet
  <1>2. AdminsAreSeen' /\ TokensHonest'
    BY DEF Discard, IInv, AdminsAreSeen, IsAdmin, TokensHonest, Vouched
  <1>3. RequestsHonest'
    BY DEF Discard, IInv, RequestsHonest, ReadHonestly, PassesHonestly, Vouched, Checked
  <1>4. WriterWasAdmin'
    BY DEF Discard, Quiet, WriterWasAdmin
  <1> QED BY <1>1, <1>2, <1>3, <1>4 DEF IInv

LEMMA ReceiveHolds ==
    ASSUME IInv, NEW r \in Requests, NEW route \in Routes, NEW t \in tokens, Receive(r, route, t)
    PROVE  IInv'
  <1>1. t \in Token /\ Vouched(t) /\ 0 \in Times
    BY LifetimesAssumption DEF IInv, TypeOK, TokensHonest, Times
  <1>2. Checked(Passing(route, t, FALSE, 0, Chain(route)))
    BY ChainOfRoute DEF Checked, Passing
  <1>3. Sound(Passing(route, t, FALSE, 0, Chain(route)))
    BY <1>1, <1>2, ChainType, PassingIsSound
  <1> QED BY <1>3, BecomeSound DEF Receive

LEMMA AuthenticateHolds ==
    ASSUME IInv, NEW r \in Requests, Authenticate(r)
    PROVE  IInv'
  <1> DEFINE q == req[r]
             next == Passing(q.route, q.token, TRUE, clock, Tail(q.left))
  <1>1. /\ q.token \in Token /\ q.route \in Routes /\ Vouched(q.token) /\ Checked(q)
        /\ q.left \in Seq({"authentication", "authorization"})
    BY PassingFields DEF Authenticate
  <1>2. q.left # <<>> /\ Head(q.left) = "authentication"
    BY DEF Authenticate, Reaches
  <1>3. Tail(q.left) \in Seq({"authentication", "authorization"}) /\ clock \in Times
    BY <1>1, <1>2 DEF IInv, TypeOK
  <1>4. ASSUME Valid(q.token) PROVE Sound(next)
    <2>1. clock < q.token.exp
      BY <1>4 DEF Valid
    <2>2. q.route = "write" => Tail(q.left) = <<"authorization">>
      <3>1. q.route = "write" => q.left = <<"authentication", "authorization">>
        BY <1>1, <1>2, ChainHeads DEF Checked
      <3> QED BY <3>1, ChainTails
    <2>3. Checked(next)
      BY <2>1, <2>2 DEF Checked, Passing
    <2> QED BY <1>1, <1>3, <2>3, PassingIsSound
  <1>5. CASE Valid(q.token)
    <2>1. Become(r, next)
      BY <1>5 DEF Authenticate
    <2> HIDE DEF next
    <2> QED BY <1>4, <1>5, <2>1, BecomeSound DEF Authenticate
  <1>6. CASE ~Valid(q.token)
    BY <1>6, IdleIsSound, BecomeSound DEF Authenticate
  <1> QED BY <1>5, <1>6

LEMMA AuthorizeHolds ==
    ASSUME IInv, NEW r \in Requests, Authorize(r)
    PROVE  IInv'
  <1> DEFINE q == req[r]
             next == Passing(q.route, q.token, q.user, q.at, Tail(q.left))
  <1>1. /\ q.token \in Token /\ q.route \in Routes /\ Vouched(q.token) /\ Checked(q)
        /\ q.user \in BOOLEAN /\ q.at \in Times
        /\ q.left \in Seq({"authentication", "authorization"})
    BY PassingFields DEF Authorize
  <1>2. q.left # <<>> /\ Head(q.left) = "authorization"
    BY DEF Authorize, Reaches
  <1>3. Tail(q.left) \in Seq({"authentication", "authorization"})
    BY <1>1, <1>2
  <1>4. ASSUME q.token.type = "admin" PROVE Sound(next)
    <2>1. q.route = "write" => Tail(q.left) = <<>> /\ q.user /\ q.at < q.token.exp
      <3>1. q.route = "write" => q.left = <<"authorization">> /\ q.user /\ q.at < q.token.exp
        BY <1>1, <1>2, ChainHeads DEF Checked
      <3> QED BY <3>1, ChainTails
    <2>2. Checked(next)
      BY <2>1, <1>4 DEF Checked, Passing
    <2> QED BY <1>1, <1>3, <2>2, PassingIsSound
  <1>5. CASE q.user /\ q.token.type = "admin"
    <2>1. Become(r, next)
      BY <1>5 DEF Authorize
    <2> HIDE DEF next
    <2> QED BY <1>4, <1>5, <2>1, BecomeSound DEF Authorize
  <1>6. CASE ~(q.user /\ q.token.type = "admin")
    BY <1>6, IdleIsSound, BecomeSound DEF Authorize
  <1> QED BY <1>5, <1>6

LEMMA HandleHolds ==
    ASSUME IInv, NEW r \in Requests, Handle(r)
    PROVE  IInv'
  <1>1. /\ req[r].token \in Token /\ req[r].route \in Routes /\ req[r].at \in Times
        /\ Vouched(req[r].token) /\ Checked(req[r]) /\ req[r].left = <<>>
    BY PassingFields DEF Handle
  <1>2. last' = None \/ last' = [route |-> req[r].route, token |-> req[r].token, at |-> req[r].at]
    BY DEF Handle
  <1>3. TypeOK'
    BY <1>1, <1>2, IdleType DEF Handle, Become, IInv, TypeOK, Call
  <1>4. AdminsAreSeen' /\ TokensHonest'
    BY DEF Handle, IInv, AdminsAreSeen, IsAdmin, TokensHonest, Vouched
  <1>5. RequestsHonest'
    <2> SUFFICES ASSUME NEW s \in Requests PROVE (ReadHonestly(req[s]) /\ PassesHonestly(req[s]))'
      BY DEF RequestsHonest
    <2>1. req'[s] = Idle \/ req'[s] = req[s]
      BY DEF Handle, IInv, TypeOK, Become
    <2>2. ReadHonestly(req[s]) /\ PassesHonestly(req[s])
      BY DEF IInv, RequestsHonest
    <2>3. wasAdmin' = wasAdmin
      BY DEF Handle
    <2> QED
      BY <2>1, <2>2, <2>3, IdleIsSound DEF Sound, ReadHonestly, PassesHonestly, Vouched, Checked
  <1>6. WriterWasAdmin'
    <2> SUFFICES ASSUME last' # None, last'.route = "write"
                 PROVE  (/\ last.token.type = "admin"
                         /\ last.token.by = "session" =>
                               /\ last.token.read \in wasAdmin[last.token.id]
                               /\ last.at < last.token.built + ACCESS_TTL)'
      BY DEF WriterWasAdmin
    <2>1. last'.token = req[r].token /\ last'.at = req[r].at /\ req[r].route = "write"
      BY <1>2
    <2>2. req[r].at < req[r].token.exp /\ req[r].token.type = "admin"
      BY <1>1, <2>1 DEF Checked
    <2>3. wasAdmin' = wasAdmin
      BY DEF Handle
    <2> QED BY <1>1, <2>1, <2>2, <2>3 DEF Vouched
  <1> QED BY <1>3, <1>4, <1>5, <1>6 DEF IInv

(* The account table or the clock moves, and nothing that was seen is lost. *)
LEMMA ObserveHolds ==
    ASSUME IInv, NEW table, table = account', UNCHANGED <<tokens, req>>, Quiet,
           clock' \in Times, table \in [Users -> [type : Types, active : BOOLEAN]],
           NEW now, now = clock', wasAdmin' = Observe(table, now)
    PROVE  IInv'
  <1>1. \A u \in Users : wasAdmin'[u] \in SUBSET Times /\ wasAdmin[u] \subseteq wasAdmin'[u]
    BY DEF Observe, IInv, TypeOK
  <1>2. TypeOK'
    BY <1>1 DEF IInv, TypeOK, Quiet, Observe
  <1>3. AdminsAreSeen'
    BY DEF AdminsAreSeen, IsAdmin, Observe
  <1>4. \A t \in Token : Vouched(t) => Vouched(t)'
    BY <1>1 DEF Vouched, Token
  <1>5. TokensHonest'
    BY <1>4 DEF IInv, TypeOK, TokensHonest
  <1>6. RequestsHonest'
    <2> SUFFICES ASSUME NEW s \in Requests PROVE (ReadHonestly(req[s]) /\ PassesHonestly(req[s]))'
      BY DEF RequestsHonest
    <2>1. ReadHonestly(req[s]) /\ PassesHonestly(req[s])
      BY DEF IInv, RequestsHonest
    <2>2. ReadHonestly(req[s])'
      BY <1>1, <2>1 DEF ReadHonestly
    <2>3. PassesHonestly(req[s])'
      BY <1>1, <2>1 DEF PassesHonestly, Vouched, Checked, Token
    <2> QED BY <2>2, <2>3
  <1>7. WriterWasAdmin'
    BY DEF Quiet, WriterWasAdmin
  <1> QED BY <1>2, <1>3, <1>5, <1>6, <1>7 DEF IInv

LEMMA ChangeAccountHolds ==
    ASSUME IInv, NEW u \in Users, NEW type \in Types, NEW active \in BOOLEAN,
           ChangeAccount(u, type, active)
    PROVE  IInv'
  <1>1. account' \in [Users -> [type : Types, active : BOOLEAN]]
    BY DEF ChangeAccount, IInv, TypeOK
  <1>2. clock' = clock /\ clock \in Times
    BY DEF ChangeAccount, IInv, TypeOK
  <1> QED BY <1>1, <1>2, ObserveHolds DEF ChangeAccount

LEMMA TickHolds ==
    ASSUME IInv, Tick
    PROVE  IInv'
  <1>1. clock' \in Times
    BY LifetimesAssumption DEF Tick, IInv, TypeOK, Times
  <1>2. account' = account /\ account \in [Users -> [type : Types, active : BOOLEAN]]
    BY DEF Tick, IInv, TypeOK
  <1> QED BY <1>1, <1>2, ObserveHolds DEF Tick

LEMMA StutterHolds ==
    ASSUME IInv, UNCHANGED vars
    PROVE  IInv'
  <1>1. TypeOK' /\ AdminsAreSeen' /\ TokensHonest'
    BY DEF vars, IInv, TypeOK, AdminsAreSeen, IsAdmin, TokensHonest, Vouched
  <1>2. RequestsHonest' /\ WriterWasAdmin'
    BY DEF vars, IInv, RequestsHonest, ReadHonestly, PassesHonestly, Vouched, Checked, WriterWasAdmin
  <1> QED BY <1>1, <1>2 DEF IInv

(* Every step preserves the invariant. *)
LEMMA StepHolds == IInv /\ [Next]_vars => IInv'
  <1> SUFFICES ASSUME IInv, [Next]_vars PROVE IInv'
    OBVIOUS
  <1>1. ASSUME NEW r \in Requests, NEW u \in Users, ReadAccount(r, u) PROVE IInv'
    BY <1>1, ReadAccountHolds
  <1>2. ASSUME NEW r \in Requests, BuildToken(r) PROVE IInv'
    BY <1>2, BuildTokenHolds
  <1>3. ASSUME NEW r \in Requests, NEW route \in Routes, NEW t \in tokens, Receive(r, route, t)
        PROVE  IInv'
    BY <1>3, ReceiveHolds
  <1>4. ASSUME NEW r \in Requests, Authenticate(r) PROVE IInv'
    BY <1>4, AuthenticateHolds
  <1>5. ASSUME NEW r \in Requests, Authorize(r) PROVE IInv'
    BY <1>5, AuthorizeHolds
  <1>6. ASSUME NEW r \in Requests, Handle(r) PROVE IInv'
    BY <1>6, HandleHolds
  <1>7. ASSUME NEW u \in Users, NEW type \in Types, GenerateToken(u, type) PROVE IInv'
    BY <1>7, GenerateTokenHolds
  <1>8. ASSUME NEW t \in tokens, Discard(t) PROVE IInv'
    BY <1>8, DiscardHolds
  <1>9. ASSUME NEW u \in Users, NEW type \in Types, NEW active \in BOOLEAN,
               ChangeAccount(u, type, active)
        PROVE  IInv'
    BY <1>9, ChangeAccountHolds
  <1>10. CASE Tick
    BY <1>10, TickHolds
  <1>11. CASE UNCHANGED vars
    BY <1>11, StutterHolds
  <1> QED BY <1>1, <1>2, <1>3, <1>4, <1>5, <1>6, <1>7, <1>8, <1>9, <1>10, <1>11 DEF Next

(* The inductive invariant holds in every reachable state. *)
LEMMA Inductive == Spec => []IInv
  BY InitHolds, StepHolds, PTL DEF Spec

(* The variables keep their types, whatever the accounts and lifetimes. *)
THEOREM TypeCorrect == Spec => []TypeOK
  <1>1. IInv => TypeOK
    BY DEF IInv
  <1> QED BY Inductive, <1>1, PTL

(* AuthorizationMiddleware behind AuthenticationMiddleware: whoever writes by *)
(* a session was an admin when it read the account, and was authenticated     *)
(* within one lifetime of getting the token, with any number of slow requests.*)
THEOREM WritersWereAdmins == Spec => []WriterWasAdmin
  <1>1. IInv => WriterWasAdmin
    BY DEF IInv
  <1> QED BY Inductive, <1>1, PTL

-------------------------------------------------------------------------------
(* Nothing lets an account back in but a promotion. *)

(* A token by which u could act as an admin, and a request that still would. *)
AdminToken(u, t) == t.id = u /\ t.type = "admin" /\ t.by = "session"

Harmless(u, q) ==
    /\ ~(q.pc = "build" /\ q.id = u /\ q.type = "admin")
    /\ q.token # None /\ AdminToken(u, q.token) => q.token.exp <= clock /\ ~q.user

LEMMA LockedOutMeans ==
    ASSUME NEW u
    PROVE  LockedOut(u) <=> /\ ~IsAdmin(u)
                            /\ \A t \in tokens : AdminToken(u, t) => t.exp <= clock
                            /\ \A r \in Requests : Harmless(u, req[r])
  BY DEF LockedOut, AdminToken, Harmless, At

LEMMA LockedOutMeansNext ==
    ASSUME NEW u
    PROVE  LockedOut(u)' <=> /\ ~IsAdmin(u)'
                             /\ \A t \in tokens' : AdminToken(u, t) => t.exp <= clock'
                             /\ \A r \in Requests : Harmless(u, req[r])'
  BY DEF LockedOut, AdminToken, Harmless, At

(* One request becomes a harmless one, the others stay what they are. *)
LEMMA BecomeHarmless ==
    ASSUME IInv, NEW u, LockedOut(u), NEW r \in Requests, NEW q, Harmless(u, q), Become(r, q),
           UNCHANGED <<clock, account>>,
           \A t \in tokens' : AdminToken(u, t) => t.exp <= clock
    PROVE  LockedOut(u)'
  <1>1. ~IsAdmin(u)'
    BY LockedOutMeans DEF IsAdmin
  <1>2. ASSUME NEW s \in Requests PROVE Harmless(u, req[s])'
    <2>1. req'[s] = q \/ req'[s] = req[s]
      BY DEF IInv, TypeOK, Become
    <2>2. Harmless(u, req[s])
      BY LockedOutMeans
    <2> QED BY <2>1, <2>2 DEF Harmless
  <1> QED BY <1>1, <1>2, LockedOutMeansNext

(* The request that does nothing is harmless. *)
LEMMA IdleIsHarmless == ASSUME NEW u PROVE Harmless(u, Idle)
  BY DEF Harmless, Idle

(* Accounts and time move, or tokens go, and no request does. *)
LEMMA OthersHarmless ==
    ASSUME IInv, NEW u, LockedOut(u), ~IsAdmin(u)', UNCHANGED req,
           clock' \in Times, clock <= clock',
           \A t \in tokens' : t \in tokens \/ ~AdminToken(u, t)
    PROVE  LockedOut(u)'
  <1>1. ASSUME NEW t \in tokens', AdminToken(u, t) PROVE t.exp <= clock'
    <2>1. t \in tokens /\ t.exp \in Nat
      BY <1>1 DEF IInv, TypeOK, Token
    <2>2. t.exp <= clock
      BY <1>1, <2>1, LockedOutMeans
    <2> QED BY <2>1, <2>2 DEF IInv, TypeOK, Times
  <1>2. ASSUME NEW s \in Requests PROVE Harmless(u, req[s])'
    <2>1. Harmless(u, req[s]) /\ req[s] \in Request
      BY LockedOutMeans DEF IInv, TypeOK
    <2>2. req[s].token # None => req[s].token.exp \in Nat
      BY <2>1 DEF Request, Token
    <2> QED BY <2>1, <2>2 DEF Harmless, IInv, TypeOK, Times
  <1> QED BY <1>1, <1>2, LockedOutMeansNext

(* The steps of a request leave the account locked out, and are no write of it. *)
LEMMA RequestsStayOut ==
    ASSUME IInv, NEW u \in Users, LockedOut(u), NEW r \in Requests,
           \/ \E v \in Users : ReadAccount(r, v)
           \/ BuildToken(r)
           \/ \E route \in Routes, t \in tokens : Receive(r, route, t)
           \/ Authenticate(r) \/ Authorize(r) \/ Handle(r)
    PROVE  /\ LockedOut(u)'
           /\ last' # None /\ last'.token.id = u /\ last'.token.by = "session"
                 => last'.route # "write"
  <1>1. \A t \in tokens : AdminToken(u, t) => t.exp <= clock
    BY LockedOutMeans
  <1>2. Harmless(u, req[r]) /\ ~IsAdmin(u)
    BY LockedOutMeans
  <1>3. ASSUME NEW v \in Users, ReadAccount(r, v) PROVE LockedOut(u)'
    <2>1. Harmless(u, Building(v, account[v].type, clock))
      BY <1>2, <1>3 DEF Harmless, Building, ReadAccount, IsAdmin
    <2> QED BY <1>1, <1>3, <2>1, BecomeHarmless DEF ReadAccount
  <1>4. ASSUME BuildToken(r) PROVE LockedOut(u)'
    <2>1. \A t \in tokens' : AdminToken(u, t) => t.exp <= clock
      BY <1>1, <1>2, <1>4 DEF BuildToken, At, Harmless, AdminToken
    <2> QED BY <1>4, <2>1, IdleIsHarmless, BecomeHarmless DEF BuildToken
  <1>5. ASSUME NEW route \in Routes, NEW t \in tokens, Receive(r, route, t) PROVE LockedOut(u)'
    <2>1. Harmless(u, Passing(route, t, FALSE, 0, Chain(route)))
      BY <1>1 DEF Harmless, Passing
    <2> QED BY <1>1, <1>5, <2>1, BecomeHarmless DEF Receive
  <1>6. ASSUME Authenticate(r) PROVE LockedOut(u)'
    <2> DEFINE q == req[r]
               next == Passing(q.route, q.token, TRUE, clock, Tail(q.left))
    <2>1. ASSUME Valid(q.token) PROVE Harmless(u, next)
      <3>1. q.token \in Token /\ clock \in Times
        BY <1>6, PassingFields DEF Authenticate, IInv, TypeOK
      <3>2. ~(q.token.exp <= clock) /\ q.token # None
        BY <2>1, <3>1, NoneIsNoToken DEF Valid, Token, Times
      <3>3. ~AdminToken(u, q.token)
        BY <1>2, <3>2 DEF Harmless
      <3> QED BY <3>3 DEF Harmless, Passing
    <2>2. CASE Valid(q.token)
      <3>1. Become(r, next)
        BY <1>6, <2>2 DEF Authenticate
      <3> HIDE DEF next
      <3> QED BY <1>1, <1>6, <2>1, <2>2, <3>1, BecomeHarmless DEF Authenticate
    <2>3. CASE ~Valid(q.token)
      BY <1>1, <1>6, <2>3, IdleIsHarmless, BecomeHarmless DEF Authenticate
    <2> QED BY <2>2, <2>3
  <1>7. ASSUME Authorize(r) PROVE LockedOut(u)'
    <2> DEFINE q == req[r]
               next == Passing(q.route, q.token, q.user, q.at, Tail(q.left))
    <2>1. Harmless(u, next)
      BY <1>2 DEF Harmless, Passing
    <2>2. CASE q.user /\ q.token.type = "admin"
      <3>1. Become(r, next)
        BY <1>7, <2>2 DEF Authorize
      <3> HIDE DEF next
      <3> QED BY <1>1, <1>7, <2>1, <3>1, BecomeHarmless DEF Authorize
    <2>3. CASE ~(q.user /\ q.token.type = "admin")
      BY <1>1, <1>7, <2>3, IdleIsHarmless, BecomeHarmless DEF Authorize
    <2> QED BY <2>2, <2>3
  <1>8. ASSUME Handle(r) PROVE LockedOut(u)'
    BY <1>1, <1>8, IdleIsHarmless, BecomeHarmless DEF Handle
  <1>9. ASSUME Handle(r), last' # None, last'.token.id = u, last'.token.by = "session",
               last'.route = "write"
        PROVE  FALSE
    <2>1. last'.token = req[r].token /\ req[r].route = "write"
      BY <1>9 DEF Handle
    <2>2. req[r].token \in Token /\ Checked(req[r]) /\ req[r].left = <<>>
      BY <1>9, PassingFields DEF Handle
    <2>3. req[r].user /\ req[r].token.type = "admin"
      BY <2>1, <2>2 DEF Checked
    <2>4. req[r].token # None
      BY <2>2, NoneIsNoToken
    <2> QED BY <1>2, <1>9, <2>1, <2>3, <2>4 DEF Harmless, AdminToken
  <1>10. last' = None \/ Handle(r)
    BY DEF ReadAccount, BuildToken, Receive, Authenticate, Authorize, Quiet
  <1> QED BY <1>3, <1>4, <1>5, <1>6, <1>7, <1>8, <1>9, <1>10

(* A locked-out account stays out in every step that does not promote it. *)
LEMMA StaysOut ==
    ASSUME IInv, [Next]_vars, NEW u \in Users, LockedOut(u), ~IsAdmin(u)', ~UNCHANGED vars
    PROVE  /\ LockedOut(u)'
           /\ last' # None /\ last'.token.id = u /\ last'.token.by = "session"
                 => last'.route # "write"
  <1>1. clock \in Times
    BY DEF IInv, TypeOK
  <1>2. ASSUME NEW v \in Users, NEW type \in Types, GenerateToken(v, type)
        PROVE  LockedOut(u)' /\ last' = None
    <2>1. \A t \in tokens' : t \in tokens \/ ~AdminToken(u, t)
      BY <1>2 DEF GenerateToken, AdminToken
    <2> QED BY <1>1, <1>2, <2>1, OthersHarmless DEF GenerateToken, Quiet, Times
  <1>3. ASSUME NEW t \in tokens, Discard(t) PROVE LockedOut(u)' /\ last' = None
    BY <1>1, <1>3, OthersHarmless DEF Discard, Quiet, Times
  <1>4. ASSUME NEW v \in Users, NEW type \in Types, NEW active \in BOOLEAN,
               ChangeAccount(v, type, active)
        PROVE  LockedOut(u)' /\ last' = None
    BY <1>1, <1>4, OthersHarmless DEF ChangeAccount, Quiet, Times
  <1>5. ASSUME Tick PROVE LockedOut(u)' /\ last' = None
    <2>1. clock' \in Times /\ clock <= clock'
      BY <1>1, <1>5, LifetimesAssumption DEF Tick, Times
    <2> QED BY <1>5, <2>1, OthersHarmless DEF Tick, Quiet
  <1>6. ASSUME NEW r \in Requests,
               \/ \E v \in Users : ReadAccount(r, v)
               \/ BuildToken(r)
               \/ \E route \in Routes, t \in tokens : Receive(r, route, t)
               \/ Authenticate(r) \/ Authorize(r) \/ Handle(r)
        PROVE  /\ LockedOut(u)'
               /\ last' # None /\ last'.token.id = u /\ last'.token.by = "session"
                     => last'.route # "write"
    BY <1>6, RequestsStayOut
  <1> QED BY <1>2, <1>3, <1>4, <1>5, <1>6 DEF Next

(* A demoted or deactivated account whose admin tokens have expired writes   *)
(* nothing by a session until it is promoted again.                          *)
THEOREM LockedOutAccountsStayOut == Spec => LockedOutStaysOut
  <1>1. IInv /\ [Next]_vars =>
            [\A u \in Users :
                LockedOut(u) /\ ~IsAdmin(u)' =>
                    /\ LockedOut(u)'
                    /\ last' # None /\ last'.token.id = u /\ last'.token.by = "session"
                          => last'.route # "write"]_vars
    BY StaysOut
  <1> QED BY Inductive, <1>1, PTL DEF Spec, LockedOutStaysOut
===============================================================================
