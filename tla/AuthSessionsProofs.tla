-------------------------- MODULE AuthSessionsProofs --------------------------
(***************************************************************************)
(* Proofs about AuthSessions, for any number of requests, accounts and     *)
(* tokens.                                                                 *)
(*                                                                         *)
(* RotatedTokenIsRevoked, FamilyHasOneOwner and the refinement rest on one *)
(* inductive invariant: besides the two properties it says what an absent  *)
(* row looks like (RowsConsistent) and that what a request remembers       *)
(* between two statements still agrees with the row it read                *)
(* (RequestsConsistent), which holds because rows are never deleted, keep  *)
(* their account and family, and are never un-revoked.                     *)
(*                                                                         *)
(* How sessions and accounts end: that a dead session stays dead and a     *)
(* deactivated account gets no token is about steps and needs from the     *)
(* invariant only what the request on its way to createSession read; what  *)
(* requests move to is stated once, in MovesOf.  That no session is lost   *)
(* without a reason is an invariant of its own; besides IInv it needs that *)
(* a request which found its token expired is still right about that.      *)
(*                                                                         *)
(* SessionHistory at the end: a family no two requests contend for has one *)
(* usable token and, once it ended, none (Promises), because a request     *)
(* that renews it claims it and any other that would claims it too; and a  *)
(* family of a replaced password is dead unless the request that replaces  *)
(* it has not got there yet (Replaced).                                    *)
(***************************************************************************)
EXTENDS SessionHistory, TLAPS

-------------------------------------------------------------------------------
(* Type correctness.  It needs to know that a response carries a token. *)

DeliversToken == \A r \in Requests : At(r, "respond") => req[r].cookie \in Token

(* The initial state, which the seeder leaves, has the right types. *)
LEMMA InitTypes == Init => TypeOK
  BY NoneIsNoValue DEF Init, TypeOK, NoRow, Row, Doing, Idle, Request, PC

(* Revoking rows gives rows. *)
LEMMA RevokeRowsType ==
  ASSUME NEW S, TypeOK, RevokeRows(S)
  PROVE  row' \in [Token -> Row]
  BY DEF TypeOK, RevokeRows, Row, Issued

(* Ending families keeps the type of the history. *)
LEMMA EndType ==
  ASSUME NEW S, NEW c \in {"reuse", "logout", "password", "crash"}, TypeOK, End(S, c)
  PROVE  ended' \in [Family -> {"no", "reuse", "logout", "password", "crash"}]
  BY DEF TypeOK, End

(* A request that ends, or that moves to another statement, stays a request. *)
LEMMA RequestType ==
  ASSUME NEW r \in Requests, TypeOK
  PROVE  /\ Done(r) => req' \in [Requests -> Request]
         /\ \A pc \in PC : Goto(r, pc) => req' \in [Requests -> Request]
  <1>1. Idle \in Request
    BY DEF Doing, Idle, Request, PC
  <1>2. \A pc \in PC : [req[r] EXCEPT !.pc = pc] \in Request
    BY DEF TypeOK, Request
  <1> QED
    BY <1>1, <1>2 DEF TypeOK, Done, Goto

(* Every statement keeps the types. *)
LEMMA StepTypes == TypeOK /\ DeliversToken /\ [Next]_vars => TypeOK'
  <1> SUFFICES ASSUME TypeOK, DeliversToken, [Next]_vars PROVE TypeOK'
    OBVIOUS
  <1> USE NoneIsNoValue
  <1>1. ASSUME NEW r \in Requests, RequestStep(r) PROVE TypeOK'
    <2>1. ASSUME NEW u \in Users, NEW p \in Passwords, Register(r, u, p) PROVE TypeOK'
      BY <2>1 DEF TypeOK, Register, Start, Doing, Idle, Request, PC
    <2>2. ASSUME NEW u \in Users, NEW p \in Passwords, Login(r, u, p) PROVE TypeOK'
      BY <2>2 DEF TypeOK, Login, Start, Doing, Idle, Request, PC
    <2>3. ASSUME NEW u \in Users, NEW old \in Passwords, NEW new \in Passwords,
                 NEW c \in Token \cup {None}, ChangePassword(r, u, old, new, c)
          PROVE  TypeOK'
      BY <2>3 DEF TypeOK, ChangePassword, Start, Doing, Idle, Request, PC
    <2>4. ASSUME NEW t \in Token, Refresh(r, t) PROVE TypeOK'
      <3>1. row[t] \in Row
        BY DEF TypeOK
      <3> QED
        BY <2>4, <3>1 DEF TypeOK, Refresh, Start, Doing, Request, PC, Row
    <2>5. ASSUME NEW t \in Token, Logout(r, t) PROVE TypeOK'
      <3>1. row[t] \in Row
        BY DEF TypeOK
      <3> QED
        BY <2>5, <3>1 DEF TypeOK, Logout, Start, Doing, Idle, Request, PC, Row
    <2>6. CASE CreateAccount(r)
      <3>1. req[r] \in Request
        BY DEF TypeOK
      <3>2. Doing("reload", req[r].user, None, None, None) \in Request
        BY <3>1 DEF Doing, Idle, Request, PC
      <3>3. req' \in [Requests -> Request]
        BY <2>6, <3>2, RequestType DEF CreateAccount, TypeOK
      <3>4. account' \in [Users -> {"none", "active", "deleted"}]
        BY <2>6 DEF CreateAccount, TypeOK
      <3>5. password' \in [Users -> Passwords \cup {None}]
        BY <2>6, <3>1 DEF CreateAccount, TypeOK, Request
      <3> QED
        BY <2>6, <3>3, <3>4, <3>5 DEF CreateAccount, TypeOK
    <2>7. CASE ReloadAccount(r)
      <3>1. "insert" \in PC
        BY DEF PC
      <3>2. req' \in [Requests -> Request]
        BY <2>7, <3>1, RequestType DEF ReloadAccount
      <3> QED
        BY <2>7, <3>2 DEF ReloadAccount, TypeOK
    <2>8. CASE PruneExpired(r)
      <3>1. "insert" \in PC
        BY DEF PC
      <3>2. req' \in [Requests -> Request]
        BY <2>8, <3>1, RequestType DEF PruneExpired
      <3> QED
        BY <2>8, <3>2, RevokeRowsType DEF PruneExpired, TypeOK
    <2>9. CASE FindOwner(r)
      <3>1. "rotate" \in PC
        BY DEF PC
      <3>2. req' \in [Requests -> Request]
        BY <2>9, <3>1, RequestType DEF FindOwner
      <3> QED
        BY <2>9, <3>2 DEF FindOwner, TypeOK
    <2>10. CASE Rotate(r)
      <3>1. "insert" \in PC
        BY DEF PC
      <3>2. req' \in [Requests -> Request]
        BY <2>10, <3>1, RequestType DEF Rotate
      <3> QED
        BY <2>10, <3>2, RevokeRowsType DEF Rotate, TypeOK
    <2>11. CASE KillReusedFamily(r)
      BY <2>11, RequestType, RevokeRowsType, EndType DEF KillReusedFamily, TypeOK
    <2>12. CASE RevokeStale(r)
      BY <2>12, RequestType, RevokeRowsType DEF RevokeStale, TypeOK
    <2>13. CASE EndFamily(r)
      BY <2>13, RequestType, RevokeRowsType, EndType DEF EndFamily, TypeOK
    <2>14. CASE StorePassword(r)
      <3>1. req[r] \in Request /\ "keep" \in PC
        BY DEF TypeOK, PC
      <3>2. req' \in [Requests -> Request]
        BY <2>14, <3>1, RequestType DEF StorePassword
      <3>3. password' \in [Users -> Passwords \cup {None}]
        BY <2>14, <3>1 DEF StorePassword, TypeOK, Request
      <3> QED
        BY <2>14, <3>2, <3>3 DEF StorePassword, TypeOK
    <2>15. CASE FindKeptFamily(r)
      <3>1. req[r] \in Request
        BY DEF TypeOK
      <3>2. req[r].cookie # None => row[req[r].cookie] \in Row
        BY <3>1 DEF TypeOK, Request
      <3> QED
        BY <2>15, <3>1, <3>2 DEF FindKeptFamily, TypeOK, Doing, Idle, Request, PC, Row
    <2>16. CASE CutOtherSessions(r)
      BY <2>16, RequestType, RevokeRowsType, EndType DEF CutOtherSessions, TypeOK
    <2>17. CASE Insert(r)
      <3>1. PICK t \in Token, f \in Family :
              /\ row' = [row EXCEPT ![t] = [user    |-> req[r].user,
                                            family  |-> f,
                                            parent  |-> req[r].cookie,
                                            expires |-> clock + TTL,
                                            revoked |-> FALSE]]
              /\ req' = [req EXCEPT ![r] = Doing("respond", None, None, t, None)]
        <4>1. req[r] \in Request
          BY DEF TypeOK
        <4> QED
          BY <2>17, <4>1 DEF Insert, Request
      <3>2. req[r] \in Request /\ clock + TTL \in Nat
        BY TTLAssumption DEF TypeOK
      <3>3. row' \in [Token -> Row]
        BY <3>1, <3>2 DEF TypeOK, Request, Row
      <3>4. req' \in [Requests -> Request]
        BY <3>1 DEF TypeOK, Request, Doing, Idle, PC
      <3> QED
        BY <2>17, <3>3, <3>4 DEF Insert, TypeOK
    <2>18. CASE Respond(r)
      <3>1. req[r].cookie \in Token
        BY <2>18 DEF Respond, DeliversToken
      <3> QED
        BY <2>18, <3>1, RequestType DEF Respond, TypeOK
    <2>19. CASE Crash(r)
      BY <2>19, RequestType, EndType DEF Crash, TypeOK
    <2> QED
      BY <1>1, <2>1, <2>2, <2>3, <2>4, <2>5, <2>6, <2>7, <2>8, <2>9, <2>10, <2>11,
         <2>12, <2>13, <2>14, <2>15, <2>16, <2>17, <2>18, <2>19 DEF RequestStep
  <1>2. ASSUME NEW u \in Users, Deactivate(u) PROVE TypeOK'
    BY <1>2 DEF TypeOK, Deactivate
  <1>3. CASE Tick
    BY <1>3 DEF TypeOK, Tick
  <1>4. CASE UNCHANGED vars
    BY <1>4 DEF TypeOK, vars
  <1> QED
    BY <1>1, <1>2, <1>3, <1>4 DEF Next

(* Only createSession leads to a response, and it hands its token over. *)
LEMMA StepDelivers == TypeOK /\ DeliversToken /\ [Next]_vars => DeliversToken'
  <1> SUFFICES ASSUME TypeOK, DeliversToken, [Next]_vars,
                      NEW q \in Requests, At(q, "respond")'
               PROVE  (req[q].cookie \in Token)'
    BY DEF DeliversToken
  <1>1. ASSUME NEW r \in Requests, RequestStep(r) PROVE (req[q].cookie \in Token)'
    <2>1. ASSUME NEW x, x.pc # "respond", req' = [req EXCEPT ![r] = x]
          PROVE  (req[q].cookie \in Token)'
      BY <2>1 DEF TypeOK, At, DeliversToken
    <2>2. CASE Done(r)
      <3>1. Idle.pc # "respond"
        BY DEF Doing, Idle
      <3> QED
        BY <2>1, <2>2, <3>1 DEF Done
    <2>3. ASSUME NEW pc, pc # "respond", Goto(r, pc) PROVE (req[q].cookie \in Token)'
      <3>1. [req[r] EXCEPT !.pc = pc].pc = pc
        BY DEF TypeOK, Request
      <3> QED
        BY <2>1, <2>3, <3>1 DEF Goto
    <2>4. ASSUME NEW fields, fields.pc # "respond", Start(r, fields)
          PROVE  (req[q].cookie \in Token)'
      BY <2>1, <2>4 DEF Start
    <2>5. CASE CreateAccount(r)
      <3>1. Doing("reload", req[r].user, None, None, None).pc # "respond"
        BY DEF Doing
      <3> QED
        BY <2>1, <2>2, <2>5, <3>1 DEF CreateAccount
    <2>6. CASE FindKeptFamily(r)
      <3>1. PICK f : req' = [req EXCEPT ![r] = Doing("cut", req[r].user, None, None, f)]
        BY <2>6 DEF FindKeptFamily
      <3>2. Doing("cut", req[r].user, None, None, f).pc # "respond"
        BY DEF Doing
      <3> QED
        BY <2>1, <3>1, <3>2
    <2>7. CASE ReloadAccount(r) \/ PruneExpired(r) \/ FindOwner(r) \/ Rotate(r) \/ StorePassword(r)
      BY <2>2, <2>3, <2>7 DEF ReloadAccount, PruneExpired, FindOwner, Rotate, StorePassword
    <2>8. CASE Insert(r)
      BY <2>8 DEF Insert, Doing, TypeOK, At, DeliversToken
    <2>9. CASE \/ KillReusedFamily(r) \/ RevokeStale(r) \/ EndFamily(r)
              \/ CutOtherSessions(r) \/ Respond(r) \/ Crash(r)
      BY <2>2, <2>9 DEF KillReusedFamily, RevokeStale, EndFamily, CutOtherSessions, Respond, Crash
    <2>10. ASSUME NEW u \in Users, NEW p \in Passwords, Register(r, u, p) \/ Login(r, u, p)
           PROVE  (req[q].cookie \in Token)'
      BY <2>4, <2>10 DEF Register, Login, Doing
    <2>11. ASSUME NEW u \in Users, NEW old \in Passwords, NEW new \in Passwords,
                  NEW c \in Token \cup {None}, ChangePassword(r, u, old, new, c)
           PROVE  (req[q].cookie \in Token)'
      BY <2>4, <2>11 DEF ChangePassword, Doing
    <2>12. ASSUME NEW t \in Token, Refresh(r, t) \/ Logout(r, t)
           PROVE  (req[q].cookie \in Token)'
      BY <2>4, <2>12 DEF Refresh, Logout, Doing
    <2> QED
      BY <1>1, <2>5, <2>6, <2>7, <2>8, <2>9, <2>10, <2>11, <2>12 DEF RequestStep
  <1> QED
    BY <1>1 DEF Next, vars, Deactivate, Tick, At, DeliversToken

(* Whatever the requests do, the variables keep their types. *)
THEOREM TypeCorrect == Spec => []TypeOK
  <1>1. Init => DeliversToken
    BY DEF Init, Doing, Idle, DeliversToken, At
  <1> QED
    BY <1>1, InitTypes, StepTypes, StepDelivers, PTL DEF Spec

-------------------------------------------------------------------------------
(* The inductive invariant. *)

(* An absent row is empty; a row that exists has a family. *)
RowsConsistent ==
    \A t \in Token : IF Issued(t) THEN row[t].family # None ELSE row[t] = NoRow

(* What q, a request on its way to a new token, remembers is what the table  *)
(* says.                                                                     *)
Agrees(q, table) ==
    /\ q.pc \in {"create", "reload", "prune"} =>
          q.user \in Users /\ q.cookie = None /\ q.family = None
    /\ q.pc \in {"owner", "rotate"} => q.cookie # None
    /\ q.pc \in {"owner", "rotate", "insert"} =>
          /\ q.user \in Users
          /\ IF q.cookie = None THEN q.family = None
             ELSE /\ table[q.cookie].user = q.user
                  /\ table[q.cookie].family = q.family
    /\ q.pc = "insert" /\ q.cookie # None => table[q.cookie].revoked

RequestsConsistent == \A r \in Requests : Agrees(req[r], row)

(* RotatedTokenIsRevoked, with the predecessor known to be a row. *)
PredecessorsAreRevoked ==
    \A t \in Token : Issued(t) /\ row[t].parent # None =>
        row[t].parent \in Token /\ Issued(row[t].parent) /\ row[row[t].parent].revoked

IInv ==
    /\ TypeOK
    /\ DeliversToken
    /\ RowsConsistent
    /\ RequestsConsistent
    /\ PredecessorsAreRevoked
    /\ FamilyHasOneOwner

(* The row that createSession writes for request r. *)
NewRow(r, f) == [user    |-> req[r].user,
                 family  |-> f,
                 parent  |-> req[r].cookie,
                 expires |-> clock + TTL,
                 revoked |-> FALSE]

(* What one statement does to the table: nothing, a revocation, or one new   *)
(* row in a fresh family or in the family the request rotates.               *)
LEMMA RowEffect ==
  ASSUME TypeOK, NEW r \in Requests, RequestStep(r)
  PROVE  \/ UNCHANGED row
         \/ \E S : RevokeRows(S)
         \/ /\ At(r, "insert")
            /\ \E t \in Token, f \in Family \cup {None} :
                 /\ ~Issued(t)
                 /\ IF req[r].family = None THEN f \in Family \ UsedFamilies ELSE f = req[r].family
                 /\ row' = [row EXCEPT ![t] = NewRow(r, f)]
  <1>1. CASE Insert(r)
    BY <1>1 DEF Insert, NewRow, TypeOK, Request
  <1>2. CASE PruneExpired(r)
    BY <1>2 DEF PruneExpired
  <1>3. CASE Rotate(r)
    BY <1>3 DEF Rotate
  <1>4. CASE KillReusedFamily(r)
    BY <1>4 DEF KillReusedFamily
  <1>5. CASE RevokeStale(r)
    BY <1>5 DEF RevokeStale
  <1>6. CASE EndFamily(r)
    BY <1>6 DEF EndFamily
  <1>7. CASE CutOtherSessions(r)
    BY <1>7 DEF CutOtherSessions
  <1>8. CASE CreateAccount(r) \/ ReloadAccount(r) \/ FindOwner(r) \/ StorePassword(r)
            \/ FindKeptFamily(r) \/ Respond(r) \/ Crash(r)
    BY <1>8 DEF CreateAccount, ReloadAccount, FindOwner, StorePassword, FindKeptFamily,
       Respond, Crash
  <1>9. ASSUME NEW u \in Users, NEW p \in Passwords, Register(r, u, p) \/ Login(r, u, p)
        PROVE  UNCHANGED row
    BY <1>9 DEF Register, Login
  <1>10. ASSUME NEW u \in Users, NEW old \in Passwords, NEW new \in Passwords,
                NEW c \in Token \cup {None}, ChangePassword(r, u, old, new, c)
         PROVE  UNCHANGED row
    BY <1>10 DEF ChangePassword
  <1>11. ASSUME NEW t \in Token, Refresh(r, t) \/ Logout(r, t) PROVE UNCHANGED row
    BY <1>11 DEF Refresh, Logout
  <1> QED
    BY <1>1, <1>2, <1>3, <1>4, <1>5, <1>6, <1>7, <1>8, <1>9, <1>10, <1>11 DEF RequestStep

(* Rows stay, keep account, family and predecessor, and stay revoked. *)
RowsOnlyGrow ==
    \A t \in Token : Issued(t) =>
        /\ Issued(t)'
        /\ row'[t].user = row[t].user
        /\ row'[t].family = row[t].family
        /\ row'[t].parent = row[t].parent
        /\ row[t].revoked => row'[t].revoked

(* A revocation changes the revoked flag of rows that exist and nothing else. *)
LEMMA RevokeRowsEffect ==
  ASSUME NEW S, TypeOK, RevokeRows(S), NEW t \in Token
  PROVE  /\ Issued(t)' <=> Issued(t)
         /\ row'[t].user = row[t].user
         /\ row'[t].family = row[t].family
         /\ row'[t].parent = row[t].parent
         /\ row[t].revoked => row'[t].revoked
         /\ ~Issued(t) => row'[t] = row[t]
         /\ row'[t].revoked /\ ~row[t].revoked => t \in S /\ Issued(t)
  BY DEF RevokeRows, Issued, TypeOK, Row

(* A new row leaves the others alone. *)
LEMMA NewRowEffect ==
  ASSUME NEW r \in Requests, NEW t \in Token, NEW f, TypeOK, row' = [row EXCEPT ![t] = NewRow(r, f)]
  PROVE  /\ row'[t] = NewRow(r, f)
         /\ \A s \in Token \ {t} : row'[s] = row[s] /\ (Issued(s)' <=> Issued(s))
  BY DEF TypeOK, Issued

LEMMA StepRowsGrow ==
  ASSUME TypeOK, NEW r \in Requests, RequestStep(r)
  PROVE  RowsOnlyGrow
  <1>1. CASE UNCHANGED row
    BY <1>1 DEF RowsOnlyGrow, Issued
  <1>2. ASSUME NEW S, RevokeRows(S) PROVE RowsOnlyGrow
    BY <1>2, RevokeRowsEffect DEF RowsOnlyGrow
  <1>3. ASSUME NEW t \in Token, NEW f, ~Issued(t), row' = [row EXCEPT ![t] = NewRow(r, f)]
        PROVE  RowsOnlyGrow
    BY <1>3, NewRowEffect DEF RowsOnlyGrow
  <1> QED
    BY <1>1, <1>2, <1>3, RowEffect

(* So what a request remembers cannot become wrong behind its back. *)
LEMMA AgreesIsStable ==
  ASSUME TypeOK, RowsOnlyGrow
  PROVE  \A q \in Request : Agrees(q, row) => Agrees(q, row')
  BY NoneIsNoValue DEF RowsOnlyGrow, Agrees, Request, Issued

(* The three invariants of the table survive each of the three effects. *)
LEMMA StepRowInvariants ==
  ASSUME IInv, NEW r \in Requests, RequestStep(r)
  PROVE  RowsConsistent' /\ PredecessorsAreRevoked' /\ FamilyHasOneOwner'
  <1> USE DEF IInv
  <1>1. CASE UNCHANGED row
    BY <1>1 DEF RowsConsistent, PredecessorsAreRevoked, FamilyHasOneOwner, Issued
  <1>2. ASSUME NEW S, RevokeRows(S)
        PROVE  RowsConsistent' /\ PredecessorsAreRevoked' /\ FamilyHasOneOwner'
    <2>1. RowsConsistent'
      BY <1>2, RevokeRowsEffect DEF RowsConsistent
    <2>2. PredecessorsAreRevoked'
      BY <1>2, RevokeRowsEffect DEF PredecessorsAreRevoked
    <2>3. FamilyHasOneOwner'
      BY <1>2, RevokeRowsEffect DEF FamilyHasOneOwner
    <2> QED
      BY <2>1, <2>2, <2>3
  <1>3. ASSUME At(r, "insert"), NEW t \in Token, NEW f, ~Issued(t),
               IF req[r].family = None THEN f \in Family \ UsedFamilies ELSE f = req[r].family,
               row' = [row EXCEPT ![t] = NewRow(r, f)]
        PROVE  RowsConsistent' /\ PredecessorsAreRevoked' /\ FamilyHasOneOwner'
    <2>1. /\ row'[t] = NewRow(r, f)
          /\ \A s \in Token \ {t} : row'[s] = row[s] /\ (Issued(s)' <=> Issued(s))
      BY <1>3, NewRowEffect
    <2>2. /\ req[r].user \in Users
          /\ IF req[r].cookie = None THEN req[r].family = None
             ELSE /\ req[r].cookie \in Token /\ Issued(req[r].cookie)
                  /\ row[req[r].cookie].user = req[r].user
                  /\ row[req[r].cookie].family = req[r].family
                  /\ row[req[r].cookie].revoked
      <3>1. req[r].cookie \in Token \cup {None} /\ Agrees(req[r], row)
        BY DEF TypeOK, RequestsConsistent, Request
      <3> QED
        BY <1>3, <3>1, NoneIsNoValue DEF Agrees, At, Issued
    <2>3. Issued(t)' /\ row'[t].user = req[r].user /\ row'[t].family = f
          /\ row'[t].parent = req[r].cookie /\ f # None
      <3>1. req[r].cookie # None => row[req[r].cookie].family # None
        BY <2>2 DEF RowsConsistent
      <3> QED
        BY <1>3, <2>1, <2>2, <3>1, NoneIsNoValue DEF NewRow, Issued
    <2>4. RowsConsistent'
      BY <2>1, <2>3 DEF RowsConsistent
    <2>5. PredecessorsAreRevoked'
      BY <1>3, <2>1, <2>2, <2>3 DEF PredecessorsAreRevoked
    <2>6. FamilyHasOneOwner'
      <3>1. ASSUME NEW s \in Token \ {t}, Issued(s), row[s].family = f
            PROVE  row[s].user = req[r].user
        BY <1>3, <2>2, <3>1 DEF UsedFamilies, FamilyHasOneOwner
      <3> QED
        BY <2>1, <2>3, <3>1 DEF FamilyHasOneOwner
    <2> QED
      BY <2>4, <2>5, <2>6
  <1> QED
    BY <1>1, <1>2, <1>3, RowEffect

(* Each statement leaves behind a request that agrees with the new table. *)
LEMMA StepRequests ==
  ASSUME IInv, NEW r \in Requests, RequestStep(r)
  PROVE  RequestsConsistent'
  <1> DEFINE Silent == {"idle", "respond", "reuse", "stale", "logout", "store", "keep", "cut"}
  <1>1. /\ TypeOK /\ RowsOnlyGrow
        /\ req[r] \in Request /\ Agrees(req[r], row) /\ Agrees(req[r], row')
    BY StepRowsGrow, AgreesIsStable DEF IInv, TypeOK, RequestsConsistent
  <1>2. ASSUME NEW q, req' = [req EXCEPT ![r] = q], Agrees(q, row') PROVE RequestsConsistent'
    <2>1. \A p \in Requests : Agrees(req[p], row')
      BY <1>1, AgreesIsStable DEF TypeOK, IInv, RequestsConsistent
    <2> QED
      BY <1>1, <1>2, <2>1 DEF RequestsConsistent, TypeOK
  <1>3. ASSUME NEW q, req' = [req EXCEPT ![r] = q], q.pc \in Silent PROVE RequestsConsistent'
    <2>1. Agrees(q, row')
      BY <1>3 DEF Agrees
    <2> QED
      BY <1>2, <1>3, <2>1
  <1>4. CASE Done(r)
    <2>1. Idle.pc \in Silent
      BY DEF Idle, Doing
    <2> QED
      BY <1>3, <1>4, <2>1 DEF Done
  <1>5. CASE \/ KillReusedFamily(r) \/ RevokeStale(r) \/ EndFamily(r)
            \/ CutOtherSessions(r) \/ Respond(r) \/ Crash(r)
    BY <1>4, <1>5 DEF KillReusedFamily, RevokeStale, EndFamily, CutOtherSessions, Respond, Crash
  <1>6. ASSUME NEW u \in Users, NEW p \in Passwords, Register(r, u, p) \/ Login(r, u, p)
        PROVE  RequestsConsistent'
    <2>1. \A pc \in {"create", "prune"}, pw \in Passwords \cup {None} :
            Agrees(Doing(pc, u, pw, None, None), row')
      BY DEF Agrees, Doing
    <2> QED
      BY <1>2, <1>6, <2>1 DEF Register, Login, Start
  <1>7. ASSUME NEW u \in Users, NEW old \in Passwords, NEW new \in Passwords,
               NEW c \in Token \cup {None}, ChangePassword(r, u, old, new, c)
        PROVE  RequestsConsistent'
    <2>1. Doing("store", u, new, c, None).pc \in Silent
      BY DEF Doing
    <2> QED
      BY <1>3, <1>7, <2>1 DEF ChangePassword, Start
  <1>8. ASSUME NEW t \in Token, Refresh(r, t) PROVE RequestsConsistent'
    <2>1. row' = row /\ row[t].user \in Users /\ t # None
      BY <1>1, <1>8, NoneIsNoValue DEF Refresh, Issued, TypeOK, Row
    <2>2. \A pc \in {"reuse", "stale", "owner"} :
            Agrees(Doing(pc, row[t].user, None, t, row[t].family), row')
      BY <2>1 DEF Agrees, Doing
    <2> QED
      BY <1>2, <1>8, <2>2 DEF Refresh, Start
  <1>9. ASSUME NEW t \in Token, Logout(r, t) PROVE RequestsConsistent'
    <2>1. Doing("logout", None, None, None, row[t].family).pc \in Silent
      BY DEF Doing
    <2> QED
      BY <1>3, <1>9, <2>1 DEF Logout, Start
  <1>10. CASE CreateAccount(r)
    <2>1. Agrees(Doing("reload", req[r].user, None, None, None), row')
      BY <1>1, <1>10 DEF CreateAccount, At, Agrees, Doing
    <2> QED
      BY <1>2, <1>4, <1>10, <2>1 DEF CreateAccount
  <1>11. CASE ReloadAccount(r) \/ PruneExpired(r)
    <2>1. Agrees([req[r] EXCEPT !.pc = "insert"], row')
      BY <1>1, <1>11 DEF ReloadAccount, PruneExpired, At, Agrees, Request
    <2> QED
      BY <1>2, <1>4, <1>11, <2>1 DEF ReloadAccount, PruneExpired, Goto
  <1>12. CASE FindOwner(r)
    <2>1. Agrees([req[r] EXCEPT !.pc = "rotate"], row')
      BY <1>1, <1>12 DEF FindOwner, At, Agrees, Request
    <2> QED
      BY <1>2, <1>4, <1>12, <2>1 DEF FindOwner, Goto
  <1>13. CASE Rotate(r)
    <2>1. req[r].cookie \in Token /\ row[req[r].cookie].user \in Users
      BY <1>1, <1>13 DEF Rotate, At, Agrees, Request
    <2>2. row'[req[r].cookie].revoked
      BY <1>1, <1>13, <2>1, NoneIsNoValue DEF Rotate, RevokeRows, Issued, TypeOK, Row
    <2>3. Agrees([req[r] EXCEPT !.pc = "insert"], row')
      BY <1>1, <1>13, <2>2 DEF Rotate, At, Agrees, Request
    <2> QED
      BY <1>2, <1>13, <2>3 DEF Rotate, Goto
  <1>14. CASE StorePassword(r)
    <2>1. [req[r] EXCEPT !.pc = "keep"].pc \in Silent
      BY <1>1 DEF Request
    <2> QED
      BY <1>3, <1>14, <2>1 DEF StorePassword, Goto
  <1>15. CASE FindKeptFamily(r)
    <2>1. PICK f : req' = [req EXCEPT ![r] = Doing("cut", req[r].user, None, None, f)]
      BY <1>15 DEF FindKeptFamily
    <2>2. Doing("cut", req[r].user, None, None, f).pc \in Silent
      BY DEF Doing
    <2> QED
      BY <1>3, <2>1, <2>2
  <1>16. CASE Insert(r)
    <2>1. PICK t \in Token : req' = [req EXCEPT ![r] = Doing("respond", None, None, t, None)]
      BY <1>16 DEF Insert
    <2>2. Doing("respond", None, None, t, None).pc \in Silent
      BY DEF Doing
    <2> QED
      BY <1>3, <2>1, <2>2
  <1> QED
    BY <1>5, <1>6, <1>7, <1>8, <1>9, <1>10, <1>11, <1>12, <1>13, <1>14, <1>15, <1>16
       DEF RequestStep

-------------------------------------------------------------------------------
(* The invariant holds in every reachable state. *)

LEMMA InitIInv == Init => IInv
  <1> SUFFICES ASSUME Init PROVE IInv
    OBVIOUS
  <1>1. \A t \in Token : row[t] = NoRow /\ ~Issued(t)
    BY DEF Init, Issued, NoRow
  <1>2. RequestsConsistent
    BY DEF Init, RequestsConsistent, Agrees, Idle, Doing
  <1>3. DeliversToken
    BY DEF Init, DeliversToken, At, Idle, Doing
  <1> QED
    BY <1>1, <1>2, <1>3, InitTypes
       DEF IInv, RowsConsistent, PredecessorsAreRevoked, FamilyHasOneOwner

LEMMA StepIInv == IInv /\ [Next]_vars => IInv'
  <1> SUFFICES ASSUME IInv, [Next]_vars PROVE IInv'
    OBVIOUS
  <1>1. TypeOK' /\ DeliversToken'
    BY StepTypes, StepDelivers DEF IInv
  <1>2. ASSUME NEW r \in Requests, RequestStep(r) PROVE IInv'
    BY <1>1, <1>2, StepRowInvariants, StepRequests DEF IInv
  <1>3. CASE UNCHANGED <<row, req>>
    BY <1>1, <1>3 DEF IInv, RowsConsistent, RequestsConsistent, PredecessorsAreRevoked,
       FamilyHasOneOwner, Issued
  <1> QED
    BY <1>2, <1>3 DEF Next, Deactivate, Tick, vars

LEMMA Invariance == Spec => []IInv
  BY InitIInv, StepIInv, PTL DEF Spec

(* No interleaving of refreshes and no crash leaves a token usable beside    *)
(* its own successor.                                                        *)
THEOREM RotationIsSafe == Spec => []RotatedTokenIsRevoked
  <1>1. IInv => RotatedTokenIsRevoked
    BY DEF IInv, PredecessorsAreRevoked, RotatedTokenIsRevoked
  <1> QED
    BY <1>1, Invariance, PTL

(* Revoking a family never touches two accounts. *)
THEOREM FamiliesAreOwned == Spec => []FamilyHasOneOwner
  <1>1. IInv => FamilyHasOneOwner
    BY DEF IInv
  <1> QED
    BY <1>1, Invariance, PTL

-------------------------------------------------------------------------------
(* Refinement.  Tokens is the value that AuthSessions gives the ledger.      *)

Tokens == [t \in Token |-> [user   |-> row[t].user,
                            family |-> row[t].family,
                            parent |-> row[t].parent,
                            live   |-> Live(t)]]

(* A revocation of rows of one account is a Close, or changes nothing. *)
LEMMA RevokeRefines ==
  ASSUME IInv, NEW S, RevokeRows(S),
         \A s, t \in Token : s \in S /\ t \in S /\ Issued(s) /\ Issued(t) => row[s].user = row[t].user
  PROVE  Ledger!LedgerNext \/ Tokens' = Tokens
  <1> USE DEF IInv
  <1>1. PICK D \in SUBSET Token : D = {t \in S \cap Token : Issued(t)}
    OBVIOUS
  <1>2. \A t \in Token : Live(t)' <=> Live(t) /\ t \notin D
    <2>1. ASSUME NEW t \in Token
          PROVE  row'[t] = IF t \in D THEN [row[t] EXCEPT !.revoked = TRUE] ELSE row[t]
      BY <1>1 DEF RevokeRows
    <2>2. ASSUME NEW t \in Token PROVE row[t] \in Row
      BY DEF TypeOK
    <2> QED
      BY <2>1, <2>2, RevokeRowsEffect DEF Live, Row
  <1>3. ASSUME NEW t \in Token
        PROVE  Tokens'[t] = IF t \in D THEN Ledger!Killed(Tokens[t]) ELSE Tokens[t]
    <2>1. Tokens[t] = [user |-> row[t].user, family |-> row[t].family,
                       parent |-> row[t].parent, live |-> Live(t)]
      BY DEF Tokens
    <2>2. Tokens'[t] = [user |-> row'[t].user, family |-> row'[t].family,
                        parent |-> row'[t].parent, live |-> Live(t)']
      BY DEF Tokens
    <2>3. Tokens'[t] = [user |-> row[t].user, family |-> row[t].family,
                        parent |-> row[t].parent, live |-> Live(t)']
      BY <2>2, RevokeRowsEffect
    <2>4. CASE t \in D
      <3>1. Live(t)' = FALSE
        BY <1>2, <2>4 DEF Live
      <3>2. Ledger!Killed(Tokens[t]) = [user |-> row[t].user, family |-> row[t].family,
                                        parent |-> row[t].parent, live |-> FALSE]
        BY <2>1 DEF Ledger!Killed
      <3> QED
        BY <2>3, <2>4, <3>1, <3>2
    <2>5. CASE t \notin D
      <3>1. Live(t)' = Live(t)
        BY <1>2, <2>5 DEF Live
      <3> QED
        BY <2>1, <2>3, <2>5, <3>1
    <2> QED
      BY <2>4, <2>5
  <1>4. Tokens' = [t \in Token |-> IF t \in D THEN Ledger!Killed(Tokens[t]) ELSE Tokens[t]]
    BY <1>3 DEF Tokens
  <1>5. CASE D = {}
    BY <1>4, <1>5 DEF Tokens
  <1>6. ASSUME NEW d \in D PROVE Ledger!LedgerNext
    <2>1. row[d].user \in Users /\ \A t \in D : row[t].user = row[d].user
      BY <1>1, <1>6 DEF Issued, TypeOK, Row
    <2>2. \A t \in D : Tokens[t].user = row[d].user
      BY <2>1 DEF Tokens
    <2>3. Ledger!Close(row[d].user, D)
      BY <1>4, <2>2 DEF Ledger!Close, Tokens
    <2> QED
      BY <2>1, <2>3 DEF Ledger!LedgerNext
  <1> QED
    BY <1>5, <1>6

(* A new row is an Open or an Extend. *)
LEMMA InsertRefines ==
  ASSUME IInv, NEW r \in Requests, At(r, "insert"),
         NEW t \in Token, NEW f \in Family \cup {None}, ~Issued(t),
         IF req[r].family = None THEN f \in Family \ UsedFamilies ELSE f = req[r].family,
         row' = [row EXCEPT ![t] = NewRow(r, f)]
  PROVE  Ledger!LedgerNext
  <1> USE DEF IInv
  <1>1. req[r].cookie \in Token \cup {None} /\ Agrees(req[r], row)
    BY DEF TypeOK, RequestsConsistent, Request
  <1>2. req[r].user \in Users
    BY <1>1 DEF Agrees, At
  <1>3. Tokens' = [Tokens EXCEPT ![t] = [user |-> req[r].user, family |-> f,
                                         parent |-> req[r].cookie, live |-> TRUE]]
    <2>1. /\ row'[t] = NewRow(r, f)
          /\ \A s \in Token \ {t} : row'[s] = row[s] /\ (Issued(s)' <=> Issued(s))
      BY NewRowEffect
    <2>2. Live(t)' = TRUE
      BY <1>2, <2>1, NoneIsNoValue DEF NewRow, Live, Issued
    <2>3. \A s \in Token \ {t} : Live(s)' = Live(s)
      BY <2>1 DEF Live
    <2>4. Tokens'[t] = [user |-> req[r].user, family |-> f, parent |-> req[r].cookie, live |-> TRUE]
      <3>1. Tokens'[t] = [user |-> row'[t].user, family |-> row'[t].family,
                          parent |-> row'[t].parent, live |-> Live(t)']
        BY DEF Tokens
      <3>2. row'[t].user = req[r].user /\ row'[t].family = f /\ row'[t].parent = req[r].cookie
        BY <2>1 DEF NewRow
      <3> QED
        BY <2>2, <3>1, <3>2
    <2>5. \A s \in Token \ {t} : Tokens'[s] = Tokens[s]
      BY <2>1, <2>3 DEF Tokens
    <2> QED
      BY <2>4, <2>5 DEF Tokens
  <1>4. \A s \in Token : Tokens[s].user = row[s].user /\ Tokens[s].family = row[s].family
                         /\ Tokens[s].live = Live(s)
    BY DEF Tokens
  <1>5. Tokens[t].user = None
    BY <1>4 DEF Issued
  <1>6. CASE req[r].family = None
    <2>1. req[r].cookie = None
      <3>1. ASSUME req[r].cookie # None PROVE FALSE
        <4>1. req[r].cookie \in Token /\ Issued(req[r].cookie) /\ row[req[r].cookie].family = None
          BY <1>1, <1>6, <3>1, NoneIsNoValue DEF Agrees, At, Issued
        <4> QED
          BY <4>1 DEF RowsConsistent
      <3> QED
        BY <3>1
    <2>2. f \in Family /\ \A s \in Token : row[s].family # f
      <3>1. f \in Family /\ f \notin UsedFamilies /\ f # None
        BY <1>6, NoneIsNoValue
      <3> QED
        BY <3>1 DEF UsedFamilies, RowsConsistent, NoRow
    <2>3. Ledger!Open(req[r].user, f, t)
      BY <1>3, <1>4, <1>5, <2>1, <2>2 DEF Ledger!Open, Ledger!Entered, Tokens
    <2> QED
      BY <1>2, <2>2, <2>3 DEF Ledger!LedgerNext
  <1>7. CASE req[r].family # None
    <2> DEFINE p == req[r].cookie
    <2>1. /\ p \in Token /\ row[p].user = req[r].user /\ row[p].family = f
          /\ row[p].revoked /\ row[p].user # None
      BY <1>1, <1>2, <1>7, NoneIsNoValue DEF Agrees, At
    <2>2. Tokens[p].user = req[r].user /\ Tokens[p].family = f /\ Tokens[p].user # None /\ ~Tokens[p].live
      BY <1>4, <2>1 DEF Live
    <2>3. Ledger!Extend(p, t)
      BY <1>3, <1>5, <2>1, <2>2 DEF Ledger!Extend, Ledger!Entered, Tokens
    <2> QED
      BY <2>1, <2>3 DEF Ledger!LedgerNext
  <1> QED
    BY <1>6, <1>7

(* Every statement is a step of the ledger or leaves it alone. *)
LEMMA StepRefines == IInv /\ [Next]_vars => [Ledger!LedgerNext]_Tokens
  <1> SUFFICES ASSUME IInv, [Next]_vars PROVE Ledger!LedgerNext \/ Tokens' = Tokens
    OBVIOUS
  <1> USE DEF IInv
  <1>1. CASE UNCHANGED row
    BY <1>1 DEF Tokens, Live, Issued
  <1>2. ASSUME NEW r \in Requests, RequestStep(r) PROVE Ledger!LedgerNext \/ Tokens' = Tokens
    <2>1. CASE KillReusedFamily(r) \/ EndFamily(r)
      <3>1. RevokeRows(InFamily(req[r].family))
        BY <2>1 DEF KillReusedFamily, EndFamily
      <3>2. \A s, t \in Token :
              s \in InFamily(req[r].family) /\ t \in InFamily(req[r].family) /\ Issued(s) /\ Issued(t)
                => row[s].user = row[t].user
        BY DEF InFamily, FamilyHasOneOwner
      <3> QED
        BY <3>1, <3>2, RevokeRefines
    <2>2. CASE RevokeStale(r) \/ Rotate(r)
      <3>1. RevokeRows({req[r].cookie})
        BY <2>2 DEF RevokeStale, Rotate
      <3> QED
        BY <3>1, RevokeRefines
    <2>3. CASE PruneExpired(r)
      <3>1. PICK S : RevokeRows(S) /\ \A t \in S : row[t].user = req[r].user
        BY <2>3 DEF PruneExpired, OfUser
      <3> QED
        BY <3>1, RevokeRefines
    <2>4. CASE CutOtherSessions(r)
      <3>1. PICK S : RevokeRows(S) /\ \A t \in S : row[t].user = req[r].user
        BY <2>4 DEF CutOtherSessions, OfUser
      <3> QED
        BY <3>1, RevokeRefines
    <2>5. CASE Insert(r)
      <3>1. PICK t \in Token, f \in Family \cup {None} :
              /\ ~Issued(t)
              /\ IF req[r].family = None THEN f \in Family \ UsedFamilies ELSE f = req[r].family
              /\ row' = [row EXCEPT ![t] = NewRow(r, f)]
        BY <2>5 DEF Insert, NewRow, TypeOK, Request
      <3> QED
        BY <2>5, <3>1, InsertRefines DEF Insert
    <2>6. CASE CreateAccount(r) \/ ReloadAccount(r) \/ FindOwner(r) \/ StorePassword(r)
              \/ FindKeptFamily(r) \/ Respond(r) \/ Crash(r)
      BY <1>1, <2>6 DEF CreateAccount, ReloadAccount, FindOwner, StorePassword, FindKeptFamily,
         Respond, Crash
    <2>7. ASSUME NEW u \in Users, NEW p \in Passwords, Register(r, u, p) \/ Login(r, u, p)
          PROVE  UNCHANGED row
      BY <2>7 DEF Register, Login
    <2>8. ASSUME NEW u \in Users, NEW old \in Passwords, NEW new \in Passwords,
                 NEW c \in Token \cup {None}, ChangePassword(r, u, old, new, c)
          PROVE  UNCHANGED row
      BY <2>8 DEF ChangePassword
    <2>9. ASSUME NEW t \in Token, Refresh(r, t) \/ Logout(r, t) PROVE UNCHANGED row
      BY <2>9 DEF Refresh, Logout
    <2> QED
      BY <1>1, <1>2, <2>1, <2>2, <2>3, <2>4, <2>5, <2>6, <2>7, <2>8, <2>9 DEF RequestStep
  <1> QED
    BY <1>1, <1>2 DEF Next, Deactivate, Tick, vars

(* AuthSessions implements the ledger: sessions open in fresh families, grow *)
(* from dead tokens only, and die one account at a time.                     *)
THEOREM RefinesLedger == Spec => ImplementsLedger
  <1>1. Init => Ledger!LedgerInit
    <2> SUFFICES ASSUME Init PROVE Ledger!LedgerInit
      OBVIOUS
    <2>1. ASSUME NEW t \in Token
          PROVE  /\ row[t].user = None /\ row[t].family = None /\ row[t].parent = None
                 /\ Live(t) = FALSE
      BY DEF Init, NoRow, Live, Issued
    <2>2. \A t \in Token : Tokens[t] = Ledger!NoEntry
      BY <2>1 DEF Tokens, Ledger!NoEntry
    <2> QED
      BY <2>2 DEF Tokens, Ledger!LedgerInit
  <1>2. IInv /\ [Next]_vars => [Ledger!LedgerNext]_Tokens
    BY StepRefines
  <1> QED
    BY <1>1, <1>2, Invariance, PTL DEF Spec, ImplementsLedger, Ledger!LedgerSpec, Tokens

-------------------------------------------------------------------------------
(* Where a request on its way to a new token comes from. *)
MovesOf(r, q) ==
    /\ q.pc = "owner" =>
          /\ req[r].pc = "idle"
          /\ q.cookie \in Token /\ Live(q.cookie) /\ q.family = row[q.cookie].family
    /\ q.pc = "rotate" =>
          /\ req[r].pc = "owner" /\ q.family = req[r].family /\ q.user = req[r].user
          /\ q.cookie = req[r].cookie
          /\ account[req[r].user] = "active"
    /\ q.pc = "insert" =>
          /\ q.family = req[r].family /\ q.user = req[r].user /\ q.cookie = req[r].cookie
          /\ \/ req[r].pc = "rotate"
             \/ req[r].pc = "prune" /\ req[r].family = None
             \/ req[r].pc = "reload" /\ req[r].family = None /\ account[req[r].user] = "active"
    /\ q.pc = "prune" => account[q.user] = "active"
    /\ q.pc \in {"reuse", "logout"} => q.family \in UsedFamilies
    /\ q.pc = "stale" => q.cookie \in Token /\ Issued(q.cookie) /\ Expired(q.cookie)

(* The statements that lead neither to a new token nor to one that was read. *)
Elsewhere == {"idle", "create", "reload", "respond", "store", "keep", "cut"}

LEMMA RequestEffect ==
  ASSUME IInv, NEW r \in Requests, RequestStep(r)
  PROVE  \E q : req' = [req EXCEPT ![r] = q] /\ MovesOf(r, q)
  <1> DEFINE Moves == \E q : req' = [req EXCEPT ![r] = q] /\ MovesOf(r, q)
  <1>1. req[r] \in Request /\ Agrees(req[r], row)
    BY DEF IInv, TypeOK, RequestsConsistent
  <1>2. ASSUME NEW q, req' = [req EXCEPT ![r] = q], q.pc \in Elsewhere PROVE Moves
    BY <1>2 DEF MovesOf, Elsewhere
  <1>3. CASE Done(r)
    <2>1. Idle.pc \in Elsewhere
      BY DEF Idle, Doing, Elsewhere
    <2> QED BY <1>2, <1>3, <2>1 DEF Done
  <1>4. CASE \/ KillReusedFamily(r) \/ RevokeStale(r) \/ EndFamily(r)
            \/ CutOtherSessions(r) \/ Respond(r) \/ Crash(r)
    BY <1>3, <1>4 DEF KillReusedFamily, RevokeStale, EndFamily, CutOtherSessions, Respond, Crash
  <1>5. ASSUME NEW u \in Users, NEW p \in Passwords, Register(r, u, p) PROVE Moves
    <2>1. Doing("create", u, p, None, None).pc \in Elsewhere
      BY DEF Doing, Elsewhere
    <2> QED BY <1>2, <1>5, <2>1 DEF Register, Start
  <1>6. ASSUME NEW u \in Users, NEW p \in Passwords, Login(r, u, p) PROVE Moves
    <2>1. MovesOf(r, Doing("prune", u, None, None, None))
      BY <1>6 DEF MovesOf, Doing, Login
    <2> QED BY <1>6, <2>1 DEF Login, Start
  <1>7. ASSUME NEW u \in Users, NEW old \in Passwords, NEW new \in Passwords,
               NEW c \in Token \cup {None}, ChangePassword(r, u, old, new, c)
        PROVE  Moves
    <2>1. Doing("store", u, new, c, None).pc \in Elsewhere
      BY DEF Doing, Elsewhere
    <2> QED BY <1>2, <1>7, <2>1 DEF ChangePassword, Start
  <1>8. ASSUME NEW t \in Token, Refresh(r, t) PROVE Moves
    <2> DEFINE pc == IF row[t].revoked THEN "reuse" ELSE IF Expired(t) THEN "stale" ELSE "owner"
               q == Doing(pc, row[t].user, None, t, row[t].family)
    <2>1. q.pc = pc /\ q.family = row[t].family /\ q.cookie = t
      BY DEF Doing
    <2>2. /\ Issued(t) /\ (pc = "owner" => Live(t)) /\ (pc = "stale" => Expired(t))
          /\ row[t].family \in UsedFamilies /\ req[r].pc = "idle"
      BY <1>8 DEF Refresh, Live, UsedFamilies, Start, At
    <2>3. pc \in {"reuse", "stale", "owner"}
      OBVIOUS
    <2>4. req' = [req EXCEPT ![r] = q]
      BY <1>8 DEF Refresh, Start
    <2> HIDE DEF pc, q
    <2>5. MovesOf(r, q)
      BY <2>1, <2>2, <2>3 DEF MovesOf
    <2> QED BY <2>4, <2>5
  <1>9. ASSUME NEW t \in Token, Logout(r, t) PROVE Moves
    <2>1. row[t].family \in UsedFamilies
      BY <1>9 DEF Logout, UsedFamilies
    <2>2. MovesOf(r, Doing("logout", None, None, None, row[t].family))
      BY <2>1 DEF MovesOf, Doing
    <2> QED BY <1>9, <2>2 DEF Logout, Start
  <1>10. CASE CreateAccount(r)
    <2>1. Doing("reload", req[r].user, None, None, None).pc \in Elsewhere
      BY DEF Doing, Elsewhere
    <2> QED BY <1>2, <1>3, <1>10, <2>1 DEF CreateAccount
  <1>11. ASSUME NEW pc \in {"insert", "rotate", "keep"}, Goto(r, pc),
                MovesOf(r, [req[r] EXCEPT !.pc = pc])
         PROVE  Moves
    BY <1>11 DEF Goto
  <1>12. \A pc : /\ [req[r] EXCEPT !.pc = pc].pc = pc
                 /\ [req[r] EXCEPT !.pc = pc].user = req[r].user
                 /\ [req[r] EXCEPT !.pc = pc].family = req[r].family
                 /\ [req[r] EXCEPT !.pc = pc].cookie = req[r].cookie
    BY <1>1 DEF Request
  <1>13. CASE ReloadAccount(r) \/ PruneExpired(r)
    <2>1. req[r].family = None
      BY <1>1, <1>13 DEF ReloadAccount, PruneExpired, At, Agrees
    <2>2. CASE Goto(r, "insert")
      <3>1. MovesOf(r, [req[r] EXCEPT !.pc = "insert"])
        <4>1. \/ req[r].pc = "prune"
              \/ req[r].pc = "reload" /\ account[req[r].user] = "active"
          <5>1. CASE PruneExpired(r)
            BY <5>1 DEF PruneExpired, At
          <5>2. CASE ReloadAccount(r) /\ account[req[r].user] = "active"
            BY <5>2 DEF ReloadAccount, At
          <5>3. CASE ReloadAccount(r) /\ account[req[r].user] # "active"
            <6>1. req'[r].pc = "idle" /\ req'[r].pc = "insert"
              BY <2>2, <5>3, <1>12 DEF ReloadAccount, Done, Goto, Idle, Doing, IInv, TypeOK
            <6> QED BY <6>1
          <5> QED BY <1>13, <5>1, <5>2, <5>3
        <4> QED BY <1>12, <2>1, <4>1 DEF MovesOf
      <3> QED BY <1>11, <2>2, <3>1
    <2> QED BY <1>3, <1>13, <2>2 DEF ReloadAccount, PruneExpired
  <1>14. CASE FindOwner(r)
    <2>1. CASE account[req[r].user] = "active"
      <3>1. MovesOf(r, [req[r] EXCEPT !.pc = "rotate"])
        BY <1>12, <1>14, <2>1 DEF MovesOf, FindOwner, At
      <3> QED BY <1>11, <1>14, <2>1, <3>1 DEF FindOwner
    <2>2. CASE account[req[r].user] # "active"
      BY <1>3, <1>14, <2>2 DEF FindOwner
    <2> QED BY <2>1, <2>2
  <1>15. CASE Rotate(r)
    <2>1. MovesOf(r, [req[r] EXCEPT !.pc = "insert"])
      BY <1>12, <1>15 DEF MovesOf, Rotate, At
    <2> QED BY <1>11, <1>15, <2>1 DEF Rotate
  <1>16. CASE StorePassword(r)
    <2>1. [req[r] EXCEPT !.pc = "keep"].pc \in Elsewhere
      BY <1>12 DEF Elsewhere
    <2> QED BY <1>2, <1>16, <2>1 DEF StorePassword, Goto
  <1>17. CASE FindKeptFamily(r)
    <2>1. PICK f : req' = [req EXCEPT ![r] = Doing("cut", req[r].user, None, None, f)]
      BY <1>17 DEF FindKeptFamily
    <2>2. Doing("cut", req[r].user, None, None, f).pc \in Elsewhere
      BY DEF Doing, Elsewhere
    <2> QED BY <1>2, <2>1, <2>2
  <1>18. CASE Insert(r)
    <2>1. PICK t \in Token : req' = [req EXCEPT ![r] = Doing("respond", None, None, t, None)]
      BY <1>18 DEF Insert
    <2>2. Doing("respond", None, None, t, None).pc \in Elsewhere
      BY DEF Doing, Elsewhere
    <2> QED BY <1>2, <2>1, <2>2
  <1> QED
    BY <1>4, <1>5, <1>6, <1>7, <1>8, <1>9, <1>10, <1>13, <1>14, <1>15, <1>16, <1>17, <1>18
       DEF RequestStep

-------------------------------------------------------------------------------
(* A dead session. *)

LEMMA StaysDead ==
  ASSUME IInv, NEW f \in Family, Dead(f), NEW r \in Requests, RequestStep(r)
  PROVE  Dead(f)'
  <1>1. TypeOK /\ RowsOnlyGrow
    BY StepRowsGrow DEF IInv
  <1>2. (f \in UsedFamilies)'
    <2>1. PICK t \in Token : Issued(t) /\ row[t].family = f
      BY DEF Dead, UsedFamilies
    <2>2. Issued(t)' /\ row'[t].family = f
      BY <1>1, <2>1 DEF RowsOnlyGrow
    <2> QED BY <2>2 DEF UsedFamilies
  <1>3. (\A t \in InFamily(f) : ~Live(t))'
    <2> SUFFICES ASSUME NEW t \in Token, row'[t].family = f, Live(t)' PROVE FALSE
      BY DEF InFamily
    <2>1. ~(row[t].family = f /\ Live(t))
      BY DEF Dead, InFamily
    <2>2. CASE UNCHANGED row
      BY <2>1, <2>2 DEF Live, Issued
    <2>3. ASSUME NEW S, RevokeRows(S) PROVE FALSE
      BY <1>1, <2>1, <2>3, RevokeRowsEffect DEF Live
    <2>4. ASSUME At(r, "insert"), NEW s \in Token, NEW g \in Family \cup {None}, ~Issued(s),
                 IF req[r].family = None THEN g \in Family \ UsedFamilies ELSE g = req[r].family,
                 row' = [row EXCEPT ![s] = NewRow(r, g)]
          PROVE  FALSE
      <3>1. g # f
        BY <2>4, NoneIsNoValue DEF Dead, At
      <3>2. CASE t = s
        BY <1>1, <2>4, <3>1, <3>2 DEF NewRow, TypeOK
      <3>3. CASE t # s
        BY <1>1, <2>1, <2>4, <3>3, NewRowEffect DEF Live
      <3> QED BY <3>2, <3>3
    <2> QED BY <1>1, <2>2, <2>3, <2>4, RowEffect
  <1>4. (\A s \in Requests : req[s].pc \in {"owner", "rotate", "insert"} => req[s].family # f)'
    <2>1. PICK q : req' = [req EXCEPT ![r] = q] /\ MovesOf(r, q)
      BY RequestEffect
    <2>2. q.pc \in {"owner", "rotate", "insert"} => q.family # f
      BY <2>1, NoneIsNoValue DEF MovesOf, Dead, InFamily
    <2> QED BY <1>1, <2>1, <2>2 DEF TypeOK, Dead
  <1> QED BY <1>2, <1>3, <1>4 DEF Dead

(* AuthService::refresh: replays of old cookies, and whatever else clients *)
(* do, bring no dead session back, with any number of requests.            *)
THEOREM DeadFamiliesStayDead == Spec => DeadFamilyStaysDead
  <1>1. IInv /\ [Next]_vars => [\A f \in Family : Dead(f) => Dead(f)']_vars
    <2> SUFFICES ASSUME IInv, Next, NEW f \in Family, Dead(f) PROVE Dead(f)'
      OBVIOUS
    <2>1. ASSUME NEW r \in Requests, RequestStep(r) PROVE Dead(f)'
      BY <2>1, StaysDead
    <2>2. CASE UNCHANGED <<row, req>>
      BY <2>2 DEF Dead, UsedFamilies, InFamily, Live, Issued
    <2> QED BY <2>1, <2>2 DEF Next, Deactivate, Tick
  <1> QED BY <1>1, Invariance, PTL DEF Spec, DeadFamilyStaysDead

-------------------------------------------------------------------------------
(* A deactivated account. *)

LEMMA StaysCutOff ==
  ASSUME IInv, NEW u \in Users, CutOff(u), NEW r \in Requests, RequestStep(r)
  PROVE  CutOff(u)' /\ OfUser(u)' = OfUser(u)
  <1>1. TypeOK
    BY DEF IInv
  <1>2. account'[u] = "deleted"
    <2>1. CASE CreateAccount(r)
      BY <1>1, <2>1 DEF CreateAccount, CutOff, TypeOK
    <2>2. CASE UNCHANGED account
      BY <2>2 DEF CutOff
    <2>3. CreateAccount(r) \/ UNCHANGED account
      BY DEF RequestStep, Register, Login, ChangePassword, Refresh, Logout, ReloadAccount,
         PruneExpired, FindOwner, Rotate, KillReusedFamily, RevokeStale, EndFamily,
         StorePassword, FindKeptFamily, CutOtherSessions, Insert, Respond, Crash
    <2> QED BY <2>1, <2>2, <2>3
  <1>3. (\A s \in Requests : req[s].pc \in {"prune", "rotate", "insert"} => req[s].user # u)'
    <2>1. PICK q : req' = [req EXCEPT ![r] = q] /\ MovesOf(r, q)
      BY RequestEffect
    <2>2. q.pc \in {"prune", "rotate", "insert"} => q.user # u
      BY <2>1 DEF MovesOf, CutOff
    <2> QED BY <1>1, <2>1, <2>2 DEF TypeOK, CutOff
  <1>4. OfUser(u)' = OfUser(u)
    <2> SUFFICES ASSUME NEW t \in Token PROVE row'[t].user = u <=> row[t].user = u
      BY DEF OfUser
    <2>1. CASE UNCHANGED row
      BY <2>1
    <2>2. ASSUME NEW S, RevokeRows(S) PROVE row'[t].user = u <=> row[t].user = u
      BY <1>1, <2>2, RevokeRowsEffect
    <2>3. ASSUME At(r, "insert"), NEW s \in Token, NEW g, ~Issued(s),
                 row' = [row EXCEPT ![s] = NewRow(r, g)]
          PROVE  row'[t].user = u <=> row[t].user = u
      <3>1. req[r].user # u
        BY <2>3 DEF CutOff, At
      <3>2. row[s].user # u
        BY <2>3, NoneIsNoValue DEF Issued
      <3> QED BY <1>1, <2>3, <3>1, <3>2, NewRowEffect DEF NewRow
    <2> QED BY <1>1, <2>1, <2>2, <2>3, RowEffect
  <1> QED BY <1>2, <1>3, <1>4 DEF CutOff

(* AuthService::login and refresh look the account up: once it is deactivated, *)
(* no request that does so afterwards gives it a token.                        *)
THEOREM DeactivatedAccountsGetNoToken == Spec => DeactivatedAccountGetsNoToken
  <1>1. IInv /\ [Next]_vars =>
            [\A u \in Users : CutOff(u) => CutOff(u)' /\ OfUser(u)' = OfUser(u)]_vars
    <2> SUFFICES ASSUME IInv, Next, NEW u \in Users, CutOff(u)
                 PROVE  CutOff(u)' /\ OfUser(u)' = OfUser(u)
      OBVIOUS
    <2>1. ASSUME NEW r \in Requests, RequestStep(r) PROVE CutOff(u)' /\ OfUser(u)' = OfUser(u)
      BY <2>1, StaysCutOff
    <2>2. CASE UNCHANGED <<row, req, account>>
      BY <2>2 DEF CutOff, OfUser
    <2>3. ASSUME NEW v \in Users, Deactivate(v) PROVE CutOff(u)' /\ OfUser(u)' = OfUser(u)
      BY <2>3 DEF Deactivate, CutOff, OfUser, IInv, TypeOK
    <2> QED BY <2>1, <2>2, <2>3 DEF Next, Tick
  <1> QED BY <1>1, Invariance, PTL DEF Spec, DeactivatedAccountGetsNoToken

-------------------------------------------------------------------------------
(* A session that is not lost. *)

(* f has a newest token, usable or past its expiry. *)
Alive(f) ==
    \E t \in InFamily(f) : (Live(t) \/ Expired(t)) /\ \A s \in Token : row[s].parent # t

Extending(f) == \E r \in Requests : At(r, "insert") /\ req[r].family = f

(* A request that found its token expired holds an expired token. *)
StaleIsExpired ==
    \A r \in Requests : At(r, "stale") =>
        req[r].cookie \in Token /\ Issued(req[r].cookie) /\ Expired(req[r].cookie)

LEMMA NotLostMeans ==
  SessionsAreNotLost <=> \A f \in UsedFamilies : ended[f] # "no" \/ Extending(f) \/ Alive(f)
  BY DEF SessionsAreNotLost, Alive, Extending

LEMMA UsedFamiliesType ==
  ASSUME IInv, NEW f \in UsedFamilies
  PROVE  f \in Family /\ f # None
  BY DEF IInv, TypeOK, RowsConsistent, UsedFamilies, Row

(* Rows keep their expiry. *)
LEMMA ExpiryStays ==
  ASSUME TypeOK, NEW r \in Requests, RequestStep(r), NEW t \in Token, Issued(t)
  PROVE  row'[t].expires = row[t].expires
  <1>1. ASSUME NEW S, RevokeRows(S) PROVE row'[t].expires = row[t].expires
    BY <1>1 DEF RevokeRows, TypeOK, Row
  <1>2. ASSUME NEW s \in Token, NEW g, ~Issued(s), row' = [row EXCEPT ![s] = NewRow(r, g)]
        PROVE  row'[t].expires = row[t].expires
    BY <1>2 DEF TypeOK
  <1> QED BY <1>1, <1>2, RowEffect

LEMMA ClockStays == ASSUME NEW r \in Requests, RequestStep(r) PROVE clock' = clock
  BY DEF RequestStep, Register, Login, ChangePassword, Refresh, Logout, CreateAccount,
     ReloadAccount, PruneExpired, FindOwner, Rotate, KillReusedFamily, RevokeStale, EndFamily,
     StorePassword, FindKeptFamily, CutOtherSessions, Insert, Respond, Crash

LEMMA StaleStays ==
  ASSUME IInv, StaleIsExpired, NEW r \in Requests, RequestStep(r)
  PROVE  StaleIsExpired'
  <1>1. TypeOK /\ RowsOnlyGrow
    BY StepRowsGrow DEF IInv
  <1>2. \A t \in Token : Issued(t) /\ Expired(t) => Issued(t)' /\ Expired(t)'
    BY <1>1, ExpiryStays, ClockStays DEF RowsOnlyGrow, Expired
  <1>3. PICK q : req' = [req EXCEPT ![r] = q] /\ MovesOf(r, q)
    BY RequestEffect
  <1>4. q.pc = "stale" => q.cookie \in Token /\ Issued(q.cookie) /\ Expired(q.cookie)
    BY <1>3 DEF MovesOf
  <1>5. ASSUME NEW s \in Requests, req'[s].pc = "stale"
        PROVE  req'[s].cookie \in Token /\ Issued(req'[s].cookie) /\ Expired(req'[s].cookie)
    BY <1>1, <1>3, <1>4, <1>5 DEF TypeOK, StaleIsExpired, At
  <1>6. ASSUME NEW s \in Requests, req'[s].pc = "stale"
        PROVE  (req[s].cookie \in Token /\ Issued(req[s].cookie) /\ Expired(req[s].cookie))'
    <2> DEFINE t == req'[s].cookie
    <2>1. t \in Token /\ Issued(t) /\ Expired(t)
      BY <1>5, <1>6
    <2>2. t \in Token /\ row'[t].user # None /\ row'[t].expires <= clock'
      BY <1>2, <2>1 DEF Issued, Expired
    <2> QED BY <2>2 DEF Issued, Expired
  <1> QED BY <1>6 DEF StaleIsExpired, At

(* Revoking rows other than the newest token of f, or an expired one. *)
LEMMA RevokeKeepsAlive ==
  ASSUME TypeOK, NEW S, RevokeRows(S), clock' = clock, NEW f, Alive(f),
         \A t \in S : row[t].family = f => Expired(t)
  PROVE  Alive(f)'
  <1>1. PICK t \in InFamily(f) : (Live(t) \/ Expired(t)) /\ \A s \in Token : row[s].parent # t
    BY DEF Alive
  <1>2. t \in Token /\ row[t].family = f
    BY <1>1 DEF InFamily
  <1>3. \A s \in Token : row'[s].parent = row[s].parent /\ row'[s].family = row[s].family
    BY RevokeRowsEffect
  <1>4. row'[t].expires = row[t].expires
    BY <1>2 DEF RevokeRows, TypeOK, Row
  <1>5. (row'[t].user # None /\ ~row'[t].revoked) \/ row'[t].expires <= clock'
    <2>1. CASE Expired(t)
      BY <1>4, <2>1 DEF Expired
    <2>2. CASE Live(t) /\ t \notin S
      BY <1>2, <2>2 DEF RevokeRows, Live, Issued
    <2> QED BY <1>1, <1>2, <2>1, <2>2
  <1> QED BY <1>1, <1>2, <1>3, <1>5 DEF Alive, InFamily, Live, Issued, Expired

(* A request that is not about to insert leaves extensions and ends alone. *)
LEMMA OthersKeep ==
  ASSUME IInv, NEW r \in Requests, RequestStep(r), ~At(r, "insert"), NEW f \in Family,
         ended[f] # "no" \/ Extending(f),
         UNCHANGED ended \/ \E S, c : c # "no" /\ End(S, c)
  PROVE  ended'[f] # "no" \/ Extending(f)'
  <1>1. ended[f] # "no" => ended'[f] # "no"
    BY DEF End, IInv, TypeOK
  <1>2. ASSUME NEW s \in Requests, At(s, "insert"), req[s].family = f PROVE Extending(f)'
    <2>1. PICK q : req' = [req EXCEPT ![r] = q]
      BY RequestEffect
    <2>2. s # r /\ req'[s] = req[s]
      BY <1>2, <2>1 DEF IInv, TypeOK
    <2> QED BY <1>2, <2>2 DEF Extending, At
  <1> QED BY <1>1, <1>2 DEF Extending

(* The successor is the newest token of its family, and of no other. *)
LEMMA InsertKeeps ==
  ASSUME IInv, SessionsAreNotLost, NEW r \in Requests, Insert(r)
  PROVE  SessionsAreNotLost'
  <1>1. At(r, "insert") /\ UNCHANGED <<clock, ended>> /\ TypeOK
    BY DEF Insert, IInv
  <1>2. PICK t \in Token, g \in Family \cup {None} :
            /\ ~Issued(t)
            /\ IF req[r].family = None THEN g \in Family \ UsedFamilies ELSE g = req[r].family
            /\ row' = [row EXCEPT ![t] = NewRow(r, g)]
            /\ req' = [req EXCEPT ![r] = Doing("respond", None, None, t, None)]
    BY DEF Insert, NewRow, IInv, TypeOK, Request
  <1>3. /\ row'[t] = NewRow(r, g)
        /\ \A s \in Token \ {t} : row'[s] = row[s] /\ (Issued(s)' <=> Issued(s))
    BY <1>1, <1>2, NewRowEffect
  <1>4. /\ req[r].user \in Users
        /\ IF req[r].cookie = None THEN req[r].family = None
           ELSE /\ req[r].cookie \in Token /\ Issued(req[r].cookie)
                /\ row[req[r].cookie].family = req[r].family
    <2>1. req[r].cookie \in Token \cup {None} /\ Agrees(req[r], row)
      BY DEF IInv, TypeOK, RequestsConsistent, Request
    <2> QED BY <1>1, <2>1, NoneIsNoValue DEF Agrees, At, Issued
  <1>5. /\ row'[t].user # None /\ ~row'[t].revoked
        /\ row'[t].family = g /\ row'[t].parent = req[r].cookie
    BY <1>3, <1>4, NoneIsNoValue DEF NewRow
  <1>6. \A s \in Token : row[s].parent # t
    BY <1>2, NoneIsNoValue DEF IInv, RowsConsistent, PredecessorsAreRevoked, NoRow
  <1>7. \A s \in Token : row'[s].parent # t
    BY <1>2, <1>3, <1>4, <1>5, <1>6, NoneIsNoValue
  <1>8. Alive(g)'
    BY <1>5, <1>7 DEF Alive, InFamily, Live, Issued
  <1>9. ASSUME NEW f \in UsedFamilies', f # g
        PROVE  ended'[f] # "no" \/ Extending(f)' \/ Alive(f)'
    <2>1. f \in UsedFamilies
      BY <1>3, <1>5, <1>9 DEF UsedFamilies
    <2>2. f \in Family /\ f # None /\ req[r].family # f
      BY <1>2, <1>9, <2>1, UsedFamiliesType
    <2>3. CASE ended[f] # "no"
      BY <1>1, <2>3
    <2>4. CASE Extending(f)
      <3>1. PICK s \in Requests : At(s, "insert") /\ req[s].family = f
        BY <2>4 DEF Extending
      <3>2. req'[s] = req[s]
        BY <1>1, <1>2, <2>2, <3>1 DEF TypeOK
      <3> QED BY <3>1, <3>2 DEF Extending, At
    <2>5. CASE Alive(f)
      <3>1. PICK w \in Token : /\ row[w].family = f /\ (Live(w) \/ Expired(w))
                               /\ \A s \in Token : row[s].parent # w
        BY <2>5 DEF Alive, InFamily
      <3>2. w # t
        BY <1>2, <2>2, <3>1 DEF IInv, RowsConsistent, NoRow
      <3>3. req[r].cookie # w
        BY <1>4, <2>2, <3>1, NoneIsNoValue
      <3>4. row'[w] = row[w] /\ \A s \in Token : row'[s].parent # w
        BY <1>3, <1>5, <3>1, <3>2, <3>3
      <3> QED BY <1>1, <3>1, <3>4 DEF Alive, InFamily, Live, Issued, Expired
    <2> QED BY <2>1, <2>3, <2>4, <2>5, NotLostMeans
  <1>10. \A f \in UsedFamilies' : ended'[f] # "no" \/ Extending(f)' \/ Alive(f)'
    BY <1>8, <1>9
  <1> QED BY <1>10 DEF SessionsAreNotLost, Extending, Alive

(* A revocation that spares newest tokens, or records what it ended. *)
LEMMA RevokeKeeps ==
  ASSUME IInv, SessionsAreNotLost, NEW r \in Requests, RequestStep(r), ~At(r, "insert"),
         NEW S, RevokeRows(S),
         UNCHANGED ended \/ \E F, c : c # "no" /\ End(F, c),
         \A t \in Token \cap S, f \in Family :
             row[t].family = f => Expired(t) \/ ended'[f] # "no" \/ Extending(f)'
  PROVE  SessionsAreNotLost'
  <1>1. TypeOK /\ clock' = clock
    BY ClockStays DEF IInv
  <1>2. UsedFamilies' = UsedFamilies
    BY <1>1, RevokeRowsEffect DEF UsedFamilies
  <1>3. ASSUME NEW f \in UsedFamilies PROVE ended'[f] # "no" \/ Extending(f)' \/ Alive(f)'
    <2>1. f \in Family
      BY <1>3, UsedFamiliesType
    <2>2. CASE ended[f] # "no" \/ Extending(f)
      BY <2>1, <2>2, OthersKeep
    <2>3. CASE Alive(f)
      <3> DEFINE Kept == S \cap Token
      <3>1. RevokeRows(Kept)
        BY DEF RevokeRows
      <3>2. CASE \A t \in Kept : row[t].family = f => Expired(t)
        BY <1>1, <2>3, <3>1, <3>2, RevokeKeepsAlive
      <3>3. CASE \E t \in Kept : row[t].family = f /\ ~Expired(t)
        BY <2>1, <3>3
      <3> QED BY <3>2, <3>3
    <2> QED BY <1>3, <2>2, <2>3, NotLostMeans
  <1>4. \A f \in UsedFamilies' : ended'[f] # "no" \/ Extending(f)' \/ Alive(f)'
    BY <1>2, <1>3
  <1> QED BY <1>4 DEF SessionsAreNotLost, Extending, Alive

(* A request that leaves the table alone. *)
LEMMA QuietKeeps ==
  ASSUME IInv, SessionsAreNotLost, NEW r \in Requests, RequestStep(r), UNCHANGED row,
         \/ ~At(r, "insert") /\ UNCHANGED ended
         \/ Crash(r)
  PROVE  SessionsAreNotLost'
  <1>1. TypeOK /\ clock' = clock
    BY ClockStays DEF IInv
  <1>2. UsedFamilies' = UsedFamilies
    BY DEF UsedFamilies, Issued
  <1>3. ASSUME NEW f \in UsedFamilies PROVE ended'[f] # "no" \/ Extending(f)' \/ Alive(f)'
    <2>1. f \in Family /\ f # None
      BY <1>3, UsedFamiliesType
    <2>2. CASE Alive(f)
      BY <1>1, <2>2 DEF Alive, InFamily, Live, Issued, Expired
    <2>3. CASE (ended[f] # "no" \/ Extending(f)) /\ ~At(r, "insert") /\ UNCHANGED ended
      BY <2>1, <2>3, OthersKeep
    <2>4. CASE ended[f] # "no" /\ Crash(r)
      BY <2>1, <2>4 DEF Crash, End, IInv, TypeOK
    <2>5. CASE Extending(f) /\ Crash(r)
      <3>1. PICK s \in Requests : At(s, "insert") /\ req[s].family = f
        BY <2>5 DEF Extending
      <3>2. CASE s = r
        <4>1. ended'[f] = "crash"
          BY <2>1, <2>5, <3>1, <3>2 DEF Crash, End
        <4> QED BY <4>1
      <3>3. CASE s # r
        <4>1. req'[s] = req[s]
          BY <1>1, <2>5, <3>3 DEF Crash, Done, TypeOK
        <4> QED BY <3>1, <4>1 DEF Extending, At
      <3> QED BY <3>2, <3>3
    <2> QED BY <1>3, <2>2, <2>3, <2>4, <2>5, NotLostMeans
  <1>4. \A f \in UsedFamilies' : ended'[f] # "no" \/ Extending(f)' \/ Alive(f)'
    BY <1>2, <1>3
  <1> QED BY <1>4 DEF SessionsAreNotLost, Extending, Alive

(* Every statement leaves a reason behind for the session it costs. *)
LEMMA StepKeeps ==
  ASSUME IInv, StaleIsExpired, SessionsAreNotLost, NEW r \in Requests, RequestStep(r)
  PROVE  SessionsAreNotLost'
  <1> DEFINE Goal == SessionsAreNotLost'
  <1>1. CASE Insert(r)
    BY <1>1, InsertKeeps
  <1>2. CASE Crash(r)
    BY <1>2, QuietKeeps DEF Crash
  <1>3. ASSUME NEW g, NEW c \in {"reuse", "logout"}, ~At(r, "insert"),
               RevokeRows(InFamily(g)), End({g}, c)
        PROVE  Goal
    <2>1. ASSUME NEW t \in Token \cap InFamily(g), NEW f \in Family, row[t].family = f
          PROVE  ended'[f] # "no"
      BY <1>3, <2>1 DEF InFamily, End
    <2> QED BY <1>3, <2>1, RevokeKeeps
  <1>4. CASE KillReusedFamily(r)
    BY <1>3, <1>4 DEF KillReusedFamily, At
  <1>5. CASE EndFamily(r)
    BY <1>3, <1>5 DEF EndFamily, At
  <1>6. CASE CutOtherSessions(r)
    <2> DEFINE others == {t \in OfUser(req[r].user) : row[t].family # req[r].family}
    <2>1. RevokeRows(others) /\ End({row[t].family : t \in others}, "password") /\ ~At(r, "insert")
      BY <1>6 DEF CutOtherSessions, At
    <2>2. ASSUME NEW t \in Token \cap others, NEW f \in Family, row[t].family = f
          PROVE  ended'[f] # "no"
      BY <2>1, <2>2 DEF End
    <2> HIDE DEF others
    <2> QED BY <2>1, <2>2, RevokeKeeps
  <1>7. CASE RevokeStale(r)
    <2>1. RevokeRows({req[r].cookie}) /\ ~At(r, "insert") /\ UNCHANGED ended /\ At(r, "stale")
      BY <1>7 DEF RevokeStale, At
    <2>2. Expired(req[r].cookie)
      BY <2>1 DEF StaleIsExpired
    <2> QED BY <2>1, <2>2, RevokeKeeps
  <1>8. CASE PruneExpired(r)
    <2> DEFINE S == {t \in OfUser(req[r].user) : row[t].expires < clock}
    <2>1. RevokeRows(S) /\ ~At(r, "insert") /\ UNCHANGED ended
      BY <1>8 DEF PruneExpired, At
    <2>2. \A t \in Token \cap S : Expired(t)
      BY DEF Expired, IInv, TypeOK, Row
    <2> HIDE DEF S
    <2> QED BY <2>1, <2>2, RevokeKeeps
  <1>9. CASE Rotate(r)
    <2>1. /\ RevokeRows({req[r].cookie}) /\ ~At(r, "insert") /\ UNCHANGED ended
          /\ At(r, "rotate") /\ Goto(r, "insert")
      BY <1>9 DEF Rotate, At
    <2>2. req[r] \in Request /\ Agrees(req[r], row)
      BY DEF IInv, TypeOK, RequestsConsistent
    <2>3. req[r].cookie \in Token => row[req[r].cookie].family = req[r].family
      BY <2>1, <2>2, NoneIsNoValue DEF Agrees, At
    <2>4. \A f : f = req[r].family => Extending(f)'
      <3>1. req'[r].pc = "insert" /\ req'[r].family = req[r].family
        BY <2>1, <2>2 DEF Goto, IInv, TypeOK, Request
      <3> QED BY <3>1 DEF Extending, At
    <2>5. ASSUME NEW t \in Token \cap {req[r].cookie}, NEW f \in Family, row[t].family = f
          PROVE  Extending(f)'
      <3>1. f = req[r].family
        BY <2>3, <2>5
      <3> QED BY <2>4, <3>1
    <2> QED BY <2>1, <2>5, RevokeKeeps
  <1>10. CASE CreateAccount(r) \/ ReloadAccount(r) \/ FindOwner(r) \/ StorePassword(r)
             \/ FindKeptFamily(r) \/ Respond(r)
    <2>1. ~At(r, "insert") /\ UNCHANGED <<row, ended>>
      BY <1>10 DEF CreateAccount, ReloadAccount, FindOwner, StorePassword, FindKeptFamily,
         Respond, At
    <2> QED BY <2>1, QuietKeeps
  <1>11. ASSUME NEW u \in Users, NEW p \in Passwords, Register(r, u, p) \/ Login(r, u, p)
         PROVE  Goal
    <2>1. ~At(r, "insert") /\ UNCHANGED <<row, ended>>
      BY <1>11 DEF Register, Login, Start, At
    <2> QED BY <2>1, QuietKeeps
  <1>12. ASSUME NEW u \in Users, NEW old \in Passwords, NEW new \in Passwords,
                NEW c \in Token \cup {None}, ChangePassword(r, u, old, new, c)
         PROVE  Goal
    <2>1. ~At(r, "insert") /\ UNCHANGED <<row, ended>>
      BY <1>12 DEF ChangePassword, Start, At
    <2> QED BY <2>1, QuietKeeps
  <1>13. ASSUME NEW t \in Token, Refresh(r, t) \/ Logout(r, t) PROVE Goal
    <2>1. ~At(r, "insert") /\ UNCHANGED <<row, ended>>
      BY <1>13 DEF Refresh, Logout, Start, At
    <2> QED BY <2>1, QuietKeeps
  <1> QED
    BY <1>1, <1>2, <1>4, <1>5, <1>6, <1>7, <1>8, <1>9, <1>10, <1>11, <1>12, <1>13
       DEF RequestStep

(* refresh, logout, changePassword and login: a session that no one ended and *)
(* no one is extending has a newest token, usable or past its expiry.         *)
THEOREM SessionsAreKept == Spec => []SessionsAreNotLost
  <1> DEFINE Kept == IInv /\ StaleIsExpired /\ SessionsAreNotLost
  <1>1. Init => Kept
    <2> SUFFICES ASSUME Init PROVE StaleIsExpired /\ SessionsAreNotLost
      BY InitIInv
    <2>1. StaleIsExpired
      BY DEF Init, StaleIsExpired, At, Idle, Doing
    <2>2. UsedFamilies = {}
      BY DEF Init, UsedFamilies, Issued, NoRow
    <2> QED BY <2>1, <2>2 DEF SessionsAreNotLost
  <1>2. Kept /\ [Next]_vars => Kept'
    <2> SUFFICES ASSUME Kept, [Next]_vars PROVE StaleIsExpired' /\ SessionsAreNotLost'
      BY StepIInv
    <2>1. ASSUME NEW r \in Requests, RequestStep(r) PROVE StaleIsExpired' /\ SessionsAreNotLost'
      BY <2>1, StaleStays, StepKeeps
    <2>2. CASE UNCHANGED <<row, req, ended>> /\ clock' \in Nat /\ clock <= clock'
      <3>1. \A t \in Token : row[t].expires \in Nat /\ clock \in Nat
        BY DEF IInv, TypeOK, Row
      <3>2. StaleIsExpired'
        BY <2>2, <3>1 DEF StaleIsExpired, At, Issued, Expired
      <3>3. SessionsAreNotLost'
        BY <2>2, <3>1 DEF SessionsAreNotLost, UsedFamilies, InFamily, Live, Issued, Expired, At
      <3> QED BY <3>2, <3>3
    <2>3. CASE Tick \/ UNCHANGED vars \/ \E u \in Users : Deactivate(u)
      <3>1. UNCHANGED <<row, req, ended>> /\ clock' \in Nat /\ clock <= clock'
        BY <2>3 DEF Tick, vars, Deactivate, IInv, TypeOK
      <3> QED BY <2>2, <3>1
    <2> QED BY <2>1, <2>3 DEF Next
  <1>3. Kept => SessionsAreNotLost
    OBVIOUS
  <1> QED BY <1>1, <1>2, <1>3, PTL DEF Spec

-------------------------------------------------------------------------------
(* The inductive invariant of SessionHistory. *)

(* r is between reading a usable token of f and inserting its successor. *)
Renewing(r, f) == req[r].pc \in {"owner", "rotate", "insert"} /\ req[r].family = f
Forgone == {"logout", "reuse", "password"}

(* Families that ended, or are about to end, exist. *)
EndsAreOfSessions ==
    /\ \A f \in Family : ended[f] # "no" => f \in UsedFamilies
    /\ \A r \in Requests : req[r].pc \in {"reuse", "logout"} => req[r].family \in UsedFamilies

(* What no two requests contend for: one usable token, none once the session *)
(* ended, and the request that renews it is the only one that may add one.   *)
Promise(f) ==
    /\ \A s, t \in InFamily(f) : Live(s) /\ Live(t) => s = t
    /\ ended[f] \in Forgone => \A t \in InFamily(f) : ~Live(t)
    /\ \A r \in Requests : Renewing(r, f) =>
          /\ ended[f] \notin Forgone
          /\ \A t \in InFamily(f) : Live(t) => t = req[r].cookie /\ ~At(r, "insert")

Promises == \A f \in Family : f \in contended \/ Promise(f)

(* A change of password is about to decide about f. *)
Replacing(f) == \E r \in Requests : req[r].pc \in {"keep", "cut"} /\ f \in Claimed(r)

(* A session opened with a replaced password is not only unusable: no refresh *)
(* that read one of its tokens is under way.                                  *)
Replaced ==
    \A f \in Family \cap outdated :
        f \in UsedFamilies /\ (Dead(f) \/ f \in spared \cup contended \/ Replacing(f))

HInv ==
    /\ IInv
    /\ Contended \subseteq contended
    /\ EndsAreOfSessions
    /\ Promises
    /\ Replaced

-------------------------------------------------------------------------------
(* Steps of the history are steps of AuthSessions. *)

LEMMA WatchesOnly ==
  ASSUME NEW r \in Requests, HRequestStep(r)
  PROVE  RequestStep(r)
  BY DEF HRequestStep, RequestStep, HStorePassword, HCutOtherSessions, HInsert, HCrash,
     HReloadAccount

(* A request that renews a session claims it. *)
LEMMA RenewingClaims ==
  ASSUME NEW r \in Requests, NEW f \in Family, Renewing(r, f)
  PROVE  f \in Claimed(r)
  BY NoneIsNoValue DEF Renewing, Claimed

(* A family that is not contended is claimed by one request at a time. *)
LEMMA ClaimedAlone ==
  ASSUME Contended \subseteq contended, NEW f \in Family, f \notin contended,
         NEW r \in Requests, f \in Claimed(r), NEW s \in Requests, s # r
  PROVE  f \notin Claimed(s) /\ ~Renewing(s, f)
  BY RenewingClaims DEF Contended

(* The other requests stay what they are. *)
LEMMA OthersStay ==
  ASSUME IInv, NEW r \in Requests, RequestStep(r)
  PROVE  \E q : req'[r] = q /\ MovesOf(r, q) /\ \A s \in Requests \ {r} : req'[s] = req[s]
  <1>1. PICK q : req' = [req EXCEPT ![r] = q] /\ MovesOf(r, q)
    BY RequestEffect
  <1> QED
    BY <1>1 DEF IInv, TypeOK

(* Families stay used. *)
LEMMA UsedStays ==
  ASSUME IInv, NEW r \in Requests, RequestStep(r), NEW f \in UsedFamilies
  PROVE  f \in UsedFamilies'
  <1>1. PICK t \in Token : Issued(t) /\ row[t].family = f
    BY DEF UsedFamilies
  <1>2. Issued(t)' /\ row'[t].family = f
    BY <1>1, StepRowsGrow DEF RowsOnlyGrow, IInv
  <1> QED
    BY <1>2 DEF UsedFamilies

(* A renewed family is used. *)
LEMMA RenewedIsUsed ==
  ASSUME IInv, NEW r \in Requests, NEW f \in Family, Renewing(r, f)
  PROVE  f \in UsedFamilies
  <1>1. req[r].cookie \in Token \cup {None} /\ Agrees(req[r], row) /\ req[r].family # None
    BY NoneIsNoValue DEF IInv, TypeOK, RequestsConsistent, Request, Renewing
  <1>2. /\ req[r].cookie \in Token
        /\ row[req[r].cookie].user \in Users /\ row[req[r].cookie].family = f
    BY <1>1 DEF Agrees, Renewing
  <1> QED
    BY <1>2, NoneIsNoValue DEF UsedFamilies, Issued

-------------------------------------------------------------------------------
(* What a statement records as the end of f. *)

(* The statement of r ends f. *)
Closes(r, f) ==
    \/ (KillReusedFamily(r) \/ EndFamily(r)) /\ req[r].family = f
    \/ CutOtherSessions(r) /\ f \in FamiliesOf(req[r].user) /\ f # req[r].family

LEMMA EndedEffect ==
  ASSUME NEW r \in Requests, RequestStep(r), NEW f \in Family
  PROVE  \/ ended'[f] = ended[f]
         \/ Closes(r, f)
         \/ Renewing(r, f) /\ ended'[f] = "crash"
  <1>1. CASE KillReusedFamily(r) \/ EndFamily(r)
    BY <1>1 DEF KillReusedFamily, EndFamily, End, Closes
  <1>2. CASE CutOtherSessions(r)
    BY <1>2 DEF CutOtherSessions, End, Closes, FamiliesOf, OfUser
  <1>3. CASE Crash(r)
    BY <1>3 DEF Crash, End, Renewing, At
  <1>4. CASE UNCHANGED ended
    BY <1>4
  <1>5. KillReusedFamily(r) \/ EndFamily(r) \/ CutOtherSessions(r) \/ Crash(r) \/ UNCHANGED ended
    BY DEF RequestStep, Register, Login, ChangePassword, Refresh, Logout, CreateAccount,
       ReloadAccount, PruneExpired, FindOwner, Rotate, RevokeStale, StorePassword,
       FindKeptFamily, Insert, Respond
  <1> QED
    BY <1>1, <1>2, <1>3, <1>4, <1>5

(* Who ends f claimed it, and leaves nothing usable in it. *)
LEMMA ClosedIsDead ==
  ASSUME IInv, NEW r \in Requests, NEW f \in Family, Closes(r, f)
  PROVE  /\ f \in Claimed(r)
         /\ req'[r].pc = "idle"
         /\ \A t \in Token : row'[t].family = f => ~Live(t)'
  <1>1. TypeOK
    BY DEF IInv
  <1>2. req'[r].pc = "idle"
    BY <1>1 DEF Closes, KillReusedFamily, EndFamily, CutOtherSessions, Done, Idle, Doing, TypeOK
  <1>3. CASE (KillReusedFamily(r) \/ EndFamily(r)) /\ req[r].family = f
    <2>1. RevokeRows(InFamily(f)) /\ req[r].pc \in {"reuse", "logout"}
      BY <1>3 DEF KillReusedFamily, EndFamily, At
    <2>2. ASSUME NEW t \in Token, row'[t].family = f PROVE ~Live(t)'
      <3>1. t \in InFamily(f)
        BY <1>1, <2>1, <2>2, RevokeRowsEffect DEF InFamily
      <3>2. Issued(t)' => row'[t].revoked
        BY <1>1, <2>1, <3>1, RevokeRowsEffect DEF RevokeRows, Issued, TypeOK, Row
      <3> QED
        BY <3>2 DEF Live
    <2> QED
      BY <1>2, <1>3, <2>1, <2>2, NoneIsNoValue DEF Claimed
  <1>4. CASE CutOtherSessions(r) /\ f \in FamiliesOf(req[r].user) /\ f # req[r].family
    <2>1. PICK S : RevokeRows(S) /\ \A t \in Token :
                       row[t].user = req[r].user /\ row[t].family # req[r].family => t \in S
      BY <1>4 DEF CutOtherSessions, OfUser
    <2>2. PICK o \in Token : row[o].user = req[r].user /\ row[o].family = f
      BY <1>4 DEF FamiliesOf, OfUser
    <2>3. ASSUME NEW t \in Token, row'[t].family = f PROVE ~Live(t)'
      <3>1. row[t].family = f /\ (Issued(t)' <=> Issued(t))
        BY <1>1, <2>1, <2>3, RevokeRowsEffect
      <3>2. Issued(t) => row[t].user = req[r].user
        <4>1. f # None
          BY NoneIsNoValue
        <4>2. Issued(o)
          BY <2>2, <4>1 DEF IInv, RowsConsistent, NoRow
        <4> QED
          BY <2>2, <3>1, <4>2 DEF IInv, FamilyHasOneOwner
      <3>3. Issued(t) => t \in S
        BY <1>4, <2>1, <3>1, <3>2
      <3>4. Issued(t)' => row'[t].revoked
        BY <1>1, <2>1, <3>1, <3>3 DEF RevokeRows, TypeOK, Row
      <3> QED
        BY <3>4 DEF Live
    <2> QED
      BY <1>2, <1>4, <2>3 DEF Claimed, CutOtherSessions, At, FamiliesOf
  <1> QED
    BY <1>3, <1>4 DEF Closes

LEMMA StepEnds ==
  ASSUME IInv, EndsAreOfSessions, NEW r \in Requests, RequestStep(r)
  PROVE  EndsAreOfSessions'
  <1>1. ASSUME NEW f \in Family, ended'[f] # "no" PROVE f \in UsedFamilies'
    <2>1. CASE ended'[f] = ended[f]
      BY <1>1, <2>1, UsedStays DEF EndsAreOfSessions
    <2>2. CASE Closes(r, f)
      <3>1. CASE KillReusedFamily(r) \/ EndFamily(r)
        BY <2>2, <3>1, UsedStays
           DEF EndsAreOfSessions, Closes, KillReusedFamily, EndFamily, CutOtherSessions, At
      <3>2. CASE CutOtherSessions(r) /\ f \in FamiliesOf(req[r].user)
        <4>1. PICK t \in Token : row[t].family = f
          BY <3>2 DEF FamiliesOf, OfUser
        <4>2. Issued(t)
          BY <4>1, NoneIsNoValue DEF IInv, RowsConsistent, NoRow
        <4> QED
          BY <4>1, <4>2, UsedStays DEF UsedFamilies
      <3> QED
        BY <2>2, <3>1, <3>2 DEF Closes
    <2>3. CASE Renewing(r, f)
      BY <2>3, RenewedIsUsed, UsedStays
    <2> QED
      BY <2>1, <2>2, <2>3, EndedEffect
  <1>2. ASSUME NEW s \in Requests, req'[s].pc \in {"reuse", "logout"}
        PROVE  req'[s].family \in UsedFamilies'
    <2>1. PICK q : req'[r] = q /\ MovesOf(r, q) /\ \A p \in Requests \ {r} : req'[p] = req[p]
      BY OthersStay
    <2>2. CASE s = r
      <3>1. q.family \in UsedFamilies
        BY <1>2, <2>1, <2>2 DEF MovesOf
      <3> QED
        BY <2>1, <2>2, <3>1, UsedStays
    <2>3. CASE s # r
      <3>1. req[s].family \in UsedFamilies
        BY <1>2, <2>1, <2>3 DEF EndsAreOfSessions
      <3> QED
        BY <2>1, <2>3, <3>1, UsedStays
    <2> QED
      BY <2>2, <2>3
  <1> QED
    BY <1>1, <1>2 DEF EndsAreOfSessions

-------------------------------------------------------------------------------
(* What a statement does to the usable tokens of f. *)

(* No token of f becomes usable, but for the one that createSession adds. *)
NoneAddedTo(f, T) ==
    \A t \in T : row'[t].family = f /\ Live(t)' => row[t].family = f /\ Live(t)

LEMMA UseEffect ==
  ASSUME IInv, NEW r \in Requests, RequestStep(r), NEW f \in Family
  PROVE  \/ NoneAddedTo(f, Token)
         \/ /\ At(r, "insert") /\ (Renewing(r, f) \/ f \notin UsedFamilies)
            /\ \E t \in Token : NoneAddedTo(f, Token \ {t})
  <1>1. TypeOK
    BY DEF IInv
  <1>2. CASE UNCHANGED row
    BY <1>2 DEF NoneAddedTo, Live, Issued
  <1>3. ASSUME NEW S, RevokeRows(S) PROVE NoneAddedTo(f, Token)
    BY <1>1, <1>3, RevokeRowsEffect DEF NoneAddedTo, Live
  <1>4. ASSUME At(r, "insert"), NEW t \in Token, NEW g \in Family \cup {None}, ~Issued(t),
               IF req[r].family = None THEN g \in Family \ UsedFamilies ELSE g = req[r].family,
               row' = [row EXCEPT ![t] = NewRow(r, g)]
        PROVE  \/ NoneAddedTo(f, Token)
               \/ (Renewing(r, f) \/ f \notin UsedFamilies) /\ NoneAddedTo(f, Token \ {t})
    <2>1. /\ row'[t].family = g
          /\ \A s \in Token \ {t} : row'[s] = row[s] /\ (Issued(s)' <=> Issued(s))
      <3>1. /\ row'[t] = NewRow(r, g)
            /\ \A s \in Token \ {t} : row'[s] = row[s] /\ (Issued(s)' <=> Issued(s))
        BY <1>1, <1>4, NewRowEffect
      <3> QED
        BY <3>1 DEF NewRow
    <2>2. NoneAddedTo(f, Token \ {t})
      BY <2>1 DEF NoneAddedTo, Live
    <2>3. CASE g = f
      BY <1>4, <2>2, <2>3, NoneIsNoValue DEF Renewing, At
    <2>4. CASE g # f
      BY <2>1, <2>2, <2>4 DEF NoneAddedTo
    <2> QED
      BY <2>3, <2>4
  <1> QED
    BY <1>1, <1>2, <1>3, <1>4, RowEffect

-------------------------------------------------------------------------------
(* Promises. *)

(* The three ways a statement treats a family that is not contended. *)

LEMMA ClosingKeepsPromise ==
  ASSUME IInv, Contended \subseteq contended, NEW f \in Family, f \notin contended,
         NEW r \in Requests, RequestStep(r), Closes(r, f)
  PROVE  Promise(f)'
  <1>1. /\ f \in Claimed(r) /\ req'[r].pc = "idle"
        /\ \A t \in Token : row'[t].family = f => ~Live(t)'
    BY ClosedIsDead
  <1>2. \A s \in Requests \ {r} : req'[s] = req[s]
    BY OthersStay
  <1>3. \A s \in Requests \ {r} : ~Renewing(s, f)
    BY <1>1, ClaimedAlone
  <1>4. \A s \in Requests : ~Renewing(s, f)'
    BY <1>1, <1>2, <1>3 DEF Renewing
  <1> QED
    BY <1>1, <1>4 DEF Promise, InFamily

LEMMA UsingKeepsPromise ==
  ASSUME IInv, IInv', NEW f \in Family, Promise(f), NEW r \in Requests, RequestStep(r),
         ended'[f] = ended[f] \/ ended'[f] \notin Forgone, NoneAddedTo(f, Token)
  PROVE  Promise(f)'
  <1>1. PICK q : req'[r] = q /\ MovesOf(r, q) /\ \A s \in Requests \ {r} : req'[s] = req[s]
    BY OthersStay
  <1>2. ASSUME NEW s \in Token, NEW t \in Token,
               row'[s].family = f, row'[t].family = f, Live(s)', Live(t)'
        PROVE  s = t
    BY <1>2 DEF Promise, NoneAddedTo, InFamily
  <1>3. ended'[f] \in Forgone => \A t \in Token : row'[t].family = f => ~Live(t)'
    BY DEF Promise, NoneAddedTo, InFamily
  <1>4. ASSUME NEW s \in Requests, Renewing(s, f)'
        PROVE  /\ ended'[f] \notin Forgone
               /\ \A t \in Token : row'[t].family = f /\ Live(t)' =>
                     t = req'[s].cookie /\ req'[s].pc # "insert"
    <2>1. CASE s # r
      <3>1. req'[s] = req[s] /\ Renewing(s, f)
        BY <1>1, <1>4, <2>1 DEF Renewing
      <3> QED
        BY <3>1 DEF Promise, NoneAddedTo, InFamily, At
    <2>2. CASE s = r /\ q.pc = "owner"
      <3>1. q.cookie \in Token /\ Live(q.cookie) /\ row[q.cookie].family = f
        BY <1>1, <1>4, <2>2 DEF MovesOf, Renewing
      <3>2. ended[f] \notin Forgone
        BY <3>1 DEF Promise, InFamily
      <3>3. \A t \in Token : row'[t].family = f /\ Live(t)' => t = q.cookie
        BY <3>1 DEF Promise, NoneAddedTo, InFamily
      <3> QED
        BY <1>1, <2>2, <3>2, <3>3
    <2>3. CASE s = r /\ q.pc = "rotate"
      <3>1. Renewing(r, f) /\ q.cookie = req[r].cookie
        BY <1>1, <1>4, <2>3 DEF MovesOf, Renewing
      <3> QED
        BY <1>1, <2>3, <3>1 DEF Promise, NoneAddedTo, InFamily
    <2>4. CASE s = r /\ q.pc = "insert"
      <3>1. Renewing(r, f) /\ q.cookie = req[r].cookie
        BY <1>1, <1>4, <2>4, NoneIsNoValue DEF MovesOf, Renewing
      <3>2. ~Live(q.cookie)'
        <4>1. q.cookie \in Token \cup {None} /\ Agrees(q, row')
          BY <1>1 DEF IInv, TypeOK, RequestsConsistent, Request
        <4>2. q.pc = "insert" /\ q.family = f
          BY <1>1, <1>4, <2>4 DEF Renewing
        <4> QED
          BY <4>1, <4>2, NoneIsNoValue DEF Agrees, Live
      <3>3. ASSUME NEW t \in Token, row'[t].family = f, Live(t)' PROVE FALSE
        <4>1. t = q.cookie
          BY <3>1, <3>3 DEF Promise, NoneAddedTo, InFamily
        <4> QED
          BY <3>2, <3>3, <4>1
      <3> QED
        BY <3>1, <3>3 DEF Promise
    <2> QED
      BY <1>1, <1>4, <2>1, <2>2, <2>3, <2>4 DEF Renewing
  <1> QED
    BY <1>2, <1>3, <1>4 DEF Promise, InFamily, At

LEMMA InsertingKeepsPromise ==
  ASSUME IInv, EndsAreOfSessions, Contended \subseteq contended,
         NEW f \in Family, f \notin contended, Promise(f),
         NEW r \in Requests, RequestStep(r), At(r, "insert"),
         Renewing(r, f) \/ f \notin UsedFamilies,
         ended'[f] = ended[f] \/ ended'[f] \notin Forgone,
         NEW t \in Token, NoneAddedTo(f, Token \ {t})
  PROVE  Promise(f)'
  <1>1. PICK q : req'[r] = q /\ MovesOf(r, q) /\ \A s \in Requests \ {r} : req'[s] = req[s]
    BY OthersStay
  <1>2. ended[f] \notin Forgone /\ \A s \in Token : row[s].family = f => ~Live(s)
    <2>1. CASE Renewing(r, f)
      BY <2>1 DEF Promise, InFamily
    <2>2. CASE f \notin UsedFamilies
      BY <2>2 DEF EndsAreOfSessions, UsedFamilies, Live, Forgone
    <2> QED
      BY <2>1, <2>2
  <1>3. \A s \in Requests \ {r} : ~Renewing(s, f)
    <2>1. CASE Renewing(r, f)
      BY <2>1, RenewingClaims, ClaimedAlone
    <2>2. CASE f \notin UsedFamilies
      BY <2>2, RenewedIsUsed
    <2> QED
      BY <2>1, <2>2
  <1>4. \A s \in Requests : ~Renewing(s, f)'
    <2>1. q.pc \notin {"owner", "rotate", "insert"}
      BY <1>1 DEF MovesOf, At
    <2> QED
      BY <1>1, <1>3, <2>1 DEF Renewing
  <1>5. \A s \in Token \ {t} : row'[s].family = f => ~Live(s)'
    BY <1>2 DEF NoneAddedTo
  <1> QED
    BY <1>2, <1>4, <1>5 DEF Promise, InFamily

LEMMA StepPromises ==
  ASSUME IInv, IInv', EndsAreOfSessions, Contended \subseteq contended, Promises,
         NEW r \in Requests, RequestStep(r), contended \subseteq contended'
  PROVE  Promises'
  <1> SUFFICES ASSUME NEW f \in Family, f \notin contended' PROVE Promise(f)'
    BY DEF Promises
  <1>1. f \notin contended /\ Promise(f)
    BY DEF Promises
  <1>2. CASE Closes(r, f)
    BY <1>1, <1>2, ClosingKeepsPromise
  <1>3. CASE ~Closes(r, f)
    <2>1. ended'[f] = ended[f] \/ ended'[f] \notin Forgone
      BY <1>3, EndedEffect DEF Forgone
    <2> QED
      BY <1>1, <2>1, UseEffect, UsingKeepsPromise, InsertingKeepsPromise
  <1> QED
    BY <1>2, <1>3

-------------------------------------------------------------------------------
(* Replaced passwords. *)

(* A change of password that is under way goes on claiming its families. *)
LEMMA ReplacingStays ==
  ASSUME IInv, NEW s \in Requests, NEW f \in Family, req[s].pc \in {"keep", "cut"},
         f \in Claimed(s), NEW r \in Requests, RequestStep(r),
         req'[s].pc \in {"keep", "cut"} /\ req'[s].user = req[s].user
  PROVE  Replacing(f)'
  <1>1. PICK t \in Token : row[t].user = req[s].user /\ row[t].family = f
    BY DEF Claimed, OfUser
  <1>2. Issued(t)
    BY <1>1, NoneIsNoValue DEF IInv, RowsConsistent, NoRow
  <1>3. row'[t].user = req'[s].user /\ row'[t].family = f
    BY <1>1, <1>2, StepRowsGrow DEF IInv, RowsOnlyGrow
  <1>4. f \in {row'[x].family : x \in {y \in Token : row'[y].user = req'[s].user}}
    BY <1>3
  <1>5. f \in Claimed(s)'
    BY <1>4 DEF Claimed, OfUser
  <1> QED
    BY <1>5 DEF Replacing

(* The families of an account are used. *)
LEMMA FamiliesAreUsed ==
  ASSUME IInv, NEW u, NEW f \in Family, f \in FamiliesOf(u)
  PROVE  f \in UsedFamilies
  <1>1. PICK t \in Token : row[t].family = f
    BY DEF FamiliesOf, OfUser
  <1>2. Issued(t)
    BY <1>1, NoneIsNoValue DEF IInv, RowsConsistent, NoRow
  <1> QED
    BY <1>1, <1>2 DEF UsedFamilies

(* What became of f, a session opened with a password since replaced. *)
Settled(f) == f \in UsedFamilies /\ (Dead(f) \/ f \in spared \cup contended \/ Replacing(f))

(* Only the request that replaces the password, or one that takes f from the *)
(* spared, can unsettle f.                                                   *)
LEMMA StaysSettled ==
  ASSUME IInv, NEW f \in Family, Settled(f), NEW r \in Requests, RequestStep(r),
         contended \subseteq contended', f \in spared => f \in spared',
         req[r].pc \in {"keep", "cut"} /\ f \in Claimed(r) =>
             Dead(f)' \/ f \in spared' \cup contended \/ Replacing(f)'
  PROVE  Settled(f)'
  <1>1. f \in UsedFamilies'
    BY UsedStays DEF Settled
  <1>2. CASE Dead(f)
    BY <1>1, <1>2, StaysDead DEF Settled
  <1>3. CASE f \in spared \cup contended
    BY <1>1, <1>3 DEF Settled
  <1>4. CASE Replacing(f)
    <2>1. PICK s \in Requests : req[s].pc \in {"keep", "cut"} /\ f \in Claimed(s)
      BY <1>4 DEF Replacing
    <2>2. CASE s = r
      BY <1>1, <2>1, <2>2 DEF Settled
    <2>3. CASE s # r
      <3>1. req'[s] = req[s]
        BY <2>3, OthersStay
      <3> QED
        BY <1>1, <2>1, <3>1, ReplacingStays DEF Settled
    <2> QED
      BY <2>2, <2>3
  <1> QED
    BY <1>2, <1>3, <1>4 DEF Settled

LEMMA StepReplaced ==
  ASSUME IInv, Contended \subseteq contended, Replaced, NEW r \in Requests, HRequestStep(r),
         contended \subseteq contended'
  PROVE  Replaced'
  <1> SUFFICES ASSUME NEW f \in Family, f \in outdated' PROVE Settled(f)'
    BY DEF Replaced, Settled
  <1>1. RequestStep(r) /\ TypeOK
    BY WatchesOnly DEF IInv
  <1>2. f \in outdated => Settled(f)
    BY DEF Replaced, Settled
  <1>3. f \notin Requests
    BY RequestsAreNoFamilies
  <1>4. CASE HStorePassword(r)
    <2> DEFINE u == req[r].user
    <2>1. /\ req[r].pc = "store" /\ UNCHANGED row
          /\ req'[r].pc = "keep" /\ req'[r].user = u
      BY <1>1, <1>4 DEF HStorePassword, StorePassword, At, Goto, TypeOK, Request
    <2>2. CASE f \in FamiliesOf(u)
      <3>1. f \in UsedFamilies'
        BY <1>1, <2>2, FamiliesAreUsed, UsedStays
      <3>2. f \in Claimed(r)'
        BY <2>1, <2>2 DEF Claimed, OfUser, FamiliesOf
      <3> QED
        BY <2>1, <3>1, <3>2 DEF Settled, Replacing
    <2>3. CASE f \notin FamiliesOf(u)
      <3>1. f \in outdated /\ (f \in spared => f \in spared')
        BY <1>3, <1>4, <2>3 DEF HStorePassword
      <3> QED
        BY <1>1, <1>2, <2>1, <3>1, StaysSettled
    <2> QED
      BY <2>2, <2>3
  <1>5. CASE HCutOtherSessions(r)
    <2>1. /\ CutOtherSessions(r) /\ req[r].pc = "cut" /\ f \in outdated
          /\ spared' = spared \cup ({req[r].family} \ {None})
      BY <1>5 DEF HCutOtherSessions, CutOtherSessions, At
    <2>2. CASE f \in Claimed(r) /\ f # req[r].family /\ f \notin contended
      <3>1. Closes(r, f)
        BY <2>1, <2>2 DEF Closes, Claimed, FamiliesOf
      <3>2. req'[r].pc = "idle" /\ \A t \in Token : row'[t].family = f => ~Live(t)'
        BY <3>1, ClosedIsDead
      <3>3. \A s \in Requests \ {r} : ~Renewing(s, f) /\ req'[s] = req[s]
        BY <1>1, <2>2, ClaimedAlone, OthersStay
      <3>4. f \in UsedFamilies'
        BY <1>1, <1>2, <2>1, UsedStays DEF Settled
      <3> QED
        BY <3>2, <3>3, <3>4 DEF Settled, Dead, InFamily, Renewing
    <2>3. CASE f \in Claimed(r) => f = req[r].family \/ f \in contended
      <3>1. f \in Claimed(r) => f \in spared' \cup contended
        BY <2>1, <2>3, NoneIsNoValue
      <3>2. f \in spared => f \in spared'
        BY <2>1
      <3> QED
        BY <1>1, <1>2, <2>1, <3>1, <3>2, StaysSettled
    <2> QED
      BY <2>2, <2>3
  <1>6. CASE HInsert(r)
    <2>1. /\ req[r].pc = "insert"
          /\ \/ f \in outdated
             \/ f \in UsedFamilies' /\ f \in spared'
          /\ f \in spared => f \in spared'
      BY <1>6 DEF HInsert, Insert, At
    <2>2. CASE f \in outdated
      BY <1>1, <1>2, <2>1, <2>2, StaysSettled
    <2>3. CASE f \in UsedFamilies' /\ f \in spared'
      BY <2>3 DEF Settled
    <2> QED
      BY <2>1, <2>2, <2>3
  <1>7. CASE HCrash(r)
    <2>1. f \in outdated /\ (f \in spared => f \in spared')
      BY <1>7 DEF HCrash
    <2>2. req[r].pc \in {"keep", "cut"} /\ f \in Claimed(r) => f \in spared'
      BY <1>7 DEF HCrash, At, Claimed, FamiliesOf
    <2> QED
      BY <1>1, <1>2, <2>1, <2>2, StaysSettled
  <1>8. CASE HReloadAccount(r)
    <2>1. f \in outdated /\ UNCHANGED spared /\ req[r].pc = "reload"
      BY <1>8 DEF HReloadAccount, ReloadAccount, At
    <2> QED
      BY <1>1, <1>2, <2>1, StaysSettled
  <1>9. CASE FindKeptFamily(r) /\ UNCHANGED <<outdated, spared>>
    <2>1. req'[r].pc = "cut" /\ req'[r].user = req[r].user
      BY <1>1, <1>9 DEF FindKeptFamily, Doing, TypeOK
    <2>2. req[r].pc \in {"keep", "cut"} /\ f \in Claimed(r) => Replacing(f)'
      BY <1>1, <2>1, ReplacingStays
    <2> QED
      BY <1>1, <1>2, <1>9, <2>2, StaysSettled
  <1>10. CASE req[r].pc \notin {"keep", "cut"} /\ UNCHANGED <<outdated, spared>>
    BY <1>1, <1>2, <1>10, StaysSettled
  <1>11. \/ HStorePassword(r) \/ HCutOtherSessions(r) \/ HInsert(r) \/ HCrash(r)
         \/ HReloadAccount(r)
         \/ FindKeptFamily(r) /\ UNCHANGED <<outdated, spared>>
         \/ req[r].pc \notin {"keep", "cut"} /\ UNCHANGED <<outdated, spared>>
    BY DEF HRequestStep, Register, Login, ChangePassword, Refresh, Logout, Start, CreateAccount,
       PruneExpired, FindOwner, Rotate, KillReusedFamily, RevokeStale, EndFamily, Respond, At
  <1> QED
    BY <1>4, <1>5, <1>6, <1>7, <1>8, <1>9, <1>10, <1>11

-------------------------------------------------------------------------------
(* The theorems. *)

LEMMA InitHInv == HInit => HInv
  <1> SUFFICES ASSUME HInit PROVE HInv
    OBVIOUS
  <1>1. IInv
    BY InitIInv DEF HInit
  <1>2. \A r \in Requests : req[r].pc = "idle"
    BY DEF HInit, Init, Idle, Doing
  <1>3. \A t \in Token : ~Live(t)
    BY DEF HInit, Init, NoRow, Live, Issued
  <1>4. Contended = {}
    BY <1>2 DEF Contended, Claimed
  <1>5. \A f \in Family : ended[f] = "no"
    BY DEF HInit, Init
  <1>6. EndsAreOfSessions
    BY <1>2, <1>5 DEF EndsAreOfSessions
  <1>7. Promises
    BY <1>2, <1>3, <1>5 DEF Promises, Promise, Renewing, InFamily, Forgone
  <1> QED
    BY <1>1, <1>4, <1>6, <1>7 DEF HInv, Replaced, HInit

LEMMA StepHInv == HInv /\ [HNext]_<<vars, history>> => HInv'
  <1> SUFFICES ASSUME HInv, [HNext]_<<vars, history>> PROVE HInv'
    OBVIOUS
  <1>1. ASSUME NEW r \in Requests, HRequestStep(r), contended' = contended \cup Contended'
        PROVE  HInv'
    <2>1. RequestStep(r)
      BY <1>1, WatchesOnly
    <2>2. IInv'
      BY <2>1, StepIInv DEF Next, HInv
    <2> QED
      BY <1>1, <2>1, <2>2, StepEnds, StepPromises, StepReplaced DEF HInv
  <1>2. CASE UNCHANGED <<vars, history>>
    <2>1. IInv'
      BY <1>2, StepIInv DEF HInv
    <2>2. (Contended \subseteq contended)'
      BY <1>2 DEF HInv, Contended, Claimed, OfUser, vars, history
    <2>3. EndsAreOfSessions'
      BY <1>2 DEF HInv, EndsAreOfSessions, UsedFamilies, Issued, vars
    <2>4. Promises'
      BY <1>2 DEF HInv, Promises, Promise, Renewing, InFamily, Live, Issued, At, vars, history
    <2>5. Replaced'
      BY <1>2 DEF HInv, Replaced, Dead, Replacing, Claimed, OfUser, UsedFamilies, InFamily,
         Live, Issued, vars, history
    <2> QED
      BY <2>1, <2>2, <2>3, <2>4, <2>5 DEF HInv
  <1> QED
    BY <1>1, <1>2 DEF HNext

LEMMA HInvariance == HSpec => []HInv
  BY InitHInv, StepHInv, PTL DEF HSpec

(* RefreshTokenModel, logout, reuse detection and changePassword keep their  *)
(* promises for every family no two requests contend for.                    *)
THEOREM UncontendedPromises == HSpec => []UncontendedPromisesHold
  <1>1. HInv => UncontendedPromisesHold
    BY DEF HInv, Promises, Promise, Forgone, UncontendedPromisesHold
  <1> QED
    BY <1>1, HInvariance, PTL

(* AuthService::changePassword: a session opened with a replaced password is *)
(* unusable, but for the named exceptions.                                   *)
THEOREM OldPasswords == HSpec => []OldPasswordOpensNothing
  <1>1. HInv => OldPasswordOpensNothing
    BY DEF HInv, Replaced, Replacing, Dead, OldPasswordOpensNothing
  <1> QED
    BY <1>1, HInvariance, PTL
==============================================================================
