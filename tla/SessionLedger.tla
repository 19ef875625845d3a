---------------------------- MODULE SessionLedger ----------------------------
(***************************************************************************)
(* What the refresh tokens promise, whatever the requests do: a ledger in  *)
(* which a session opens with a family nobody used, grows by one token     *)
(* whose predecessor is dead, and loses tokens of one account at a time.   *)
(* An entry never changes its account, family or predecessor, and a dead   *)
(* entry never lives again.  AuthSessions implements this ledger.          *)
(***************************************************************************)
CONSTANTS Users, Token, Family, None

VARIABLE ledger

Entry == [user : Users, family : Family, parent : Token \cup {None}, live : BOOLEAN]

NoEntry == [user |-> None, family |-> None, parent |-> None, live |-> FALSE]

Killed(e) == [user |-> e.user, family |-> e.family, parent |-> e.parent, live |-> FALSE]

Entered(t) == ledger[t].user # None

LedgerInit == ledger = [t \in Token |-> NoEntry]

(* A session of user u starts under a family of its own. *)
Open(u, f, t) ==
    /\ ~Entered(t)
    /\ \A s \in Token : ledger[s].family # f
    /\ ledger' = [ledger EXCEPT ![t] = [user |-> u, family |-> f, parent |-> None, live |-> TRUE]]

(* Token t succeeds p in p's session; p is dead by then. *)
Extend(p, t) ==
    /\ Entered(p) /\ ~ledger[p].live
    /\ ~Entered(t)
    /\ ledger' = [ledger EXCEPT ![t] = [user   |-> ledger[p].user,
                                        family |-> ledger[p].family,
                                        parent |-> p,
                                        live   |-> TRUE]]

(* Some tokens of one account die together. *)
Close(u, S) ==
    /\ \A t \in S : ledger[t].user = u
    /\ ledger' = [t \in Token |-> IF t \in S THEN Killed(ledger[t]) ELSE ledger[t]]

LedgerNext ==
    \/ \E u \in Users, S \in SUBSET Token : Close(u, S)
    \/ \E u \in Users, f \in Family, t \in Token : Open(u, f, t)
    \/ \E p, t \in Token : Extend(p, t)

LedgerSpec == LedgerInit /\ [][LedgerNext]_ledger
==============================================================================
