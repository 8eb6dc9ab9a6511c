------------------------ MODULE TokenRotationProofs ------------------------
(***************************************************************************)
(* Proofs about TokenRotation: for any number of request slots, principals *)
(* and tokens, and for any grace window and lifetime.                      *)
(***************************************************************************)
EXTENDS TokenRotation, TLAPS

USE TokenRotationAssumption DEF TokenId, Time, Null

-----------------------------------------------------------------------------
(* Types *)

LEMMA RequestTypes ==
  /\ Idle \in Request
  /\ Carries(Idle)
  /\ \A pc \in Labels : [Idle EXCEPT !.pc = pc] \in Request
  /\ \A pc \in Labels \ {"consume"} : Carries([Idle EXCEPT !.pc = pc])
BY DEF Idle, Request, Labels, Ops, RevokeAllOps, Carries

LEMMA ReleaseTypes ==
  ASSUME TypeOK, NEW r \in Requests, NEW pc \in Labels \ {"consume"}, Release(r, pc)
  PROVE  /\ written' \in [Requests -> [TokenId -> Row \cup {None}]]
         /\ req' \in [Requests -> Request]
         /\ \A q \in Requests : Carries(req'[q])
BY RequestTypes DEF TypeOK, Release, NoRows

LEMMA TypeInit == Init => TypeOK
BY RequestTypes DEF Init, TypeOK, NoRows

\* Every action of the specification, in one list: the actions of Next are
\* grouped by service, and most facts below are proved action by action.
Read(r) == \/ \E p \in Principals : LoginRead(r, p) \/ LogoutAllStart(r, p)
           \/ \E t \in TokenId :
                RefreshRead(r, t) \/ ReuseRead(r, t) \/ LogoutRead(r, t)
           \/ \E op \in AdminOps, p \in Admins : AdminRead(r, op, p)
           \/ \E op \in {"deactivate", "user_delete"}, p \in Users :
                UserRead(r, op, p)
Issue(r)   == LoginIssue(r) \/ RefreshIssue(r)
Revoke(r)  == ReuseRevoke(r) \/ RevokeAll(r)
GiveUp(r)  == RefreshLost(r) \/ Kick(r) \/ DbError(r)
Direct(r)  == LogoutMark(r) \/ PurgeExpired(r) \/ UserDeleteCommit(r)

LEMMA Steps ==
  ASSUME Next
  PROVE  \/ Tick
         \/ \E r \in Requests :
              \/ Read(r) \/ Issue(r) \/ RefreshConsume(r) \/ Revoke(r)
              \/ Commit(r) \/ GiveUp(r) \/ Direct(r)
<1>1. CASE Tick
  BY <1>1
<1>2. ASSUME NEW r \in Requests,
             \/ Login(r) \/ Refresh(r) \/ Logout(r)
             \/ Account(r) \/ Commit(r) \/ DbError(r)
      PROVE  \/ Read(r) \/ Issue(r) \/ RefreshConsume(r) \/ Revoke(r)
             \/ Commit(r) \/ GiveUp(r) \/ Direct(r)
  <2>1. CASE Login(r)
    BY <2>1 DEF Login, Read, Issue, Direct
  <2>2. CASE Refresh(r)
    BY <2>2 DEF Refresh, Read, Issue, Revoke, GiveUp
  <2>3. CASE Logout(r)
    BY <2>3 DEF Logout, Read, Revoke, GiveUp, Direct
  <2>4. CASE Account(r)
    BY <2>4 DEF Account, Read, Direct
  <2>5. QED
    BY <1>2, <2>1, <2>2, <2>3, <2>4 DEF GiveUp
<1>3. QED
  BY <1>1, <1>2 DEF Next

\* A request that starts: nothing but its slot changes.
LEMMA ReadStep ==
  ASSUME TypeOK, NEW r \in Requests, Read(r)
  PROVE  /\ UNCHANGED << refresh_tokens, accounts, written, next_id, now >>
         /\ req[r].pc = "idle"
         /\ \E q \in Request :
              /\ req' = [req EXCEPT ![r] = q]
              /\ Carries(q)
              /\ q.new = Null
              /\ q.op \in {"login", "refresh"} => q.pc = "issue"
              /\ \/ q.token = Null
                 \/ q.token \in TokenId /\ refresh_tokens[q.token] # None
              /\ \/ q.family = Null
                 \/ \E t \in TokenId : /\ refresh_tokens[t] # None
                                       /\ q.family = refresh_tokens[t].family_id
              /\ q.op = "refresh" =>
                   /\ refresh_tokens[q.token] # None
                   /\ refresh_tokens[q.token].family_id = q.family
                   /\ refresh_tokens[q.token].principal_id = q.principal
                   /\ IsActive(q.principal)
              /\ q.pc # "idle"
              /\ q.pc = "commit" => q.op \notin RevokeAllOps \cup {"reuse"}
              /\ q.op \in {"deactivate", "user_delete"} => q.principal \in Users
<1> DEFINE Fits(q) ==
      /\ q \in Request
      /\ req' = [req EXCEPT ![r] = q]
      /\ Carries(q)
      /\ q.new = Null
      /\ q.op \in {"login", "refresh"} => q.pc = "issue"
      /\ \/ q.token = Null
         \/ q.token \in TokenId /\ refresh_tokens[q.token] # None
      /\ \/ q.family = Null
         \/ \E t \in TokenId : /\ refresh_tokens[t] # None
                               /\ q.family = refresh_tokens[t].family_id
      /\ q.op = "refresh" =>
           /\ refresh_tokens[q.token] # None
           /\ refresh_tokens[q.token].family_id = q.family
           /\ refresh_tokens[q.token].principal_id = q.principal
           /\ IsActive(q.principal)
      /\ q.pc # "idle"
      /\ q.pc = "commit" => q.op \notin RevokeAllOps \cup {"reuse"}
      /\ q.op \in {"deactivate", "user_delete"} => q.principal \in Users
<1>1. /\ UNCHANGED << refresh_tokens, accounts, written, next_id, now >>
      /\ req[r].pc = "idle"
  BY DEF Read, LoginRead, RefreshRead, ReuseRead, LogoutRead, LogoutAllStart,
         AdminRead, UserRead
<1>2. \E q : Fits(q)
  <2> USE DEF TypeOK, Carries, Request, Labels, Ops, RevokeAllOps, Idle
  <2>1. ASSUME NEW p \in Principals, LoginRead(r, p) PROVE \E q : Fits(q)
    <3>1. Fits([Idle EXCEPT !.pc = "issue", !.op = "login", !.principal = p])
      BY <2>1 DEF LoginRead
    <3>2. QED BY <3>1
  <2>2. ASSUME NEW p \in Principals, LogoutAllStart(r, p) PROVE \E q : Fits(q)
    <3>1. Fits([Idle EXCEPT !.pc = "revoke", !.op = "logout_all", !.principal = p])
      BY <2>2 DEF LogoutAllStart
    <3>2. QED BY <3>1
  <2>3. ASSUME NEW t \in TokenId, RefreshRead(r, t) PROVE \E q : Fits(q)
    <3>1. refresh_tokens[t] # None /\ refresh_tokens[t] \in Row
      BY <2>3 DEF RefreshRead, Live
    <3>2. Fits([pc |-> "issue", op |-> "refresh", token |-> t, new |-> Null,
                now |-> now, principal |-> refresh_tokens[t].principal_id,
                family |-> refresh_tokens[t].family_id])
      BY <2>3, <3>1 DEF RefreshRead, Row
    <3>3. QED BY <3>2
  <2>4. ASSUME NEW t \in TokenId, ReuseRead(r, t) PROVE \E q : Fits(q)
    <3>1. refresh_tokens[t] # None /\ refresh_tokens[t] \in Row
      BY <2>4 DEF ReuseRead
    <3>2. Fits([Idle EXCEPT !.pc = "revoke", !.op = "reuse", !.now = now,
                            !.family = refresh_tokens[t].family_id])
      BY <2>4, <3>1 DEF ReuseRead, Row
    <3>3. QED BY <3>2
  <2>5. ASSUME NEW t \in TokenId, LogoutRead(r, t) PROVE \E q : Fits(q)
    <3>1. Fits([Idle EXCEPT !.pc = "mark", !.op = "logout", !.token = t])
      BY <2>5 DEF LogoutRead, Live
    <3>2. QED BY <3>1
  <2>6. ASSUME NEW op \in AdminOps, NEW p \in Admins, AdminRead(r, op, p)
        PROVE \E q : Fits(q)
    <3> DEFINE q0 == [Idle EXCEPT
          !.pc = IF op \in RevokeAllOps THEN "revoke" ELSE "commit",
          !.op = op, !.principal = p]
    <3>1. Fits(q0)
      BY <2>6 DEF AdminRead, AdminOps, Principals
    <3>2. QED
      <4> HIDE DEF q0, Fits
      <4>1. QED BY <3>1
  <2>7. ASSUME NEW op \in {"deactivate", "user_delete"}, NEW p \in Users,
               UserRead(r, op, p)
        PROVE \E q : Fits(q)
    <3>1. Fits([Idle EXCEPT !.pc = "commit", !.op = op, !.principal = p])
      BY <2>7 DEF UserRead, Principals
    <3>2. QED BY <3>1
  <2>8. QED
    BY <2>1, <2>2, <2>3, <2>4, <2>5, <2>6, <2>7 DEF Read
<1>3. QED
  BY <1>1, <1>2

\* A row version r may write: what an INSERT and an UPDATE put there.
LEMMA NewRowType ==
  ASSUME TypeOK, NEW p \in Principals, NEW f \in TokenId
  PROVE  /\ NewRow(p, f) \in Row
         /\ Live(NewRow(p, f))
         /\ NewRow(p, f).family_id = f
         /\ NewRow(p, f).principal_id = p
<1>1. NewRow(p, f) \in Row
  BY DEF TypeOK, NewRow, Row
<1>2. QED
  BY <1>1 DEF NewRow, Live

LEMMA RowUpdates ==
  ASSUME NEW row \in Row, NEW at \in Time \cup {Null}, NEW u \in TokenId \cup {Null}
  PROVE  /\ [row EXCEPT !.revoked_at = at] \in Row
         /\ [row EXCEPT !.replaced_by_id = u] \in Row
         /\ [row EXCEPT !.revoked_at = at, !.replaced_by_id = u] \in Row
BY DEF Row

LEMMA Revoked ==
  ASSUME NEW row \in Row, NEW at \in Time
  PROVE  LET new == [row EXCEPT !.revoked_at = at] IN
         /\ new \in Row /\ new # None /\ ~Live(new) /\ new.revoked_at # Null
         /\ new.family_id = row.family_id
         /\ new.principal_id = row.principal_id
<1> DEFINE new == [row EXCEPT !.revoked_at = at]
<1>1. new \in Row /\ new.revoked_at = at
  BY DEF Row
<1>2. new.family_id = row.family_id /\ new.principal_id = row.principal_id
  BY DEF Row
<1> HIDE DEF new
<1>3. new # None
  BY <1>1
<1>4. new.revoked_at # Null
  BY <1>1
<1>5. QED
  BY <1>1, <1>2, <1>3, <1>4 DEF Live, new

LEMMA Unlinked ==
  ASSUME NEW row \in Row
  PROVE  LET new == [row EXCEPT !.replaced_by_id = Null] IN
         /\ new # None /\ new.revoked_at = row.revoked_at
         /\ new.family_id = row.family_id
         /\ new.principal_id = row.principal_id
<1> DEFINE new == [row EXCEPT !.replaced_by_id = Null]
<1>1. new \in Row
  BY RowUpdates
<1>2. /\ new.revoked_at = row.revoked_at
      /\ new.family_id = row.family_id
      /\ new.principal_id = row.principal_id
  BY DEF Row
<1> HIDE DEF new
<1>3. new # None
  BY <1>1
<1>4. QED
  BY <1>2, <1>3 DEF new

LEMMA VersionType ==
  ASSUME TypeOK, NEW r \in Requests, NEW t \in TokenId
  PROVE  Version(r, t) \in Row \cup {None}
BY DEF TypeOK, Version

LEMMA SlotType ==
  ASSUME TypeOK, NEW r \in Requests, NEW q \in Request, Carries(q),
         req' = [req EXCEPT ![r] = q]
  PROVE  /\ req' \in [Requests -> Request]
         /\ \A p \in Requests : Carries(req'[p])
BY DEF TypeOK

\* What a request carries on when only its label changes.
LEMMA RelabelType ==
  ASSUME TypeOK, NEW r \in Requests, NEW pc \in Labels \ {"consume"},
         req' = [req EXCEPT ![r].pc = pc]
  PROVE  /\ req' \in [Requests -> Request]
         /\ \A p \in Requests : Carries(req'[p])
<1> DEFINE q0 == [req[r] EXCEPT !.pc = pc]
<1>1. q0 \in Request /\ Carries(q0)
  BY DEF TypeOK, Request, Carries
<1>2. req' = [req EXCEPT ![r] = q0]
  OBVIOUS
<1>3. QED
  BY <1>1, <1>2, SlotType

LEMMA RevokeRowsType ==
  ASSUME TypeOK, NEW r \in Requests, NEW S \in SUBSET TokenId,
         NEW at \in Time \cup {Null},
         \A t \in S : refresh_tokens[t] # None,
         RevokeRows(r, S, at)
  PROVE  written' \in [Requests -> [TokenId -> Row \cup {None}]]
<1>1. \A t \in S : [refresh_tokens[t] EXCEPT !.revoked_at = at] \in Row
  BY DEF TypeOK, Row
<1>2. QED
  BY <1>1 DEF TypeOK, RevokeRows

\* What ReuseRevoke and RevokeAll have in common: they revoke live rows.
LEMMA RevokesLive ==
  ASSUME TypeOK, NEW r \in Requests, Revoke(r)
  PROVE  \E S \in SUBSET TokenId, at \in Time :
           /\ RevokeRows(r, S, at)
           /\ \A t \in S : Live(refresh_tokens[t])
           /\ \/ /\ FamilyUnlocked(r, req[r].family)
                 /\ \A t \in S : refresh_tokens[t].family_id = req[r].family
              \/ /\ PrincipalUnlocked(r, req[r].principal)
                 /\ \A t \in S : refresh_tokens[t].principal_id = req[r].principal
<1>1. CASE ReuseRevoke(r)
  <2> DEFINE S == LiveOfFamily(req[r].family)
  <2>1. /\ RevokeRows(r, S, req[r].now) /\ req[r].now \in Time
        /\ FamilyUnlocked(r, req[r].family)
    BY <1>1 DEF ReuseRevoke, TypeOK, Carries
  <2>2. S \in SUBSET TokenId
    BY DEF LiveOfFamily
  <2>3. \A t \in S : /\ Live(refresh_tokens[t])
                     /\ refresh_tokens[t].family_id = req[r].family
    BY DEF LiveOfFamily
  <2>4. QED
    <3> HIDE DEF S
    <3>1. QED BY <2>1, <2>2, <2>3
<1>2. CASE RevokeAll(r)
  <2> DEFINE S == LiveOfPrincipal(req[r].principal)
  <2>1. /\ RevokeRows(r, S, now) /\ now \in Time
        /\ PrincipalUnlocked(r, req[r].principal)
    BY <1>2 DEF RevokeAll, TypeOK
  <2>2. S \in SUBSET TokenId
    BY DEF LiveOfPrincipal
  <2>3. \A t \in S : /\ Live(refresh_tokens[t])
                     /\ refresh_tokens[t].principal_id = req[r].principal
    BY DEF LiveOfPrincipal
  <2>4. QED
    <3> HIDE DEF S
    <3>1. QED BY <2>1, <2>2, <2>3
<1>3. QED
  BY <1>1, <1>2 DEF Revoke

LEMMA TypeStep == TypeOK /\ [Next]_vars => TypeOK'
<1> SUFFICES ASSUME TypeOK, [Next]_vars PROVE TypeOK'
  OBVIOUS
<1>1. CASE UNCHANGED vars
  BY <1>1 DEF vars, TypeOK
<1>2. CASE Tick
  BY <1>2 DEF Tick, TypeOK
<1>3. ASSUME NEW r \in Requests, Read(r) PROVE TypeOK'
  <2>1. PICK q \in Request : req' = [req EXCEPT ![r] = q] /\ Carries(q)
    BY <1>3, ReadStep
  <2>2. UNCHANGED << refresh_tokens, accounts, written, next_id, now >>
    BY <1>3, ReadStep
  <2>3. QED
    BY <2>1, <2>2 DEF TypeOK
<1>4. ASSUME NEW r \in Requests, Issue(r) PROVE TypeOK'
  <2>1. CASE LoginIssue(r)
    <3>1. next_id \in TokenId /\ req[r].principal \in Principals
      BY <2>1 DEF LoginIssue, Insert, TypeOK, Carries
    <3>2. written' \in [Requests -> [TokenId -> Row \cup {None}]]
      BY <2>1, <3>1, NewRowType DEF LoginIssue, Insert, TypeOK
    <3> DEFINE q0 == [req[r] EXCEPT !.pc = "commit", !.family = next_id,
                                    !.new = next_id]
    <3>3. q0 \in Request /\ Carries(q0)
      BY <2>1, <3>1 DEF LoginIssue, TypeOK, Request, Labels, Carries
    <3>4. req' = [req EXCEPT ![r] = q0]
      BY <2>1 DEF LoginIssue
    <3>5. QED
      BY <2>1, <3>1, <3>2, <3>3, <3>4, SlotType DEF LoginIssue, Insert, TypeOK
  <2>2. CASE RefreshIssue(r)
    <3>1. /\ next_id \in TokenId /\ req[r].principal \in Principals
          /\ req[r].family \in TokenId
      BY <2>2 DEF RefreshIssue, Insert, TypeOK, Carries
    <3>2. written' \in [Requests -> [TokenId -> Row \cup {None}]]
      BY <2>2, <3>1, NewRowType DEF RefreshIssue, Insert, TypeOK
    <3> DEFINE q0 == [req[r] EXCEPT !.pc = "consume", !.new = next_id]
    <3>3. q0 \in Request /\ Carries(q0)
      BY <2>2, <3>1 DEF RefreshIssue, TypeOK, Request, Labels, Carries
    <3>4. req' = [req EXCEPT ![r] = q0]
      BY <2>2 DEF RefreshIssue
    <3>5. QED
      BY <2>2, <3>1, <3>2, <3>3, <3>4, SlotType DEF RefreshIssue, Insert, TypeOK
  <2>3. QED
    BY <1>4, <2>1, <2>2 DEF Issue
<1>5. ASSUME NEW r \in Requests, RefreshConsume(r) PROVE TypeOK'
  <2>1. /\ req[r].now \in Time \cup {Null} /\ req[r].new \in TokenId \cup {Null}
        /\ refresh_tokens[req[r].token] # None
    BY <1>5 DEF RefreshConsume, TypeOK, Live, Request
  <2> DEFINE row == [refresh_tokens[req[r].token] EXCEPT
                       !.revoked_at = req[r].now, !.replaced_by_id = req[r].new]
  <2>2. req[r].token \in TokenId => row \in Row
    BY <2>1, RowUpdates DEF TypeOK
  <2>3. written' \in [Requests -> [TokenId -> Row \cup {None}]]
    BY <1>5, <2>2 DEF RefreshConsume, TypeOK
  <2>4. QED
    BY <1>5, <2>3, RelabelType DEF RefreshConsume, TypeOK, Labels
<1>6. ASSUME NEW r \in Requests, Revoke(r) PROVE TypeOK'
  <2>1. written' \in [Requests -> [TokenId -> Row \cup {None}]]
    <3>1. PICK S \in SUBSET TokenId, at \in Time :
            RevokeRows(r, S, at) /\ \A t \in S : Live(refresh_tokens[t])
      BY <1>6, RevokesLive
    <3>2. \A t \in S : refresh_tokens[t] # None
      BY <3>1 DEF Live
    <3>3. QED
      BY <3>1, <3>2, RevokeRowsType
  <2>2. QED
    BY <1>6, <2>1, RelabelType DEF Revoke, ReuseRevoke, RevokeAll, TypeOK, Labels
<1>7. ASSUME NEW r \in Requests, Commit(r) PROVE TypeOK'
  <2>1. refresh_tokens' \in [TokenId -> Row \cup {None}]
    BY <1>7, VersionType DEF Commit
  <2>2. accounts' \in [Principals -> SUBSET Flags]
    <3>1. \A op, flags : flags \in SUBSET Flags => AccountAfter(op, flags) \in SUBSET Flags
      BY DEF AccountAfter, Flags
    <3>2. QED
      BY <1>7, <3>1 DEF Commit, TypeOK
  <2>3. AfterCommit(req[r].op, req[r].principal) \in Labels \ {"consume"}
    BY DEF AfterCommit, Labels
  <2>4. QED
    BY <1>7, <2>1, <2>2, <2>3, ReleaseTypes DEF Commit, TypeOK
<1>8. ASSUME NEW r \in Requests, GiveUp(r) PROVE TypeOK'
  <2>1. Release(r, "idle") /\ UNCHANGED << refresh_tokens, accounts, next_id, now >>
    BY <1>8 DEF GiveUp, RefreshLost, Kick, DbError
  <2>2. QED
    BY <2>1, ReleaseTypes DEF TypeOK, Labels
<1>9. ASSUME NEW r \in Requests, Direct(r) PROVE TypeOK'
  <2>1. CASE LogoutMark(r)
    <3>1. refresh_tokens' \in [TokenId -> Row \cup {None}]
      BY <2>1 DEF LogoutMark, TypeOK, Row
    <3>2. QED
      BY <2>1, <3>1, ReleaseTypes DEF LogoutMark, TypeOK, Labels
  <2>2. CASE PurgeExpired(r)
    <3>1. \A t \in TokenId : refresh_tokens[t] # None =>
            [refresh_tokens[t] EXCEPT !.replaced_by_id = Null] \in Row
      BY DEF TypeOK, Row
    <3>2. refresh_tokens' \in [TokenId -> Row \cup {None}]
      BY <2>2, <3>1 DEF PurgeExpired, TypeOK
    <3>3. QED
      BY <2>2, <3>2, ReleaseTypes DEF PurgeExpired, TypeOK, Labels
  <2>3. CASE UserDeleteCommit(r)
    BY <2>3, ReleaseTypes DEF UserDeleteCommit, TypeOK, Labels, Flags
  <2>4. QED
    BY <1>9, <2>1, <2>2, <2>3 DEF Direct
<1>10. QED
  BY <1>1, <1>2, <1>3, <1>4, <1>5, <1>6, <1>7, <1>8, <1>9, Steps

\* Every variable keeps its type, and every request carries what its operation
\* needs.
THEOREM TypeCorrect == Spec => []TypeOK
BY TypeInit, TypeStep, PTL DEF Spec

-----------------------------------------------------------------------------
(* The inductive invariant *)

LEMMA InvInit == Init => RowInv
<1> SUFFICES ASSUME Init PROVE RowInv
  OBVIOUS
<1>1. TypeOK
  BY TypeInit
<1>2. FreshIds /\ OneWriter /\ WritesAccounted
  BY DEF Init, FreshIds, OneWriter, WritesAccounted, NoRows, Idle
<1>3. OpeningIsPrivate /\ RefreshHoldsToken
  BY DEF Init, OpeningIsPrivate, RefreshHoldsToken, Opening, Idle
<1>4. OneLivePerFamily
  BY DEF Init, OneLivePerFamily, NoRows, Live
<1>5. QED
  BY <1>1, <1>2, <1>3, <1>4 DEF RowInv

\* The ids the state holds are numbers, and a refresh names a row.
LEMMA Numbers ==
  ASSUME TypeOK
  PROVE  /\ next_id \in Nat
         /\ \A q \in Requests : /\ req[q].token \in Nat /\ req[q].family \in Nat
                                /\ req[q].new \in Nat
                                /\ req[q].op = "refresh" => req[q].token \in TokenId
         /\ \A t \in TokenId : refresh_tokens[t] # None =>
                               refresh_tokens[t].family_id \in TokenId
<1>1. next_id \in Nat
  BY DEF TypeOK
<1>2. ASSUME NEW q \in Requests
      PROVE  /\ req[q].token \in Nat /\ req[q].family \in Nat /\ req[q].new \in Nat
             /\ req[q].op = "refresh" => req[q].token \in TokenId
  BY DEF TypeOK, Request, Carries
<1>3. \A t \in TokenId : refresh_tokens[t] # None =>
                         refresh_tokens[t].family_id \in TokenId
  BY DEF TypeOK, Row
<1>4. QED
  BY <1>1, <1>2, <1>3

\* A request writes rows only between its first write and its commit.
LEMMA WritesNothing ==
  ASSUME RowInv, NEW r \in Requests, req[r].pc \notin {"consume", "commit"}
  PROVE  \A t \in TokenId : written[r][t] = None
BY DEF RowInv, WritesAccounted, Inserting, Revoking

LEMMA ReadInv ==
  ASSUME RowInv, TypeOK', NEW r \in Requests, Read(r)
  PROVE  RowInv'
<1>1. PICK q \in Request :
        /\ req' = [req EXCEPT ![r] = q]
        /\ q.new = Null
        /\ q.op \in {"login", "refresh"} => q.pc = "issue"
        /\ \/ q.token = Null
           \/ q.token \in TokenId /\ refresh_tokens[q.token] # None
        /\ \/ q.family = Null
           \/ \E t \in TokenId : /\ refresh_tokens[t] # None
                                 /\ q.family = refresh_tokens[t].family_id
        /\ q.op = "refresh" =>
             /\ refresh_tokens[q.token] # None
             /\ refresh_tokens[q.token].family_id = q.family
  BY ReadStep DEF RowInv
<1>2. /\ UNCHANGED << refresh_tokens, written, next_id >>
      /\ req[r].pc = "idle"
  BY ReadStep DEF RowInv
<1>3. \A t \in TokenId : written[r][t] = None
  BY <1>2, WritesNothing
<1>4. req'[r] = q /\ \A p \in Requests \ {r} : req'[p] = req[p]
  BY <1>1 DEF RowInv, TypeOK
<1>5. FreshIds'
  BY <1>1, <1>2, <1>4 DEF RowInv, TypeOK, FreshIds
<1>6. OneWriter'
  BY <1>2 DEF RowInv, OneWriter
<1>7. WritesAccounted'
  BY <1>2, <1>3, <1>4 DEF RowInv, WritesAccounted, Inserting, Revoking
<1>8. OpeningIsPrivate'
  BY <1>1, <1>2, <1>4 DEF RowInv, OpeningIsPrivate, Opening
<1>9. RefreshHoldsToken'
  BY <1>1, <1>2, <1>4 DEF RowInv, RefreshHoldsToken, Revoking
<1>10. OneLivePerFamily'
  BY <1>2 DEF RowInv, OneLivePerFamily
<1>11. QED
  BY <1>5, <1>6, <1>7, <1>8, <1>9, <1>10 DEF RowInv

LEMMA IssueInv ==
  ASSUME RowInv, TypeOK', NEW r \in Requests, Issue(r)
  PROVE  RowInv'
<1>1. PICK p \in Principals, f \in TokenId :
        /\ written' = [written EXCEPT ![r][next_id] = NewRow(p, f)]
        /\ \/ /\ req[r].op = "login" /\ f = next_id
              /\ req' = [req EXCEPT ![r].pc = "commit", ![r].family = f,
                                    ![r].new = next_id]
           \/ /\ req[r].op = "refresh" /\ f = req[r].family
              /\ req' = [req EXCEPT ![r].pc = "consume", ![r].new = next_id]
  <2>1. CASE LoginIssue(r)
    <3>1. req[r].principal \in Principals /\ next_id \in TokenId
      BY <2>1 DEF LoginIssue, Insert, RowInv, TypeOK, Carries
    <3>2. QED
      BY <2>1, <3>1 DEF LoginIssue, Insert
  <2>2. CASE RefreshIssue(r)
    <3>1. req[r].principal \in Principals /\ req[r].family \in TokenId
      BY <2>2 DEF RefreshIssue, RowInv, TypeOK, Carries
    <3>2. QED
      BY <2>2, <3>1 DEF RefreshIssue, Insert
  <2>3. QED
    BY <2>1, <2>2 DEF Issue
<1>2. /\ next_id \in TokenId /\ next_id' = next_id + 1
      /\ req[r].pc = "issue"
      /\ UNCHANGED refresh_tokens
  BY DEF Issue, LoginIssue, RefreshIssue, Insert, RowInv, TypeOK
<1>3. /\ NewRow(p, f) # None /\ Live(NewRow(p, f))
      /\ NewRow(p, f).family_id = f
  BY <1>1, NewRowType DEF RowInv
<1>4. \A t \in TokenId : written[r][t] = None
  BY <1>2, WritesNothing
<1>5. /\ written'[r][next_id] = NewRow(p, f)
      /\ \A t \in TokenId \ {next_id} : written'[r][t] = None
      /\ \A q \in Requests \ {r} : written'[q] = written[q]
  BY <1>1, <1>2, <1>4 DEF RowInv, TypeOK
<1>6. /\ \A q \in Requests \ {r} : req'[q] = req[q]
      /\ req'[r].op = req[r].op /\ req'[r].token = req[r].token
      /\ req'[r].new = next_id /\ req'[r].family = f
      /\ \/ req[r].op = "login" /\ req'[r].pc = "commit" /\ f = next_id
         \/ /\ req[r].op = "refresh" /\ req'[r].pc = "consume"
            /\ f = req[r].family
  BY <1>1 DEF RowInv, TypeOK, Request
<1> USE DEF RowInv
<1>7. FreshIds'
  BY <1>2, <1>5, <1>6, Numbers DEF FreshIds
<1>8. OneWriter'
  BY <1>2, <1>5 DEF OneWriter, FreshIds
<1>9. WritesAccounted'
  BY <1>2, <1>3, <1>5, <1>6 DEF WritesAccounted, Inserting, Revoking, FreshIds
<1>10. OpeningIsPrivate'
  BY <1>2, <1>6, Numbers DEF OpeningIsPrivate, Opening, FreshIds
<1>11. RefreshHoldsToken'
  BY <1>2, <1>5, <1>6, Numbers DEF RefreshHoldsToken, Revoking, FreshIds
<1>12. OneLivePerFamily'
  BY <1>2 DEF OneLivePerFamily
<1>13. QED
  BY <1>7, <1>8, <1>9, <1>10, <1>11, <1>12

LEMMA ConsumeInv ==
  ASSUME RowInv, TypeOK', NEW r \in Requests, RefreshConsume(r)
  PROVE  RowInv'
<1> USE DEF RowInv
<1> DEFINE t == req[r].token
           row == [refresh_tokens[t] EXCEPT !.revoked_at = req[r].now,
                                            !.replaced_by_id = req[r].new]
<1>1. /\ req[r].op = "refresh" /\ req[r].pc = "consume" /\ t \in TokenId
      /\ req[r].now \in Time /\ req[r].new \in TokenId \cup {Null}
      /\ Live(refresh_tokens[t]) /\ refresh_tokens[t] \in Row
  BY DEF RefreshConsume, TypeOK, Carries, Request, Live
<1>2. /\ row \in Row /\ row # None /\ row.revoked_at # Null
      /\ row.family_id = refresh_tokens[t].family_id
      /\ row.principal_id = refresh_tokens[t].principal_id
  <2>1. row \in Row
    BY <1>1, RowUpdates
  <2>2. /\ row.revoked_at = req[r].now
        /\ row.family_id = refresh_tokens[t].family_id
        /\ row.principal_id = refresh_tokens[t].principal_id
    BY <1>1 DEF Row
  <2> HIDE DEF row
  <2>3. QED
    BY <1>1, <2>1, <2>2
<1>3. /\ written'[r][t] = row
      /\ \A u \in TokenId \ {t} : written'[r][u] = written[r][u]
      /\ \A q \in Requests \ {r} : written'[q] = written[q]
      /\ UNCHANGED << refresh_tokens, next_id >>
  BY <1>1 DEF RefreshConsume, TypeOK
<1>4. \A q \in Requests \ {r} : written[q][t] = None
  BY DEF RefreshConsume, LockedByOther, Holds
<1>5. /\ \A q \in Requests \ {r} : req'[q] = req[q]
      /\ req'[r].op = "refresh" /\ req'[r].pc = "commit"
      /\ req'[r].token = t /\ req'[r].family = req[r].family
      /\ req'[r].new = req[r].new
  BY <1>1 DEF RefreshConsume, TypeOK, Request
<1> HIDE DEF row
<1>6. FreshIds'
  BY <1>1, <1>3, <1>5 DEF FreshIds, Live
<1>7. OneWriter'
  BY <1>3, <1>4 DEF OneWriter
<1>8. WritesAccounted'
  BY <1>1, <1>2, <1>3, <1>5 DEF WritesAccounted, Inserting, Revoking
<1>9. OpeningIsPrivate'
  BY <1>1, <1>3, <1>5 DEF OpeningIsPrivate, Opening
<1>10. RefreshHoldsToken'
  BY <1>1, <1>2, <1>3, <1>5, Numbers DEF RefreshHoldsToken, Revoking, Live
<1>11. OneLivePerFamily'
  BY <1>3 DEF OneLivePerFamily
<1>12. QED
  BY <1>6, <1>7, <1>8, <1>9, <1>10, <1>11

LEMMA RevokeInv ==
  ASSUME RowInv, TypeOK', NEW r \in Requests, Revoke(r)
  PROVE  RowInv'
<1> USE DEF RowInv
<1>1. PICK S \in SUBSET TokenId, at \in Time :
           /\ RevokeRows(r, S, at)
           /\ \A t \in S : Live(refresh_tokens[t])
           /\ \/ /\ FamilyUnlocked(r, req[r].family)
                 /\ \A t \in S : refresh_tokens[t].family_id = req[r].family
              \/ /\ PrincipalUnlocked(r, req[r].principal)
                 /\ \A t \in S : refresh_tokens[t].principal_id = req[r].principal
  BY RevokesLive
<1>2. /\ req[r].pc = "revoke" /\ req[r].op \notin {"login", "refresh"}
      /\ req' = [req EXCEPT ![r].pc = "commit"]
      /\ UNCHANGED << refresh_tokens, next_id >>
  BY DEF Revoke, ReuseRevoke, RevokeAll, RevokeAllOps
<1>3. \A t \in S, q \in Requests \ {r} : written[q][t] = None
  <2> SUFFICES ASSUME NEW t \in S, NEW q \in Requests \ {r}, written[q][t] # None
               PROVE  FALSE
    OBVIOUS
  <2>1. Revoking(q, t)
    BY <1>1 DEF WritesAccounted, Inserting, Live
  <2>2. Holds(q, t) /\ Version(q, t) = written[q][t]
    BY DEF Holds, Version
  <2>3. QED
    BY <1>1, <2>1, <2>2 DEF Revoking, FamilyUnlocked, PrincipalUnlocked
<1>4. \A t \in S : /\ written'[r][t] # None
                   /\ written'[r][t].revoked_at = at
                   /\ written'[r][t].family_id = refresh_tokens[t].family_id
                   /\ written'[r][t].principal_id = refresh_tokens[t].principal_id
  <2> SUFFICES ASSUME NEW t \in S
               PROVE  /\ written'[r][t] # None
                      /\ written'[r][t].revoked_at = at
                      /\ written'[r][t].family_id = refresh_tokens[t].family_id
                      /\ written'[r][t].principal_id = refresh_tokens[t].principal_id
    OBVIOUS
  <2>1. refresh_tokens[t] \in Row
    BY <1>1 DEF TypeOK, Live
  <2>2. written'[r][t] = [refresh_tokens[t] EXCEPT !.revoked_at = at]
    BY <1>1 DEF RevokeRows, TypeOK
  <2>3. [refresh_tokens[t] EXCEPT !.revoked_at = at] \in Row
    BY <2>1, RowUpdates
  <2>4. QED
    BY <2>1, <2>2, <2>3 DEF Row
<1>5. /\ \A t \in TokenId \ S : written'[r][t] = None
      /\ \A q \in Requests \ {r} : written'[q] = written[q]
  BY <1>1 DEF RevokeRows, TypeOK
<1>6. /\ \A q \in Requests \ {r} : req'[q] = req[q]
      /\ req'[r].op = req[r].op /\ req'[r].pc = "commit"
      /\ req'[r].token = req[r].token /\ req'[r].family = req[r].family
      /\ req'[r].new = req[r].new
  BY <1>2 DEF TypeOK, Request
<1>7. FreshIds'
  BY <1>1, <1>2, <1>5, <1>6 DEF FreshIds, Live
<1>8. OneWriter'
  BY <1>3, <1>5 DEF OneWriter
<1>9. WritesAccounted'
  BY <1>1, <1>2, <1>4, <1>5, <1>6 DEF WritesAccounted, Inserting, Revoking
<1>10. OpeningIsPrivate'
  BY <1>2, <1>6 DEF OpeningIsPrivate, Opening
<1>11. RefreshHoldsToken'
  BY <1>1, <1>2, <1>5, <1>6, Numbers DEF RefreshHoldsToken, Revoking, Live
<1>12. OneLivePerFamily'
  BY <1>2 DEF OneLivePerFamily
<1>13. QED
  BY <1>7, <1>8, <1>9, <1>10, <1>11, <1>12

LEMMA CommitInv ==
  ASSUME RowInv, TypeOK', NEW r \in Requests, Commit(r)
  PROVE  RowInv'
<1> USE DEF RowInv
<1>1. /\ req[r].pc = "commit" /\ UNCHANGED next_id
      /\ \A t \in TokenId : refresh_tokens'[t] = Version(r, t)
  BY DEF Commit
<1>2. /\ \A t \in TokenId : written'[r][t] = None
      /\ \A q \in Requests \ {r} : written'[q] = written[q]
      /\ \A q \in Requests \ {r} : req'[q] = req[q]
      /\ req'[r].op = "none" /\ req'[r].token = Null
      /\ req'[r].family = Null /\ req'[r].new = Null
  BY DEF Commit, Release, NoRows, Idle, TypeOK
\* What the commit makes of row t.
<1>3. \A t \in TokenId :
        \/ written[r][t] = None /\ refresh_tokens'[t] = refresh_tokens[t]
        \/ /\ Inserting(r, t) /\ refresh_tokens'[t] = written[r][t]
           /\ written[r][t] # None
        \/ /\ Revoking(r, t) /\ refresh_tokens'[t] = written[r][t]
           /\ written[r][t] # None
  BY <1>1 DEF Version, WritesAccounted
<1>4. FreshIds'
  BY <1>1, <1>2, <1>3, Numbers DEF FreshIds, Inserting, Revoking, Live
<1>5. OneWriter'
  BY <1>2 DEF OneWriter
<1>6. WritesAccounted'
  BY <1>2, <1>3 DEF WritesAccounted, OneWriter, Inserting, Revoking
<1>7. OpeningIsPrivate'
  BY <1>2, <1>3 DEF OpeningIsPrivate, Opening, Inserting, Revoking, Live
<1>8. RefreshHoldsToken'
  BY <1>2, <1>3, Numbers
     DEF RefreshHoldsToken, OneWriter, Inserting, Revoking, Live
<1>9. OneLivePerFamily'
  <2> SUFFICES ASSUME NEW t \in TokenId, NEW u \in TokenId,
                      Live(refresh_tokens'[t]), Live(refresh_tokens'[u]),
                      refresh_tokens'[t].family_id = refresh_tokens'[u].family_id
               PROVE  t = u
    BY DEF OneLivePerFamily
  \* A live row after the commit was live before, or is the one inserted.
  <2>1. ASSUME NEW s \in TokenId, Live(refresh_tokens'[s])
        PROVE  \/ Inserting(r, s) /\ refresh_tokens'[s].family_id = req[r].family
               \/ /\ written[r][s] = None /\ Live(refresh_tokens[s])
                  /\ refresh_tokens'[s] = refresh_tokens[s]
    BY <1>3, <2>1 DEF Inserting, Revoking, Live
  \* An inserted row is the only live one of its family.
  <2>2. ASSUME NEW s \in TokenId, NEW o \in TokenId, Inserting(r, s),
               written[r][o] = None, Live(refresh_tokens[o]),
               refresh_tokens[o].family_id = req[r].family
        PROVE  FALSE
    <3>1. CASE req[r].op = "login"
      BY <1>1, <2>2, <3>1 DEF OpeningIsPrivate, Opening, Inserting, Live
    <3>2. CASE req[r].op = "refresh"
      <4> DEFINE old == req[r].token
      <4>1. /\ old \in TokenId /\ written[r][old] # None
            /\ Live(refresh_tokens[old])
            /\ refresh_tokens[old].family_id = req[r].family
        BY <1>1, <3>2 DEF RefreshHoldsToken, Revoking, Live, TypeOK, Carries
      <4>2. old = o
        BY <2>2, <4>1 DEF OneLivePerFamily
      <4>3. QED
        BY <2>2, <4>1, <4>2
    <3>3. QED
      BY <2>2, <3>1, <3>2 DEF Inserting
  <2>3. QED
    BY <2>1, <2>2 DEF Inserting, OneLivePerFamily
<1>10. QED
  BY <1>4, <1>5, <1>6, <1>7, <1>8, <1>9

\* The steps that insert nothing and end their transaction: they keep, remove
\* or revoke rows, and touch no row another request has written.
LEMMA WithdrawStep ==
  ASSUME RowInv, NEW r \in Requests, GiveUp(r) \/ Direct(r)
  PROVE  /\ \E pc \in Labels : Release(r, pc)
         /\ UNCHANGED << next_id, now >>
         /\ \A t \in TokenId :
              /\ refresh_tokens'[t] # None =>
                   /\ refresh_tokens[t] # None
                   /\ refresh_tokens'[t].family_id = refresh_tokens[t].family_id
                   /\ refresh_tokens'[t].principal_id
                        = refresh_tokens[t].principal_id
              /\ Live(refresh_tokens'[t]) => Live(refresh_tokens[t])
              /\ (\E q \in Requests \ {r} : written[q][t] # None)
                   => /\ refresh_tokens[t] # None => refresh_tokens'[t] # None
                      /\ Live(refresh_tokens[t]) => Live(refresh_tokens'[t])
<1> USE DEF RowInv
<1>1. CASE GiveUp(r)
  <2>1. Release(r, "idle") /\ UNCHANGED << refresh_tokens, next_id, now >>
    BY <1>1 DEF GiveUp, RefreshLost, Kick, DbError
  <2>2. QED
    BY <2>1 DEF Labels
<1>2. CASE LogoutMark(r)
  <2> DEFINE u == req[r].token
  <2>1. /\ Release(r, "kick") /\ UNCHANGED << next_id, now >>
        /\ refresh_tokens[u] # None
        /\ refresh_tokens' = [refresh_tokens EXCEPT ![u].revoked_at = now]
        /\ \A q \in Requests \ {r} : written[q][u] = None
    BY <1>2 DEF LogoutMark, LockedByOther, Holds
  <2>2. u \in TokenId =>
          LET row == [refresh_tokens[u] EXCEPT !.revoked_at = now] IN
          /\ row # None /\ ~Live(row)
          /\ row.family_id = refresh_tokens[u].family_id
          /\ row.principal_id = refresh_tokens[u].principal_id
    BY <2>1, Revoked DEF TypeOK
  <2>3. \A v \in TokenId : refresh_tokens'[v] =
          IF v = u THEN [refresh_tokens[u] EXCEPT !.revoked_at = now]
                   ELSE refresh_tokens[v]
    BY <2>1 DEF TypeOK
  <2>4. QED
    BY <2>1, <2>2, <2>3 DEF Labels
<1>3. CASE PurgeExpired(r)
  <2>1. /\ Release(r, "idle") /\ UNCHANGED << next_id, now >>
        /\ \A v \in TokenId :
             \/ refresh_tokens'[v] = refresh_tokens[v]
             \/ refresh_tokens'[v] = None /\ refresh_tokens[v] # None
                /\ Expired(refresh_tokens[v], now)
             \/ /\ refresh_tokens[v] # None
                /\ refresh_tokens'[v]
                     = [refresh_tokens[v] EXCEPT !.replaced_by_id = Null]
    BY <1>3 DEF PurgeExpired
  <2>2. \A v \in TokenId : refresh_tokens[v] # None =>
          LET row == [refresh_tokens[v] EXCEPT !.replaced_by_id = Null] IN
          /\ row # None /\ row.revoked_at = refresh_tokens[v].revoked_at
          /\ row.family_id = refresh_tokens[v].family_id
          /\ row.principal_id = refresh_tokens[v].principal_id
    BY Unlinked DEF TypeOK
  <2>3. \A v \in TokenId :
          /\ \E q \in Requests \ {r} : written[q][v] # None
          /\ refresh_tokens[v] # None
          => ~Expired(refresh_tokens[v], now)
    BY <1>3 DEF PurgeExpired, LockedByOther, Holds
  <2>4. Live(None) = FALSE
    BY DEF Live
  <2>5. QED
    BY <2>1, <2>2, <2>3, <2>4 DEF Labels, Live
<1>4. CASE UserDeleteCommit(r)
  <2> DEFINE p == req[r].principal
  <2>1. /\ Release(r, "idle") /\ UNCHANGED << next_id, now >>
        /\ \A v \in TokenId :
             \/ refresh_tokens'[v] = refresh_tokens[v]
             \/ /\ refresh_tokens'[v] = None /\ refresh_tokens[v] # None
                /\ refresh_tokens[v].principal_id = p
    BY <1>4 DEF UserDeleteCommit
  <2>2. ASSUME NEW v \in TokenId, NEW q \in Requests \ {r},
               written[q][v] # None, refresh_tokens[v] # None
        PROVE  refresh_tokens[v].principal_id # p
    <3>1. Revoking(q, v)
      BY <2>2 DEF WritesAccounted, Inserting
    <3>2. Holds(q, v) /\ Version(q, v) = written[q][v]
      BY <2>2 DEF Holds, Version
    <3>3. QED
      BY <1>4, <3>1, <3>2 DEF UserDeleteCommit, PrincipalUnlocked, Revoking
  <2>3. QED
    BY <2>1, <2>2 DEF Labels, Live
<1>5. QED
  BY <1>1, <1>2, <1>3, <1>4 DEF Direct

LEMMA WithdrawInv ==
  ASSUME RowInv, TypeOK', NEW r \in Requests, GiveUp(r) \/ Direct(r)
  PROVE  RowInv'
<1> USE DEF RowInv
<1>1. /\ \A t \in TokenId : written'[r][t] = None
      /\ \A q \in Requests \ {r} : written'[q] = written[q]
      /\ \A q \in Requests \ {r} : req'[q] = req[q]
      /\ req'[r].op = "none" /\ req'[r].token = Null
      /\ req'[r].family = Null /\ req'[r].new = Null
  BY WithdrawStep DEF Release, NoRows, Idle, TypeOK
<1>2. UNCHANGED next_id
  BY WithdrawStep
<1>3. FreshIds'
  BY <1>1, <1>2, WithdrawStep, Numbers DEF FreshIds
<1>4. OneWriter'
  BY <1>1 DEF OneWriter
<1>5. WritesAccounted'
  BY <1>1, WithdrawStep DEF WritesAccounted, Inserting, Revoking, Live
<1>6. OpeningIsPrivate'
  BY <1>1, WithdrawStep DEF OpeningIsPrivate, Opening
<1>7. RefreshHoldsToken'
  <2> DEFINE Held(p) ==
        LET t == req'[p].token IN
        /\ refresh_tokens'[t] # None =>
             refresh_tokens'[t].family_id = req'[p].family
        /\ refresh_tokens'[t] = None => \A q \in Requests : written'[q][t] = None
        /\ req'[p].pc = "commit" =>
             /\ written'[p][t] # None
             /\ Live(refresh_tokens'[t])
             /\ written'[p][t].revoked_at # Null
             /\ written'[p][t].family_id = refresh_tokens'[t].family_id
             /\ written'[p][t].principal_id = refresh_tokens'[t].principal_id
  <2>1. ASSUME NEW p \in Requests, req'[p].op = "refresh"
        PROVE  Held(p)
    <3> DEFINE t == req[p].token
    <3>1. p # r /\ req'[p] = req[p] /\ written'[p] = written[p]
      BY <1>1, <2>1
    <3>2. t \in TokenId
      BY <2>1, <3>1, Numbers
    <3>3. refresh_tokens'[t] # None =>
            refresh_tokens'[t].family_id = req[p].family
      BY <2>1, <3>1, <3>2, WithdrawStep DEF RefreshHoldsToken
    <3>4. refresh_tokens'[t] = None => \A q \in Requests : written'[q][t] = None
      BY <1>1, <2>1, <3>1, <3>2, WithdrawStep DEF RefreshHoldsToken
    <3>5. req[p].pc = "commit" =>
            /\ written[p][t] # None
            /\ Live(refresh_tokens[t])
            /\ written[p][t].revoked_at # Null
            /\ written[p][t].family_id = refresh_tokens[t].family_id
            /\ written[p][t].principal_id = refresh_tokens[t].principal_id
      BY <2>1, <3>1 DEF RefreshHoldsToken, Revoking
    <3>6. req[p].pc = "commit" =>
            /\ Live(refresh_tokens'[t])
            /\ refresh_tokens'[t].family_id = refresh_tokens[t].family_id
            /\ refresh_tokens'[t].principal_id = refresh_tokens[t].principal_id
      BY <3>1, <3>2, <3>5, WithdrawStep DEF Live
    <3>7. QED
      BY <3>1, <3>3, <3>4, <3>5, <3>6
  <2>2. QED
    BY <2>1 DEF RefreshHoldsToken, Revoking, Live
<1>8. OneLivePerFamily'
  BY WithdrawStep DEF OneLivePerFamily, Live
<1>9. QED
  BY <1>3, <1>4, <1>5, <1>6, <1>7, <1>8

LEMMA InvStep == RowInv /\ [Next]_vars => RowInv'
<1> SUFFICES ASSUME RowInv, [Next]_vars PROVE RowInv'
  OBVIOUS
<1>1. TypeOK'
  BY TypeStep DEF RowInv
<1>2. CASE UNCHANGED << refresh_tokens, written, req, next_id >>
  BY <1>1, <1>2
     DEF RowInv, FreshIds, OneWriter, WritesAccounted, OpeningIsPrivate,
         RefreshHoldsToken, OneLivePerFamily, Inserting, Revoking, Opening
<1>3. ASSUME NEW r \in Requests, Read(r) PROVE RowInv'
  BY <1>1, <1>3, ReadInv
<1>4. ASSUME NEW r \in Requests, Issue(r) PROVE RowInv'
  BY <1>1, <1>4, IssueInv
<1>5. ASSUME NEW r \in Requests, RefreshConsume(r) PROVE RowInv'
  BY <1>1, <1>5, ConsumeInv
<1>6. ASSUME NEW r \in Requests, Revoke(r) PROVE RowInv'
  BY <1>1, <1>6, RevokeInv
<1>7. ASSUME NEW r \in Requests, Commit(r) PROVE RowInv'
  BY <1>1, <1>7, CommitInv
<1>8. ASSUME NEW r \in Requests, GiveUp(r) \/ Direct(r) PROVE RowInv'
  BY <1>1, <1>8, WithdrawInv
<1>9. QED
  BY <1>2, <1>3, <1>4, <1>5, <1>6, <1>7, <1>8, Steps DEF Tick, vars

\* The inductive invariant holds of every reachable state.
THEOREM RowInvariant == Spec => []RowInv
BY InvInit, InvStep, PTL DEF Spec

\* However many requests run on however many instances, a session never has
\* two live refresh tokens.
THEOREM OneLive == Spec => []OneLivePerFamily
<1>1. RowInv => OneLivePerFamily
  BY DEF RowInv
<1>2. QED
  BY <1>1, RowInvariant, PTL

\* What a step may do to the committed rows: it leaves a row, removes it,
\* revokes it or keeps its revocation, or it is the commit that inserts it.
LEMMA RowsStep ==
  ASSUME RowInv, [Next]_vars, NEW t \in TokenId,
         refresh_tokens'[t] # refresh_tokens[t], refresh_tokens'[t] # None
  PROVE  \/ /\ refresh_tokens[t] # None
            /\ refresh_tokens'[t].family_id = refresh_tokens[t].family_id
            /\ Live(refresh_tokens'[t]) => Live(refresh_tokens[t])
         \/ \E r \in Requests :
              /\ Commit(r) /\ Inserting(r, t)
              /\ refresh_tokens'[t] = written[r][t]
<1>1. CASE UNCHANGED refresh_tokens
  BY <1>1
<1>2. ASSUME NEW r \in Requests,
             Read(r) \/ Issue(r) \/ RefreshConsume(r) \/ Revoke(r)
      PROVE  UNCHANGED refresh_tokens
  <2>1. Read(r) => UNCHANGED refresh_tokens
    BY ReadStep DEF RowInv
  <2>2. QED
    BY <1>2, <2>1 DEF Issue, LoginIssue, RefreshIssue, RefreshConsume,
                      Revoke, ReuseRevoke, RevokeAll
<1>3. ASSUME NEW r \in Requests, GiveUp(r) \/ Direct(r)
      PROVE  /\ refresh_tokens[t] # None
             /\ refresh_tokens'[t].family_id = refresh_tokens[t].family_id
             /\ Live(refresh_tokens'[t]) => Live(refresh_tokens[t])
  BY <1>3, WithdrawStep
<1>4. ASSUME NEW r \in Requests, Commit(r)
      PROVE  \/ /\ refresh_tokens[t] # None
                /\ refresh_tokens'[t].family_id = refresh_tokens[t].family_id
                /\ Live(refresh_tokens'[t]) => Live(refresh_tokens[t])
             \/ Inserting(r, t) /\ refresh_tokens'[t] = written[r][t]
  <2>1. /\ written[r][t] # None /\ refresh_tokens'[t] = written[r][t]
    BY <1>4 DEF Commit, Version
  <2>2. CASE Revoking(r, t)
    BY <2>1, <2>2 DEF Revoking, Live
  <2>3. QED
    BY <2>1, <2>2 DEF RowInv, WritesAccounted
<1>5. QED
  BY <1>1, <1>2, <1>3, <1>4, Steps DEF Tick, vars

\* A session without a live token is dead for good: no refresh in flight, no
\* restored or unarchived account brings it back, whatever the instances and
\* the order of their statements.
THEOREM DeadStaysDead == Spec => DeadFamilyStaysDead
<1>1. ASSUME RowInv, [Next]_vars, NEW f \in TokenId, f < next_id,
             ~LiveIn(refresh_tokens, f), \A r \in Requests : ~Opening(r, f)
      PROVE  ~LiveIn(refresh_tokens', f)
  <2> SUFFICES ASSUME NEW t \in TokenId, Live(refresh_tokens'[t]),
                      refresh_tokens'[t].family_id = f
               PROVE  FALSE
    BY DEF LiveIn
  <2>1. refresh_tokens'[t] # refresh_tokens[t] /\ refresh_tokens'[t] # None
    BY <1>1 DEF LiveIn, Live
  <2>2. PICK r \in Requests : /\ Commit(r) /\ Inserting(r, t)
                              /\ refresh_tokens'[t] = written[r][t]
    BY <1>1, <2>1, RowsStep DEF LiveIn
  <2>3. req[r].family = f /\ req[r].pc = "commit"
    BY <2>2 DEF Inserting, Commit
  \* A login that inserts into f is opening f.
  <2>4. CASE req[r].op = "login"
    <3>1. t = req[r].new
      BY <2>2 DEF Inserting
    <3>2. Opening(r, t)
      BY <2>4, <3>1 DEF Opening
    <3>3. req[r].family = t
      BY <1>1, <3>2 DEF RowInv, OpeningIsPrivate
    <3>4. QED
      BY <1>1, <2>3, <3>2, <3>3
  \* A refresh that inserts into f has consumed a token that is still live.
  <2>5. CASE req[r].op = "refresh"
    <3>1. /\ req[r].token \in TokenId
          /\ Live(refresh_tokens[req[r].token])
          /\ refresh_tokens[req[r].token].family_id = f
      BY <1>1, <2>3, <2>5, Numbers DEF RowInv, RefreshHoldsToken, Revoking, Live
    <3>2. QED
      BY <1>1, <3>1 DEF LiveIn
  <2>6. QED
    BY <2>2, <2>4, <2>5 DEF Inserting
<1>2. RowInv /\ [Next]_vars =>
        [\A f \in TokenId :
           /\ f < next_id /\ ~LiveIn(refresh_tokens, f)
           /\ \A r \in Requests : ~Opening(r, f)
           => ~LiveIn(refresh_tokens', f)]_vars
  BY <1>1
<1>3. QED
  BY <1>2, RowInvariant, PTL DEF Spec, DeadFamilyStaysDead

\* A token is exchanged once: a revoked row stays revoked and keeps its
\* successor until the purge of that one, and an id that is gone stays unused.
THEOREM TokensUsedOnce == Spec => TokensSingleUse
<1>1. ASSUME RowInv, [Next]_vars, NEW t \in TokenId,
             refresh_tokens[t] # None, ~Live(refresh_tokens[t]),
             refresh_tokens'[t] # None
      PROVE  /\ ~Live(refresh_tokens'[t])
             /\ \/ refresh_tokens'[t].replaced_by_id
                     = refresh_tokens[t].replaced_by_id
                \/ refresh_tokens'[t].replaced_by_id = Null
  <2>1. ~Live(refresh_tokens'[t])
    BY <1>1, RowsStep DEF Inserting
  <2>2. \A r \in Requests : written[r][t] = None
    BY <1>1 DEF RowInv, WritesAccounted, Inserting, Revoking
  <2>3. refresh_tokens[t] \in Row
    BY <1>1 DEF RowInv, TypeOK
  <2>4. ASSUME NEW r \in Requests, LogoutMark(r)
        PROVE  refresh_tokens'[t].replaced_by_id
                 = refresh_tokens[t].replaced_by_id
    BY <2>3, <2>4, <1>1 DEF LogoutMark, RowInv, TypeOK, Row
  <2>5. ASSUME NEW r \in Requests, PurgeExpired(r)
        PROVE  \/ refresh_tokens'[t] = refresh_tokens[t]
               \/ refresh_tokens'[t].replaced_by_id = Null
    BY <2>3, <2>5, <1>1 DEF PurgeExpired, Row
  <2>6. ASSUME NEW r \in Requests, UserDeleteCommit(r)
        PROVE  refresh_tokens'[t] = refresh_tokens[t]
    BY <2>6, <1>1 DEF UserDeleteCommit
  <2>7. ASSUME NEW r \in Requests, Commit(r)
        PROVE  refresh_tokens'[t] = refresh_tokens[t]
    BY <2>2, <2>7 DEF Commit, Version
  <2>8. ASSUME NEW r \in Requests,
               \/ Read(r) \/ Issue(r) \/ RefreshConsume(r) \/ Revoke(r)
               \/ GiveUp(r)
        PROVE  UNCHANGED refresh_tokens
    <3>1. Read(r) => UNCHANGED refresh_tokens
      BY <1>1, ReadStep DEF RowInv
    <3>2. QED
      BY <2>8, <3>1 DEF Issue, LoginIssue, RefreshIssue, RefreshConsume, Revoke,
                        ReuseRevoke, RevokeAll, GiveUp, RefreshLost, Kick, DbError
  <2>9. QED
    BY <1>1, <2>1, <2>4, <2>5, <2>6, <2>7, <2>8, Steps DEF Direct, Tick, vars
<1>2. ASSUME RowInv, [Next]_vars, NEW t \in TokenId, refresh_tokens[t] = None,
             \A r \in Requests : written[r][t] = None
      PROVE  refresh_tokens'[t] = None
  <2>1. \A r \in Requests : ~Inserting(r, t)
    BY <1>2 DEF Inserting, Live
  <2>2. QED
    BY <1>2, <2>1, RowsStep
<1>3. RowInv /\ [Next]_vars =>
        [\A t \in TokenId :
           /\ refresh_tokens[t] # None /\ ~Live(refresh_tokens[t]) =>
                \/ refresh_tokens'[t] = None
                \/ /\ ~Live(refresh_tokens'[t])
                   /\ \/ refresh_tokens'[t].replaced_by_id
                           = refresh_tokens[t].replaced_by_id
                      \/ refresh_tokens'[t].replaced_by_id = Null
           /\ /\ refresh_tokens[t] = None /\ t < next_id
              /\ \A r \in Requests : written[r][t] = None
              => refresh_tokens'[t] = None]_vars
  BY <1>1, <1>2
<1>4. QED
  BY <1>3, RowInvariant, PTL DEF Spec, TokensSingleUse

-----------------------------------------------------------------------------
(* Owners, range locks and accounts *)

LEMMA OwnInit == Init => IInv
<1> SUFFICES ASSUME Init PROVE IInv
  OBVIOUS
<1>1. RowInv
  BY InvInit
<1>2. /\ \A r \in Requests : req[r].op = "none" /\ req[r].pc = "idle"
      /\ \A r \in Requests, t \in TokenId : written[r][t] = None
      /\ \A t \in TokenId : refresh_tokens[t] = None
  BY DEF Init, Idle, NoRows
<1>3. QED
  BY <1>1, <1>2
     DEF IInv, InsertStands, WritesOwned, RefreshEntitled, RangesSwept, RangesShut,
         UserOps, Inserting, Live

LEMMA ReadOwn ==
  ASSUME IInv, RowInv', NEW r \in Requests, Read(r)
  PROVE  IInv'
<1> USE DEF IInv
<1>1. PICK q \in Request :
        /\ req' = [req EXCEPT ![r] = q]
        /\ q.new = Null /\ q.pc # "idle"
        /\ q.op \in {"login", "refresh"} => q.pc = "issue"
        /\ q.op = "refresh" =>
             /\ refresh_tokens[q.token] # None
             /\ refresh_tokens[q.token].principal_id = q.principal
             /\ IsActive(q.principal)
        /\ q.pc = "commit" => q.op \notin RevokeAllOps \cup {"reuse"}
        /\ q.op \in {"deactivate", "user_delete"} => q.principal \in Users
  BY ReadStep DEF RowInv
<1>2. /\ UNCHANGED << refresh_tokens, accounts, written >>
      /\ req[r].pc = "idle"
  BY ReadStep DEF RowInv
<1>3. \A t \in TokenId : written[r][t] = None
  BY <1>2, WritesNothing
<1>4. req'[r] = q /\ \A p \in Requests \ {r} : req'[p] = req[p]
  BY <1>1 DEF RowInv, TypeOK
<1>5. InsertStands'
  BY <1>1, <1>2, <1>4 DEF InsertStands, Inserting
<1>6. WritesOwned'
  BY <1>2, <1>3, <1>4 DEF WritesOwned, Inserting, Revoking
<1>7. RefreshEntitled'
  BY <1>1, <1>2, <1>4 DEF RefreshEntitled, IsActive
<1>8. RangesSwept'
  BY <1>1, <1>2, <1>4 DEF RangesSwept, InRange
<1>9. RangesShut'
  BY <1>1, <1>2, <1>3, <1>4 DEF RangesShut, InRange, Inserting, Live
<1>10. UserOps'
  BY <1>1, <1>4 DEF UserOps
<1>11. QED
  BY <1>5, <1>6, <1>7, <1>8, <1>9, <1>10

LEMMA IssueOwn ==
  ASSUME IInv, RowInv', NEW r \in Requests, Issue(r)
  PROVE  IInv'
<1> USE DEF IInv
<1> DEFINE p == req[r].principal
<1>1. PICK f \in TokenId :
        /\ written' = [written EXCEPT ![r][next_id] = NewRow(p, f)]
        /\ InsertUnlocked(r, NewRow(p, f))
        /\ \/ /\ req[r].op = "login" /\ f = next_id
              /\ req' = [req EXCEPT ![r].pc = "commit", ![r].family = f,
                                    ![r].new = next_id]
           \/ /\ req[r].op = "refresh" /\ f = req[r].family
              /\ req' = [req EXCEPT ![r].pc = "consume", ![r].new = next_id]
  <2>1. CASE LoginIssue(r)
    <3>1. next_id \in TokenId
      BY <2>1 DEF LoginIssue, Insert, RowInv, TypeOK
    <3>2. QED
      BY <2>1, <3>1 DEF LoginIssue, Insert
  <2>2. CASE RefreshIssue(r)
    <3>1. req[r].family \in TokenId
      BY <2>2 DEF RefreshIssue, RowInv, TypeOK, Carries
    <3>2. QED
      BY <2>2, <3>1 DEF RefreshIssue, Insert
  <2>3. QED
    BY <2>1, <2>2 DEF Issue
<1>2. /\ next_id \in TokenId /\ req[r].pc = "issue" /\ p \in Principals
      /\ UNCHANGED << refresh_tokens, accounts >>
  BY DEF Issue, LoginIssue, RefreshIssue, Insert, RowInv, TypeOK, Carries
<1>3. /\ NewRow(p, f) # None /\ Live(NewRow(p, f))
      /\ NewRow(p, f).family_id = f /\ NewRow(p, f).principal_id = p
  BY <1>1, <1>2, NewRowType DEF RowInv
<1>4. \A t \in TokenId : written[r][t] = None
  BY <1>2, WritesNothing
<1>5. /\ written'[r][next_id] = NewRow(p, f)
      /\ \A t \in TokenId \ {next_id} : written'[r][t] = None
      /\ \A q \in Requests \ {r} : written'[q] = written[q]
  BY <1>1, <1>2, <1>4 DEF RowInv, TypeOK
<1>6. /\ \A q \in Requests \ {r} : req'[q] = req[q]
      /\ req'[r].op = req[r].op /\ req'[r].token = req[r].token
      /\ req'[r].new = next_id /\ req'[r].family = f
      /\ req'[r].principal = p
      /\ \/ req[r].op = "login" /\ req'[r].pc = "commit"
         \/ req[r].op = "refresh" /\ req'[r].pc = "consume"
  BY <1>1 DEF RowInv, TypeOK, Request
<1>7. refresh_tokens[next_id] = None
  BY <1>2 DEF RowInv, FreshIds
<1>8. Inserting(r, req[r].new)'
  BY <1>2, <1>3, <1>5, <1>6, <1>7 DEF Inserting
<1>9. InsertStands'
  BY <1>2, <1>5, <1>6, <1>8 DEF InsertStands, Inserting
<1>10. WritesOwned'
  BY <1>2, <1>3, <1>5, <1>6, <1>8 DEF WritesOwned, Inserting, Revoking
<1>11. RefreshEntitled'
  BY <1>2, <1>6 DEF RefreshEntitled, IsActive
<1>12. \A row : ~InRange(req'[r], row)
  BY <1>6 DEF InRange, RevokeAllOps
<1>13. RangesSwept'
  BY <1>2, <1>5, <1>6, <1>12 DEF RangesSwept
<1>14. RangesShut'
  BY <1>1, <1>2, <1>5, <1>6, <1>12
     DEF RangesShut, InsertUnlocked, Inserting, Live
<1>15. UserOps'
  BY <1>6 DEF UserOps
<1>16. QED
  BY <1>9, <1>10, <1>11, <1>13, <1>14, <1>15

LEMMA ConsumeOwn ==
  ASSUME IInv, RowInv', NEW r \in Requests, RefreshConsume(r)
  PROVE  IInv'
<1> USE DEF IInv
<1> DEFINE t == req[r].token
<1>1. /\ req[r].op = "refresh" /\ req[r].pc = "consume" /\ t \in TokenId
      /\ Live(refresh_tokens[t])
      /\ UNCHANGED << refresh_tokens, accounts >>
  BY DEF RefreshConsume, RowInv, TypeOK, Carries
<1>2. /\ \A u \in TokenId \ {t} : written'[r][u] = written[r][u]
      /\ \A q \in Requests \ {r} : written'[q] = written[q]
  BY <1>1 DEF RefreshConsume, RowInv, TypeOK
<1>3. /\ \A q \in Requests \ {r} : req'[q] = req[q]
      /\ req'[r].op = "refresh" /\ req'[r].pc = "commit"
      /\ req'[r].token = t /\ req'[r].family = req[r].family
      /\ req'[r].new = req[r].new /\ req'[r].principal = req[r].principal
  BY <1>1 DEF RefreshConsume, RowInv, TypeOK, Request
<1>4. written'[r][t] # None /\ Revoking(r, t)'
  BY <1>1, <1>3 DEF RowInv, RefreshHoldsToken
\* The new row and the token are two.
<1>5. /\ req[r].new \in TokenId \ {t}
      /\ Inserting(r, req[r].new)
  BY <1>1, Numbers DEF InsertStands, Inserting, RowInv, TypeOK, Request, Live
<1>6. InsertStands'
  BY <1>1, <1>2, <1>3, <1>5 DEF InsertStands, Inserting
<1>7. WritesOwned'
  BY <1>1, <1>2, <1>3, <1>4 DEF WritesOwned, Inserting, Revoking
<1>8. RefreshEntitled'
  BY <1>1, <1>3 DEF RefreshEntitled, IsActive
<1>9. RangesSwept'
  BY <1>1, <1>2, <1>3, <1>4 DEF RangesSwept, InRange, RevokeAllOps
<1>10. RangesShut'
  BY <1>1, <1>2, <1>3 DEF RangesShut, InRange, RevokeAllOps, Inserting, Live
<1>11. UserOps'
  BY <1>1, <1>3 DEF UserOps
<1>12. QED
  BY <1>6, <1>7, <1>8, <1>9, <1>10, <1>11

\* A range UPDATE revokes what is live in its range and finds nobody else there.
LEMMA RevokesRange ==
  ASSUME TypeOK, NEW r \in Requests, Revoke(r)
  PROVE  /\ \A t \in TokenId :
              /\ Live(refresh_tokens[t]) /\ InRange(req'[r], refresh_tokens[t])
                   => written'[r][t] # None
              /\ written'[r][t] # None => InRange(req'[r], refresh_tokens[t])
         /\ \A q \in Requests \ {r}, t \in TokenId :
              Holds(q, t) => ~InRange(req'[r], Version(q, t))
<1> DEFINE S == {t \in TokenId : Live(refresh_tokens[t])
                                  /\ InRange(req'[r], refresh_tokens[t])}
<1>1. /\ req'[r].op = req[r].op /\ req'[r].pc = "commit"
      /\ req'[r].principal = req[r].principal /\ req'[r].family = req[r].family
  BY DEF Revoke, ReuseRevoke, RevokeAll, TypeOK, Request
<1>2. \E at \in Time : RevokeRows(r, S, at)
  <2>1. CASE ReuseRevoke(r)
    <3>1. S = LiveOfFamily(req[r].family)
      BY <1>1, <2>1 DEF ReuseRevoke, LiveOfFamily, InRange, RevokeAllOps
    <3>2. QED
      BY <2>1, <3>1 DEF ReuseRevoke, TypeOK, Carries
  <2>2. CASE RevokeAll(r)
    <3>1. S = LiveOfPrincipal(req[r].principal)
      BY <1>1, <2>2 DEF RevokeAll, LiveOfPrincipal, InRange, RevokeAllOps
    <3>2. QED
      BY <2>2, <3>1 DEF RevokeAll, TypeOK
  <2>3. QED
    BY <2>1, <2>2 DEF Revoke
<1>3. \A q \in Requests \ {r}, t \in TokenId :
        Holds(q, t) => ~InRange(req'[r], Version(q, t))
  BY <1>1 DEF Revoke, ReuseRevoke, RevokeAll, FamilyUnlocked, PrincipalUnlocked,
              InRange, RevokeAllOps
<1>4. ASSUME NEW t \in TokenId
      PROVE  /\ t \in S => written'[r][t] # None
             /\ t \notin S => written'[r][t] = None
  <2>1. PICK at \in Time : RevokeRows(r, S, at)
    BY <1>2
  <2>2. written'[r][t] = IF t \in S THEN [refresh_tokens[t] EXCEPT !.revoked_at = at]
                                    ELSE None
    <3> HIDE DEF S
    <3>1. QED BY <2>1 DEF RevokeRows, TypeOK
  <2>3. t \in S => written'[r][t] # None
    BY <2>2, Revoked DEF TypeOK, Live
  <2>4. QED
    BY <2>2, <2>3
<1>5. QED
  BY <1>3, <1>4

LEMMA RevokeOwn ==
  ASSUME IInv, RowInv', NEW r \in Requests, Revoke(r)
  PROVE  IInv'
<1> USE DEF IInv
<1>1. /\ \A t \in TokenId :
           /\ Live(refresh_tokens[t]) /\ InRange(req'[r], refresh_tokens[t])
                => written'[r][t] # None
           /\ written'[r][t] # None => InRange(req'[r], refresh_tokens[t])
      /\ \A q \in Requests \ {r}, t \in TokenId :
           Holds(q, t) => ~InRange(req'[r], Version(q, t))
  BY RevokesRange DEF RowInv
<1>2. /\ UNCHANGED << refresh_tokens, accounts >>
      /\ \A q \in Requests \ {r} : written'[q] = written[q] /\ req'[q] = req[q]
      /\ req'[r].op = req[r].op /\ req'[r].principal = req[r].principal
      /\ req[r].pc = "revoke" /\ req'[r].pc = "commit"
      /\ req[r].op \in RevokeAllOps \cup {"reuse"}
  BY DEF Revoke, ReuseRevoke, RevokeAll, RevokeRows, RowInv, TypeOK, Request
<1>3. req[r].op \notin {"login", "refresh", "deactivate", "user_delete"}
  BY <1>2 DEF RevokeAllOps
<1>4. InsertStands'
  BY <1>2, <1>3 DEF InsertStands, Inserting
<1>5. WritesOwned'
  <2>1. \A t \in TokenId : written'[r][t] # None => Revoking(r, t)'
    BY <1>2, <1>3 DEF RowInv, WritesAccounted, Inserting
  <2>2. QED
    BY <1>1, <1>2, <2>1 DEF WritesOwned, Inserting, Revoking
<1>6. RefreshEntitled'
  BY <1>2, <1>3 DEF RefreshEntitled, IsActive
<1>7. RangesSwept'
  BY <1>1, <1>2 DEF RangesSwept
<1>8. RangesShut'
  <2>1. ASSUME NEW q \in Requests, NEW t \in TokenId, Inserting(q, t)'
        PROVE  /\ q # r /\ Inserting(q, t) /\ written'[q][t] = written[q][t]
               /\ Holds(q, t) /\ Version(q, t) = written[q][t]
    BY <1>2, <1>3, <2>1 DEF Inserting, Holds, Version, Live
  <2>2. QED
    BY <1>1, <1>2, <2>1 DEF RangesShut
<1>9. UserOps'
  BY <1>2, <1>3 DEF UserOps
<1>10. QED
  BY <1>4, <1>5, <1>6, <1>7, <1>8, <1>9

\* What the slot and the transaction of r are once it is over.
LEMMA Released ==
  ASSUME TypeOK, NEW r \in Requests, NEW pc \in Labels, Release(r, pc)
  PROVE  /\ \A t \in TokenId : written'[r][t] = None
         /\ \A q \in Requests \ {r} : written'[q] = written[q] /\ req'[q] = req[q]
         /\ req'[r].op = "none" /\ req'[r].new = Null /\ req'[r].pc = pc
BY DEF Release, NoRows, Idle, TypeOK

\* What a commit makes of row t, by what its request has written.
LEMMA CommitRow ==
  ASSUME IInv, NEW r \in Requests, Commit(r), NEW t \in TokenId
  PROVE  \/ written[r][t] = None /\ refresh_tokens'[t] = refresh_tokens[t]
         \/ /\ written[r][t] # None /\ refresh_tokens'[t] = written[r][t]
            /\ Inserting(r, t)
            /\ written[r][t].principal_id = req[r].principal
         \/ /\ written[r][t] # None /\ refresh_tokens'[t] = written[r][t]
            /\ Revoking(r, t) /\ ~Live(refresh_tokens'[t])
            /\ \/ req[r].op = "refresh" /\ t = req[r].token
               \/ InRange(req[r], refresh_tokens[t])
BY DEF Commit, Version, IInv, WritesOwned, Revoking, Live

LEMMA CommitOwn ==
  ASSUME IInv, RowInv', NEW r \in Requests, Commit(r)
  PROVE  IInv'
<1> USE DEF IInv
<1> DEFINE p == req[r].principal
<1>1. /\ \A t \in TokenId : written'[r][t] = None
      /\ \A q \in Requests \ {r} : written'[q] = written[q] /\ req'[q] = req[q]
      /\ req'[r].op = "none" /\ req'[r].pc # "commit"
  <2>1. PICK pc \in Labels \ {"commit"} : Release(r, pc)
    BY DEF Commit, AfterCommit, Labels
  <2>2. QED
    BY <2>1, Released DEF RowInv
\* What others have written is none of r's.
<1>2. \A q \in Requests \ {r}, t \in TokenId : written[q][t] # None =>
        written[r][t] = None /\ refresh_tokens'[t] = refresh_tokens[t]
  BY CommitRow DEF RowInv, OneWriter
<1>3. InsertStands'
  <2>1. ASSUME NEW q \in Requests \ {r}, req[q].new # Null, Inserting(q, req[q].new)
        PROVE  Inserting(q, req[q].new)'
    <3>1. req[q].new \in TokenId
      BY <2>1 DEF RowInv, TypeOK, Request
    <3>2. QED
      BY <1>1, <1>2, <2>1, <3>1 DEF Inserting, Live
  <2>2. QED
    BY <1>1, <2>1 DEF InsertStands
<1>4. WritesOwned'
  BY <1>1, <1>2 DEF WritesOwned, Inserting, Revoking
<1>5. RefreshEntitled'
  <2> SUFFICES ASSUME NEW q \in Requests, req'[q].op = "refresh",
                      refresh_tokens'[req'[q].token] # None
               PROVE  /\ refresh_tokens'[req'[q].token].principal_id
                            = req'[q].principal
                      /\ /\ Live(refresh_tokens'[req'[q].token])
                         /\ req'[q].principal \in Admins
                         => accounts'[req'[q].principal] = {}
    BY DEF RefreshEntitled, IsActive
  <2> DEFINE t == req[q].token
  <2>1. q # r /\ req'[q] = req[q] /\ t \in TokenId
    BY <1>1, Numbers DEF RowInv
  <2>2. CASE written[r][t] = None /\ refresh_tokens'[t] = refresh_tokens[t]
    <3>1. ASSUME Live(refresh_tokens[t]), req[q].principal \in Admins
          PROVE  accounts'[req[q].principal] = {}
      <4>1. accounts[req[q].principal] = {} /\ req[q].principal \in Principals
        BY <2>1, <2>2, <3>1 DEF RefreshEntitled, IsActive, Live, Principals
      <4>2. CASE p = req[q].principal
        \* The range of r would cover the token, and r has not revoked it.
        <5>1. req[r].op \notin RevokeAllOps
          BY <2>1, <2>2, <3>1, <4>2
             DEF Commit, RangesSwept, InRange, RefreshEntitled, Live
        <5>2. req[r].op # "deactivate"
          BY <3>1, <4>2 DEF UserOps
        <5>3. AccountAfter(req[r].op, {}) = {}
          BY <5>1, <5>2 DEF AccountAfter, RevokeAllOps
        <5>4. QED
          BY <4>1, <4>2, <5>3 DEF Commit, RowInv, TypeOK
      <4>3. CASE p # req[q].principal
        BY <4>1, <4>3 DEF Commit, RowInv, TypeOK
      <4>4. QED
        BY <4>2, <4>3
    <3>2. QED
      BY <2>1, <2>2, <3>1 DEF RefreshEntitled
  <2>3. CASE Inserting(r, t) /\ written[r][t] # None
    BY <2>1, <2>3 DEF RowInv, RefreshHoldsToken, Inserting
  <2>4. CASE Revoking(r, t) /\ refresh_tokens'[t] = written[r][t]
    BY <2>1, <2>4 DEF RefreshEntitled, Revoking, Live
  <2>5. QED
    BY <2>1, <2>2, <2>3, <2>4, CommitRow
<1>6. RangesSwept'
  <2> SUFFICES ASSUME NEW q \in Requests, NEW t \in TokenId,
                      Live(refresh_tokens'[t]), InRange(req'[q], refresh_tokens'[t])
               PROVE  written'[q][t] # None
    BY DEF RangesSwept
  <2>1. q # r /\ req'[q] = req[q] /\ written'[q] = written[q]
    BY <1>1 DEF InRange
  <2>2. CASE refresh_tokens'[t] = refresh_tokens[t]
    BY <2>1, <2>2 DEF RangesSwept
  <2>3. CASE Inserting(r, t) /\ refresh_tokens'[t] = written[r][t]
    BY <2>1, <2>3 DEF RangesShut
  <2>4. QED
    BY <2>2, <2>3, CommitRow
<1>7. RangesShut'
  <2> SUFFICES ASSUME NEW o \in Requests, NEW q \in Requests, NEW t \in TokenId,
                      Inserting(q, t)', InRange(req'[o], written'[q][t])
               PROVE  FALSE
    BY DEF RangesShut
  <2>1. /\ q # r /\ o # r /\ req'[o] = req[o]
        /\ req'[q] = req[q] /\ written'[q] = written[q]
    BY <1>1 DEF InRange, Inserting, Live
  <2>2. Inserting(q, t)
    BY <1>2, <2>1 DEF Inserting, Live
  <2>3. QED
    BY <2>1, <2>2 DEF RangesShut
<1>8. UserOps'
  BY <1>1 DEF UserOps
<1>9. QED
  BY <1>3, <1>4, <1>5, <1>6, <1>7, <1>8

LEMMA WithdrawOwn ==
  ASSUME IInv, RowInv', NEW r \in Requests, GiveUp(r) \/ Direct(r)
  PROVE  IInv'
<1> USE DEF IInv
<1>1. /\ \A t \in TokenId : written'[r][t] = None
      /\ \A q \in Requests \ {r} : written'[q] = written[q] /\ req'[q] = req[q]
      /\ req'[r].op = "none"
  BY WithdrawStep, Released DEF RowInv
<1>2. req'[r].pc # "commit"
  BY Released DEF GiveUp, Direct, RefreshLost, Kick, DbError, LogoutMark, PurgeExpired,
                  UserDeleteCommit, RowInv, Labels
<1>3. \A a \in Admins : accounts'[a] = accounts[a]
  <2>1. CASE UserDeleteCommit(r)
    BY <2>1 DEF UserDeleteCommit, UserOps, RowInv, TypeOK, Principals
  <2>2. CASE ~UserDeleteCommit(r)
    BY <2>2 DEF GiveUp, Direct, RefreshLost, Kick, DbError, LogoutMark, PurgeExpired
  <2>3. QED
    BY <2>1, <2>2
<1>4. \A t \in TokenId :
        /\ refresh_tokens'[t] # None =>
             /\ refresh_tokens[t] # None
             /\ refresh_tokens'[t].family_id = refresh_tokens[t].family_id
             /\ refresh_tokens'[t].principal_id = refresh_tokens[t].principal_id
        /\ Live(refresh_tokens'[t]) => Live(refresh_tokens[t])
        /\ (\E q \in Requests \ {r} : written[q][t] # None)
             => /\ refresh_tokens[t] # None => refresh_tokens'[t] # None
                /\ Live(refresh_tokens[t]) => Live(refresh_tokens'[t])
  BY WithdrawStep
<1>5. InsertStands'
  <2>1. ASSUME NEW q \in Requests \ {r}, req[q].new # Null, Inserting(q, req[q].new)
        PROVE  Inserting(q, req[q].new)'
    <3>1. req[q].new \in TokenId
      BY <2>1 DEF RowInv, TypeOK, Request
    <3>2. QED
      BY <1>1, <1>4, <2>1, <3>1 DEF Inserting
  <2>2. QED
    BY <1>1, <2>1 DEF InsertStands
<1>6. WritesOwned'
  <2> SUFFICES ASSUME NEW q \in Requests, NEW t \in TokenId, written'[q][t] # None
               PROVE  \/ /\ Inserting(q, t)'
                         /\ written'[q][t].principal_id = req'[q].principal
                      \/ /\ Revoking(q, t)'
                         /\ \/ req'[q].op = "refresh" /\ t = req'[q].token
                            \/ InRange(req'[q], refresh_tokens'[t])
    BY DEF WritesOwned
  <2>1. q # r /\ written'[q] = written[q] /\ req'[q] = req[q]
    BY <1>1
  <2>2. CASE Inserting(q, t) /\ written[q][t].principal_id = req[q].principal
    BY <1>4, <2>1, <2>2 DEF Inserting
  <2>3. CASE /\ Revoking(q, t)
             /\ \/ req[q].op = "refresh" /\ t = req[q].token
                \/ InRange(req[q], refresh_tokens[t])
    BY <1>4, <2>1, <2>3 DEF Revoking, InRange, Live
  <2>4. QED
    BY <2>1, <2>2, <2>3 DEF WritesOwned
<1>7. RefreshEntitled'
  <2> SUFFICES ASSUME NEW q \in Requests, req'[q].op = "refresh",
                      refresh_tokens'[req'[q].token] # None
               PROVE  /\ refresh_tokens'[req'[q].token].principal_id
                            = req'[q].principal
                      /\ /\ Live(refresh_tokens'[req'[q].token])
                         /\ req'[q].principal \in Admins
                         => accounts'[req'[q].principal] = {}
    BY DEF RefreshEntitled, IsActive
  <2>1. q # r /\ req'[q] = req[q] /\ req[q].token \in TokenId
    BY <1>1, Numbers DEF RowInv
  <2>2. QED
    BY <1>3, <1>4, <2>1 DEF RefreshEntitled, IsActive
<1>8. RangesSwept'
  BY <1>1, <1>2, <1>4 DEF RangesSwept, InRange, Live
<1>9. RangesShut'
  <2> SUFFICES ASSUME NEW o \in Requests, NEW q \in Requests, NEW t \in TokenId,
                      Inserting(q, t)', InRange(req'[o], written'[q][t])
               PROVE  FALSE
    BY DEF RangesShut
  <2>1. /\ q # r /\ o # r /\ req'[o] = req[o]
        /\ req'[q] = req[q] /\ written'[q] = written[q]
    BY <1>1, <1>2 DEF InRange, Inserting, Live
  <2>2. Inserting(q, t)
    BY <1>4, <2>1 DEF Inserting, Live
  <2>3. QED
    BY <2>1, <2>2 DEF RangesShut
<1>10. UserOps'
  BY <1>1 DEF UserOps
<1>11. QED
  BY <1>5, <1>6, <1>7, <1>8, <1>9, <1>10

LEMMA OwnStep == IInv /\ [Next]_vars => IInv'
<1> SUFFICES ASSUME IInv, [Next]_vars PROVE IInv'
  OBVIOUS
<1>1. RowInv'
  BY InvStep DEF IInv
<1>2. CASE UNCHANGED << refresh_tokens, accounts, written, req >>
  BY <1>1, <1>2
     DEF IInv, InsertStands, WritesOwned, RefreshEntitled, RangesSwept, RangesShut,
         UserOps, Inserting, Revoking, IsActive
<1>3. ASSUME NEW r \in Requests, Read(r) PROVE IInv'
  BY <1>1, <1>3, ReadOwn
<1>4. ASSUME NEW r \in Requests, Issue(r) PROVE IInv'
  BY <1>1, <1>4, IssueOwn
<1>5. ASSUME NEW r \in Requests, RefreshConsume(r) PROVE IInv'
  BY <1>1, <1>5, ConsumeOwn
<1>6. ASSUME NEW r \in Requests, Revoke(r) PROVE IInv'
  BY <1>1, <1>6, RevokeOwn
<1>7. ASSUME NEW r \in Requests, Commit(r) PROVE IInv'
  BY <1>1, <1>7, CommitOwn
<1>8. ASSUME NEW r \in Requests, GiveUp(r) \/ Direct(r) PROVE IInv'
  BY <1>1, <1>8, WithdrawOwn
<1>9. QED
  BY <1>2, <1>3, <1>4, <1>5, <1>6, <1>7, <1>8, Steps DEF Tick, vars

\* The inductive invariant with owners, range locks and accounts holds of every
\* reachable state.
THEOREM Invariant == Spec => []IInv
BY OwnInit, OwnStep, PTL DEF Spec

\* A refresh that is about to commit serves an admin who is active at that
\* moment: an archive or a deletion in between has taken its token or waits.
THEOREM RefreshServes == Spec => []RefreshServesActiveAdmin
<1>1. IInv => RefreshServesActiveAdmin
  <2> SUFFICES ASSUME IInv, NEW r \in Requests, req[r].pc = "commit",
                      req[r].op = "refresh", req[r].principal \in Admins
               PROVE  IsActive(req[r].principal)
    BY DEF RefreshServesActiveAdmin
  <2>1. Revoking(r, req[r].token)
    BY DEF IInv, RowInv, RefreshHoldsToken
  <2>2. QED
    BY <2>1 DEF IInv, RefreshEntitled, Revoking, Live
<1>2. QED
  BY <1>1, Invariant, PTL

\* A revocation that commits leaves no live token in its range: none of another
\* transaction has slipped in since its UPDATE.
THEOREM RevocationIsComplete == Spec => RevocationComplete
<1>1. ASSUME IInv, NEW r \in Requests, Commit(r), NEW t \in TokenId,
             Live(refresh_tokens'[t])
      PROVE  ~InRange(req[r], refresh_tokens'[t])
  <2>1. CASE written[r][t] = None /\ refresh_tokens'[t] = refresh_tokens[t]
    BY <1>1, <2>1 DEF IInv, RangesSwept
  <2>2. CASE Inserting(r, t) /\ refresh_tokens'[t] = written[r][t]
    BY <1>1, <2>2 DEF IInv, RangesShut
  <2>3. QED
    BY <1>1, <2>1, <2>2, CommitRow
<1>2. IInv /\ [Next]_vars =>
        [\A r \in Requests : Commit(r) =>
           \A t \in TokenId : Live(refresh_tokens'[t]) =>
             ~InRange(req[r], refresh_tokens'[t])]_vars
  BY <1>1
<1>3. QED
  BY <1>2, Invariant, PTL DEF Spec, RevocationComplete

-----------------------------------------------------------------------------
(* The refinement: rows, statements and locks implement SessionAuthority *)

LEMMA SessionsAre ==
  /\ \A s : s \in Sessions <=>
       \E t \in TokenId : /\ Live(refresh_tokens[t])
                          /\ s = << refresh_tokens[t].family_id,
                                    refresh_tokens[t].principal_id >>
  /\ \A s : s \in Sessions' <=>
       \E t \in TokenId : /\ Live(refresh_tokens'[t])
                          /\ s = << refresh_tokens'[t].family_id,
                                    refresh_tokens'[t].principal_id >>
BY DEF Sessions, Live

LEMMA AuthorityInit == Init => Authority!Init
BY DEF Init, Authority!Init, Sessions, Spent, Suspended, NoRows, Live

\* Sessions that disappear have been closed.
LEMMA ClosesSome ==
  ASSUME Sessions' \subseteq Sessions, UNCHANGED << Spent, Suspended >>
  PROVE  [Authority!Next]_(Authority!vars)
<1> DEFINE S == Sessions \ Sessions'
<1>1. CASE S = {}
  <2>1. Sessions' = Sessions
    BY <1>1
  <2>2. QED
    BY <2>1 DEF Authority!vars
<1>2. CASE S # {}
  <2>1. S \in SUBSET Sessions /\ Sessions' = Sessions \ S
    OBVIOUS
  <2>2. Authority!Close(S)
    BY <1>2, <2>1 DEF Authority!Close
  <2>3. QED
    <3> HIDE DEF S
    <3>1. QED BY <2>1, <2>2 DEF Authority!Next
<1>3. QED
  BY <1>1, <1>2

\* The family a login has drawn is spent when its transaction is over.
LEMMA ReleaseSpends ==
  ASSUME IInv, NEW r \in Requests, NEW pc \in Labels, Release(r, pc),
         UNCHANGED next_id
  PROVE  /\ req[r].op # "login" \/ req[r].new = Null => Spent' = Spent
         /\ req[r].op = "login" /\ req[r].new # Null =>
              /\ req[r].new \in TokenId \ Spent
              /\ Spent' = Spent \cup {req[r].new}
<1>1. /\ \A q \in Requests \ {r} : req'[q] = req[q]
      /\ req'[r].op = "none"
  BY Released DEF IInv, RowInv
<1>2. \A f \in TokenId : f \in Spent' <=>
        f < next_id /\ \A q \in Requests \ {r} : ~Opening(q, f)
  BY <1>1 DEF Spent, Opening
<1>3. \A f \in TokenId : f \in Spent <=>
        /\ f < next_id /\ \A q \in Requests \ {r} : ~Opening(q, f)
        /\ ~Opening(r, f)
  BY DEF Spent
<1>4. Spent \subseteq TokenId /\ Spent' \subseteq TokenId
  BY DEF Spent
<1>5. CASE req[r].op # "login" \/ req[r].new = Null
  <2>1. \A f \in TokenId : ~Opening(r, f)
    BY <1>5 DEF Opening
  <2>2. QED
    BY <1>2, <1>3, <1>4, <1>5, <2>1
<1>6. CASE req[r].op = "login" /\ req[r].new # Null
  <2> DEFINE n == req[r].new
  <2>1. n \in TokenId /\ n < next_id /\ Opening(r, n)
    BY <1>6 DEF IInv, RowInv, TypeOK, Request, FreshIds, Opening
  <2>2. \A q \in Requests \ {r} : ~Opening(q, n)
    BY <2>1 DEF IInv, RowInv, OpeningIsPrivate, Opening
  <2>3. \A f \in TokenId : Opening(r, f) <=> f = n
    BY <1>6 DEF Opening
  <2>4. QED
    BY <1>2, <1>3, <1>4, <1>6, <2>1, <2>2, <2>3
<1>7. QED
  BY <1>5, <1>6

\* Nothing an outsider can see: neither rows nor accounts change, and a family
\* is drawn by a login that keeps it to itself.
LEMMA InvisibleStep ==
  ASSUME IInv, NEW r \in Requests,
         Read(r) \/ LoginIssue(r) \/ RefreshConsume(r) \/ Revoke(r)
  PROVE  UNCHANGED Authority!vars
<1>1. UNCHANGED << refresh_tokens, accounts >>
  BY ReadStep DEF LoginIssue, RefreshConsume, Revoke, ReuseRevoke, RevokeAll,
                  IInv, RowInv
<1>2. \A q \in Requests \ {r} : req'[q] = req[q]
  BY ReadStep DEF LoginIssue, RefreshConsume, Revoke, ReuseRevoke, RevokeAll,
                  IInv, RowInv, TypeOK
<1>3. CASE LoginIssue(r)
  <2>1. /\ next_id \in TokenId /\ next_id' = next_id + 1
        /\ req[r].op = "login" /\ req[r].pc = "issue"
        /\ req'[r].op = "login" /\ req'[r].new = next_id
    BY <1>3 DEF LoginIssue, Insert, IInv, RowInv, TypeOK, Request
  <2>2. req[r].new = Null
    BY <2>1 DEF IInv, InsertStands
  <2>3. \A f \in TokenId :
          /\ ~Opening(r, f)
          /\ Opening(r, f)' <=> f = next_id
    BY <2>1, <2>2 DEF Opening
  <2>4. \A f \in TokenId, q \in Requests \ {r} : Opening(q, f)' <=> Opening(q, f)
    BY <1>2 DEF Opening
  <2>5. \A f \in TokenId :
          f < next_id' /\ (\A q \in Requests : ~Opening(q, f)')
            <=> f < next_id /\ (\A q \in Requests : ~Opening(q, f))
    BY <2>1, <2>3, <2>4
  <2>6. Spent' = Spent
    BY <2>5 DEF Spent
  <2>7. QED
    BY <1>1, <2>6 DEF Authority!vars, Sessions, Suspended, Live
<1>4. CASE Read(r) \/ RefreshConsume(r) \/ Revoke(r)
  <2>1. \A f \in TokenId : ~Opening(r, f) /\ ~Opening(r, f)'
    <3>1. CASE Read(r)
      <4>1. PICK q \in Request : req' = [req EXCEPT ![r] = q] /\ q.new = Null
        BY <3>1, ReadStep DEF IInv, RowInv
      <4>2. req[r].pc = "idle"
        BY <3>1, ReadStep DEF IInv, RowInv
      <4>3. QED
        BY <4>1, <4>2 DEF Opening, IInv, InsertStands, RowInv, TypeOK
    <3>2. CASE RefreshConsume(r) \/ Revoke(r)
      <4>1. req[r].op # "login" /\ req'[r].op = req[r].op
        BY <3>2 DEF RefreshConsume, Revoke, ReuseRevoke, RevokeAll, RevokeAllOps,
                    IInv, RowInv, TypeOK, Request, Carries
      <4>2. QED
        BY <4>1 DEF Opening
    <3>3. QED
      BY <1>4, <3>1, <3>2
  <2>2. UNCHANGED next_id
    BY <1>4, ReadStep DEF RefreshConsume, Revoke, ReuseRevoke, RevokeAll, IInv, RowInv
  <2>3. \A f \in TokenId, q \in Requests : Opening(q, f)' <=> Opening(q, f)
    BY <1>2, <2>1 DEF Opening
  <2>4. Spent' = Spent
    BY <2>2, <2>3 DEF Spent
  <2>5. QED
    BY <1>1, <2>4 DEF Authority!vars, Sessions, Suspended, Live
<1>5. QED
  BY <1>3, <1>4

\* A refresh that draws an id has wasted it as a family.
LEMMA RefreshWastes ==
  ASSUME IInv, NEW r \in Requests, RefreshIssue(r)
  PROVE  Authority!Next
<1>1. /\ next_id \in TokenId /\ next_id' = next_id + 1
      /\ req[r].op = "refresh" /\ req'[r].op = "refresh"
      /\ \A q \in Requests \ {r} : req'[q] = req[q]
      /\ UNCHANGED << refresh_tokens, accounts >>
  BY DEF RefreshIssue, Insert, IInv, RowInv, TypeOK, Request
<1>2. \A f \in TokenId, q \in Requests : Opening(q, f)' <=> Opening(q, f)
  BY <1>1 DEF Opening
<1>3. \A q \in Requests : ~Opening(q, next_id)
  BY <1>1, Numbers DEF Opening, IInv, RowInv, FreshIds
<1>4. \A f \in TokenId :
        f < next_id' /\ (\A q \in Requests : ~Opening(q, f)')
          <=> \/ f < next_id /\ (\A q \in Requests : ~Opening(q, f))
              \/ f = next_id
  BY <1>1, <1>2, <1>3
<1>5. Spent' = Spent \cup {next_id}
  BY <1>1, <1>4 DEF Spent
<1>6. next_id \notin Spent
  BY <1>1 DEF Spent
<1>7. UNCHANGED << Sessions, Suspended >>
  BY <1>1 DEF Sessions, Suspended, Live
<1>8. Authority!Waste(next_id)
  BY <1>5, <1>6, <1>7 DEF Authority!Waste
<1>9. QED
  BY <1>1, <1>8 DEF Authority!Next

\* A transaction that ends without a commit, and the statements that commit at
\* once.
LEMMA WithdrawCloses ==
  ASSUME IInv, NEW r \in Requests, GiveUp(r) \/ Direct(r)
  PROVE  [Authority!Next]_(Authority!vars)
<1>1. PICK pc \in Labels : Release(r, pc)
  BY WithdrawStep DEF IInv
<1>2. UNCHANGED next_id
  BY WithdrawStep DEF IInv
<1>3. Sessions' \subseteq Sessions
  BY WithdrawStep, SessionsAre DEF Live, IInv
<1>4. Suspended' = Suspended
  <2>1. CASE UserDeleteCommit(r)
    <3>1. \A a \in Principals : \/ accounts'[a] = accounts[a]
                               \/ accounts'[a] = accounts[a] \cup {"gone"}
      BY <2>1 DEF UserDeleteCommit, IInv, RowInv, TypeOK
    <3>2. \A a \in Principals : accounts'[a] \cap {"archived", "deleted"}
                                = accounts[a] \cap {"archived", "deleted"}
      BY <3>1
    <3>3. QED
      BY <3>2 DEF Suspended
  <2>2. CASE ~UserDeleteCommit(r)
    <3>1. UNCHANGED accounts
      BY <2>2 DEF GiveUp, Direct, RefreshLost, Kick, DbError, LogoutMark, PurgeExpired
    <3>2. QED
      BY <3>1 DEF Suspended
  <2>3. QED
    BY <2>1, <2>2
<1>5. CASE req[r].op # "login" \/ req[r].new = Null
  BY <1>1, <1>2, <1>3, <1>4, <1>5, ReleaseSpends, ClosesSome
<1>6. CASE req[r].op = "login" /\ req[r].new # Null
  <2> DEFINE n == req[r].new
  <2>1. n \in TokenId \ Spent /\ Spent' = Spent \cup {n}
    BY <1>1, <1>2, <1>6, ReleaseSpends
  <2>2. req[r].pc = "commit"
    BY <1>6 DEF IInv, InsertStands
  <2>3. UNCHANGED refresh_tokens
    BY <1>6, <2>2 DEF GiveUp, Direct, RefreshLost, Kick, DbError, LogoutMark,
                      PurgeExpired, UserDeleteCommit
  <2>4. UNCHANGED Sessions
    BY <2>3 DEF Sessions, Live
  <2>5. Authority!Waste(n)
    BY <1>4, <2>1, <2>4 DEF Authority!Waste
  <2>6. QED
    BY <2>1, <2>5 DEF Authority!Next
<1>7. QED
  BY <1>5, <1>6

\* What a commit does to the suspended accounts.
LEMMA CommitSuspends ==
  ASSUME IInv, NEW r \in Requests, Commit(r)
  PROVE  LET p == req[r].principal IN
         \/ Suspended' = Suspended
         \/ /\ req[r].op \in {"archive", "delete"} /\ p \in Principals \ Suspended
            /\ Suspended' = Suspended \cup {p}
         \/ /\ req[r].op \in {"unarchive", "restore"} /\ p \in Suspended
            /\ Suspended' = Suspended \ {p}
<1> DEFINE p == req[r].principal
           Marks(flags) == flags \cap {"archived", "deleted"}
<1>1. CASE p = None
  BY <1>1 DEF Commit, Suspended
<1>2. CASE p # None
  <2>1. p \in Principals
    BY <1>2 DEF IInv, RowInv, TypeOK, Request
  <2>2. /\ \A a \in Principals \ {p} : accounts'[a] = accounts[a]
        /\ accounts'[p] = AccountAfter(req[r].op, accounts[p])
    BY <1>2, <2>1 DEF Commit, IInv, RowInv, TypeOK
  <2>3. CASE req[r].op \in {"archive", "delete"}
    <3>1. Marks(accounts'[p]) # {}
      BY <2>2, <2>3 DEF AccountAfter
    <3>2. Suspended' = Suspended \cup {p}
      BY <2>1, <2>2, <3>1 DEF Suspended
    <3>3. QED
      BY <2>1, <2>3, <3>2
  <2>4. CASE req[r].op \in {"unarchive", "restore"}
    <3>1. accounts'[p] \subseteq accounts[p]
      BY <2>2, <2>4 DEF AccountAfter
    <3>2. \A a \in Principals \ {p} : a \in Suspended' <=> a \in Suspended
      BY <2>2 DEF Suspended
    <3>3. p \in Suspended' => p \in Suspended
      BY <3>1 DEF Suspended
    <3>4. Suspended \subseteq Principals /\ Suspended' \subseteq Principals
      BY DEF Suspended
    <3>5. \/ Suspended' = Suspended
          \/ p \in Suspended /\ Suspended' = Suspended \ {p}
      <4>1. CASE p \in Suspended' \/ p \notin Suspended
        BY <3>2, <3>3, <3>4, <4>1
      <4>2. CASE p \notin Suspended' /\ p \in Suspended
        BY <3>2, <3>4, <4>2
      <4>3. QED
        BY <4>1, <4>2
    <3>6. QED
      BY <2>4, <3>5
  <2>5. CASE req[r].op \notin {"archive", "delete", "unarchive", "restore"}
    <3>1. Marks(accounts'[p]) = Marks(accounts[p])
      BY <2>2, <2>5 DEF AccountAfter
    <3>2. QED
      BY <2>1, <2>2, <3>1 DEF Suspended
  <2>6. QED
    BY <2>3, <2>4, <2>5
<1>3. QED
  BY <1>1, <1>2

\* A commit of anything but a login or a refresh only closes sessions.
LEMMA CommitWithdraws ==
  ASSUME IInv, NEW r \in Requests, Commit(r), req[r].op \notin {"login", "refresh"},
         NEW t \in TokenId
  PROVE  \/ refresh_tokens'[t] = refresh_tokens[t]
         \/ /\ Live(refresh_tokens[t]) /\ ~Live(refresh_tokens'[t])
            /\ InRange(req[r], refresh_tokens[t])
BY CommitRow DEF Inserting, Revoking

LEMMA CommitStep ==
  ASSUME IInv, NEW r \in Requests, Commit(r)
  PROVE  [Authority!Next]_(Authority!vars)
<1> DEFINE p == req[r].principal
<1>1. PICK pc \in Labels : Release(r, pc)
  BY DEF Commit, AfterCommit, Labels
<1>2. UNCHANGED next_id /\ req[r].pc = "commit"
  BY DEF Commit
\* A login opens the family it has drawn.
<1>3. CASE req[r].op = "login"
  <2> DEFINE n == req[r].new
  <2>1. n # Null /\ Inserting(r, n) /\ p \in Principals
    BY <1>2, <1>3 DEF IInv, InsertStands, RowInv, TypeOK, Carries
  <2>2. n \in TokenId \ Spent /\ Spent' = Spent \cup {n}
    BY <1>1, <1>2, <1>3, <2>1, ReleaseSpends
  <2>3. req[r].family = n
    BY <1>3, <2>2 DEF IInv, RowInv, OpeningIsPrivate, Opening
  <2>4. /\ Live(refresh_tokens'[n]) /\ ~Live(refresh_tokens[n])
        /\ refresh_tokens'[n].family_id = n
        /\ refresh_tokens'[n].principal_id = p
    BY <2>1, <2>2, <2>3, CommitRow DEF Inserting, Revoking, Live
  <2>5. \A t \in TokenId \ {n} : refresh_tokens'[t] = refresh_tokens[t]
    BY <1>3, <2>1, CommitRow DEF Inserting, InRange, RevokeAllOps
  <2>6. Sessions' = Sessions \cup {<< n, p >>}
    <3>1. \A s : s \in Sessions' <=> s \in Sessions \/ s = << n, p >>
      BY <2>2, <2>4, <2>5, SessionsAre
    <3>2. QED
      BY <3>1
  <2>7. Suspended' = Suspended
    BY <1>3, CommitSuspends
  <2>8. Authority!Open(n, p)
    BY <2>2, <2>6, <2>7 DEF Authority!Open
  <2>9. QED
    BY <2>1, <2>2, <2>8 DEF Authority!Next
\* A refresh replaces the one live row of its session by another.
<1>4. CASE req[r].op = "refresh"
  <2> DEFINE n == req[r].new
             t == req[r].token
  <2>1. /\ n \in TokenId /\ Inserting(r, n) /\ t \in TokenId
        /\ Revoking(r, t) /\ written[r][t] # None
    BY <1>2, <1>4, Numbers
       DEF IInv, InsertStands, RowInv, RefreshHoldsToken, TypeOK, Request
  <2>2. /\ Live(refresh_tokens[t]) /\ ~Live(refresh_tokens[n])
        /\ refresh_tokens[t].family_id = req[r].family
        /\ refresh_tokens[t].principal_id = p
    BY <1>4, <2>1 DEF IInv, RowInv, RefreshHoldsToken, RefreshEntitled, Revoking,
                      Inserting, Live
  <2>3. /\ Live(refresh_tokens'[n]) /\ ~Live(refresh_tokens'[t])
        /\ refresh_tokens'[n].family_id = req[r].family
        /\ refresh_tokens'[n].principal_id = p
    BY <2>1, CommitRow DEF Inserting, Revoking, Live
  <2>4. \A u \in TokenId \ {n, t} : refresh_tokens'[u] = refresh_tokens[u]
    BY <1>4, CommitRow DEF Inserting, InRange, RevokeAllOps
  <2>5. Sessions' = Sessions
    <3>1. \A s : s \in Sessions' <=> s \in Sessions
      BY <2>1, <2>2, <2>3, <2>4, SessionsAre
    <3>2. QED
      BY <3>1
  <2>6. Spent' = Spent
    BY <1>1, <1>2, <1>4, ReleaseSpends
  <2>7. Suspended' = Suspended
    BY <1>4, CommitSuspends
  <2>8. QED
    BY <2>5, <2>6, <2>7 DEF Authority!vars
<1>5. CASE req[r].op \notin {"login", "refresh"}
  <2>1. Spent' = Spent
    BY <1>1, <1>2, <1>5, ReleaseSpends
  <2>2. Sessions' \subseteq Sessions
    BY <1>5, CommitWithdraws, SessionsAre
  <2>3. CASE Suspended' = Suspended
    BY <2>1, <2>2, <2>3, ClosesSome
  \* An archive or a deletion closes every session of the account.
  <2>4. CASE /\ req[r].op \in {"archive", "delete"} /\ p \in Principals \ Suspended
             /\ Suspended' = Suspended \cup {p}
    <3>1. \A row : InRange(req[r], row) <=> row.principal_id = p
      BY <1>2, <2>4 DEF InRange, RevokeAllOps
    <3>2. \A t \in TokenId : Live(refresh_tokens'[t]) =>
            /\ refresh_tokens'[t] = refresh_tokens[t]
            /\ refresh_tokens[t].principal_id # p
      BY <1>5, <3>1, CommitWithdraws, CommitRow DEF IInv, RangesSwept, Inserting, Live
    <3>3. \A t \in TokenId :
            Live(refresh_tokens[t]) /\ refresh_tokens[t].principal_id # p
              => refresh_tokens'[t] = refresh_tokens[t]
      BY <1>5, <3>1, CommitWithdraws
    <3>4. \A s : s \in Sessions' <=> s \in Sessions /\ s[2] # p
      BY <3>2, <3>3, SessionsAre
    <3>5. Sessions' = Sessions \ Authority!Of(p)
      BY <3>4 DEF Authority!Of
    <3>6. Authority!Suspend(p)
      BY <2>1, <2>4, <3>5 DEF Authority!Suspend
    <3>7. QED
      BY <2>4, <3>6 DEF Authority!Next
  <2>5. CASE /\ req[r].op \in {"unarchive", "restore"} /\ p \in Suspended
             /\ Suspended' = Suspended \ {p}
    <3>1. \A t \in TokenId : refresh_tokens'[t] = refresh_tokens[t]
      BY <1>5, <2>5, CommitWithdraws DEF InRange, RevokeAllOps
    <3>2. \A s : s \in Sessions' <=> s \in Sessions
      BY <3>1, SessionsAre
    <3>3. Sessions' = Sessions
      BY <3>2
    <3>4. Authority!Reinstate(p)
      BY <2>1, <2>5, <3>3 DEF Authority!Reinstate
    <3>5. p \in Principals
      BY <2>5 DEF Suspended
    <3>6. QED
      BY <3>4, <3>5 DEF Authority!Next
  <2>6. QED
    BY <2>3, <2>4, <2>5, CommitSuspends
<1>6. QED
  BY <1>3, <1>4, <1>5

\* Rows, statements, snapshots and locks implement sessions that are opened,
\* closed and suspended in one step each.
THEOREM ImplementsAuthority == Spec => AuthoritySpec
<1>1. ASSUME IInv, [Next]_vars PROVE [Authority!Next]_(Authority!vars)
  <2>1. CASE UNCHANGED << refresh_tokens, accounts, req, next_id >>
    BY <2>1 DEF Authority!vars, Sessions, Spent, Suspended, Opening, Live
  <2>2. ASSUME NEW r \in Requests,
               Read(r) \/ LoginIssue(r) \/ RefreshConsume(r) \/ Revoke(r)
        PROVE  UNCHANGED Authority!vars
    BY <1>1, <2>2, InvisibleStep
  <2>3. ASSUME NEW r \in Requests, RefreshIssue(r) PROVE Authority!Next
    BY <1>1, <2>3, RefreshWastes
  <2>4. ASSUME NEW r \in Requests, Commit(r)
        PROVE  [Authority!Next]_(Authority!vars)
    BY <1>1, <2>4, CommitStep
  <2>5. ASSUME NEW r \in Requests, GiveUp(r) \/ Direct(r)
        PROVE  [Authority!Next]_(Authority!vars)
    BY <1>1, <2>5, WithdrawCloses
  <2>6. QED
    BY <1>1, <2>1, <2>2, <2>3, <2>4, <2>5, Steps DEF Tick, vars, Issue
<1>2. QED
  BY <1>1, AuthorityInit, Invariant, PTL DEF Spec, AuthoritySpec, Authority!Spec

=============================================================================
