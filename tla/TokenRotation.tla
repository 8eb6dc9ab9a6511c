--------------------------- MODULE TokenRotation ---------------------------
(***************************************************************************)
(* Refresh-token rotation, reuse detection and revocation, as the requests *)
(* of several application instances execute it against one database        *)
(* (services/service_auth.py, services/service_admin.py,                   *)
(* services/service_user.py, repositories/repo_refresh_token.py).          *)
(*                                                                         *)
(* One step is one statement the database executes, or the snapshot read   *)
(* with which a request begins together with the Python checks made on the *)
(* objects it returned.  Between two steps any other request may run.      *)
(*                                                                         *)
(* The database is the InnoDB of the deployment at its default level,      *)
(* REPEATABLE READ, taken from how the code uses it:                       *)
(*   - a SELECT reads the request's snapshot, never a lock;                *)
(*   - UPDATE and DELETE read the latest committed rows, wait for the rows *)
(*     other transactions have locked, and lock what they scanned;         *)
(*   - an UPDATE over an index range (a family, a principal) also keeps    *)
(*     others from inserting into that range until it commits;             *)
(*   - a deadlock victim, a lock-wait timeout, a lost connection or a      *)
(*     crashed process ends a transaction at any point without effect      *)
(*     (DbError).                                                          *)
(* An UPDATE takes its locks one row after the other; here it waits until  *)
(* it can have them all, and the deadlocks this hides are DbErrors.        *)
(*                                                                         *)
(* Requests answered 401, 403 or 404 on what they read write nothing and   *)
(* are not steps: they are the negated guards of the ...Read actions.      *)
(***************************************************************************)
EXTENDS Naturals

CONSTANTS
  Requests,     \* request slots: each serves one HTTP request after another
  Admins,       \* principals with role ADMIN
  Users,        \* principals with role USER
  None,         \* no row, no principal
  MaxTokens,    \* bound: rows ever inserted
  MaxTime,      \* bound: the clock
  TTL,          \* refresh_token_expire_seconds
  Grace         \* refresh_token_reuse_grace_seconds

Principals == Admins \cup Users
TokenId    == 1 .. MaxTokens
Time       == 1 .. MaxTime
Null       == 0                 \* SQL NULL of revoked_at and replaced_by_id

\* A row of refresh_tokens.  A row's id is its index; the family_id, a uuid4
\* drawn by the login, is the id of the login's own row.
Row == [principal_id : Principals, family_id : TokenId, expires_at : Nat,
        revoked_at : Time \cup {Null}, replaced_by_id : TokenId \cup {Null}]

\* What keeps an account from being active.  Admin.is_active is computed from
\* archived_at and deleted_at, User.is_active is a column, and a user is
\* deleted with its principal.
Flags == {"archived", "deleted", "inactive", "gone"}

RevokeAllOps == {"logout_all", "archive", "delete", "change_password"}
Ops == {"none", "login", "refresh", "reuse", "logout", "unarchive", "restore",
        "deactivate", "user_delete"} \cup RevokeAllOps
Labels == {"idle", "issue", "consume", "revoke", "mark", "commit", "kick",
           "purge"}

\* What a request carries from one step to the next.  `now' is the time it
\* captured when it started.
Request == [pc : Labels, op : Ops, principal : Principals \cup {None},
            token : TokenId \cup {Null}, family : TokenId \cup {Null},
            new : TokenId \cup {Null}, now : Time \cup {Null}]
Idle == [pc |-> "idle", op |-> "none", principal |-> None, token |-> Null,
         family |-> Null, new |-> Null, now |-> Null]

ASSUME TokenRotationAssumption ==
  /\ MaxTokens \in Nat \ {0}
  /\ MaxTime \in Nat \ {0}
  /\ TTL \in Nat \ {0}
  /\ Grace \in Nat
  /\ Admins \cap Users = {}
  /\ None \notin Principals
  /\ None \notin Row

VARIABLES
  refresh_tokens,   \* the committed rows, None where there is none
  accounts,         \* the committed flags of each principal's account
  written,          \* written[r]: row versions r has written, not committed
  req,              \* req[r]: the request slot r is serving
  next_id,          \* AUTO_INCREMENT of refresh_tokens
  now               \* the clock the instances share

vars == << refresh_tokens, accounts, written, req, next_id, now >>

NoRows == [t \in TokenId |-> None]

\* What an operation has read before it writes.
Carries(q) ==
  /\ q.op \in {"login", "refresh"} => q.principal \in Principals
  /\ q.op \in {"refresh", "reuse"} => q.family \in TokenId /\ q.now \in Time
  /\ q.op = "refresh" => q.token \in TokenId
  /\ q.pc = "consume" => q.op = "refresh"

TypeOK ==
  /\ refresh_tokens \in [TokenId -> Row \cup {None}]
  /\ accounts \in [Principals -> SUBSET Flags]
  /\ written \in [Requests -> [TokenId -> Row \cup {None}]]
  /\ req \in [Requests -> Request]
  /\ \A r \in Requests : Carries(req[r])
  /\ next_id \in 1 .. MaxTokens + 1
  /\ now \in Time

Init ==
  /\ refresh_tokens = NoRows
  /\ accounts = [p \in Principals |-> {}]
  /\ written = [r \in Requests |-> NoRows]
  /\ req = [r \in Requests |-> Idle]
  /\ next_id = 1
  /\ now = 1

-----------------------------------------------------------------------------
(* Rows and locks *)

Live(row) == row # None /\ row.revoked_at = Null

Expired(row, at) == row.expires_at <= at

\* The index range an UPDATE of r has scanned and holds until it commits.
InRange(q, row) ==
  /\ q.pc = "commit"
  /\ \/ q.op \in RevokeAllOps /\ row.principal_id = q.principal
     \/ q.op = "reuse" /\ row.family_id = q.family

\* Row t is locked by r: r wrote it, or it lies in the range r scanned.
Holds(r, t) ==
  \/ written[r][t] # None
  \/ refresh_tokens[t] # None /\ InRange(req[r], refresh_tokens[t])

Version(r, t) == IF written[r][t] # None THEN written[r][t] ELSE refresh_tokens[t]

LockedByOther(r, t) == \E q \in Requests \ {r} : Holds(q, t)

\* No other request holds a row, committed or not, of the principal or family.
PrincipalUnlocked(r, p) ==
  \A q \in Requests \ {r}, t \in TokenId :
    Holds(q, t) => Version(q, t).principal_id # p
FamilyUnlocked(r, f) ==
  \A q \in Requests \ {r}, t \in TokenId :
    Holds(q, t) => Version(q, t).family_id # f

\* Fault: READ COMMITTED, where a range is not locked against inserts.
InsertNeverWaits(r, row) == TRUE

\* INSERT waits for a range lock that covers the row.
InsertUnlocked(r, row) == \A q \in Requests \ {r} : ~InRange(req[q], row)

NewRow(p, f) ==
  [principal_id |-> p, family_id |-> f, expires_at |-> now + TTL,
   revoked_at |-> Null, replaced_by_id |-> Null]

\* _issue_refresh_token: INSERT and flush.  The foreign key to principals is
\* checked against the committed row.
Insert(r, p, f) ==
  /\ next_id <= MaxTokens
  /\ "gone" \notin accounts[p]
  /\ InsertUnlocked(r, NewRow(p, f))
  /\ written' = [written EXCEPT ![r][next_id] = NewRow(p, f)]
  /\ next_id' = next_id + 1

\* revoke_all_for_principal, revoke_family: UPDATE ... WHERE the row is of the
\* principal or family AND revoked_at IS NULL.
LiveOfPrincipal(p) ==
  {t \in TokenId : Live(refresh_tokens[t]) /\ refresh_tokens[t].principal_id = p}
LiveOfFamily(f) ==
  {t \in TokenId : Live(refresh_tokens[t]) /\ refresh_tokens[t].family_id = f}
RevokeRows(r, S, at) ==
  written' = [written EXCEPT ![r] = [t \in TokenId |->
                IF t \in S THEN [refresh_tokens[t] EXCEPT !.revoked_at = at]
                           ELSE None]]

\* The transaction of r is over, and the slot is free or goes on at label pc.
Release(r, pc) ==
  /\ written' = [written EXCEPT ![r] = NoRows]
  /\ req' = [req EXCEPT ![r] = [Idle EXCEPT !.pc = pc]]

-----------------------------------------------------------------------------
(* login, admin_login, register *)

IsActive(p) == accounts[p] = {}

\* The account is read and, after argon2 has run in the thread pool, the
\* password and is_active of the object read here are checked: what happens
\* to the account while argon2 runs is not seen.
LoginRead(r, p) ==
  /\ req[r].pc = "idle"
  /\ IsActive(p)
  /\ req' = [req EXCEPT ![r] = [Idle EXCEPT !.pc = "issue", !.op = "login",
                                            !.principal = p]]
  /\ UNCHANGED << refresh_tokens, accounts, written, next_id, now >>

LoginIssue(r) ==
  /\ req[r].pc = "issue" /\ req[r].op = "login"
  /\ Insert(r, req[r].principal, next_id)
  /\ req' = [req EXCEPT ![r].pc = "commit", ![r].family = next_id,
                        ![r].new = next_id]
  /\ UNCHANGED << refresh_tokens, accounts, now >>

\* delete_expired, in a transaction of its own after a user's login.  The
\* foreign key replaced_by_id is ON DELETE SET NULL.
PurgeExpired(r) ==
  /\ req[r].pc = "purge"
  /\ \A t \in TokenId : refresh_tokens[t] # None /\ LockedByOther(r, t)
                          => ~Expired(refresh_tokens[t], now)
  /\ LET dead(t) == refresh_tokens[t] # None /\ Expired(refresh_tokens[t], now)
     IN  refresh_tokens' = [t \in TokenId |->
           IF refresh_tokens[t] = None \/ dead(t) THEN None
           ELSE IF /\ refresh_tokens[t].replaced_by_id # Null
                   /\ dead(refresh_tokens[t].replaced_by_id)
                THEN [refresh_tokens[t] EXCEPT !.replaced_by_id = Null]
                ELSE refresh_tokens[t]]
  /\ Release(r, "idle")
  /\ UNCHANGED << accounts, next_id, now >>

-----------------------------------------------------------------------------
(* refresh *)

\* The token is found live, unexpired and of an active account.
RefreshRead(r, t) ==
  /\ req[r].pc = "idle"
  /\ Live(refresh_tokens[t])
  /\ ~Expired(refresh_tokens[t], now)
  /\ IsActive(refresh_tokens[t].principal_id)
  /\ req' = [req EXCEPT ![r] =
       [pc |-> "issue", op |-> "refresh", token |-> t, new |-> Null, now |-> now,
        principal |-> refresh_tokens[t].principal_id,
        family |-> refresh_tokens[t].family_id]]
  /\ UNCHANGED << refresh_tokens, accounts, written, next_id, now >>

\* Fault: the successor starts a family of its own.
RefreshIssueNewFamily(r) ==
  /\ req[r].pc = "issue" /\ req[r].op = "refresh"
  /\ Insert(r, req[r].principal, next_id)
  /\ req' = [req EXCEPT ![r].pc = "consume", ![r].new = next_id]
  /\ UNCHANGED << refresh_tokens, accounts, now >>

RefreshIssue(r) ==
  /\ req[r].pc = "issue" /\ req[r].op = "refresh"
  /\ Insert(r, req[r].principal, req[r].family)
  /\ req' = [req EXCEPT ![r].pc = "consume", ![r].new = next_id]
  /\ UNCHANGED << refresh_tokens, accounts, now >>

\* Fault: consume without its condition on revoked_at.
ConsumeUnconditionally(r) ==
  LET t == req[r].token IN
  /\ req[r].pc = "consume"
  /\ ~LockedByOther(r, t)
  /\ refresh_tokens[t] # None
  /\ written' = [written EXCEPT ![r][t] =
       [refresh_tokens[t] EXCEPT !.revoked_at = req[r].now,
                                 !.replaced_by_id = req[r].new]]
  /\ req' = [req EXCEPT ![r].pc = "commit"]
  /\ UNCHANGED << refresh_tokens, accounts, next_id, now >>

\* consume: UPDATE ... WHERE id = :id AND revoked_at IS NULL finds the row.
RefreshConsume(r) ==
  LET t == req[r].token IN
  /\ req[r].pc = "consume"
  /\ ~LockedByOther(r, t)
  /\ Live(refresh_tokens[t])
  /\ written' = [written EXCEPT ![r][t] =
       [refresh_tokens[t] EXCEPT !.revoked_at = req[r].now,
                                 !.replaced_by_id = req[r].new]]
  /\ req' = [req EXCEPT ![r].pc = "commit"]
  /\ UNCHANGED << refresh_tokens, accounts, next_id, now >>

\* Fault: the loser answers 401 without the rollback, and its new row stays.
LoserKeepsItsRow(r) ==
  LET t == req[r].token IN
  /\ req[r].pc = "consume"
  /\ ~LockedByOther(r, t)
  /\ ~Live(refresh_tokens[t])
  /\ refresh_tokens' = [u \in TokenId |-> Version(r, u)]
  /\ Release(r, "idle")
  /\ UNCHANGED << accounts, next_id, now >>

\* consume matches no row: another request was first.  Rollback and 401.
RefreshLost(r) ==
  LET t == req[r].token IN
  /\ req[r].pc = "consume"
  /\ ~LockedByOther(r, t)
  /\ ~Live(refresh_tokens[t])
  /\ Release(r, "idle")
  /\ UNCHANGED << refresh_tokens, accounts, next_id, now >>

\* The token is found revoked for longer than the grace window: reuse.
ReuseRead(r, t) ==
  /\ req[r].pc = "idle"
  /\ refresh_tokens[t] # None /\ ~Live(refresh_tokens[t])
  /\ now - refresh_tokens[t].revoked_at > Grace
  /\ req' = [req EXCEPT ![r] =
       [Idle EXCEPT !.pc = "revoke", !.op = "reuse", !.now = now,
                    !.family = refresh_tokens[t].family_id]]
  /\ UNCHANGED << refresh_tokens, accounts, written, next_id, now >>

ReuseRevoke(r) ==
  /\ req[r].pc = "revoke" /\ req[r].op = "reuse"
  /\ FamilyUnlocked(r, req[r].family)
  /\ RevokeRows(r, LiveOfFamily(req[r].family), req[r].now)
  /\ req' = [req EXCEPT ![r].pc = "commit"]
  /\ UNCHANGED << refresh_tokens, accounts, next_id, now >>

-----------------------------------------------------------------------------
(* logout, and the operations that revoke everything a principal holds *)

LogoutRead(r, t) ==
  /\ req[r].pc = "idle"
  /\ Live(refresh_tokens[t])
  /\ req' = [req EXCEPT ![r] = [Idle EXCEPT !.pc = "mark", !.op = "logout",
                                            !.token = t]]
  /\ UNCHANGED << refresh_tokens, accounts, written, next_id, now >>

\* The flush of rt.revoked_at is an UPDATE by primary key that does not look at
\* revoked_at again; the commit follows at once.  A row that is gone makes the
\* flush fail (DbError).
LogoutMark(r) ==
  LET t == req[r].token IN
  /\ req[r].pc = "mark"
  /\ ~LockedByOther(r, t)
  /\ refresh_tokens[t] # None
  /\ refresh_tokens' = [refresh_tokens EXCEPT ![t].revoked_at = now]
  /\ Release(r, "kick")
  /\ UNCHANGED << accounts, next_id, now >>

\* logout_all reads nothing: the access token names the principal, and it is
\* accepted until it expires, whatever has become of the account.
LogoutAllStart(r, p) ==
  /\ req[r].pc = "idle"
  /\ req' = [req EXCEPT ![r] = [Idle EXCEPT !.pc = "revoke", !.op = "logout_all",
                                            !.principal = p]]
  /\ UNCHANGED << refresh_tokens, accounts, written, next_id, now >>

\* The checks AdminService makes on the admin it read, role and protection
\* aside (a rejected call writes nothing).  change_password is called by the
\* admin itself, whom get_current_admin found active.
AdminGuard(op, flags) ==
  CASE op = "archive"         -> flags = {}
    [] op = "unarchive"       -> flags = {"archived"}
    [] op = "delete"          -> "deleted" \notin flags
    [] op = "restore"         -> "deleted" \in flags
    [] op = "change_password" -> flags = {}

AdminOps == {"archive", "unarchive", "delete", "restore", "change_password"}

\* Fault: archive and delete do not call revoke_all_for_principal.
AdminReadNoRevoke(r, op, p) ==
  /\ req[r].pc = "idle"
  /\ AdminGuard(op, accounts[p])
  /\ req' = [req EXCEPT ![r] =
       [Idle EXCEPT !.pc = IF op = "change_password" THEN "revoke" ELSE "commit",
                    !.op = op, !.principal = p]]
  /\ UNCHANGED << refresh_tokens, accounts, written, next_id, now >>

\* AdminService.get, in the snapshot of the request.
AdminRead(r, op, p) ==
  /\ req[r].pc = "idle"
  /\ AdminGuard(op, accounts[p])
  /\ req' = [req EXCEPT ![r] =
       [Idle EXCEPT !.pc = IF op \in RevokeAllOps THEN "revoke" ELSE "commit",
                    !.op = op, !.principal = p]]
  /\ UNCHANGED << refresh_tokens, accounts, written, next_id, now >>

\* revoke_all_for_principal runs before the flush of the account: the session
\* does not autoflush.
RevokeAll(r) ==
  /\ req[r].pc = "revoke" /\ req[r].op \in RevokeAllOps
  /\ PrincipalUnlocked(r, req[r].principal)
  /\ RevokeRows(r, LiveOfPrincipal(req[r].principal), now)
  /\ req' = [req EXCEPT ![r].pc = "commit"]
  /\ UNCHANGED << refresh_tokens, accounts, next_id, now >>

\* The columns the flush of the account sets; an UPDATE by primary key.
AccountAfter(op, flags) ==
  CASE op = "archive"     -> flags \cup {"archived"}
    [] op = "unarchive"   -> flags \ {"archived"}
    [] op = "delete"      -> flags \cup {"deleted"}
    [] op = "restore"     -> flags \ {"deleted"}
    [] op = "deactivate"  -> flags \cup {"inactive"}
    [] OTHER              -> flags

\* Where a request goes on after its commit: a user's login purges, the
\* operations that revoke tokens publish a kick, the others answer.
AfterCommit(op, p) ==
  IF op = "login" /\ p \in Users THEN "purge"
  ELSE IF op \in RevokeAllOps THEN "kick" ELSE "idle"

\* session.commit(): the account is flushed and the transaction's row versions
\* become the committed ones.  A user who is gone has no row left to flush.
Commit(r) ==
  LET p == req[r].principal IN
  /\ req[r].pc = "commit" /\ req[r].op # "user_delete"
  /\ req[r].op = "deactivate" => "gone" \notin accounts[p]
  /\ refresh_tokens' = [t \in TokenId |-> Version(r, t)]
  /\ accounts' = IF p = None THEN accounts
                 ELSE [accounts EXCEPT ![p] = AccountAfter(req[r].op, @)]
  /\ Release(r, AfterCommit(req[r].op, p))
  /\ UNCHANGED << next_id, now >>

\* _kick_session, _kick_principal: best effort, after the commit.
Kick(r) ==
  /\ req[r].pc = "kick"
  /\ Release(r, "idle")
  /\ UNCHANGED << refresh_tokens, accounts, next_id, now >>

-----------------------------------------------------------------------------
(* UserService *)

\* UserService.update with is_active = False: the tokens are left alone.
\* UserService.delete: the row of principals goes, and everything with it.
UserRead(r, op, p) ==
  /\ req[r].pc = "idle"
  /\ IsActive(p)
  /\ req' = [req EXCEPT ![r] = [Idle EXCEPT !.pc = "commit", !.op = op,
                                            !.principal = p]]
  /\ UNCHANGED << refresh_tokens, accounts, written, next_id, now >>

UserDeleteCommit(r) ==
  LET p == req[r].principal IN
  /\ req[r].pc = "commit" /\ req[r].op = "user_delete"
  /\ PrincipalUnlocked(r, p)
  /\ refresh_tokens' = [t \in TokenId |->
       IF refresh_tokens[t] # None /\ refresh_tokens[t].principal_id = p
       THEN None ELSE refresh_tokens[t]]
  /\ accounts' = [accounts EXCEPT ![p] = @ \cup {"gone"}]
  /\ Release(r, "idle")
  /\ UNCHANGED << next_id, now >>

-----------------------------------------------------------------------------
\* The transaction fails or its process dies; a failed purge is swallowed.
DbError(r) ==
  /\ req[r].pc # "idle"
  /\ Release(r, "idle")
  /\ UNCHANGED << refresh_tokens, accounts, next_id, now >>

Tick ==
  /\ now < MaxTime
  /\ now' = now + 1
  /\ UNCHANGED << refresh_tokens, accounts, written, req, next_id >>

Login(r)   == (\E p \in Principals : LoginRead(r, p)) \/ LoginIssue(r)
                \/ PurgeExpired(r)
Refresh(r) == \/ \E t \in TokenId : RefreshRead(r, t) \/ ReuseRead(r, t)
              \/ RefreshIssue(r) \/ RefreshConsume(r) \/ RefreshLost(r)
              \/ ReuseRevoke(r)
Logout(r)  == \/ \E t \in TokenId : LogoutRead(r, t)
              \/ \E p \in Principals : LogoutAllStart(r, p)
              \/ LogoutMark(r) \/ RevokeAll(r) \/ Kick(r)
Account(r) == \/ \E op \in AdminOps, p \in Admins : AdminRead(r, op, p)
              \/ \E op \in {"deactivate", "user_delete"}, p \in Users :
                   UserRead(r, op, p)
              \/ UserDeleteCommit(r)

Next == \/ \E r \in Requests : \/ Login(r) \/ Refresh(r) \/ Logout(r)
                               \/ Account(r) \/ Commit(r) \/ DbError(r)
        \/ Tick

Spec == Init /\ [][Next]_vars

-----------------------------------------------------------------------------
(* Properties *)

\* The login of r has drawn family f and not committed it.
Opening(r, f) == req[r].op = "login" /\ req[r].new = f

LiveIn(rows, f) == \E t \in TokenId : Live(rows[t]) /\ rows[t].family_id = f

\* A session has at most one live refresh token, however many refreshes of the
\* same token, logouts and revocations run at once: rotation leaves no second
\* branch behind that reuse detection would not see.
OneLivePerFamily ==
  \A t, u \in TokenId :
    /\ Live(refresh_tokens[t]) /\ Live(refresh_tokens[u])
    /\ refresh_tokens[t].family_id = refresh_tokens[u].family_id
    => t = u

\* A refresh that is about to commit serves an admin who is active now, not
\* only when the request read the account: the archive or the deletion of the
\* account that came in between has revoked the token, or waits for this
\* commit and revokes the new one.
RefreshServesActiveAdmin ==
  \A r \in Requests :
    req[r].pc = "commit" /\ req[r].op = "refresh" /\ req[r].principal \in Admins
      => IsActive(req[r].principal)

\* A token is used up once and for all: a revoked row is never live again, its
\* successor is never exchanged for another one, and the id of a row that is
\* gone does not come back.
TokensSingleUse ==
  [][\A t \in TokenId :
       /\ refresh_tokens[t] # None /\ ~Live(refresh_tokens[t]) =>
            \/ refresh_tokens'[t] = None
            \/ /\ ~Live(refresh_tokens'[t])
               /\ \/ refresh_tokens'[t].replaced_by_id
                       = refresh_tokens[t].replaced_by_id
                  \/ refresh_tokens'[t].replaced_by_id = Null
       /\ /\ refresh_tokens[t] = None /\ t < next_id
          /\ \A r \in Requests : written[r][t] = None
          => refresh_tokens'[t] = None]_vars

\* A session that holds no live token stays dead: no refresh in flight, no
\* unarchive and no restore revives it (AdminService: tokens do not come back
\* by themselves).
DeadFamilyStaysDead ==
  [][\A f \in TokenId :
       /\ f < next_id /\ ~LiveIn(refresh_tokens, f)
       /\ \A r \in Requests : ~Opening(r, f)
       => ~LiveIn(refresh_tokens', f)]_vars

\* When a reuse verdict, a logout of all devices, a password change, an archive
\* or a deletion commits, no live token of the family or of the principal is
\* left: none slips in between the UPDATE and its commit.
RevocationComplete ==
  [][\A r \in Requests : Commit(r) =>
       \A t \in TokenId : Live(refresh_tokens'[t]) =>
         ~InRange(req[r], refresh_tokens'[t])]_vars

\* What admin_login states of itself: an archived or deleted admin is given no
\* token (service_auth.py:199), and archiving revokes those it had.
InactiveAdminHasNoLiveToken ==
  \A t \in TokenId :
    Live(refresh_tokens[t]) /\ refresh_tokens[t].principal_id \in Admins
      => IsActive(refresh_tokens[t].principal_id)

-----------------------------------------------------------------------------
(* The inductive invariant behind OneLivePerFamily, DeadFamilyStaysDead and *)
(* TokensSingleUse: how rows, writes and requests hang together.            *)

\* Ids are drawn once, and nothing refers to one that is not drawn yet.
FreshIds ==
  /\ \A t \in TokenId :
       /\ t >= next_id => /\ refresh_tokens[t] = None
                          /\ \A r \in Requests : written[r][t] = None
       /\ refresh_tokens[t] # None => refresh_tokens[t].family_id < next_id
  /\ \A r \in Requests : /\ req[r].token < next_id
                          /\ req[r].family < next_id
                          /\ req[r].new < next_id

\* Row locks are exclusive.
OneWriter ==
  \A r, q \in Requests, t \in TokenId :
    written[r][t] # None /\ written[q][t] # None => r = q

\* r inserts row t, and has not committed it.
Inserting(r, t) ==
  /\ refresh_tokens[t] = None
  /\ Live(written[r][t])
  /\ written[r][t].family_id = req[r].family
  /\ t = req[r].new
  /\ \/ req[r].op = "login" /\ req[r].pc = "commit"
     \/ req[r].op = "refresh" /\ req[r].pc \in {"consume", "commit"}

\* r revokes row t, and has not committed it.
Revoking(r, t) ==
  /\ Live(refresh_tokens[t])
  /\ written[r][t].revoked_at # Null
  /\ written[r][t].family_id = refresh_tokens[t].family_id
  /\ written[r][t].principal_id = refresh_tokens[t].principal_id
  /\ req[r].pc = "commit"

WritesAccounted ==
  \A r \in Requests, t \in TokenId :
    written[r][t] # None => Inserting(r, t) \/ Revoking(r, t)

\* Nobody but the login that draws a family knows of it before the commit.
OpeningIsPrivate ==
  \A r \in Requests, f \in TokenId : Opening(r, f) =>
    /\ req[r].family = f
    /\ \A t \in TokenId :
         refresh_tokens[t] # None => refresh_tokens[t].family_id # f
    /\ \A q \in Requests \ {r} : req[q].family # f /\ req[q].new # f

\* The token a refresh read keeps its session, or is gone for good; once
\* consumed it is the live token of the session until the commit.
RefreshHoldsToken ==
  \A r \in Requests : req[r].op = "refresh" =>
    LET t == req[r].token IN
    /\ refresh_tokens[t] # None =>
         refresh_tokens[t].family_id = req[r].family
    /\ refresh_tokens[t] = None => \A q \in Requests : written[q][t] = None
    /\ req[r].pc = "commit" => written[r][t] # None /\ Revoking(r, t)

RowInv ==
  /\ TypeOK
  /\ FreshIds
  /\ OneWriter
  /\ WritesAccounted
  /\ OpeningIsPrivate
  /\ RefreshHoldsToken
  /\ OneLivePerFamily

-----------------------------------------------------------------------------
(* What RefreshServesActiveAdmin, RevocationComplete and the refinement     *)
(* need beyond that: who owns the rows, and what the range locks keep out.  *)

\* A login or a refresh has inserted its row from its issue to its commit.
InsertStands ==
  \A r \in Requests :
    /\ req[r].pc = "idle" => req[r].op = "none"
    /\ req[r].op = "login" =>
         \/ req[r].pc = "issue" /\ req[r].new = Null
         \/ req[r].pc = "commit" /\ req[r].new # Null /\ Inserting(r, req[r].new)
    /\ req[r].op = "refresh" /\ req[r].pc # "issue" =>
         /\ req[r].pc \in {"consume", "commit"}
         /\ req[r].new # Null /\ Inserting(r, req[r].new)

\* A request writes its own row, the token it refreshes and the rows of the
\* range it revokes, and nothing else.
WritesOwned ==
  \A r \in Requests, t \in TokenId : written[r][t] # None =>
    \/ Inserting(r, t) /\ written[r][t].principal_id = req[r].principal
    \/ /\ Revoking(r, t)
       /\ \/ req[r].op = "refresh" /\ t = req[r].token
          \/ InRange(req[r], refresh_tokens[t])

\* A refresh keeps the owner of its token, and while the token is live an
\* admin who owns it is active: whatever suspends the admin revokes the token
\* in the same commit.
RefreshEntitled ==
  \A r \in Requests : req[r].op = "refresh" =>
    LET t == req[r].token IN
    refresh_tokens[t] # None =>
      /\ refresh_tokens[t].principal_id = req[r].principal
      /\ Live(refresh_tokens[t]) /\ req[r].principal \in Admins
           => IsActive(req[r].principal)

\* No live row is left in a range that an UPDATE has scanned, ...
RangesSwept ==
  \A r \in Requests, t \in TokenId :
    Live(refresh_tokens[t]) /\ InRange(req[r], refresh_tokens[t])
      => written[r][t] # None

\* ... and no row is on its way into it.
RangesShut ==
  \A r, q \in Requests, t \in TokenId :
    Inserting(q, t) => ~InRange(req[r], written[q][t])

\* The operations of UserService are on users.
UserOps ==
  \A r \in Requests : req[r].op \in {"deactivate", "user_delete"}
                       => req[r].principal \in Users

IInv ==
  /\ RowInv
  /\ InsertStands
  /\ WritesOwned
  /\ RefreshEntitled
  /\ RangesSwept
  /\ RangesShut
  /\ UserOps

-----------------------------------------------------------------------------
(* The sessions the rows stand for *)

Sessions ==
  {<< refresh_tokens[t].family_id, refresh_tokens[t].principal_id >> :
     t \in {u \in TokenId : Live(refresh_tokens[u])}}
Spent == {f \in TokenId : f < next_id /\ \A r \in Requests : ~Opening(r, f)}
Suspended == {p \in Principals : accounts[p] \cap {"archived", "deleted"} # {}}

\* The statements, locks and snapshots implement atomic sessions.
Authority == INSTANCE SessionAuthority
               WITH Families <- TokenId, Owners <- Principals,
                    sessions <- Sessions, spent <- Spent,
                    suspended <- Suspended
AuthoritySpec == Authority!Spec

=============================================================================
