--------------------------- MODULE AdminLifecycle ---------------------------
(***************************************************************************)
(* The admins table: the bootstrap of the protected root by every worker   *)
(* that starts (services/service_initial_admin.py) and the management of   *)
(* admins by other admins (services/service_admin.py behind                *)
(* api/routers/admin/router.py).                                           *)
(*                                                                         *)
(* A request authenticates its actor and loads its target in one database  *)
(* snapshot, applies every guard to what it loaded and, later, writes: the *)
(* UPDATE of a SQLAlchemy flush names only the columns that differ from    *)
(* the loaded row and lands on whatever the row has become meanwhile.      *)
(* These are two steps, ...Read and Write.  A request whose guards fail,   *)
(* or that finds nothing to change, writes nothing and is no step.         *)
(*                                                                         *)
(* The tokens an archive or a delete revokes in the same transaction, the  *)
(* password, and the kick that follows are the subject of TokenRotation;   *)
(* they share no column with the rows here.                                *)
(***************************************************************************)
EXTENDS Integers

CONSTANTS
  Ids,          \* principal ids the table may ever hold
  Requests,     \* request slots: each serves one HTTP request after another
  Workers,      \* application processes
  Usernames,    \* normalised usernames
  RootName,     \* INITIAL_ADMIN_USERNAME, the same for every worker
  LegacyNames,  \* usernames of the admins there are before the first start
  Names,        \* display names
  Roles,        \* the grades in use, ranked by value
  None          \* no row, no request, SQL NULL

SUPER_ADMIN == 100
ROOT == 999

Stamp == {None, "set"}        \* a timestamp, or the id of who set it

\* A row of admins.
Row == [username : Usernames, name : Names, admin_role : Roles,
        is_protected : BOOLEAN, archived_at : Stamp, archived_by : Stamp,
        deleted_at : Stamp, deleted_by : Stamp]

ASSUME AdminLifecycleAssumption ==
  /\ RootName \in Usernames /\ LegacyNames \subseteq Usernames
  /\ Roles \subseteq {0, 50, SUPER_ADMIN, ROOT} /\ ROOT \in Roles
  /\ Names # {}
  /\ None \notin Row

\* The columns an UPDATE may name.
Column == [name |-> Names, admin_role |-> Roles,
           archived_at |-> Stamp, archived_by |-> Stamp,
           deleted_at |-> Stamp, deleted_by |-> Stamp]

VARIABLES
  admins,       \* the committed rows, None where there is none
  req,          \* req[r]: the write a request is about to make, or None
  worker        \* worker[w]: how far w is in its start-up

vars == << admins, req, worker >>

Ops == {"create", "update", "role", "archive", "unarchive", "delete", "restore"}

TypeOK ==
  /\ admins \in [Ids -> Row \cup {None}]
  /\ \A r \in Requests : req[r] # None =>
       /\ req[r].op \in Ops
       /\ req[r].actor \in Ids /\ req[r].target \in Ids
       /\ IF req[r].op = "create" THEN req[r].cols \in Row
          ELSE /\ DOMAIN req[r].cols # {}
               /\ \A c \in DOMAIN req[r].cols :
                    c \in DOMAIN Column /\ req[r].cols[c] \in Column[c]
  /\ worker \in [Workers -> {"down", "hashing", "up"}]

NewRow(u, n, role, protected) ==
  [username |-> u, name |-> n, admin_role |-> role, is_protected |-> protected,
   archived_at |-> None, archived_by |-> None,
   deleted_at |-> None, deleted_by |-> None]

\* What migrations and earlier versions may have left: unprotected admins, and
\* room for the root.
Legacy == {row \in Row : /\ row.username \in LegacyNames /\ row.admin_role # ROOT
                         /\ ~row.is_protected /\ row.archived_at = None
                         /\ row.archived_by = None /\ row.deleted_at = None
                         /\ row.deleted_by = None}

Init ==
  /\ admins \in [Ids -> Legacy \cup {None}]
  /\ \A a, b \in Ids : admins[a] # None /\ admins[b] # None /\ a # b
                         => admins[a].username # admins[b].username
  /\ \E a \in Ids : admins[a] = None
  /\ req = [r \in Requests |-> None]
  /\ worker = [w \in Workers |-> "down"]

-----------------------------------------------------------------------------
(* The table *)

Exists(a) == admins[a] # None

\* The two CHECK constraints on protected rows.
Checks(row) ==
  row.is_protected => /\ row.admin_role = ROOT
                      /\ row.archived_at = None /\ row.deleted_at = None

\* Fault: the index is not UNIQUE.
FreeAlways(u) == TRUE

\* The UNIQUE index on username.
Free(u) == \A a \in Ids : Exists(a) => admins[a].username # u

\* An INSERT that the constraints accept, under the next free id.
Insert(row) ==
  /\ Free(row.username)
  /\ Checks(row)
  /\ \E a \in Ids : ~Exists(a) /\ admins' = [admins EXCEPT ![a] = row]

ProtectedRootExists == \E a \in Ids : Exists(a) /\ admins[a].is_protected

-----------------------------------------------------------------------------
(* The bootstrap: every worker runs it before it serves a request *)

\* No protected root is counted, and the password is being hashed.
BootstrapSeed(w) ==
  /\ worker[w] = "down"
  /\ ~ProtectedRootExists
  /\ worker' = [worker EXCEPT ![w] = "hashing"]
  /\ UNCHANGED << admins, req >>

BootstrapSkip(w) ==
  /\ worker[w] = "down"
  /\ ProtectedRootExists
  /\ worker' = [worker EXCEPT ![w] = "up"]
  /\ UNCHANGED << admins, req >>

BootstrapInsert(w) ==
  /\ worker[w] = "hashing"
  /\ \E n \in Names : Insert(NewRow(RootName, n, ROOT, TRUE))
  /\ worker' = [worker EXCEPT ![w] = "up"]
  /\ UNCHANGED << req >>

\* Fault: any exception is taken for a lost race.
BootstrapGivesUp(w) ==
  /\ worker[w] = "hashing"
  /\ worker' = [worker EXCEPT ![w] = "up"]
  /\ UNCHANGED << admins, req >>

\* IntegrityError: another worker was faster, and this one starts all the same.
BootstrapLost(w) ==
  /\ worker[w] = "hashing"
  /\ ~Free(RootName)
  /\ worker' = [worker EXCEPT ![w] = "up"]
  /\ UNCHANGED << admins, req >>

\* The process dies before it serves anyone, and its replacement starts over.
\* One that dies later takes its requests with it, which Rollback covers, and
\* its replacement finds the root.
Crash(w) ==
  /\ worker[w] = "hashing"
  /\ worker' = [worker EXCEPT ![w] = "down"]
  /\ UNCHANGED << admins, req >>

-----------------------------------------------------------------------------
(* Requests *)

\* Fault: the UPDATE writes the whole row back.
WholeRow(row, cols) ==
  [c \in DOMAIN Column |-> IF c \in DOMAIN cols THEN cols[c] ELSE row[c]]

\* The part of `cols' an UPDATE writes: what differs from the loaded row.
Dirty(row, cols) ==
  [c \in {d \in DOMAIN cols : cols[d] # row[d]} |-> cols[c]]

IsActive(row) == row.archived_at = None /\ row.deleted_at = None

\* require_min_admin_role(SUPER_ADMIN) on the actor's own row.
Authorised(actor) ==
  /\ Exists(actor)
  /\ IsActive(admins[actor])
  /\ admins[actor].admin_role >= SUPER_ADMIN

\* AdminService.get
Found(target) == Exists(target) /\ admins[target].deleted_at = None

\* Fault: any super admin may touch the root.
Unguarded(actor, target) == TRUE

\* AdminService._guard_protected_target
GuardProtectedTarget(actor, target) ==
  admins[target].is_protected => actor = target

GuardTransition(actor, target) ==
  /\ GuardProtectedTarget(actor, target)
  /\ ~admins[target].is_protected
  /\ admins[target].admin_role # SUPER_ADMIN
  /\ actor # target

\* Fault: a request that changes nothing flushes all the same.
BeginAlways(r, op, actor, target, cols) ==
  /\ req[r] = None
  /\ \E w \in Workers : worker[w] = "up"
  /\ Authorised(actor)
  /\ req' = [req EXCEPT ![r] = [op |-> op, actor |-> actor, target |-> target,
                                cols |-> Dirty(admins[target], cols)]]
  /\ UNCHANGED << admins, worker >>

\* A request that passed its guards and is about to flush `cols'.
Begin(r, op, actor, target, cols) ==
  /\ req[r] = None
  /\ \E w \in Workers : worker[w] = "up"
  /\ Authorised(actor)
  /\ LET dirty == Dirty(admins[target], cols) IN
       /\ DOMAIN dirty # {}
       /\ req' = [req EXCEPT ![r] = [op |-> op, actor |-> actor,
                                     target |-> target, cols |-> dirty]]
  /\ UNCHANGED << admins, worker >>

UpdateRead(r, actor, target) ==
  /\ Found(target)
  /\ GuardProtectedTarget(actor, target)
  /\ \E n \in Names : Begin(r, "update", actor, target, [name |-> n])

SetAdminRoleRead(r, actor, target) ==
  /\ Found(target)
  /\ GuardProtectedTarget(actor, target)
  /\ \E role \in Roles :
       /\ admins[target].is_protected => role = ROOT
       /\ actor = target => role <= admins[target].admin_role
       /\ Begin(r, "role", actor, target, [admin_role |-> role])

ArchiveRead(r, actor, target) ==
  /\ Found(target)
  /\ admins[target].archived_at = None
  /\ GuardTransition(actor, target)
  /\ Begin(r, "archive", actor, target,
           [archived_at |-> "set", archived_by |-> "set"])

\* Fault: archived_by is not cleared.
UnarchiveKeepsWho(r, actor, target) ==
  /\ Found(target)
  /\ Begin(r, "unarchive", actor, target, [archived_at |-> None])

UnarchiveRead(r, actor, target) ==
  /\ Found(target)
  /\ Begin(r, "unarchive", actor, target,
           [archived_at |-> None, archived_by |-> None])

DeleteRead(r, actor, target) ==
  /\ Found(target)
  /\ GuardTransition(actor, target)
  /\ Begin(r, "delete", actor, target,
           [deleted_at |-> "set", deleted_by |-> "set"])

RestoreRead(r, actor, target) ==
  /\ Exists(target)
  /\ admins[target].deleted_at # None
  /\ Begin(r, "restore", actor, target,
           [deleted_at |-> None, deleted_by |-> None])

\* POST /admin/admins.  The row's id is drawn when it is inserted.
CreateRead(r, actor) ==
  /\ req[r] = None
  /\ \E w \in Workers : worker[w] = "up"
  /\ Authorised(actor)
  /\ \E u \in Usernames \ {RootName}, n \in Names, role \in Roles :
       /\ Free(u)
       /\ req' = [req EXCEPT ![r] =
                    [op |-> "create", actor |-> actor, target |-> actor,
                     cols |-> NewRow(u, n, role, FALSE)]]
  /\ UNCHANGED << admins, worker >>

\* The row an UPDATE of `cols' leaves.
Patched(row, cols) ==
  [c \in DOMAIN row |-> IF c \in DOMAIN cols THEN cols[c] ELSE row[c]]

\* The flush and the commit: the columns land on the row as it is by now.
Write(r) ==
  /\ req[r] # None
  /\ \/ /\ req[r].op = "create"
        /\ Insert(req[r].cols)
     \/ /\ req[r].op # "create"
        /\ Checks(Patched(admins[req[r].target], req[r].cols))
        /\ admins' = [admins EXCEPT ![req[r].target] = Patched(@, req[r].cols)]
  /\ req' = [req EXCEPT ![r] = None]
  /\ UNCHANGED worker

\* A constraint violated, a database error, a dead process: rollback.
Rollback(r) ==
  /\ req[r] # None
  /\ req' = [req EXCEPT ![r] = None]
  /\ UNCHANGED << admins, worker >>

-----------------------------------------------------------------------------

Bootstrap(w) ==
  BootstrapSeed(w) \/ BootstrapSkip(w) \/ BootstrapInsert(w) \/ BootstrapLost(w)

Manage(r, actor, target) ==
  \/ UpdateRead(r, actor, target)
  \/ SetAdminRoleRead(r, actor, target)
  \/ ArchiveRead(r, actor, target)
  \/ UnarchiveRead(r, actor, target)
  \/ DeleteRead(r, actor, target)
  \/ RestoreRead(r, actor, target)

Next ==
  \/ \E w \in Workers : Bootstrap(w) \/ Crash(w)
  \/ \E r \in Requests :
       \/ Write(r)
       \/ Rollback(r)
       \/ \E actor \in Ids :
            CreateRead(r, actor) \/ \E target \in Ids : Manage(r, actor, target)

Spec == Init /\ [][Next]_vars

-----------------------------------------------------------------------------
(* Properties *)

Protected == {a \in Ids : Exists(a) /\ admins[a].is_protected}

\* The floor under every lock-out: as soon as one worker serves requests there
\* is a protected root, active and of the highest grade, however many workers
\* seeded at once, died and started over; and there are never two.
\* ensure_initial_admin, repo_admin.py protected_root_exists
RootFloor ==
  /\ \A a, b \in Protected : a = b
  /\ (\E w \in Workers : worker[w] = "up") =>
       \E a \in Protected : IsActive(admins[a]) /\ admins[a].admin_role = ROOT

\* Why the root stands: the reserved username and the protection mark the same
\* row, no request carries either, and the index keeps the username unique.
\* AdminService.create (is_initial_admin_username), models/admin.py constraints
Reserved ==
  /\ \A a \in Ids : Exists(a) =>
       /\ admins[a].is_protected <=> admins[a].username = RootName
       /\ Checks(admins[a])
  /\ \A a, b \in Ids : Exists(a) /\ Exists(b) /\ a # b
                           => admins[a].username # admins[b].username
  /\ \A r \in Requests : req[r] # None =>
       IF req[r].op = "create"
       THEN ~req[r].cols.is_protected /\ req[r].cols.username # RootName
       ELSE Exists(req[r].target)
  /\ (\E w \in Workers : worker[w] = "up") => ProtectedRootExists

\* Who archived or deleted an admin is recorded exactly while the admin is
\* archived or deleted, whatever overlapping requests wrote.
\* models/admin.py: archived_at and archived_by come and go together
AuditPaired ==
  \A a \in Ids : Exists(a) =>
    /\ (admins[a].archived_at = None) = (admins[a].archived_by = None)
    /\ (admins[a].deleted_at = None) = (admins[a].deleted_by = None)

Finishes(r, a, ops) ==
  /\ req[r] # None /\ req'[r] = None
  /\ req[r].target = a /\ req[r].op \in ops

\* Nothing in the root's row changes but by the root's own request.
\* AdminService._guard_protected_target
RootChangesItself ==
  [][\A a \in Protected : admins'[a] # admins[a] =>
       \E r \in Requests : Finishes(r, a, Ops) /\ req[r].actor = a]_vars

\* An archived or deleted admin becomes active again only by an unarchive or a
\* restore: an overlapping rename or change of grade, loaded before, does not
\* write the old columns back.
\* AdminService.update and set_admin_role under the session's partial UPDATE
NoResurrection ==
  [][\A a \in Ids :
       Exists(a) /\ ~IsActive(admins[a]) /\ IsActive(admins'[a]) =>
         \E r \in Requests : Finishes(r, a, {"unarchive", "restore"})]_vars

\* "IntegrityError: the loser of the race, another worker has built it."  So a
\* worker that comes up has a root, whatever the table held before.  When an
\* unprotected admin already has the configured username, none is ever built.
\* service_initial_admin.py, the except clause; docs/specs/bootstrap-hidden-admin.md
RootBuilt == (\E w \in Workers : worker[w] = "up") => ProtectedRootExists

\* "A super_admin cannot get into the archived state at all", because archive
\* wants it demoted first.  set_admin_role promotes an archived admin.
\* docs/specs/admin-management-service.md, note on the order in archive
ArchivedIsNotSuper ==
  \A a \in Ids : Exists(a) /\ admins[a].archived_at # None
                    => admins[a].admin_role # SUPER_ADMIN

=============================================================================
