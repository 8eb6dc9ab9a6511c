-------------------------- MODULE SchemaMigration --------------------------
(***************************************************************************)
(* The schema migrations (src/alembic): every container runs alembic       *)
(* upgrade head before it serves (Dockerfile), several of them at once     *)
(* when several start, an operator may run alembic downgrade -1, and a     *)
(* container may die at any statement.                                     *)
(*                                                                         *)
(* On MariaDB a DDL statement commits by itself, and commits before it     *)
(* whatever its transaction wrote: a script is not atomic.  What follows   *)
(* its last DDL statement commits together with the new version number,    *)
(* which is set WHERE it still is the old one; alembic fails when no row   *)
(* matches.  The number is read once, when the process starts.             *)
(*                                                                         *)
(* A script is its sequence of statements.  The schema is a set of parts   *)
(* << table, name, definition >>: tables, columns, indexes, foreign keys   *)
(* and checks, as far as a later statement drops, alters or depends on     *)
(* them.  Rows keep the columns some statement reads or writes; a column   *)
(* that is not there, and NULL, is None.  "table" is the name of the part  *)
(* a table itself is, "plain" a definition nothing depends on, "any" all   *)
(* the tables a data statement names, and "none" no password hash.         *)
(***************************************************************************)
EXTENDS Integers, Sequences, FiniteSetsExt, SequencesExt, TLC

CONSTANTS
  Containers,     \* processes that run alembic
  Users,          \* ids of users
  Starts,         \* revisions the database may be at, before the seeds
  Floor,          \* the operator does not downgrade beyond this revision
  MaxTroubles,    \* bound: crashes, downgrades and boots that overlap another
  None            \* NULL, no such column

ASSUME SchemaMigrationAssumption ==
  /\ Users \subseteq Nat
  /\ Floor \in Nat /\ MaxTroubles \in Nat

-----------------------------------------------------------------------------
(* Statements *)

Stmt(do, t, n, d, v) == [do |-> do, table |-> t, name |-> n, def |-> d, value |-> v]

CreateTable(t, kinds) == Stmt("create_table", t, "table", kinds, None)
DropTable(t)          == Stmt("drop_table", t, "table", {}, None)
AddColumn(t, c, d, v) == Stmt("create", t, c, d, v)   \* v: what old rows get
Create(t, k, d)       == Stmt("create", t, k, d, None)
Drop(t, n)            == Stmt("drop", t, n, "plain", None)
Modify(t, c, d)       == Stmt("modify", t, c, d, None)
Write(w)              == Stmt("write", "any", w, "plain", None)

IsDDL(s) == s.do # "write"

Script(id, up, down) == [id |-> id, up |-> up, down |-> down]

-----------------------------------------------------------------------------
(* The scripts, one definition per file *)

Initial == Script("8312424ac228", << >>, << >>)

AddUserTable == Script("1db6f51d75ab",
  << CreateTable("users", { << "deleted", "plain" >>, << "email", "255" >> }),
     Create("users", "ix_users_email", "plain") >>,
  << Drop("users", "ix_users_email"), DropTable("users") >>)

RenameDeletedToIsActive == Script("08211223c402",
  << AddColumn("users", "is_active", "plain", TRUE),
     Write("is_active=NOT(deleted)"),
     Drop("users", "deleted") >>,
  << AddColumn("users", "deleted", "plain", FALSE),
     Write("deleted=NOT(is_active)"),
     Drop("users", "is_active") >>)

EncryptUserEmailColumn == Script("e1d9c722650c",
  << Modify("users", "email", "512") >>, << Modify("users", "email", "255") >>)

ResizeUserEmailColumn == Script("290ef626bb55",
  << Modify("users", "email", "1024") >>, << Modify("users", "email", "512") >>)

AddUserPasswordHash == Script("062f768dc3bb",
  << AddColumn("users", "password_hash", "plain", "none") >>,
  << Drop("users", "password_hash") >>)

\* Fault: the downgrade drops the identities before it reads them.
ExtractIdentityDropsFirst == Script("f3e04d5de815",
  << CreateTable("identities", {}),
     Create("identities", "ix_identities_user_id", "plain"),
     Create("identities", "ix_identities_provider", "plain"),
     Write("identities-from-password_hash"),
     Drop("users", "password_hash"),
     Modify("users", "email", "1024_NULL") >>,
  << AddColumn("users", "password_hash", "plain", "none"),
     DropTable("identities"),
     Write("password_hash-from-identities"),
     Modify("users", "email", "1024") >>)

ExtractIdentityFromUser == Script("f3e04d5de815",
  << CreateTable("identities", {}),
     Create("identities", "ix_identities_user_id", "plain"),
     Create("identities", "ix_identities_provider", "plain"),
     Write("identities-from-password_hash"),
     Drop("users", "password_hash"),
     Modify("users", "email", "1024_NULL") >>,
  << AddColumn("users", "password_hash", "plain", "none"),
     Write("password_hash-from-identities"),
     Modify("users", "email", "1024"),
     DropTable("identities") >>)

AddRefreshTokensTable == Script("9f3c1a4b2d7e",
  << CreateTable("refresh_tokens", { << "user_id", "NOT_NULL" >>, << "fk_user", "plain" >> }),
     Create("refresh_tokens", "ix_refresh_tokens_token_hash", "plain"),
     Create("refresh_tokens", "ix_refresh_tokens_user_id", "plain"),
     Create("refresh_tokens", "ix_refresh_tokens_family_id", "plain") >>,
  << DropTable("refresh_tokens") >>)

AddPrincipals == Script("a1b2c3d4e5f6",
  << CreateTable("principals", {}),
     AddColumn("users", "principal_id", "NULL", None),
     AddColumn("users", "role", "plain", None),
     Write("principals-from-users"),
     Write("users.principal_id=id"),
     Modify("users", "principal_id", "NOT_NULL"),
     Create("users", "ix_users_principal_id", "plain"),
     Create("users", "fk_users_principal_role", "plain"),
     Create("users", "ck_users_role_user", "plain") >>,
  << Drop("users", "ck_users_role_user"),
     Drop("users", "fk_users_principal_role"),
     Drop("users", "ix_users_principal_id"),
     Drop("users", "role"),
     Drop("users", "principal_id"),
     DropTable("principals") >>)

RefreshTokensOwner == Script("b2c3d4e5f6a7",
  << AddColumn("refresh_tokens", "principal_id", "NULL", None),
     Write("token-principals-from-users"),
     Drop("refresh_tokens", "fk_user"),
     Drop("refresh_tokens", "ix_refresh_tokens_user_id"),
     Drop("refresh_tokens", "user_id"),
     Modify("refresh_tokens", "principal_id", "NOT_NULL"),
     Create("refresh_tokens", "fk_refresh_tokens_principal", "plain"),
     Create("refresh_tokens", "ix_refresh_tokens_principal_id", "plain") >>,
  << AddColumn("refresh_tokens", "user_id", "NULL", None),
     Write("token-users-from-principals"),
     Drop("refresh_tokens", "fk_refresh_tokens_principal"),
     Drop("refresh_tokens", "ix_refresh_tokens_principal_id"),
     Drop("refresh_tokens", "principal_id"),
     Modify("refresh_tokens", "user_id", "NOT_NULL"),
     Create("refresh_tokens", "fk_user", "plain"),
     Create("refresh_tokens", "ix_refresh_tokens_user_id", "plain") >>)

AddAdminsTable == Script("c3d4e5f6a7b8",
  << CreateTable("admins", { << "admin_role", "text" >>,
                             << "ck_admins_admin_role", "text" >> }),
     Create("admins", "ix_admins_principal_id", "plain"),
     Create("admins", "ix_admins_username", "plain") >>,
  << Drop("admins", "ix_admins_username"),
     Drop("admins", "ix_admins_principal_id"),
     DropTable("admins") >>)

\* Fault: the downgrade is not the inverse of the upgrade.
AddUserTierKeepsCheck == Script("d4e5f6a7b8c9",
  << AddColumn("users", "user_tier", "text", "free"),
     Create("users", "ck_users_user_tier", "text") >>,
  << Drop("users", "user_tier") >>)

AddUserTier == Script("d4e5f6a7b8c9",
  << AddColumn("users", "user_tier", "text", "free"),
     Create("users", "ck_users_user_tier", "text") >>,
  << Drop("users", "ck_users_user_tier"),
     Drop("users", "user_tier") >>)

AddAdminIsProtected == Script("e5f6a7b8c9d0",
  << AddColumn("admins", "is_protected", "plain", FALSE),
     Write("protect-active-super_admins"),
     Create("admins", "ck_admins_protected_is_super", "super_admin"),
     Create("admins", "ck_admins_protected_is_active", "plain") >>,
  << Drop("admins", "ck_admins_protected_is_active"),
     Drop("admins", "ck_admins_protected_is_super"),
     Drop("admins", "is_protected") >>)

AdminRoleUserTierToInt == Script("f6a7b8c9d0e1",
  << Drop("admins", "ck_admins_admin_role"),
     Drop("admins", "ck_admins_protected_is_super"),
     Drop("users", "ck_users_user_tier"),
     Write("admin_role-to-number"),
     Write("user_tier-to-number"),
     Modify("admins", "admin_role", "int"),
     Modify("users", "user_tier", "int"),
     Create("admins", "ck_admins_admin_role", "int"),
     Create("admins", "ck_admins_protected_is_super", "100"),
     Create("users", "ck_users_user_tier", "int") >>,
  << Drop("admins", "ck_admins_admin_role"),
     Drop("admins", "ck_admins_protected_is_super"),
     Drop("users", "ck_users_user_tier"),
     Modify("admins", "admin_role", "text"),
     Modify("users", "user_tier", "text"),
     Write("admin_role-to-word"),
     Write("user_tier-to-word"),
     Create("admins", "ck_admins_admin_role", "text"),
     Create("admins", "ck_admins_protected_is_super", "super_admin"),
     Create("users", "ck_users_user_tier", "text") >>)

ProtectedRootToRootGrade == Script("a7b8c9d0e1f2",
  << Drop("admins", "ck_admins_protected_is_super"),
     Create("admins", "ck_admins_protected_is_super", "999") >>,
  << Drop("admins", "ck_admins_protected_is_super"),
     Create("admins", "ck_admins_protected_is_super", "100") >>)

CreateRecords == Script("b8c9d0e1f2a3",
  << CreateTable("record_categories", {}),
     Create("record_categories", "ix_record_categories_name", "plain"),
     Write("seed-categories"),
     CreateTable("records", {}),
     Create("records", "ix_records_category_id", "plain"),
     Create("records", "ix_records_deleted_at", "plain") >>,
  << DropTable("records"), DropTable("record_categories") >>)

AddIxRecordsCreatedAt == Script("c9d0e1f2a3b4",
  << Create("records", "ix_records_created_at", "plain") >>,
  << Drop("records", "ix_records_created_at") >>)

AddRealtimeReadings == Script("c846f7fdb12a",
  << CreateTable("realtime_readings", {}),
     Create("realtime_readings", "ix_realtime_readings_ts", "plain") >>,
  << DropTable("realtime_readings") >>)

Seed10Admins == Script("e1f2a3b4c5d6",
  << Write("seed-admins") >>, << Write("delete-seed-admins") >>)

Seed300Records == Script("d0e1f2a3b4c5",
  << Write("seed-records") >>, << Write("delete-records") >>)

Chain == << Initial, AddUserTable, RenameDeletedToIsActive,
  EncryptUserEmailColumn, ResizeUserEmailColumn, AddUserPasswordHash,
  ExtractIdentityFromUser, AddRefreshTokensTable, AddPrincipals,
  RefreshTokensOwner, AddAdminsTable, AddUserTier, AddAdminIsProtected,
  AdminRoleUserTierToInt, ProtectedRootToRootGrade, CreateRecords,
  AddIxRecordsCreatedAt, AddRealtimeReadings, Seed10Admins, Seed300Records >>

Latest == Len(Chain)

\* The number of a revision in the chain.
Revision(id) == CHOOSE v \in 1..Latest : Chain[v].id = id

ASSUME StartsAssumption == Starts \subseteq 0..(Revision("e1f2a3b4c5d6") - 1)

-----------------------------------------------------------------------------

VARIABLES
  parts,     \* the schema: parts << table, name, definition >>
  rows,      \* the committed rows: rows[table][id] is a record of columns
  version,   \* alembic_version, a position in Chain (0: none)
  run,       \* run[c]: the alembic process of a container
  known,     \* what the application has been told, whatever its tables are
  aborted,   \* revisions of which only a part was executed, once at least
  troubles   \* how many of them there have been

vars == << parts, rows, version, run, known, aborted, troubles >>

Tables == {"users", "identities", "refresh_tokens", "principals", "admins",
           "record_categories", "records"}

\* The data statements of the scripts.
DataStatements == {
  "is_active=NOT(deleted)", "deleted=NOT(is_active)",
  "identities-from-password_hash", "password_hash-from-identities",
  "principals-from-users", "users.principal_id=id",
  "token-principals-from-users", "token-users-from-principals",
  "protect-active-super_admins", "admin_role-to-number",
  "user_tier-to-number", "admin_role-to-word", "user_tier-to-word",
  "seed-categories", "seed-admins", "delete-seed-admins",
  "seed-records", "delete-records"}

\* at: down, migrating, ready, serving, failed.  rev, way: the script
\* being run; next: its next statement; pending: its writes that no commit
\* has followed yet; begun: whether a part of it is committed.
Process == [at : {"down", "migrating", "ready", "serving", "failed"},
            rev : 0..Latest, way : {"up", "down"}, next : Nat,
            pending : Seq(DataStatements), begun : BOOLEAN]

Asleep == [at |-> "down", rev |-> 0, way |-> "up", next |-> 1,
           pending |-> << >>, begun |-> FALSE]

Has(S, t, n) == \E x \in S : x[1] = t /\ x[2] = n

Without(S, t, n) == {x \in S : ~(x[1] = t /\ x[2] = n)}

\* The schema after a DDL statement.
Altered(S, s) ==
  CASE s.do = "create_table" ->
         S \cup {<< s.table, "table", "plain" >>} \cup {<< s.table, p[1], p[2] >> : p \in s.def}
    [] s.do = "drop_table" -> {x \in S : x[1] # s.table}
    [] s.do = "create"     -> S \cup {<< s.table, s.name, s.def >>}
    [] s.do = "drop"       -> Without(S, s.table, s.name)
    [] s.do = "modify"     ->
         Without(S, s.table, s.name) \cup {<< s.table, s.name, s.def >>}
    [] s.do = "write"      -> S

\* The schemas that S passes through under a sequence of statements.
Stages(S, stmts) ==
  LET f[k \in 0..Len(stmts)] == IF k = 0 THEN S ELSE Altered(f[k - 1], stmts[k])
  IN f

\* The schemas the revisions stand for: that of none is {}.
Schemas[v \in 0..Latest] ==
  IF v = 0 THEN {} ELSE Stages(Schemas[v - 1], Chain[v].up)[Len(Chain[v].up)]

Schema(v) == Schemas[v]

\* What each script ever creates, alters or drops.
Touched ==
  [v \in 1..Latest |->
    UNION {{<< s.table, s.name >>} \cup
             (IF s.do = "create_table" THEN {<< s.table, p[1] >> : p \in s.def} ELSE {})
           : s \in Range(Chain[v].up) \cup Range(Chain[v].down)}]

-----------------------------------------------------------------------------
(* What statements do to the rows *)

\* A value under a column definition.
Fits(def, v) ==
  CASE def = "255"      -> v \in {255}
    [] def = "512"      -> v \in {255, 512}
    [] def = "1024"     -> v \in {255, 512, 1024}
    [] def = "NOT_NULL" -> v # None
    [] def = "int"      -> v \in {"0", "5", "50", "100", "999"}
    [] OTHER            -> TRUE

\* A row under a check or a foreign key.
Obeys(R, name, def, r) ==
  CASE name = "ck_admins_protected_is_super"  -> r.is_protected => r.admin_role = def
    [] name = "ck_admins_protected_is_active" -> r.is_protected => r.active
    [] name = "ck_admins_admin_role" ->
         r.admin_role \in IF def = "int" THEN {"0", "50", "100", "999"}
                          ELSE {"super_admin", "editor", "viewer"}
    [] name = "ck_users_user_tier" ->
         r.user_tier \in IF def = "int" THEN {"0", "5"} ELSE {"free", "premium"}
    [] name = "fk_users_principal_role" -> r.principal_id \in DOMAIN R.principals
    [] name = "fk_refresh_tokens_principal" -> r.principal_id \in DOMAIN R.principals
    [] name = "fk_user" -> r.user_id \in DOMAIN R.users
    [] OTHER -> TRUE

RowsOf(R, t) == IF t \in Tables THEN Range(R[t]) ELSE {}

\* Whether a DDL statement succeeds on this schema and these rows.
Works(S, R, s) ==
  CASE s.do = "create_table" -> ~Has(S, s.table, "table")
    [] s.do = "drop_table"   -> Has(S, s.table, "table")
    [] s.do = "drop"         -> Has(S, s.table, s.name)
    [] s.do = "create"       ->
         /\ Has(S, s.table, "table") /\ ~Has(S, s.table, s.name)
         /\ \A r \in RowsOf(R, s.table) :
              s.name \in DOMAIN r \/ Obeys(R, s.name, s.def, r)
    [] s.do = "modify"       ->
         /\ Has(S, s.table, s.name)
         /\ \A r \in RowsOf(R, s.table) : Fits(s.def, r[s.name])

\* A column that comes gets its default, one that goes leaves nothing.
Defined(R, s) ==
  IF s.table \notin Tables THEN R
  ELSE [R EXCEPT ![s.table] =
    IF s.do = "drop_table" THEN << >>
    ELSE IF s.do \in {"create", "drop"}
    THEN [i \in DOMAIN @ |-> [c \in DOMAIN @[i] |-> IF c = s.name THEN s.value ELSE @[i][c]]]
    ELSE @]

Number == ("viewer" :> "0") @@ ("editor" :> "50") @@ ("super_admin" :> "100")
            @@ ("free" :> "0") @@ ("premium" :> "5")

Role == ("0" :> "viewer") @@ ("50" :> "editor") @@ ("100" :> "super_admin")
          @@ ("999" :> "super_admin")

Tier == ("0" :> "free") @@ ("5" :> "premium")

\* CASE x WHEN ... ELSE x END
Mapped(m, x) == IF x \in DOMAIN m THEN m[x] ELSE x

SeedAdmins(R) == {a \in DOMAIN R.admins : R.admins[a].seed}

\* The next AUTO_INCREMENT value.
Fresh(f) == Max({0} \cup DOMAIN f) + 1

SeedAdmin == [admin_role |-> "50", is_protected |-> FALSE, active |-> TRUE, seed |-> TRUE]

Categories == 1..4    \* the ids the seeds of records are written for

\* UPDATE t SET c = ..., of every row.
SetColumn(R, t, c, F(_)) ==
  [R EXCEPT ![t] = [i \in DOMAIN R[t] |-> [R[t][i] EXCEPT ![c] = F(i)]]]

\* The user a token's principal belongs to: the correlated subquery.
UserOf(R, p) ==
  LET owners == {u \in DOMAIN R.users : R.users[u].principal_id = p}
  IN IF owners = {} THEN None ELSE CHOOSE u \in owners : TRUE

\* The rows after a data statement.
Written(R, w) ==
  CASE w = "is_active=NOT(deleted)" ->
         SetColumn(R, "users", "is_active", LAMBDA u : ~R.users[u].deleted)
    [] w = "deleted=NOT(is_active)" ->
         SetColumn(R, "users", "deleted", LAMBDA u : ~R.users[u].is_active)
    [] w = "identities-from-password_hash" ->
         LET local == {u \in DOMAIN R.users : R.users[u].password_hash # "none"}
         IN [R EXCEPT !.identities =
              [u \in local |-> [credential |-> R.users[u].password_hash]]]
    [] w = "password_hash-from-identities" ->
         SetColumn(R, "users", "password_hash", LAMBDA u :
           IF u \in DOMAIN R.identities THEN R.identities[u].credential
           ELSE R.users[u].password_hash)
    [] w = "principals-from-users" ->
         [R EXCEPT !.principals = [u \in DOMAIN R.users |-> [role |-> 0]]]
    [] w = "users.principal_id=id" ->
         SetColumn(R, "users", "principal_id", LAMBDA u : u)
    [] w = "token-principals-from-users" ->
         SetColumn(R, "refresh_tokens", "principal_id", LAMBDA k :
           R.users[R.refresh_tokens[k].user_id].principal_id)
    [] w = "token-users-from-principals" ->
         SetColumn(R, "refresh_tokens", "user_id", LAMBDA k :
           UserOf(R, R.refresh_tokens[k].principal_id))
    [] w = "protect-active-super_admins" ->
         SetColumn(R, "admins", "is_protected", LAMBDA a :
           R.admins[a].admin_role = "super_admin" /\ R.admins[a].active)
    [] w = "admin_role-to-number" ->
         SetColumn(R, "admins", "admin_role", LAMBDA a : Mapped(Number, R.admins[a].admin_role))
    [] w = "admin_role-to-word" ->
         SetColumn(R, "admins", "admin_role", LAMBDA a : Mapped(Role, R.admins[a].admin_role))
    [] w = "user_tier-to-number" ->
         SetColumn(R, "users", "user_tier", LAMBDA u : Mapped(Number, R.users[u].user_tier))
    [] w = "user_tier-to-word" ->
         SetColumn(R, "users", "user_tier", LAMBDA u : Mapped(Tier, R.users[u].user_tier))
    [] w = "seed-categories" ->
         [R EXCEPT !.record_categories = [i \in Categories |-> [is_active |-> TRUE]]]
    [] w = "seed-admins" ->
         LET a == Fresh(R.principals)
         IN [R EXCEPT !.principals = (a :> [role |-> 1]) @@ @,
                      !.admins = (a :> SeedAdmin) @@ @]
    [] w = "delete-seed-admins" ->
         [R EXCEPT !.principals = [p \in DOMAIN @ \ SeedAdmins(R) |-> @[p]],
                   !.admins = [a \in DOMAIN @ \ SeedAdmins(R) |-> @[a]]]
    [] w = "seed-records" ->
         LET n == Fresh(R.records) - 1
         IN [R EXCEPT !.records = [i \in {n + c : c \in Categories} |->
                                    [creator |-> Min(SeedAdmins(R)), seed |-> TRUE]] @@ @]
    [] w = "delete-records" -> [R EXCEPT !.records = << >>]

\* The tables and columns a data statement names.
Uses(w) ==
  CASE w \in {"is_active=NOT(deleted)", "deleted=NOT(is_active)"} ->
         {<< "users", "deleted" >>, << "users", "is_active" >>}
    [] w \in {"identities-from-password_hash", "password_hash-from-identities"} ->
         {<< "identities", "table" >>, << "users", "password_hash" >>}
    [] w \in {"principals-from-users", "users.principal_id=id"} ->
         {<< "principals", "table" >>, << "users", "principal_id" >>}
    [] w \in {"token-principals-from-users", "token-users-from-principals"} ->
         {<< "refresh_tokens", "user_id" >>, << "refresh_tokens", "principal_id" >>,
          << "users", "principal_id" >>}
    [] w = "protect-active-super_admins" -> {<< "admins", "is_protected" >>}
    [] w \in {"user_tier-to-number", "user_tier-to-word"} -> {<< "users", "user_tier" >>}
    [] w \in {"seed-records", "delete-records"} -> {<< "records", "table" >>}
    [] w = "seed-categories" -> {<< "record_categories", "table" >>}
    [] OTHER -> {<< "admins", "table" >>, << "admins", "admin_role" >>}

\* Whether a data statement succeeds: its columns, UNIQUE and RESTRICT, and the
\* script's own test.
WriteWorks(S, R, w) ==
  /\ \A x \in Uses(w) : Has(S, x[1], x[2])
  /\ CASE w = "seed-admins"        -> SeedAdmins(R) = {}
       [] w = "delete-seed-admins" ->
            \A i \in DOMAIN R.records : R.records[i].creator \notin SeedAdmins(R)
       [] w = "seed-records"       ->
            SeedAdmins(R) # {} /\ Categories \subseteq DOMAIN R.record_categories
       [] OTHER -> TRUE

\* A number column compared with words: in strict mode an error or not.
WriteMayFail(S, R, w) ==
  \/ ~WriteWorks(S, R, w)
  \/ w = "admin_role-to-number" /\ << "admins", "admin_role", "int" >> \in S /\ DOMAIN R.admins # {}
  \/ w = "user_tier-to-number" /\ << "users", "user_tier", "int" >> \in S /\ DOMAIN R.users # {}

-----------------------------------------------------------------------------
(* What the application does while no script runs: accounts with any history
   the revision can hold *)

AtRest == \A c \in Containers : run[c].at \in {"down", "serving"}

Usable == AtRest /\ aborted = {} /\ version >= 2

If(t, c, v) == IF Has(parts, t, c) THEN v ELSE None

\* A row of principals for a new account, from the revision that has them on.
NewPrincipal(p, role) ==
  IF Has(parts, "principals", "table") THEN (p :> [role |-> role]) @@ rows.principals
  ELSE rows.principals

\* A session of the account, or none.
WithToken(R, signedIn, u, p) ==
  IF ~signedIn THEN R.refresh_tokens
  ELSE (Fresh(R.refresh_tokens) :>
          [user_id |-> If("refresh_tokens", "user_id", u),
           principal_id |-> If("refresh_tokens", "principal_id", p)]) @@ R.refresh_tokens

UserJoins(u, active, hash, signedIn) ==
  LET p == Fresh(rows.principals)
      row == [deleted |-> If("users", "deleted", ~active),
              is_active |-> If("users", "is_active", active),
              email |-> IF << "users", "email", "1024_NULL" >> \in parts /\ hash = "none" THEN None ELSE 255,
              password_hash |-> If("users", "password_hash", hash),
              principal_id |-> If("users", "principal_id", p),
              user_tier |-> IF << "users", "user_tier", "int" >> \in parts THEN "5"
                            ELSE If("users", "user_tier", "premium")]
  IN /\ Usable
     /\ u \notin DOMAIN rows.users
     /\ hash # "none" => Has(parts, "users", "password_hash") \/ Has(parts, "identities", "table")
     /\ signedIn => Has(parts, "refresh_tokens", "table")
     /\ rows' = [rows EXCEPT
          !.users = (u :> row) @@ @,
          !.identities = IF hash # "none" /\ Has(parts, "identities", "table")
                         THEN (u :> [credential |-> hash]) @@ @ ELSE @,
          !.principals = NewPrincipal(p, 0),
          !.refresh_tokens = WithToken(rows, signedIn, u, p)]
     /\ known' = [known EXCEPT
          !.users = (u :> [active |-> active, hash |-> hash, tier |-> IF Has(parts, "users", "user_tier") THEN "5" ELSE "0"]) @@ @,
          !.tokens = IF signedIn THEN (Fresh(rows.refresh_tokens) :> << "user", u >>) @@ @ ELSE @]
     /\ UNCHANGED << parts, version, run, aborted, troubles >>

\* grade: the number of the role, which the column may hold as a word.
AdminJoins(grade, active, protected, signedIn) ==
  LET a == Fresh(rows.principals)
      row == [admin_role |-> IF << "admins", "admin_role", "text" >> \in parts THEN Role[grade] ELSE grade,
              is_protected |-> If("admins", "is_protected", protected),
              active |-> active, seed |-> FALSE]
  IN /\ Usable
     /\ Has(parts, "admins", "table")
     /\ known.admins = << >> /\ known.users = << >>
     /\ protected => Has(parts, "admins", "is_protected")
     /\ \A x \in parts : x[1] = "admins" /\ Has(parts, "admins", "is_protected")
                           => Obeys(rows, x[2], x[3], row)
     /\ rows' = [rows EXCEPT !.admins = (a :> row) @@ @,
                             !.principals = NewPrincipal(a, 1),
                             !.refresh_tokens = WithToken(rows, signedIn, None, a)]
     /\ known' = [known EXCEPT
          !.admins = (a :> grade) @@ @,
          !.tokens = IF signedIn THEN (Fresh(rows.refresh_tokens) :> << "admin", a >>) @@ @ ELSE @]
     /\ UNCHANGED << parts, version, run, aborted, troubles >>

RecordMade(a) ==
  /\ Usable
  /\ Has(parts, "records", "table")
  /\ known.records = {}
  /\ a \in DOMAIN rows.admins
  /\ LET i == Fresh(rows.records) IN
       /\ rows' = [rows EXCEPT !.records = (i :> [creator |-> a, seed |-> FALSE]) @@ @]
       /\ known' = [known EXCEPT !.records = {i}]
  /\ UNCHANGED << parts, version, run, aborted, troubles >>

-----------------------------------------------------------------------------
(* alembic *)

Trouble == troubles < MaxTroubles /\ troubles' = troubles + 1

\* alembic upgrade head: the version is read, once.  No container is started
\* while an operator downgrades.
Boot(c) ==
  /\ run[c].at = "down"
  /\ \A d \in Containers : run[d].way = "up"
  /\ IF \E d \in Containers : run[d].at = "migrating" THEN Trouble ELSE UNCHANGED troubles
  /\ run' = [run EXCEPT ![c] =
       IF version = Latest THEN [Asleep EXCEPT !.at = "ready"]
       ELSE [Asleep EXCEPT !.at = "migrating", !.rev = version + 1]]
  /\ UNCHANGED << parts, rows, version, known, aborted >>

\* alembic downgrade -1, while nobody migrates.  After a script was cut off the
\* operator mends the schema by hand instead: to downgrade then loses the owner
\* of the sessions when RefreshTokensOwner is the script.
Downgrade(c) ==
  /\ AtRest
  /\ aborted = {}
  /\ run[c].at = "down"
  /\ version > Floor
  /\ Trouble
  /\ run' = [run EXCEPT ![c] = [Asleep EXCEPT !.at = "migrating", !.rev = version, !.way = "down"]]
  /\ UNCHANGED << parts, rows, version, known, aborted >>

StatementsOf(p) == IF p.way = "up" THEN Chain[p.rev].up ELSE Chain[p.rev].down

\* The version a script starts from, and the one it leads to.
From(p) == IF p.way = "up" THEN p.rev - 1 ELSE p.rev
To(p)   == IF p.way = "up" THEN p.rev ELSE p.rev - 1

\* Uncommitted writes lock their rows, and their tables against DDL.
Unlocked(c) == \A d \in Containers \ {c} : run[d].pending = << >>

\* The rows after a sequence of data statements.
Rewritten(R, ws) ==
  LET f[k \in 0..Len(ws)] == IF k = 0 THEN R ELSE Written(f[k - 1], ws[k])
  IN f[Len(ws)]

Committed(p) == Rewritten(rows, p.pending)

\* What the application has been told of a table or a column goes with it when
\* a downgrade drops it.
Forgotten(way, s) ==
  CASE way = "up" -> known
    [] s.do = "drop_table" /\ s.table = "admins" ->
         [known EXCEPT !.admins = << >>,
                       !.tokens = [k \in {x \in DOMAIN @ : @[x][1] = "user"} |-> @[k]]]
    [] s.do = "drop_table" /\ s.table = "refresh_tokens" -> [known EXCEPT !.tokens = << >>]
    [] s.do = "drop_table" /\ s.table = "records" -> [known EXCEPT !.records = {}]
    [] s.do = "drop" /\ s.name = "user_tier" ->
         [known EXCEPT !.users = [u \in DOMAIN @ |-> [@[u] EXCEPT !.tier = "0"]]]
    [] s.do = "drop" /\ s.name = "password_hash" ->
         [known EXCEPT !.users = [u \in DOMAIN @ |-> [@[u] EXCEPT !.hash = "none"]]]
    [] OTHER -> known

\* The end of a process whose script is cut off, by an error or by its death.
CutOff(c, at, committed) ==
  /\ run' = [run EXCEPT ![c] = [Asleep EXCEPT !.at = at]]
  /\ aborted' = IF committed THEN aborted \cup {run[c].rev} ELSE aborted

\* A DDL statement commits what was pending before it is executed.
ExecuteDDL(c) ==
  /\ run[c].at = "migrating" /\ Unlocked(c)
  /\ run[c].next \in DOMAIN StatementsOf(run[c])
  /\ LET s == StatementsOf(run[c])[run[c].next]
         R == Committed(run[c])
     IN /\ IsDDL(s)
        /\ Works(parts, R, s)
        /\ parts' = Altered(parts, s)
        /\ rows' = Defined(R, s)
        /\ known' = Forgotten(run[c].way, s)
  /\ run' = [run EXCEPT ![c].next = @ + 1, ![c].pending = << >>, ![c].begun = TRUE]
  /\ UNCHANGED << version, aborted, troubles >>

DDLFails(c) ==
  /\ run[c].at = "migrating" /\ Unlocked(c)
  /\ run[c].next \in DOMAIN StatementsOf(run[c])
  /\ LET s == StatementsOf(run[c])[run[c].next]
         R == Committed(run[c])
     IN /\ IsDDL(s)
        /\ ~Works(parts, R, s)
        /\ rows' = R
  /\ CutOff(c, "failed", run[c].begun)
  /\ UNCHANGED << parts, version, known, troubles >>

ExecuteWrite(c) ==
  /\ run[c].at = "migrating" /\ Unlocked(c)
  /\ run[c].next \in DOMAIN StatementsOf(run[c])
  /\ LET s == StatementsOf(run[c])[run[c].next]
     IN /\ ~IsDDL(s)
        /\ WriteWorks(parts, Committed(run[c]), s.name)
        /\ run' = [run EXCEPT ![c].next = @ + 1, ![c].pending = Append(@, s.name)]
  /\ UNCHANGED << parts, rows, version, known, aborted, troubles >>

WriteFails(c) ==
  /\ run[c].at = "migrating" /\ Unlocked(c)
  /\ run[c].next \in DOMAIN StatementsOf(run[c])
  /\ LET s == StatementsOf(run[c])[run[c].next]
     IN ~IsDDL(s) /\ WriteMayFail(parts, Committed(run[c]), s.name)
  /\ CutOff(c, "failed", run[c].begun)
  /\ UNCHANGED << parts, rows, version, known, troubles >>

\* UPDATE alembic_version ... WHERE version_num = <the old one> finds its row.
VersionFree(p) == version = From(p)

\* Fault: nobody looks whether the UPDATE of alembic_version found its row.
FinishUnchecked(c) ==
  LET p == run[c] IN
  /\ p.at = "migrating" /\ Unlocked(c)
  /\ p.next = Len(StatementsOf(p)) + 1
  /\ rows' = Committed(p)
  /\ version' = To(p)
  /\ known' = IF "delete-records" \in Range(p.pending) THEN [known EXCEPT !.records = {}] ELSE known
  /\ run' = [run EXCEPT ![c] =
       IF p.way = "down" THEN Asleep
       ELSE IF p.rev = Latest THEN [Asleep EXCEPT !.at = "ready"]
       ELSE [Asleep EXCEPT !.at = "migrating", !.rev = p.rev + 1]]
  /\ UNCHANGED << parts, aborted, troubles >>

\* The script has ended: its last writes and the version commit together, and
\* an upgrade goes on with the next script.
Finish(c) ==
  LET p == run[c] IN
  /\ p.at = "migrating" /\ Unlocked(c)
  /\ p.next = Len(StatementsOf(p)) + 1
  /\ VersionFree(p)
  /\ rows' = Committed(p)
  /\ version' = To(p)
  /\ known' = IF "delete-records" \in Range(p.pending) THEN [known EXCEPT !.records = {}] ELSE known
  /\ run' = [run EXCEPT ![c] =
       IF p.way = "down" THEN Asleep
       ELSE IF p.rev = Latest THEN [Asleep EXCEPT !.at = "ready"]
       ELSE [Asleep EXCEPT !.at = "migrating", !.rev = p.rev + 1]]
  /\ UNCHANGED << parts, aborted, troubles >>

\* Another process has moved the version meanwhile.
Overtaken(c) ==
  /\ run[c].at = "migrating" /\ Unlocked(c)
  /\ run[c].next = Len(StatementsOf(run[c])) + 1
  /\ ~VersionFree(run[c])
  /\ CutOff(c, "failed", run[c].begun)
  /\ UNCHANGED << parts, rows, version, known, troubles >>

Crash(c) ==
  /\ run[c].at = "migrating"
  /\ Trouble
  /\ CutOff(c, "down", run[c].begun)
  /\ UNCHANGED << parts, rows, version, known >>

\* The container starts over (docker-compose.yml: restart: unless-stopped).
Restart(c) ==
  /\ run[c].at = "failed"
  /\ run' = [run EXCEPT ![c] = Asleep]
  /\ UNCHANGED << parts, rows, version, known, aborted, troubles >>

\* uvicorn starts; ensure_initial_admin seeds the protected root.
Serve(c) ==
  /\ run[c].at = "ready"
  /\ run' = [run EXCEPT ![c].at = "serving"]
  /\ rows' = IF \E a \in DOMAIN rows.admins : rows.admins[a].is_protected THEN rows
             ELSE LET a == Fresh(rows.principals) IN
               [rows EXCEPT !.principals = (a :> [role |-> 1]) @@ @,
                            !.admins = (a :> [admin_role |-> "999", is_protected |-> TRUE,
                                              active |-> TRUE, seed |-> FALSE]) @@ @]
  /\ UNCHANGED << parts, version, known, aborted, troubles >>

\* A container is stopped to be replaced.
Stop(c) ==
  /\ run[c].at = "serving"
  /\ troubles < MaxTroubles
  /\ run' = [run EXCEPT ![c] = Asleep]
  /\ UNCHANGED << parts, rows, version, known, aborted, troubles >>

Init ==
  /\ version \in Starts
  /\ parts = Schema(version)
  /\ rows = [t \in Tables |-> IF t = "record_categories" /\ version >= Revision("b8c9d0e1f2a3")
                              THEN [i \in Categories |-> [is_active |-> TRUE]] ELSE << >>]
  /\ run = [c \in Containers |-> Asleep]
  /\ known = [users |-> << >>, tokens |-> << >>, admins |-> << >>, records |-> {}]
  /\ aborted = {}
  /\ troubles = 0

\* Bound: the accounts that are told apart.  They are opened at the revision
\* the database starts from, the admin first; records are made at any.
UserHistories ==
  {[active |-> TRUE, hash |-> "h", signedIn |-> TRUE],
   [active |-> FALSE, hash |-> "none", signedIn |-> FALSE]}

AdminHistories ==
  {[grade |-> "100", active |-> TRUE, protected |-> FALSE, signedIn |-> TRUE],
   [grade |-> "100", active |-> TRUE, protected |-> TRUE, signedIn |-> FALSE],
   [grade |-> "0", active |-> FALSE, protected |-> FALSE, signedIn |-> FALSE]}

Application ==
  \/ /\ version \in Starts
     /\ \/ \E u \in Users, h \in UserHistories : UserJoins(u, h.active, h.hash, h.signedIn)
        \/ \E h \in AdminHistories : AdminJoins(h.grade, h.active, h.protected, h.signedIn)
  \/ \E a \in DOMAIN rows.admins : RecordMade(a)

Alembic(c) ==
  \/ Boot(c) \/ ExecuteDDL(c) \/ DDLFails(c) \/ ExecuteWrite(c) \/ WriteFails(c)
  \/ Finish(c) \/ Overtaken(c) \/ Restart(c) \/ Serve(c)

Next ==
  \/ Application
  \/ \E c \in Containers : Alembic(c) \/ Downgrade(c) \/ Crash(c) \/ Stop(c)

Spec == Init /\ [][Next]_vars

-----------------------------------------------------------------------------

TypeOK ==
  /\ DOMAIN rows = Tables
  /\ version \in 0..Latest /\ aborted \subseteq 1..Latest
  /\ run \in [Containers -> Process]

(* Safety *)

\* Whatever the scripts do to the tables, in either direction, cut off or
\* overtaken: a committed state always holds what the application was told of
\* every user.  While a script moves a value, one of its two places has it.
UsersKept ==
  \A u \in DOMAIN known.users :
    LET k == known.users[u]  r == rows.users[u]
        local == IF u \in DOMAIN rows.identities THEN rows.identities[u].credential ELSE "none"
    IN /\ u \in DOMAIN rows.users
       /\ r.deleted = ~k.active \/ r.is_active = k.active
       /\ r.password_hash = k.hash \/ local = k.hash
       /\ r.user_tier # None => Mapped(Number, r.user_tier) = k.tier

\* A session still belongs to the account it was opened for, by whichever
\* column its owner is found.
TokensKept ==
  \A k \in DOMAIN known.tokens :
    LET r == rows.refresh_tokens[k]  owner == known.tokens[k][2]
    IN /\ k \in DOMAIN rows.refresh_tokens
       /\ IF known.tokens[k][1] = "admin" THEN r.principal_id = owner
          ELSE \/ r.user_id = owner
               \/ r.principal_id # None /\ r.principal_id = rows.users[owner].principal_id

AdminsKept ==
  \A a \in DOMAIN known.admins :
    a \in DOMAIN rows.admins /\ Mapped(Number, rows.admins[a].admin_role) = known.admins[a]

\* The seeds are planted once, however many containers run their scripts at
\* once and die before the version is set (e1f2a3b4c5d6, d0e1f2a3b4c5).
SeedsOnce ==
  /\ Cardinality(SeedAdmins(rows)) <= 1
  /\ Cardinality({i \in DOMAIN rows.records : rows.records[i].seed}) <= Cardinality(Categories)
  /\ \A i \in DOMAIN rows.records : rows.records[i].creator \in DOMAIN rows.admins

\* Accounts, sessions and records survive every migration (f3e04d5de815,
\* 08211223c402, a1b2c3d4e5f6, b2c3d4e5f6a7, f6a7b8c9d0e1), and none is
\* planted twice.
AccountsKept ==
  /\ UsersKept /\ TokensKept /\ AdminsKept /\ known.records \subseteq DOMAIN rows.records
  /\ SeedsOnce

\* S and T differ only in what scripts of V create, alter or drop.
Confined(S, T, V) ==
  \A x \in (S \ T) \cup (T \ S) :
    \E v \in V : << x[1], x[2] >> \in Touched[v] \/ << x[1], "table" >> \in Touched[v]

\* The scripts that may have left only a part of their work.
Suspects ==
  aborted \cup {run[c].rev : c \in {d \in Containers : run[d].at = "migrating"}}

\* alembic_version tells the schema: every part that differs from the schema
\* of the recorded revision is one of a script that is running or that was cut
\* off, whatever ran before and since.
DamageConfined == Confined(parts, Schema(version), Suspects)

\* A process is within its script, which an upgrade took from the version it
\* had read or passed; a downgrade has the database for itself.
ScriptsRun ==
  \A c \in Containers : run[c].at = "migrating" =>
    /\ run[c].rev \in 1..Latest
    /\ run[c].next \in 1..(Len(StatementsOf(run[c])) + 1)
    /\ IF run[c].way = "up" THEN From(run[c]) <= version
       ELSE /\ From(run[c]) = version
            /\ \A d \in Containers \ {c} : run[d].at # "migrating"

\* The schema that the statements of p so far make of the one it starts from.
Stage(p) == Stages(Schema(From(p)), StatementsOf(p))[p.next - 1]

\* The scripts of which processes of C, or dead ones, committed a part.
Begun(C) ==
  aborted \cup {run[d].rev : d \in {c \in C : run[c].at = "migrating" /\ run[c].begun}}

\* The schema is the one of the version but for what was begun.
PartsFollow == Confined(parts, Schema(version), Begun(Containers))

\* As long as its version update would find its row, the schema is the one a
\* process has brought about but for what the others have begun.
StageReached(c) ==
  run[c].at = "migrating" /\ VersionFree(run[c]) =>
    Confined(parts, Stage(run[c]), Begun(Containers \ {c}))

\* The inductive invariant under DamageConfined (SchemaMigrationProofs).
IInv == TypeOK /\ ScriptsRun /\ PartsFollow /\ \A c \in Containers : StageReached(c)

\* A boot fails only for a cause outside of it: a script was cut off before,
\* another process migrates at the same time or has moved the version, or the
\* rows do not admit the check of a7b8c9d0e1f2 (RootCheckPasses).  A container
\* that merely lost a race, or died before the first statement of a script,
\* finds every statement working when it is started again, and so does one
\* started after a downgrade.
FailsForCause ==
  [][\A c \in Containers :
       run[c].at = "migrating" /\ run'[c].at = "failed" /\ run[c].way = "up" =>
         \/ aborted # {}
         \/ version # From(run[c])
         \/ \E d \in Containers \ {c} : run[d].at = "migrating"
         \/ /\ run[c].rev = Revision("a7b8c9d0e1f2")
            /\ \E a \in DOMAIN rows.admins : rows.admins[a].is_protected]_vars

\* a7b8c9d0e1f2:10: no row is protected before the root is seeded, so that the
\* new check does not stand in the way of existing data.  Not so: e5f6a7b8c9d0
\* has protected the active super admins there were.  The old check is dropped,
\* the new one fails, and every later boot fails at the drop.
RootCheckPasses ==
  [][\A c \in Containers :
       run[c].rev = Revision("a7b8c9d0e1f2") /\ run[c].way = "up" =>
         run'[c].at # "failed"]_vars

=============================================================================
