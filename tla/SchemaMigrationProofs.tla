----------------------- MODULE SchemaMigrationProofs -----------------------
(***************************************************************************)
(* Proofs about SchemaMigration: the schema and the recorded version,      *)
(* whatever containers race, die and downgrade.                            *)
(*                                                                         *)
(* 1. The schemas of the twenty revisions, evaluated.  A recursive         *)
(*    function is unfolded at each number once it is known to exist        *)
(*    (StagesDef).  The schema is put together from one set per table, and *)
(*    each script is followed through its statements in both directions    *)
(*    (<Script>Up, <Script>Down).  DownIsInverse sums it up.               *)
(* 2. Confined, name by name.  Two schemas differ at most at the names of  *)
(*    some scripts; a statement changes nothing but its own name, or table *)
(*    (StatementTouches), and the same change made to two schemas leaves   *)
(*    them confined as they were (ConfinedAltered).                        *)
(* 3. Each action keeps IInv: its process has brought the schema to the    *)
(*    stage of its next statement but for what the others have begun       *)
(*    (StageReached), and the recorded version follows (PartsFollow).      *)
(***************************************************************************)
EXTENDS SchemaMigration, FiniteSetTheorems, WellFoundedInduction, TLAPS

-----------------------------------------------------------------------------
(* Recursion *)

\* A set of numbers has a least element, which is what an induction needs: the
\* least number a claim fails for.
LEMMA Least ==
  ASSUME NEW T \in SUBSET Nat, T # {}
  PROVE  \E m \in T : \A k \in T : m <= k
<1> DEFINE R == OpToRel(<, Nat)
<1>1. IsWellFoundedOn(R, Nat)
  BY NatLessThanWellFounded
<1>2. PICK m \in T : \A k \in T : ~ (<< k, m >> \in R)
  <2> HIDE DEF R
  <2> QED
    BY <1>1, WFMin
<1>3. \A i, j \in Nat : << i, j >> \in R <=> i < j
  BY DEF OpToRel
<1> HIDE DEF R
<1>4. ASSUME NEW k \in T PROVE m <= k
  <2>1. m \in Nat /\ k \in Nat /\ ~ (k < m)
    BY <1>2, <1>3
  <2> QED
    BY <2>1
<1> QED
  BY <1>4

\* The function that Stages chooses exists.
LEMMA StagesDef ==
  ASSUME NEW S, NEW stmts, Len(stmts) \in Nat
  PROVE  Stages(S, stmts) =
           [k \in 0..Len(stmts) |->
             IF k = 0 THEN S ELSE Altered(Stages(S, stmts)[k - 1], stmts[k])]
<1> DEFINE Def(f, n) == f = [k \in 0..n |-> IF k = 0 THEN S ELSE Altered(f[k - 1], stmts[k])]
           Bad == {n \in Nat : ~ \E f : Def(f, n)}
<1>1. Bad = {}
  <2> SUFFICES ASSUME Bad # {} PROVE FALSE
    OBVIOUS
  <2>1. PICK n \in Bad : \A m \in Bad : n <= m
    <3> HIDE DEF Bad
    <3>1. Bad \in SUBSET Nat
      BY DEF Bad
    <3> QED
      BY <3>1, Least
  <2>2. CASE n = 0
    <3> DEFINE g == [k \in 0..0 |-> S]
    <3>1. Def(g, 0)
      OBVIOUS
    <3> QED
      BY <2>1, <2>2, <3>1
  <2>3. CASE n # 0
    <3>1. n \in Nat /\ n - 1 \in Nat /\ n - 1 \notin Bad
      BY <2>1, <2>3
    <3>2. PICK f : Def(f, n - 1)
      BY <3>1
    <3> DEFINE g == [k \in 0..n |-> IF k = n THEN Altered(f[n - 1], stmts[n]) ELSE f[k]]
    <3>3. \A k \in 0..n : g[k] = IF k = 0 THEN S ELSE Altered(g[k - 1], stmts[k])
      BY <2>3, <3>1, <3>2
    <3>4. Def(g, n)
      BY <3>3
    <3> QED
      BY <2>1, <3>1, <3>4
  <2> QED
    BY <2>2, <2>3
<1>2. \E f : Def(f, Len(stmts))
  BY <1>1
<1> QED
  BY <1>2 DEF Stages

LEMMA StagesStep ==
  ASSUME NEW S, NEW stmts, Len(stmts) \in Nat
  PROVE  /\ Stages(S, stmts)[0] = S
         /\ \A k \in 1..Len(stmts) :
              Stages(S, stmts)[k] = Altered(Stages(S, stmts)[k - 1], stmts[k])
<1> DEFINE f == Stages(S, stmts)
           n == Len(stmts)
<1>1. f = [k \in 0..n |-> IF k = 0 THEN S ELSE Altered(f[k - 1], stmts[k])]
  BY StagesDef
<1> HIDE DEF f
<1>2. f[0] = S /\ \A k \in 1..n : f[k] = Altered(f[k - 1], stmts[k])
  BY <1>1
<1> QED
  BY <1>2 DEF f

LEMMA LatestIs == Latest = 20
BY DEF Latest, Chain

LEMMA SchemasStep ==
  /\ Schema(0) = {}
  /\ \A v \in 1..20 :
       Schema(v) = Stages(Schema(v - 1), Chain[v].up)[Len(Chain[v].up)]
<1> DEFINE Up(S, v) == Stages(S, Chain[v].up)[Len(Chain[v].up)]
           Def(f, n) == f = [v \in 0..n |-> IF v = 0 THEN {} ELSE Up(f[v - 1], v)]
           Bad == {n \in Nat : ~ \E f : Def(f, n)}
<1> HIDE DEF Up
<1>1. Bad = {}
  <2> SUFFICES ASSUME Bad # {} PROVE FALSE
    OBVIOUS
  <2>1. PICK n \in Bad : \A m \in Bad : n <= m
    <3> HIDE DEF Bad
    <3>1. Bad \in SUBSET Nat
      BY DEF Bad
    <3> QED
      BY <3>1, Least
  <2>2. CASE n = 0
    <3> DEFINE g == [k \in 0..0 |-> {}]
    <3>1. Def(g, 0)
      OBVIOUS
    <3> QED
      BY <2>1, <2>2, <3>1
  <2>3. CASE n # 0
    <3>1. n \in Nat /\ n - 1 \in Nat /\ n - 1 \notin Bad
      <4>1. n \in Nat
        OBVIOUS
      <4> HIDE DEF Bad
      <4> QED
        BY <2>1, <2>3, <4>1
    <3>2. PICK f : Def(f, n - 1)
      BY <3>1
    <3> DEFINE g == [v \in 0..n |-> IF v = n THEN Up(f[n - 1], n) ELSE f[v]]
    <3>3. ASSUME NEW v \in 0..n
          PROVE  g[v] = IF v = 0 THEN {} ELSE Up(g[v - 1], v)
      <4>1. CASE v = n
        <5>1. g[n] = Up(f[n - 1], n) /\ g[n - 1] = f[n - 1]
          BY <2>3, <3>1
        <5> QED
          BY <2>3, <4>1, <5>1
      <4>2. CASE v # n
        <5>1. v \in 0..(n - 1) /\ (v # 0 => v - 1 \in 0..(n - 1))
          BY <3>1, <4>2
        <5>2. g[v] = f[v] /\ (v # 0 => g[v - 1] = f[v - 1])
          BY <3>1, <4>2, <5>1
        <5>3. f[v] = IF v = 0 THEN {} ELSE Up(f[v - 1], v)
          BY <3>2, <5>1
        <5> QED
          BY <5>2, <5>3
      <4> QED
        BY <4>1, <4>2
    <3>4. Def(g, n)
      BY <3>3
    <3> QED
      BY <2>1, <3>1, <3>4
  <2> QED
    BY <2>2, <2>3
<1>2. \E f : Def(f, 20)
  BY <1>1
<1>3. Def(Schemas, 20)
  BY <1>2, LatestIs DEF Schemas, Up
<1>4. Schemas[0] = {} /\ \A v \in 1..20 : Schemas[v] = Up(Schemas[v - 1], v)
  BY <1>3
<1> QED
  BY <1>4 DEF Schema, Up

-----------------------------------------------------------------------------
(* Statements *)

\* What a schema has of a table.
Of(S, t) == {x \in S : x[1] = t}

LEMMA OfWrite ==
  ASSUME NEW S, NEW w, NEW t PROVE Of(Altered(S, Write(w)), t) = Of(S, t)
BY DEF Altered, Write, Stmt

LEMMA OfCreated ==
  ASSUME NEW S, NEW s, s.do = "create", NEW o
  PROVE  Of(Altered(S, s), o) =
           IF o = s.table THEN Of(S, o) \cup {<< s.table, s.name, s.def >>} ELSE Of(S, o)
BY DEF Altered, Of

LEMMA OfAddColumn ==
  ASSUME NEW S, NEW t, NEW c, NEW d, NEW v, NEW o
  PROVE  Of(Altered(S, AddColumn(t, c, d, v)), o) =
           IF o = t THEN Of(S, o) \cup {<< t, c, d >>} ELSE Of(S, o)
BY DEF Altered, AddColumn, Stmt, Of

LEMMA OfCreate ==
  ASSUME NEW S, NEW t, NEW k, NEW d, NEW o
  PROVE  Of(Altered(S, Create(t, k, d)), o) =
           IF o = t THEN Of(S, o) \cup {<< t, k, d >>} ELSE Of(S, o)
BY DEF Altered, Create, Stmt, Of

LEMMA OfDrop ==
  ASSUME NEW S, NEW t, NEW n, NEW o
  PROVE  Of(Altered(S, Drop(t, n)), o) =
           IF o = t THEN {x \in Of(S, o) : x[2] # n} ELSE Of(S, o)
BY DEF Altered, Drop, Stmt, Of, Without

LEMMA OfModify ==
  ASSUME NEW S, NEW t, NEW c, NEW d, NEW o
  PROVE  Of(Altered(S, Modify(t, c, d)), o) =
           IF o = t THEN {x \in Of(S, o) : x[2] # c} \cup {<< t, c, d >>} ELSE Of(S, o)
BY DEF Altered, Modify, Stmt, Of, Without

LEMMA OfDropTable ==
  ASSUME NEW S, NEW t, NEW o
  PROVE  Of(Altered(S, DropTable(t)), o) = IF o = t THEN {} ELSE Of(S, o)
BY DEF Altered, DropTable, Stmt, Of

LEMMA OfCreateTable ==
  ASSUME NEW S, NEW t, NEW d, NEW o
  PROVE  Of(Altered(S, CreateTable(t, d)), o) =
           IF o = t
           THEN Of(S, o) \cup {<< t, "table", "plain" >>} \cup {<< t, p[1], p[2] >> : p \in d}
           ELSE Of(S, o)
BY DEF Altered, CreateTable, Stmt, Of

Users2 == {<< "users", "table", "plain" >>, << "users", "deleted", "plain" >>,
           << "users", "email", "255" >>,
           << "users", "ix_users_email", "plain" >>}
Users3 == {<< "users", "table", "plain" >>, << "users", "email", "255" >>,
           << "users", "is_active", "plain" >>,
           << "users", "ix_users_email", "plain" >>}
Users4 == {<< "users", "table", "plain" >>, << "users", "email", "512" >>,
           << "users", "is_active", "plain" >>,
           << "users", "ix_users_email", "plain" >>}
Users5 == {<< "users", "table", "plain" >>, << "users", "email", "1024" >>,
           << "users", "is_active", "plain" >>,
           << "users", "ix_users_email", "plain" >>}
Users6 == {<< "users", "table", "plain" >>, << "users", "email", "1024" >>,
           << "users", "is_active", "plain" >>,
           << "users", "ix_users_email", "plain" >>,
           << "users", "password_hash", "plain" >>}
Users7 == {<< "users", "table", "plain" >>,
           << "users", "email", "1024_NULL" >>,
           << "users", "is_active", "plain" >>,
           << "users", "ix_users_email", "plain" >>}
Identities7 == {<< "identities", "table", "plain" >>,
                << "identities", "ix_identities_provider", "plain" >>,
                << "identities", "ix_identities_user_id", "plain" >>}
Tokens8 == {<< "refresh_tokens", "table", "plain" >>,
            << "refresh_tokens", "fk_user", "plain" >>,
            << "refresh_tokens", "ix_refresh_tokens_family_id", "plain" >>,
            << "refresh_tokens", "ix_refresh_tokens_token_hash", "plain" >>,
            << "refresh_tokens", "ix_refresh_tokens_user_id", "plain" >>,
            << "refresh_tokens", "user_id", "NOT_NULL" >>}
Users9 == {<< "users", "table", "plain" >>,
           << "users", "ck_users_role_user", "plain" >>,
           << "users", "email", "1024_NULL" >>,
           << "users", "fk_users_principal_role", "plain" >>,
           << "users", "is_active", "plain" >>,
           << "users", "ix_users_email", "plain" >>,
           << "users", "ix_users_principal_id", "plain" >>,
           << "users", "principal_id", "NOT_NULL" >>,
           << "users", "role", "plain" >>}
Principals9 == {<< "principals", "table", "plain" >>}
Tokens10 == {<< "refresh_tokens", "table", "plain" >>,
             << "refresh_tokens", "fk_refresh_tokens_principal", "plain" >>,
             << "refresh_tokens", "ix_refresh_tokens_family_id", "plain" >>,
             << "refresh_tokens", "ix_refresh_tokens_principal_id", "plain" >>,
             << "refresh_tokens", "ix_refresh_tokens_token_hash", "plain" >>,
             << "refresh_tokens", "principal_id", "NOT_NULL" >>}
Admins11 == {<< "admins", "table", "plain" >>,
             << "admins", "admin_role", "text" >>,
             << "admins", "ck_admins_admin_role", "text" >>,
             << "admins", "ix_admins_principal_id", "plain" >>,
             << "admins", "ix_admins_username", "plain" >>}
Users12 == {<< "users", "table", "plain" >>,
            << "users", "ck_users_role_user", "plain" >>,
            << "users", "ck_users_user_tier", "text" >>,
            << "users", "email", "1024_NULL" >>,
            << "users", "fk_users_principal_role", "plain" >>,
            << "users", "is_active", "plain" >>,
            << "users", "ix_users_email", "plain" >>,
            << "users", "ix_users_principal_id", "plain" >>,
            << "users", "principal_id", "NOT_NULL" >>,
            << "users", "role", "plain" >>,
            << "users", "user_tier", "text" >>}
Admins13 == {<< "admins", "table", "plain" >>,
             << "admins", "admin_role", "text" >>,
             << "admins", "ck_admins_admin_role", "text" >>,
             << "admins", "ck_admins_protected_is_active", "plain" >>,
             << "admins", "ck_admins_protected_is_super", "super_admin" >>,
             << "admins", "is_protected", "plain" >>,
             << "admins", "ix_admins_principal_id", "plain" >>,
             << "admins", "ix_admins_username", "plain" >>}
Users14 == {<< "users", "table", "plain" >>,
            << "users", "ck_users_role_user", "plain" >>,
            << "users", "ck_users_user_tier", "int" >>,
            << "users", "email", "1024_NULL" >>,
            << "users", "fk_users_principal_role", "plain" >>,
            << "users", "is_active", "plain" >>,
            << "users", "ix_users_email", "plain" >>,
            << "users", "ix_users_principal_id", "plain" >>,
            << "users", "principal_id", "NOT_NULL" >>,
            << "users", "role", "plain" >>, << "users", "user_tier", "int" >>}
Admins14 == {<< "admins", "table", "plain" >>,
             << "admins", "admin_role", "int" >>,
             << "admins", "ck_admins_admin_role", "int" >>,
             << "admins", "ck_admins_protected_is_active", "plain" >>,
             << "admins", "ck_admins_protected_is_super", "100" >>,
             << "admins", "is_protected", "plain" >>,
             << "admins", "ix_admins_principal_id", "plain" >>,
             << "admins", "ix_admins_username", "plain" >>}
Admins15 == {<< "admins", "table", "plain" >>,
             << "admins", "admin_role", "int" >>,
             << "admins", "ck_admins_admin_role", "int" >>,
             << "admins", "ck_admins_protected_is_active", "plain" >>,
             << "admins", "ck_admins_protected_is_super", "999" >>,
             << "admins", "is_protected", "plain" >>,
             << "admins", "ix_admins_principal_id", "plain" >>,
             << "admins", "ix_admins_username", "plain" >>}
Categories16 == {<< "record_categories", "table", "plain" >>,
                 << "record_categories", "ix_record_categories_name", "plain" >>}
Records16 == {<< "records", "table", "plain" >>,
              << "records", "ix_records_category_id", "plain" >>,
              << "records", "ix_records_deleted_at", "plain" >>}
Records17 == {<< "records", "table", "plain" >>,
              << "records", "ix_records_category_id", "plain" >>,
              << "records", "ix_records_created_at", "plain" >>,
              << "records", "ix_records_deleted_at", "plain" >>}
Readings18 == {<< "realtime_readings", "table", "plain" >>,
               << "realtime_readings", "ix_realtime_readings_ts", "plain" >>}

LEMMA AddUserTableUp ==
  ASSUME NEW S, Of(S, "users") = {}
  PROVE  /\ Of(Stages(S, AddUserTable.up)[2], "users") = Users2
         /\ \A o : o # "users" => Of(Stages(S, AddUserTable.up)[2], o) = Of(S, o)
<1> DEFINE u == AddUserTable.up
           f == Stages(S, u)
<1>1. Len(u) = 2
  BY DEF AddUserTable, Script
<1>2. /\ u[1] = CreateTable("users", { << "deleted", "plain" >>, << "email", "255" >> })
      /\ u[2] = Create("users", "ix_users_email", "plain")
  BY DEF AddUserTable, Script
<1> HIDE DEF u, f
<1>3. Len(u) \in Nat
  BY <1>1
<1>4. f[0] = S
  BY <1>3, StagesStep DEF f
<1>5. \A k \in 1..Len(u) : f[k] = Altered(f[k - 1], u[k])
  BY <1>3, StagesStep DEF f
<1>6. /\ f[1] = Altered(f[0], u[1])
      /\ f[2] = Altered(f[1], u[2])
  BY <1>1, <1>5
<1>7. /\ Of(f[0], "users") = {}
      /\ Of(f[1], "users") = Of(f[0], "users") \cup {<< "users", "table", "plain" >>}
           \cup {<< "users", p[1], p[2] >> : p \in { << "deleted", "plain" >>, << "email", "255" >> }}
      /\ Of(f[2], "users") = Of(f[1], "users") \cup {<< "users", "ix_users_email", "plain" >>}
  BY <1>2, <1>4, <1>6, OfCreate, OfCreateTable
<1>8. Of(f[2], "users") = Users2
  BY <1>7 DEF Users2
<1>9. ASSUME NEW o, o # "users" PROVE Of(f[2], o) = Of(S, o)
  BY <1>2, <1>4, <1>6, <1>9, OfCreate, OfCreateTable
<1> QED
  BY <1>8, <1>9 DEF f, u

LEMMA AddUserTableDown ==
  ASSUME NEW S, Of(S, "users") = Users2
  PROVE  /\ Of(Stages(S, AddUserTable.down)[2], "users") = {}
         /\ \A o : o # "users" => Of(Stages(S, AddUserTable.down)[2], o) = Of(S, o)
<1> DEFINE u == AddUserTable.down
           f == Stages(S, u)
<1>1. Len(u) = 2
  BY DEF AddUserTable, Script
<1>2. /\ u[1] = Drop("users", "ix_users_email")
      /\ u[2] = DropTable("users")
  BY DEF AddUserTable, Script
<1> HIDE DEF u, f
<1>3. Len(u) \in Nat
  BY <1>1
<1>4. f[0] = S
  BY <1>3, StagesStep DEF f
<1>5. \A k \in 1..Len(u) : f[k] = Altered(f[k - 1], u[k])
  BY <1>3, StagesStep DEF f
<1>6. /\ f[1] = Altered(f[0], u[1])
      /\ f[2] = Altered(f[1], u[2])
  BY <1>1, <1>5
<1>7. /\ Of(f[0], "users") = Users2
      /\ Of(f[1], "users") = {x \in Of(f[0], "users") : x[2] # "ix_users_email"}
      /\ Of(f[2], "users") = {}
  BY <1>2, <1>4, <1>6, OfDrop, OfDropTable
<1>8. Of(f[2], "users") = {}
  BY <1>7 DEF Users2
<1>9. ASSUME NEW o, o # "users" PROVE Of(f[2], o) = Of(S, o)
  BY <1>2, <1>4, <1>6, <1>9, OfDrop, OfDropTable
<1> QED
  BY <1>8, <1>9 DEF f, u

LEMMA RenameDeletedToIsActiveUp ==
  ASSUME NEW S, Of(S, "users") = Users2
  PROVE  /\ Of(Stages(S, RenameDeletedToIsActive.up)[3], "users") = Users3
         /\ \A o : o # "users" => Of(Stages(S, RenameDeletedToIsActive.up)[3], o) = Of(S, o)
<1> DEFINE u == RenameDeletedToIsActive.up
           f == Stages(S, u)
<1>1. Len(u) = 3
  BY DEF RenameDeletedToIsActive, Script
<1>2. /\ u[1].do = "create" /\ u[1].table = "users" /\ u[1].name = "is_active" /\ u[1].def = "plain"
      /\ u[2] = Write("is_active=NOT(deleted)")
      /\ u[3] = Drop("users", "deleted")
  BY DEF RenameDeletedToIsActive, Script, AddColumn, Stmt
<1> HIDE DEF u, f
<1>3. Len(u) \in Nat
  BY <1>1
<1>4. f[0] = S
  BY <1>3, StagesStep DEF f
<1>5. \A k \in 1..Len(u) : f[k] = Altered(f[k - 1], u[k])
  BY <1>3, StagesStep DEF f
<1>6. /\ f[1] = Altered(f[0], u[1])
      /\ f[2] = Altered(f[1], u[2])
      /\ f[3] = Altered(f[2], u[3])
  BY <1>1, <1>5
<1>7. /\ Of(f[0], "users") = Users2
      /\ Of(f[1], "users") = Of(f[0], "users") \cup {<< "users", "is_active", "plain" >>}
      /\ Of(f[2], "users") = Of(f[1], "users")
      /\ Of(f[3], "users") = {x \in Of(f[2], "users") : x[2] # "deleted"}
  BY <1>2, <1>4, <1>6, OfCreated, OfDrop, OfWrite
<1>8. Of(f[3], "users") = Users3
  BY <1>7 DEF Users2, Users3
<1>9. ASSUME NEW o, o # "users" PROVE Of(f[3], o) = Of(S, o)
  BY <1>2, <1>4, <1>6, <1>9, OfCreated, OfDrop, OfWrite
<1> QED
  BY <1>8, <1>9 DEF f, u

LEMMA RenameDeletedToIsActiveDown ==
  ASSUME NEW S, Of(S, "users") = Users3
  PROVE  /\ Of(Stages(S, RenameDeletedToIsActive.down)[3], "users") = Users2
         /\ \A o : o # "users" => Of(Stages(S, RenameDeletedToIsActive.down)[3], o) = Of(S, o)
<1> DEFINE u == RenameDeletedToIsActive.down
           f == Stages(S, u)
<1>1. Len(u) = 3
  BY DEF RenameDeletedToIsActive, Script
<1>2. /\ u[1].do = "create" /\ u[1].table = "users" /\ u[1].name = "deleted" /\ u[1].def = "plain"
      /\ u[2] = Write("deleted=NOT(is_active)")
      /\ u[3] = Drop("users", "is_active")
  BY DEF RenameDeletedToIsActive, Script, AddColumn, Stmt
<1> HIDE DEF u, f
<1>3. Len(u) \in Nat
  BY <1>1
<1>4. f[0] = S
  BY <1>3, StagesStep DEF f
<1>5. \A k \in 1..Len(u) : f[k] = Altered(f[k - 1], u[k])
  BY <1>3, StagesStep DEF f
<1>6. /\ f[1] = Altered(f[0], u[1])
      /\ f[2] = Altered(f[1], u[2])
      /\ f[3] = Altered(f[2], u[3])
  BY <1>1, <1>5
<1>7. /\ Of(f[0], "users") = Users3
      /\ Of(f[1], "users") = Of(f[0], "users") \cup {<< "users", "deleted", "plain" >>}
      /\ Of(f[2], "users") = Of(f[1], "users")
      /\ Of(f[3], "users") = {x \in Of(f[2], "users") : x[2] # "is_active"}
  BY <1>2, <1>4, <1>6, OfCreated, OfDrop, OfWrite
<1>8. Of(f[3], "users") = Users2
  BY <1>7 DEF Users3, Users2
<1>9. ASSUME NEW o, o # "users" PROVE Of(f[3], o) = Of(S, o)
  BY <1>2, <1>4, <1>6, <1>9, OfCreated, OfDrop, OfWrite
<1> QED
  BY <1>8, <1>9 DEF f, u

LEMMA EncryptUserEmailColumnUp ==
  ASSUME NEW S, Of(S, "users") = Users3
  PROVE  /\ Of(Stages(S, EncryptUserEmailColumn.up)[1], "users") = Users4
         /\ \A o : o # "users" => Of(Stages(S, EncryptUserEmailColumn.up)[1], o) = Of(S, o)
<1> DEFINE u == EncryptUserEmailColumn.up
           f == Stages(S, u)
<1>1. Len(u) = 1
  BY DEF EncryptUserEmailColumn, Script
<1>2. u[1] = Modify("users", "email", "512")
  BY DEF EncryptUserEmailColumn, Script
<1> HIDE DEF u, f
<1>3. Len(u) \in Nat
  BY <1>1
<1>4. f[0] = S
  BY <1>3, StagesStep DEF f
<1>5. \A k \in 1..Len(u) : f[k] = Altered(f[k - 1], u[k])
  BY <1>3, StagesStep DEF f
<1>6. f[1] = Altered(f[0], u[1])
  BY <1>1, <1>5
<1>7. /\ Of(f[0], "users") = Users3
      /\ Of(f[1], "users") = {x \in Of(f[0], "users") : x[2] # "email"} \cup {<< "users", "email", "512" >>}
  BY <1>2, <1>4, <1>6, OfModify
<1>8. Of(f[1], "users") = Users4
  BY <1>7 DEF Users3, Users4
<1>9. ASSUME NEW o, o # "users" PROVE Of(f[1], o) = Of(S, o)
  BY <1>2, <1>4, <1>6, <1>9, OfModify
<1> QED
  BY <1>8, <1>9 DEF f, u

LEMMA EncryptUserEmailColumnDown ==
  ASSUME NEW S, Of(S, "users") = Users4
  PROVE  /\ Of(Stages(S, EncryptUserEmailColumn.down)[1], "users") = Users3
         /\ \A o : o # "users" => Of(Stages(S, EncryptUserEmailColumn.down)[1], o) = Of(S, o)
<1> DEFINE u == EncryptUserEmailColumn.down
           f == Stages(S, u)
<1>1. Len(u) = 1
  BY DEF EncryptUserEmailColumn, Script
<1>2. u[1] = Modify("users", "email", "255")
  BY DEF EncryptUserEmailColumn, Script
<1> HIDE DEF u, f
<1>3. Len(u) \in Nat
  BY <1>1
<1>4. f[0] = S
  BY <1>3, StagesStep DEF f
<1>5. \A k \in 1..Len(u) : f[k] = Altered(f[k - 1], u[k])
  BY <1>3, StagesStep DEF f
<1>6. f[1] = Altered(f[0], u[1])
  BY <1>1, <1>5
<1>7. /\ Of(f[0], "users") = Users4
      /\ Of(f[1], "users") = {x \in Of(f[0], "users") : x[2] # "email"} \cup {<< "users", "email", "255" >>}
  BY <1>2, <1>4, <1>6, OfModify
<1>8. Of(f[1], "users") = Users3
  BY <1>7 DEF Users4, Users3
<1>9. ASSUME NEW o, o # "users" PROVE Of(f[1], o) = Of(S, o)
  BY <1>2, <1>4, <1>6, <1>9, OfModify
<1> QED
  BY <1>8, <1>9 DEF f, u

LEMMA ResizeUserEmailColumnUp ==
  ASSUME NEW S, Of(S, "users") = Users4
  PROVE  /\ Of(Stages(S, ResizeUserEmailColumn.up)[1], "users") = Users5
         /\ \A o : o # "users" => Of(Stages(S, ResizeUserEmailColumn.up)[1], o) = Of(S, o)
<1> DEFINE u == ResizeUserEmailColumn.up
           f == Stages(S, u)
<1>1. Len(u) = 1
  BY DEF ResizeUserEmailColumn, Script
<1>2. u[1] = Modify("users", "email", "1024")
  BY DEF ResizeUserEmailColumn, Script
<1> HIDE DEF u, f
<1>3. Len(u) \in Nat
  BY <1>1
<1>4. f[0] = S
  BY <1>3, StagesStep DEF f
<1>5. \A k \in 1..Len(u) : f[k] = Altered(f[k - 1], u[k])
  BY <1>3, StagesStep DEF f
<1>6. f[1] = Altered(f[0], u[1])
  BY <1>1, <1>5
<1>7. /\ Of(f[0], "users") = Users4
      /\ Of(f[1], "users") = {x \in Of(f[0], "users") : x[2] # "email"} \cup {<< "users", "email", "1024" >>}
  BY <1>2, <1>4, <1>6, OfModify
<1>8. Of(f[1], "users") = Users5
  BY <1>7 DEF Users4, Users5
<1>9. ASSUME NEW o, o # "users" PROVE Of(f[1], o) = Of(S, o)
  BY <1>2, <1>4, <1>6, <1>9, OfModify
<1> QED
  BY <1>8, <1>9 DEF f, u

LEMMA ResizeUserEmailColumnDown ==
  ASSUME NEW S, Of(S, "users") = Users5
  PROVE  /\ Of(Stages(S, ResizeUserEmailColumn.down)[1], "users") = Users4
         /\ \A o : o # "users" => Of(Stages(S, ResizeUserEmailColumn.down)[1], o) = Of(S, o)
<1> DEFINE u == ResizeUserEmailColumn.down
           f == Stages(S, u)
<1>1. Len(u) = 1
  BY DEF ResizeUserEmailColumn, Script
<1>2. u[1] = Modify("users", "email", "512")
  BY DEF ResizeUserEmailColumn, Script
<1> HIDE DEF u, f
<1>3. Len(u) \in Nat
  BY <1>1
<1>4. f[0] = S
  BY <1>3, StagesStep DEF f
<1>5. \A k \in 1..Len(u) : f[k] = Altered(f[k - 1], u[k])
  BY <1>3, StagesStep DEF f
<1>6. f[1] = Altered(f[0], u[1])
  BY <1>1, <1>5
<1>7. /\ Of(f[0], "users") = Users5
      /\ Of(f[1], "users") = {x \in Of(f[0], "users") : x[2] # "email"} \cup {<< "users", "email", "512" >>}
  BY <1>2, <1>4, <1>6, OfModify
<1>8. Of(f[1], "users") = Users4
  BY <1>7 DEF Users5, Users4
<1>9. ASSUME NEW o, o # "users" PROVE Of(f[1], o) = Of(S, o)
  BY <1>2, <1>4, <1>6, <1>9, OfModify
<1> QED
  BY <1>8, <1>9 DEF f, u

LEMMA AddUserPasswordHashUp ==
  ASSUME NEW S, Of(S, "users") = Users5
  PROVE  /\ Of(Stages(S, AddUserPasswordHash.up)[1], "users") = Users6
         /\ \A o : o # "users" => Of(Stages(S, AddUserPasswordHash.up)[1], o) = Of(S, o)
<1> DEFINE u == AddUserPasswordHash.up
           f == Stages(S, u)
<1>1. Len(u) = 1
  BY DEF AddUserPasswordHash, Script
<1>2. u[1] = AddColumn("users", "password_hash", "plain", "none")
  BY DEF AddUserPasswordHash, Script
<1> HIDE DEF u, f
<1>3. Len(u) \in Nat
  BY <1>1
<1>4. f[0] = S
  BY <1>3, StagesStep DEF f
<1>5. \A k \in 1..Len(u) : f[k] = Altered(f[k - 1], u[k])
  BY <1>3, StagesStep DEF f
<1>6. f[1] = Altered(f[0], u[1])
  BY <1>1, <1>5
<1>7. /\ Of(f[0], "users") = Users5
      /\ Of(f[1], "users") = Of(f[0], "users") \cup {<< "users", "password_hash", "plain" >>}
  BY <1>2, <1>4, <1>6, OfAddColumn
<1>8. Of(f[1], "users") = Users6
  BY <1>7 DEF Users5, Users6
<1>9. ASSUME NEW o, o # "users" PROVE Of(f[1], o) = Of(S, o)
  BY <1>2, <1>4, <1>6, <1>9, OfAddColumn
<1> QED
  BY <1>8, <1>9 DEF f, u

LEMMA AddUserPasswordHashDown ==
  ASSUME NEW S, Of(S, "users") = Users6
  PROVE  /\ Of(Stages(S, AddUserPasswordHash.down)[1], "users") = Users5
         /\ \A o : o # "users" => Of(Stages(S, AddUserPasswordHash.down)[1], o) = Of(S, o)
<1> DEFINE u == AddUserPasswordHash.down
           f == Stages(S, u)
<1>1. Len(u) = 1
  BY DEF AddUserPasswordHash, Script
<1>2. u[1] = Drop("users", "password_hash")
  BY DEF AddUserPasswordHash, Script
<1> HIDE DEF u, f
<1>3. Len(u) \in Nat
  BY <1>1
<1>4. f[0] = S
  BY <1>3, StagesStep DEF f
<1>5. \A k \in 1..Len(u) : f[k] = Altered(f[k - 1], u[k])
  BY <1>3, StagesStep DEF f
<1>6. f[1] = Altered(f[0], u[1])
  BY <1>1, <1>5
<1>7. /\ Of(f[0], "users") = Users6
      /\ Of(f[1], "users") = {x \in Of(f[0], "users") : x[2] # "password_hash"}
  BY <1>2, <1>4, <1>6, OfDrop
<1>8. Of(f[1], "users") = Users5
  BY <1>7 DEF Users6, Users5
<1>9. ASSUME NEW o, o # "users" PROVE Of(f[1], o) = Of(S, o)
  BY <1>2, <1>4, <1>6, <1>9, OfDrop
<1> QED
  BY <1>8, <1>9 DEF f, u

LEMMA ExtractIdentityFromUserUp ==
  ASSUME NEW S, Of(S, "identities") = {}, Of(S, "users") = Users6
  PROVE  /\ Of(Stages(S, ExtractIdentityFromUser.up)[6], "identities") = Identities7
         /\ Of(Stages(S, ExtractIdentityFromUser.up)[6], "users") = Users7
         /\ \A o : o \notin {"identities", "users"} => Of(Stages(S, ExtractIdentityFromUser.up)[6], o) = Of(S, o)
<1> DEFINE u == ExtractIdentityFromUser.up
           f == Stages(S, u)
<1>1. Len(u) = 6
  BY DEF ExtractIdentityFromUser, Script
<1>2. /\ u[1] = CreateTable("identities", {})
      /\ u[2] = Create("identities", "ix_identities_user_id", "plain")
      /\ u[3] = Create("identities", "ix_identities_provider", "plain")
      /\ u[4] = Write("identities-from-password_hash")
      /\ u[5] = Drop("users", "password_hash")
      /\ u[6] = Modify("users", "email", "1024_NULL")
  BY DEF ExtractIdentityFromUser, Script
<1> HIDE DEF u, f
<1>3. Len(u) \in Nat
  BY <1>1
<1>4. f[0] = S
  BY <1>3, StagesStep DEF f
<1>5. \A k \in 1..Len(u) : f[k] = Altered(f[k - 1], u[k])
  BY <1>3, StagesStep DEF f
<1>6. /\ f[1] = Altered(f[0], u[1])
      /\ f[2] = Altered(f[1], u[2])
      /\ f[3] = Altered(f[2], u[3])
      /\ f[4] = Altered(f[3], u[4])
      /\ f[5] = Altered(f[4], u[5])
      /\ f[6] = Altered(f[5], u[6])
  BY <1>1, <1>5
<1>7. /\ Of(f[0], "identities") = {}
      /\ Of(f[1], "identities") = Of(f[0], "identities") \cup {<< "identities", "table", "plain" >>}
      /\ Of(f[2], "identities") = Of(f[1], "identities") \cup {<< "identities", "ix_identities_user_id", "plain" >>}
      /\ Of(f[3], "identities") = Of(f[2], "identities") \cup {<< "identities", "ix_identities_provider", "plain" >>}
      /\ Of(f[4], "identities") = Of(f[3], "identities")
      /\ Of(f[5], "identities") = Of(f[4], "identities")
      /\ Of(f[6], "identities") = Of(f[5], "identities")
  BY <1>2, <1>4, <1>6, OfCreate, OfCreateTable, OfDrop, OfModify, OfWrite
<1>8. Of(f[6], "identities") = Identities7
  BY <1>7 DEF Identities7
<1>9. /\ Of(f[0], "users") = Users6
      /\ Of(f[1], "users") = Of(f[0], "users")
      /\ Of(f[2], "users") = Of(f[1], "users")
      /\ Of(f[3], "users") = Of(f[2], "users")
      /\ Of(f[4], "users") = Of(f[3], "users")
      /\ Of(f[5], "users") = {x \in Of(f[4], "users") : x[2] # "password_hash"}
      /\ Of(f[6], "users") = {x \in Of(f[5], "users") : x[2] # "email"} \cup {<< "users", "email", "1024_NULL" >>}
  BY <1>2, <1>4, <1>6, OfCreate, OfCreateTable, OfDrop, OfModify, OfWrite
<1>10. Of(f[6], "users") = Users7
  BY <1>9 DEF Users6, Users7
<1>11. ASSUME NEW o, o \notin {"identities", "users"} PROVE Of(f[6], o) = Of(S, o)
  BY <1>2, <1>4, <1>6, <1>11, OfCreate, OfCreateTable, OfDrop, OfModify, OfWrite
<1> QED
  BY <1>8, <1>10, <1>11 DEF f, u

LEMMA ExtractIdentityFromUserDown ==
  ASSUME NEW S, Of(S, "users") = Users7, Of(S, "identities") = Identities7
  PROVE  /\ Of(Stages(S, ExtractIdentityFromUser.down)[4], "users") = Users6
         /\ Of(Stages(S, ExtractIdentityFromUser.down)[4], "identities") = {}
         /\ \A o : o \notin {"users", "identities"} => Of(Stages(S, ExtractIdentityFromUser.down)[4], o) = Of(S, o)
<1> DEFINE u == ExtractIdentityFromUser.down
           f == Stages(S, u)
<1>1. Len(u) = 4
  BY DEF ExtractIdentityFromUser, Script
<1>2. /\ u[1] = AddColumn("users", "password_hash", "plain", "none")
      /\ u[2] = Write("password_hash-from-identities")
      /\ u[3] = Modify("users", "email", "1024")
      /\ u[4] = DropTable("identities")
  BY DEF ExtractIdentityFromUser, Script
<1> HIDE DEF u, f
<1>3. Len(u) \in Nat
  BY <1>1
<1>4. f[0] = S
  BY <1>3, StagesStep DEF f
<1>5. \A k \in 1..Len(u) : f[k] = Altered(f[k - 1], u[k])
  BY <1>3, StagesStep DEF f
<1>6. /\ f[1] = Altered(f[0], u[1])
      /\ f[2] = Altered(f[1], u[2])
      /\ f[3] = Altered(f[2], u[3])
      /\ f[4] = Altered(f[3], u[4])
  BY <1>1, <1>5
<1>7. /\ Of(f[0], "users") = Users7
      /\ Of(f[1], "users") = Of(f[0], "users") \cup {<< "users", "password_hash", "plain" >>}
      /\ Of(f[2], "users") = Of(f[1], "users")
      /\ Of(f[3], "users") = {x \in Of(f[2], "users") : x[2] # "email"} \cup {<< "users", "email", "1024" >>}
      /\ Of(f[4], "users") = Of(f[3], "users")
  BY <1>2, <1>4, <1>6, OfAddColumn, OfDropTable, OfModify, OfWrite
<1>8. Of(f[4], "users") = Users6
  BY <1>7 DEF Users7, Users6
<1>9. /\ Of(f[0], "identities") = Identities7
      /\ Of(f[1], "identities") = Of(f[0], "identities")
      /\ Of(f[2], "identities") = Of(f[1], "identities")
      /\ Of(f[3], "identities") = Of(f[2], "identities")
      /\ Of(f[4], "identities") = {}
  BY <1>2, <1>4, <1>6, OfAddColumn, OfDropTable, OfModify, OfWrite
<1>10. Of(f[4], "identities") = {}
  BY <1>9 DEF Identities7
<1>11. ASSUME NEW o, o \notin {"users", "identities"} PROVE Of(f[4], o) = Of(S, o)
  BY <1>2, <1>4, <1>6, <1>11, OfAddColumn, OfDropTable, OfModify, OfWrite
<1> QED
  BY <1>8, <1>10, <1>11 DEF f, u

LEMMA AddRefreshTokensTableUp ==
  ASSUME NEW S, Of(S, "refresh_tokens") = {}
  PROVE  /\ Of(Stages(S, AddRefreshTokensTable.up)[4], "refresh_tokens") = Tokens8
         /\ \A o : o # "refresh_tokens" => Of(Stages(S, AddRefreshTokensTable.up)[4], o) = Of(S, o)
<1> DEFINE u == AddRefreshTokensTable.up
           f == Stages(S, u)
<1>1. Len(u) = 4
  BY DEF AddRefreshTokensTable, Script
<1>2. /\ u[1] = CreateTable("refresh_tokens", { << "user_id", "NOT_NULL" >>, << "fk_user", "plain" >> })
      /\ u[2] = Create("refresh_tokens", "ix_refresh_tokens_token_hash", "plain")
      /\ u[3] = Create("refresh_tokens", "ix_refresh_tokens_user_id", "plain")
      /\ u[4] = Create("refresh_tokens", "ix_refresh_tokens_family_id", "plain")
  BY DEF AddRefreshTokensTable, Script
<1> HIDE DEF u, f
<1>3. Len(u) \in Nat
  BY <1>1
<1>4. f[0] = S
  BY <1>3, StagesStep DEF f
<1>5. \A k \in 1..Len(u) : f[k] = Altered(f[k - 1], u[k])
  BY <1>3, StagesStep DEF f
<1>6. /\ f[1] = Altered(f[0], u[1])
      /\ f[2] = Altered(f[1], u[2])
      /\ f[3] = Altered(f[2], u[3])
      /\ f[4] = Altered(f[3], u[4])
  BY <1>1, <1>5
<1>7. /\ Of(f[0], "refresh_tokens") = {}
      /\ Of(f[1], "refresh_tokens") = Of(f[0], "refresh_tokens") \cup {<< "refresh_tokens", "table", "plain" >>}
           \cup {<< "refresh_tokens", p[1], p[2] >> : p \in { << "user_id", "NOT_NULL" >>, << "fk_user", "plain" >> }}
      /\ Of(f[2], "refresh_tokens") = Of(f[1], "refresh_tokens") \cup {<< "refresh_tokens", "ix_refresh_tokens_token_hash", "plain" >>}
      /\ Of(f[3], "refresh_tokens") = Of(f[2], "refresh_tokens") \cup {<< "refresh_tokens", "ix_refresh_tokens_user_id", "plain" >>}
      /\ Of(f[4], "refresh_tokens") = Of(f[3], "refresh_tokens") \cup {<< "refresh_tokens", "ix_refresh_tokens_family_id", "plain" >>}
  BY <1>2, <1>4, <1>6, OfCreate, OfCreateTable
<1>8. Of(f[4], "refresh_tokens") = Tokens8
  BY <1>7 DEF Tokens8
<1>9. ASSUME NEW o, o # "refresh_tokens" PROVE Of(f[4], o) = Of(S, o)
  BY <1>2, <1>4, <1>6, <1>9, OfCreate, OfCreateTable
<1> QED
  BY <1>8, <1>9 DEF f, u

LEMMA AddRefreshTokensTableDown ==
  ASSUME NEW S, Of(S, "refresh_tokens") = Tokens8
  PROVE  /\ Of(Stages(S, AddRefreshTokensTable.down)[1], "refresh_tokens") = {}
         /\ \A o : o # "refresh_tokens" => Of(Stages(S, AddRefreshTokensTable.down)[1], o) = Of(S, o)
<1> DEFINE u == AddRefreshTokensTable.down
           f == Stages(S, u)
<1>1. Len(u) = 1
  BY DEF AddRefreshTokensTable, Script
<1>2. u[1] = DropTable("refresh_tokens")
  BY DEF AddRefreshTokensTable, Script
<1> HIDE DEF u, f
<1>3. Len(u) \in Nat
  BY <1>1
<1>4. f[0] = S
  BY <1>3, StagesStep DEF f
<1>5. \A k \in 1..Len(u) : f[k] = Altered(f[k - 1], u[k])
  BY <1>3, StagesStep DEF f
<1>6. f[1] = Altered(f[0], u[1])
  BY <1>1, <1>5
<1>7. /\ Of(f[0], "refresh_tokens") = Tokens8
      /\ Of(f[1], "refresh_tokens") = {}
  BY <1>2, <1>4, <1>6, OfDropTable
<1>8. Of(f[1], "refresh_tokens") = {}
  BY <1>7 DEF Tokens8
<1>9. ASSUME NEW o, o # "refresh_tokens" PROVE Of(f[1], o) = Of(S, o)
  BY <1>2, <1>4, <1>6, <1>9, OfDropTable
<1> QED
  BY <1>8, <1>9 DEF f, u

LEMMA AddPrincipalsUp ==
  ASSUME NEW S, Of(S, "principals") = {}, Of(S, "users") = Users7
  PROVE  /\ Of(Stages(S, AddPrincipals.up)[9], "principals") = Principals9
         /\ Of(Stages(S, AddPrincipals.up)[9], "users") = Users9
         /\ \A o : o \notin {"principals", "users"} => Of(Stages(S, AddPrincipals.up)[9], o) = Of(S, o)
<1> DEFINE u == AddPrincipals.up
           f == Stages(S, u)
<1>1. Len(u) = 9
  BY DEF AddPrincipals, Script
<1>2. /\ u[1] = CreateTable("principals", {})
      /\ u[2] = AddColumn("users", "principal_id", "NULL", None)
      /\ u[3] = AddColumn("users", "role", "plain", None)
      /\ u[4] = Write("principals-from-users")
      /\ u[5] = Write("users.principal_id=id")
      /\ u[6] = Modify("users", "principal_id", "NOT_NULL")
      /\ u[7] = Create("users", "ix_users_principal_id", "plain")
      /\ u[8] = Create("users", "fk_users_principal_role", "plain")
      /\ u[9] = Create("users", "ck_users_role_user", "plain")
  BY DEF AddPrincipals, Script
<1> HIDE DEF u, f
<1>3. Len(u) \in Nat
  BY <1>1
<1>4. f[0] = S
  BY <1>3, StagesStep DEF f
<1>5. \A k \in 1..Len(u) : f[k] = Altered(f[k - 1], u[k])
  BY <1>3, StagesStep DEF f
<1>6. /\ f[1] = Altered(f[0], u[1])
      /\ f[2] = Altered(f[1], u[2])
      /\ f[3] = Altered(f[2], u[3])
      /\ f[4] = Altered(f[3], u[4])
      /\ f[5] = Altered(f[4], u[5])
      /\ f[6] = Altered(f[5], u[6])
      /\ f[7] = Altered(f[6], u[7])
      /\ f[8] = Altered(f[7], u[8])
      /\ f[9] = Altered(f[8], u[9])
  BY <1>1, <1>5
<1>7. /\ Of(f[0], "principals") = {}
      /\ Of(f[1], "principals") = Of(f[0], "principals") \cup {<< "principals", "table", "plain" >>}
      /\ Of(f[2], "principals") = Of(f[1], "principals")
      /\ Of(f[3], "principals") = Of(f[2], "principals")
      /\ Of(f[4], "principals") = Of(f[3], "principals")
      /\ Of(f[5], "principals") = Of(f[4], "principals")
      /\ Of(f[6], "principals") = Of(f[5], "principals")
      /\ Of(f[7], "principals") = Of(f[6], "principals")
      /\ Of(f[8], "principals") = Of(f[7], "principals")
      /\ Of(f[9], "principals") = Of(f[8], "principals")
  BY <1>2, <1>4, <1>6, OfAddColumn, OfCreate, OfCreateTable, OfModify, OfWrite
<1>8. Of(f[9], "principals") = Principals9
  BY <1>7 DEF Principals9
<1>9. /\ Of(f[0], "users") = Users7
      /\ Of(f[1], "users") = Of(f[0], "users")
      /\ Of(f[2], "users") = Of(f[1], "users") \cup {<< "users", "principal_id", "NULL" >>}
      /\ Of(f[3], "users") = Of(f[2], "users") \cup {<< "users", "role", "plain" >>}
      /\ Of(f[4], "users") = Of(f[3], "users")
      /\ Of(f[5], "users") = Of(f[4], "users")
      /\ Of(f[6], "users") = {x \in Of(f[5], "users") : x[2] # "principal_id"} \cup {<< "users", "principal_id", "NOT_NULL" >>}
      /\ Of(f[7], "users") = Of(f[6], "users") \cup {<< "users", "ix_users_principal_id", "plain" >>}
      /\ Of(f[8], "users") = Of(f[7], "users") \cup {<< "users", "fk_users_principal_role", "plain" >>}
      /\ Of(f[9], "users") = Of(f[8], "users") \cup {<< "users", "ck_users_role_user", "plain" >>}
  BY <1>2, <1>4, <1>6, OfAddColumn, OfCreate, OfCreateTable, OfModify, OfWrite
<1>10. Of(f[9], "users") = Users9
  BY <1>9 DEF Users7, Users9
<1>11. ASSUME NEW o, o \notin {"principals", "users"} PROVE Of(f[9], o) = Of(S, o)
  BY <1>2, <1>4, <1>6, <1>11, OfAddColumn, OfCreate, OfCreateTable, OfModify, OfWrite
<1> QED
  BY <1>8, <1>10, <1>11 DEF f, u

LEMMA AddPrincipalsDown ==
  ASSUME NEW S, Of(S, "users") = Users9, Of(S, "principals") = Principals9
  PROVE  /\ Of(Stages(S, AddPrincipals.down)[6], "users") = Users7
         /\ Of(Stages(S, AddPrincipals.down)[6], "principals") = {}
         /\ \A o : o \notin {"users", "principals"} => Of(Stages(S, AddPrincipals.down)[6], o) = Of(S, o)
<1> DEFINE u == AddPrincipals.down
           f == Stages(S, u)
<1>1. Len(u) = 6
  BY DEF AddPrincipals, Script
<1>2. /\ u[1] = Drop("users", "ck_users_role_user")
      /\ u[2] = Drop("users", "fk_users_principal_role")
      /\ u[3] = Drop("users", "ix_users_principal_id")
      /\ u[4] = Drop("users", "role")
      /\ u[5] = Drop("users", "principal_id")
      /\ u[6] = DropTable("principals")
  BY DEF AddPrincipals, Script
<1> HIDE DEF u, f
<1>3. Len(u) \in Nat
  BY <1>1
<1>4. f[0] = S
  BY <1>3, StagesStep DEF f
<1>5. \A k \in 1..Len(u) : f[k] = Altered(f[k - 1], u[k])
  BY <1>3, StagesStep DEF f
<1>6. /\ f[1] = Altered(f[0], u[1])
      /\ f[2] = Altered(f[1], u[2])
      /\ f[3] = Altered(f[2], u[3])
      /\ f[4] = Altered(f[3], u[4])
      /\ f[5] = Altered(f[4], u[5])
      /\ f[6] = Altered(f[5], u[6])
  BY <1>1, <1>5
<1>7. /\ Of(f[0], "users") = Users9
      /\ Of(f[1], "users") = {x \in Of(f[0], "users") : x[2] # "ck_users_role_user"}
      /\ Of(f[2], "users") = {x \in Of(f[1], "users") : x[2] # "fk_users_principal_role"}
      /\ Of(f[3], "users") = {x \in Of(f[2], "users") : x[2] # "ix_users_principal_id"}
      /\ Of(f[4], "users") = {x \in Of(f[3], "users") : x[2] # "role"}
      /\ Of(f[5], "users") = {x \in Of(f[4], "users") : x[2] # "principal_id"}
      /\ Of(f[6], "users") = Of(f[5], "users")
  BY <1>2, <1>4, <1>6, OfDrop, OfDropTable
<1>8. Of(f[6], "users") = Users7
  BY <1>7 DEF Users9, Users7
<1>9. /\ Of(f[0], "principals") = Principals9
      /\ Of(f[1], "principals") = Of(f[0], "principals")
      /\ Of(f[2], "principals") = Of(f[1], "principals")
      /\ Of(f[3], "principals") = Of(f[2], "principals")
      /\ Of(f[4], "principals") = Of(f[3], "principals")
      /\ Of(f[5], "principals") = Of(f[4], "principals")
      /\ Of(f[6], "principals") = {}
  BY <1>2, <1>4, <1>6, OfDrop, OfDropTable
<1>10. Of(f[6], "principals") = {}
  BY <1>9 DEF Principals9
<1>11. ASSUME NEW o, o \notin {"users", "principals"} PROVE Of(f[6], o) = Of(S, o)
  BY <1>2, <1>4, <1>6, <1>11, OfDrop, OfDropTable
<1> QED
  BY <1>8, <1>10, <1>11 DEF f, u

LEMMA RefreshTokensOwnerUp ==
  ASSUME NEW S, Of(S, "refresh_tokens") = Tokens8
  PROVE  /\ Of(Stages(S, RefreshTokensOwner.up)[8], "refresh_tokens") = Tokens10
         /\ \A o : o # "refresh_tokens" => Of(Stages(S, RefreshTokensOwner.up)[8], o) = Of(S, o)
<1> DEFINE u == RefreshTokensOwner.up
           f == Stages(S, u)
<1>1. Len(u) = 8
  BY DEF RefreshTokensOwner, Script
<1>2. /\ u[1] = AddColumn("refresh_tokens", "principal_id", "NULL", None)
      /\ u[2] = Write("token-principals-from-users")
      /\ u[3] = Drop("refresh_tokens", "fk_user")
      /\ u[4] = Drop("refresh_tokens", "ix_refresh_tokens_user_id")
      /\ u[5] = Drop("refresh_tokens", "user_id")
      /\ u[6] = Modify("refresh_tokens", "principal_id", "NOT_NULL")
      /\ u[7] = Create("refresh_tokens", "fk_refresh_tokens_principal", "plain")
      /\ u[8] = Create("refresh_tokens", "ix_refresh_tokens_principal_id", "plain")
  BY DEF RefreshTokensOwner, Script
<1> HIDE DEF u, f
<1>3. Len(u) \in Nat
  BY <1>1
<1>4. f[0] = S
  BY <1>3, StagesStep DEF f
<1>5. \A k \in 1..Len(u) : f[k] = Altered(f[k - 1], u[k])
  BY <1>3, StagesStep DEF f
<1>6. /\ f[1] = Altered(f[0], u[1])
      /\ f[2] = Altered(f[1], u[2])
      /\ f[3] = Altered(f[2], u[3])
      /\ f[4] = Altered(f[3], u[4])
      /\ f[5] = Altered(f[4], u[5])
      /\ f[6] = Altered(f[5], u[6])
      /\ f[7] = Altered(f[6], u[7])
      /\ f[8] = Altered(f[7], u[8])
  BY <1>1, <1>5
<1>7. /\ Of(f[0], "refresh_tokens") = Tokens8
      /\ Of(f[1], "refresh_tokens") = Of(f[0], "refresh_tokens") \cup {<< "refresh_tokens", "principal_id", "NULL" >>}
      /\ Of(f[2], "refresh_tokens") = Of(f[1], "refresh_tokens")
      /\ Of(f[3], "refresh_tokens") = {x \in Of(f[2], "refresh_tokens") : x[2] # "fk_user"}
      /\ Of(f[4], "refresh_tokens") = {x \in Of(f[3], "refresh_tokens") : x[2] # "ix_refresh_tokens_user_id"}
      /\ Of(f[5], "refresh_tokens") = {x \in Of(f[4], "refresh_tokens") : x[2] # "user_id"}
      /\ Of(f[6], "refresh_tokens") = {x \in Of(f[5], "refresh_tokens") : x[2] # "principal_id"} \cup {<< "refresh_tokens", "principal_id", "NOT_NULL" >>}
      /\ Of(f[7], "refresh_tokens") = Of(f[6], "refresh_tokens") \cup {<< "refresh_tokens", "fk_refresh_tokens_principal", "plain" >>}
      /\ Of(f[8], "refresh_tokens") = Of(f[7], "refresh_tokens") \cup {<< "refresh_tokens", "ix_refresh_tokens_principal_id", "plain" >>}
  BY <1>2, <1>4, <1>6, OfAddColumn, OfCreate, OfDrop, OfModify, OfWrite
<1>8. Of(f[8], "refresh_tokens") = Tokens10
  BY <1>7 DEF Tokens8, Tokens10
<1>9. ASSUME NEW o, o # "refresh_tokens" PROVE Of(f[8], o) = Of(S, o)
  BY <1>2, <1>4, <1>6, <1>9, OfAddColumn, OfCreate, OfDrop, OfModify, OfWrite
<1> QED
  BY <1>8, <1>9 DEF f, u

LEMMA RefreshTokensOwnerDown ==
  ASSUME NEW S, Of(S, "refresh_tokens") = Tokens10
  PROVE  /\ Of(Stages(S, RefreshTokensOwner.down)[8], "refresh_tokens") = Tokens8
         /\ \A o : o # "refresh_tokens" => Of(Stages(S, RefreshTokensOwner.down)[8], o) = Of(S, o)
<1> DEFINE u == RefreshTokensOwner.down
           f == Stages(S, u)
<1>1. Len(u) = 8
  BY DEF RefreshTokensOwner, Script
<1>2. /\ u[1] = AddColumn("refresh_tokens", "user_id", "NULL", None)
      /\ u[2] = Write("token-users-from-principals")
      /\ u[3] = Drop("refresh_tokens", "fk_refresh_tokens_principal")
      /\ u[4] = Drop("refresh_tokens", "ix_refresh_tokens_principal_id")
      /\ u[5] = Drop("refresh_tokens", "principal_id")
      /\ u[6] = Modify("refresh_tokens", "user_id", "NOT_NULL")
      /\ u[7] = Create("refresh_tokens", "fk_user", "plain")
      /\ u[8] = Create("refresh_tokens", "ix_refresh_tokens_user_id", "plain")
  BY DEF RefreshTokensOwner, Script
<1> HIDE DEF u, f
<1>3. Len(u) \in Nat
  BY <1>1
<1>4. f[0] = S
  BY <1>3, StagesStep DEF f
<1>5. \A k \in 1..Len(u) : f[k] = Altered(f[k - 1], u[k])
  BY <1>3, StagesStep DEF f
<1>6. /\ f[1] = Altered(f[0], u[1])
      /\ f[2] = Altered(f[1], u[2])
      /\ f[3] = Altered(f[2], u[3])
      /\ f[4] = Altered(f[3], u[4])
      /\ f[5] = Altered(f[4], u[5])
      /\ f[6] = Altered(f[5], u[6])
      /\ f[7] = Altered(f[6], u[7])
      /\ f[8] = Altered(f[7], u[8])
  BY <1>1, <1>5
<1>7. /\ Of(f[0], "refresh_tokens") = Tokens10
      /\ Of(f[1], "refresh_tokens") = Of(f[0], "refresh_tokens") \cup {<< "refresh_tokens", "user_id", "NULL" >>}
      /\ Of(f[2], "refresh_tokens") = Of(f[1], "refresh_tokens")
      /\ Of(f[3], "refresh_tokens") = {x \in Of(f[2], "refresh_tokens") : x[2] # "fk_refresh_tokens_principal"}
      /\ Of(f[4], "refresh_tokens") = {x \in Of(f[3], "refresh_tokens") : x[2] # "ix_refresh_tokens_principal_id"}
      /\ Of(f[5], "refresh_tokens") = {x \in Of(f[4], "refresh_tokens") : x[2] # "principal_id"}
      /\ Of(f[6], "refresh_tokens") = {x \in Of(f[5], "refresh_tokens") : x[2] # "user_id"} \cup {<< "refresh_tokens", "user_id", "NOT_NULL" >>}
      /\ Of(f[7], "refresh_tokens") = Of(f[6], "refresh_tokens") \cup {<< "refresh_tokens", "fk_user", "plain" >>}
      /\ Of(f[8], "refresh_tokens") = Of(f[7], "refresh_tokens") \cup {<< "refresh_tokens", "ix_refresh_tokens_user_id", "plain" >>}
  BY <1>2, <1>4, <1>6, OfAddColumn, OfCreate, OfDrop, OfModify, OfWrite
<1>8. Of(f[8], "refresh_tokens") = Tokens8
  BY <1>7 DEF Tokens10, Tokens8
<1>9. ASSUME NEW o, o # "refresh_tokens" PROVE Of(f[8], o) = Of(S, o)
  BY <1>2, <1>4, <1>6, <1>9, OfAddColumn, OfCreate, OfDrop, OfModify, OfWrite
<1> QED
  BY <1>8, <1>9 DEF f, u

LEMMA AddAdminsTableUp ==
  ASSUME NEW S, Of(S, "admins") = {}
  PROVE  /\ Of(Stages(S, AddAdminsTable.up)[3], "admins") = Admins11
         /\ \A o : o # "admins" => Of(Stages(S, AddAdminsTable.up)[3], o) = Of(S, o)
<1> DEFINE u == AddAdminsTable.up
           f == Stages(S, u)
<1>1. Len(u) = 3
  BY DEF AddAdminsTable, Script
<1>2. /\ u[1] = CreateTable("admins", { << "admin_role", "text" >>, << "ck_admins_admin_role", "text" >> })
      /\ u[2] = Create("admins", "ix_admins_principal_id", "plain")
      /\ u[3] = Create("admins", "ix_admins_username", "plain")
  BY DEF AddAdminsTable, Script
<1> HIDE DEF u, f
<1>3. Len(u) \in Nat
  BY <1>1
<1>4. f[0] = S
  BY <1>3, StagesStep DEF f
<1>5. \A k \in 1..Len(u) : f[k] = Altered(f[k - 1], u[k])
  BY <1>3, StagesStep DEF f
<1>6. /\ f[1] = Altered(f[0], u[1])
      /\ f[2] = Altered(f[1], u[2])
      /\ f[3] = Altered(f[2], u[3])
  BY <1>1, <1>5
<1>7. /\ Of(f[0], "admins") = {}
      /\ Of(f[1], "admins") = Of(f[0], "admins") \cup {<< "admins", "table", "plain" >>}
           \cup {<< "admins", p[1], p[2] >> : p \in { << "admin_role", "text" >>, << "ck_admins_admin_role", "text" >> }}
      /\ Of(f[2], "admins") = Of(f[1], "admins") \cup {<< "admins", "ix_admins_principal_id", "plain" >>}
      /\ Of(f[3], "admins") = Of(f[2], "admins") \cup {<< "admins", "ix_admins_username", "plain" >>}
  BY <1>2, <1>4, <1>6, OfCreate, OfCreateTable
<1>8. Of(f[3], "admins") = Admins11
  BY <1>7 DEF Admins11
<1>9. ASSUME NEW o, o # "admins" PROVE Of(f[3], o) = Of(S, o)
  BY <1>2, <1>4, <1>6, <1>9, OfCreate, OfCreateTable
<1> QED
  BY <1>8, <1>9 DEF f, u

LEMMA AddAdminsTableDown ==
  ASSUME NEW S, Of(S, "admins") = Admins11
  PROVE  /\ Of(Stages(S, AddAdminsTable.down)[3], "admins") = {}
         /\ \A o : o # "admins" => Of(Stages(S, AddAdminsTable.down)[3], o) = Of(S, o)
<1> DEFINE u == AddAdminsTable.down
           f == Stages(S, u)
<1>1. Len(u) = 3
  BY DEF AddAdminsTable, Script
<1>2. /\ u[1] = Drop("admins", "ix_admins_username")
      /\ u[2] = Drop("admins", "ix_admins_principal_id")
      /\ u[3] = DropTable("admins")
  BY DEF AddAdminsTable, Script
<1> HIDE DEF u, f
<1>3. Len(u) \in Nat
  BY <1>1
<1>4. f[0] = S
  BY <1>3, StagesStep DEF f
<1>5. \A k \in 1..Len(u) : f[k] = Altered(f[k - 1], u[k])
  BY <1>3, StagesStep DEF f
<1>6. /\ f[1] = Altered(f[0], u[1])
      /\ f[2] = Altered(f[1], u[2])
      /\ f[3] = Altered(f[2], u[3])
  BY <1>1, <1>5
<1>7. /\ Of(f[0], "admins") = Admins11
      /\ Of(f[1], "admins") = {x \in Of(f[0], "admins") : x[2] # "ix_admins_username"}
      /\ Of(f[2], "admins") = {x \in Of(f[1], "admins") : x[2] # "ix_admins_principal_id"}
      /\ Of(f[3], "admins") = {}
  BY <1>2, <1>4, <1>6, OfDrop, OfDropTable
<1>8. Of(f[3], "admins") = {}
  BY <1>7 DEF Admins11
<1>9. ASSUME NEW o, o # "admins" PROVE Of(f[3], o) = Of(S, o)
  BY <1>2, <1>4, <1>6, <1>9, OfDrop, OfDropTable
<1> QED
  BY <1>8, <1>9 DEF f, u

LEMMA AddUserTierUp ==
  ASSUME NEW S, Of(S, "users") = Users9
  PROVE  /\ Of(Stages(S, AddUserTier.up)[2], "users") = Users12
         /\ \A o : o # "users" => Of(Stages(S, AddUserTier.up)[2], o) = Of(S, o)
<1> DEFINE u == AddUserTier.up
           f == Stages(S, u)
<1>1. Len(u) = 2
  BY DEF AddUserTier, Script
<1>2. /\ u[1] = AddColumn("users", "user_tier", "text", "free")
      /\ u[2] = Create("users", "ck_users_user_tier", "text")
  BY DEF AddUserTier, Script
<1> HIDE DEF u, f
<1>3. Len(u) \in Nat
  BY <1>1
<1>4. f[0] = S
  BY <1>3, StagesStep DEF f
<1>5. \A k \in 1..Len(u) : f[k] = Altered(f[k - 1], u[k])
  BY <1>3, StagesStep DEF f
<1>6. /\ f[1] = Altered(f[0], u[1])
      /\ f[2] = Altered(f[1], u[2])
  BY <1>1, <1>5
<1>7. /\ Of(f[0], "users") = Users9
      /\ Of(f[1], "users") = Of(f[0], "users") \cup {<< "users", "user_tier", "text" >>}
      /\ Of(f[2], "users") = Of(f[1], "users") \cup {<< "users", "ck_users_user_tier", "text" >>}
  BY <1>2, <1>4, <1>6, OfAddColumn, OfCreate
<1>8. Of(f[2], "users") = Users12
  BY <1>7 DEF Users9, Users12
<1>9. ASSUME NEW o, o # "users" PROVE Of(f[2], o) = Of(S, o)
  BY <1>2, <1>4, <1>6, <1>9, OfAddColumn, OfCreate
<1> QED
  BY <1>8, <1>9 DEF f, u

LEMMA AddUserTierDown ==
  ASSUME NEW S, Of(S, "users") = Users12
  PROVE  /\ Of(Stages(S, AddUserTier.down)[2], "users") = Users9
         /\ \A o : o # "users" => Of(Stages(S, AddUserTier.down)[2], o) = Of(S, o)
<1> DEFINE u == AddUserTier.down
           f == Stages(S, u)
<1>1. Len(u) = 2
  BY DEF AddUserTier, Script
<1>2. /\ u[1] = Drop("users", "ck_users_user_tier")
      /\ u[2] = Drop("users", "user_tier")
  BY DEF AddUserTier, Script
<1> HIDE DEF u, f
<1>3. Len(u) \in Nat
  BY <1>1
<1>4. f[0] = S
  BY <1>3, StagesStep DEF f
<1>5. \A k \in 1..Len(u) : f[k] = Altered(f[k - 1], u[k])
  BY <1>3, StagesStep DEF f
<1>6. /\ f[1] = Altered(f[0], u[1])
      /\ f[2] = Altered(f[1], u[2])
  BY <1>1, <1>5
<1>7. /\ Of(f[0], "users") = Users12
      /\ Of(f[1], "users") = {x \in Of(f[0], "users") : x[2] # "ck_users_user_tier"}
      /\ Of(f[2], "users") = {x \in Of(f[1], "users") : x[2] # "user_tier"}
  BY <1>2, <1>4, <1>6, OfDrop
<1>8. Of(f[2], "users") = Users9
  BY <1>7 DEF Users12, Users9
<1>9. ASSUME NEW o, o # "users" PROVE Of(f[2], o) = Of(S, o)
  BY <1>2, <1>4, <1>6, <1>9, OfDrop
<1> QED
  BY <1>8, <1>9 DEF f, u

LEMMA AddAdminIsProtectedUp ==
  ASSUME NEW S, Of(S, "admins") = Admins11
  PROVE  /\ Of(Stages(S, AddAdminIsProtected.up)[4], "admins") = Admins13
         /\ \A o : o # "admins" => Of(Stages(S, AddAdminIsProtected.up)[4], o) = Of(S, o)
<1> DEFINE u == AddAdminIsProtected.up
           f == Stages(S, u)
<1>1. Len(u) = 4
  BY DEF AddAdminIsProtected, Script
<1>2. /\ u[1].do = "create" /\ u[1].table = "admins" /\ u[1].name = "is_protected" /\ u[1].def = "plain"
      /\ u[2] = Write("protect-active-super_admins")
      /\ u[3] = Create("admins", "ck_admins_protected_is_super", "super_admin")
      /\ u[4] = Create("admins", "ck_admins_protected_is_active", "plain")
  BY DEF AddAdminIsProtected, Script, AddColumn, Stmt
<1> HIDE DEF u, f
<1>3. Len(u) \in Nat
  BY <1>1
<1>4. f[0] = S
  BY <1>3, StagesStep DEF f
<1>5. \A k \in 1..Len(u) : f[k] = Altered(f[k - 1], u[k])
  BY <1>3, StagesStep DEF f
<1>6. /\ f[1] = Altered(f[0], u[1])
      /\ f[2] = Altered(f[1], u[2])
      /\ f[3] = Altered(f[2], u[3])
      /\ f[4] = Altered(f[3], u[4])
  BY <1>1, <1>5
<1>7. /\ Of(f[0], "admins") = Admins11
      /\ Of(f[1], "admins") = Of(f[0], "admins") \cup {<< "admins", "is_protected", "plain" >>}
      /\ Of(f[2], "admins") = Of(f[1], "admins")
      /\ Of(f[3], "admins") = Of(f[2], "admins") \cup {<< "admins", "ck_admins_protected_is_super", "super_admin" >>}
      /\ Of(f[4], "admins") = Of(f[3], "admins") \cup {<< "admins", "ck_admins_protected_is_active", "plain" >>}
  BY <1>2, <1>4, <1>6, OfCreate, OfCreated, OfWrite
<1>8. Of(f[4], "admins") = Admins13
  BY <1>7 DEF Admins11, Admins13
<1>9. ASSUME NEW o, o # "admins" PROVE Of(f[4], o) = Of(S, o)
  BY <1>2, <1>4, <1>6, <1>9, OfCreate, OfCreated, OfWrite
<1> QED
  BY <1>8, <1>9 DEF f, u

LEMMA AddAdminIsProtectedDown ==
  ASSUME NEW S, Of(S, "admins") = Admins13
  PROVE  /\ Of(Stages(S, AddAdminIsProtected.down)[3], "admins") = Admins11
         /\ \A o : o # "admins" => Of(Stages(S, AddAdminIsProtected.down)[3], o) = Of(S, o)
<1> DEFINE u == AddAdminIsProtected.down
           f == Stages(S, u)
<1>1. Len(u) = 3
  BY DEF AddAdminIsProtected, Script
<1>2. /\ u[1] = Drop("admins", "ck_admins_protected_is_active")
      /\ u[2] = Drop("admins", "ck_admins_protected_is_super")
      /\ u[3] = Drop("admins", "is_protected")
  BY DEF AddAdminIsProtected, Script
<1> HIDE DEF u, f
<1>3. Len(u) \in Nat
  BY <1>1
<1>4. f[0] = S
  BY <1>3, StagesStep DEF f
<1>5. \A k \in 1..Len(u) : f[k] = Altered(f[k - 1], u[k])
  BY <1>3, StagesStep DEF f
<1>6. /\ f[1] = Altered(f[0], u[1])
      /\ f[2] = Altered(f[1], u[2])
      /\ f[3] = Altered(f[2], u[3])
  BY <1>1, <1>5
<1>7. /\ Of(f[0], "admins") = Admins13
      /\ Of(f[1], "admins") = {x \in Of(f[0], "admins") : x[2] # "ck_admins_protected_is_active"}
      /\ Of(f[2], "admins") = {x \in Of(f[1], "admins") : x[2] # "ck_admins_protected_is_super"}
      /\ Of(f[3], "admins") = {x \in Of(f[2], "admins") : x[2] # "is_protected"}
  BY <1>2, <1>4, <1>6, OfDrop
<1>8. Of(f[3], "admins") = Admins11
  BY <1>7 DEF Admins13, Admins11
<1>9. ASSUME NEW o, o # "admins" PROVE Of(f[3], o) = Of(S, o)
  BY <1>2, <1>4, <1>6, <1>9, OfDrop
<1> QED
  BY <1>8, <1>9 DEF f, u

LEMMA AdminRoleUserTierToIntUp ==
  ASSUME NEW S, Of(S, "admins") = Admins13, Of(S, "users") = Users12
  PROVE  /\ Of(Stages(S, AdminRoleUserTierToInt.up)[10], "admins") = Admins14
         /\ Of(Stages(S, AdminRoleUserTierToInt.up)[10], "users") = Users14
         /\ \A o : o \notin {"admins", "users"} => Of(Stages(S, AdminRoleUserTierToInt.up)[10], o) = Of(S, o)
<1> DEFINE u == AdminRoleUserTierToInt.up
           f == Stages(S, u)
<1>1. Len(u) = 10
  BY DEF AdminRoleUserTierToInt, Script
<1>2. /\ u[1] = Drop("admins", "ck_admins_admin_role")
      /\ u[2] = Drop("admins", "ck_admins_protected_is_super")
      /\ u[3] = Drop("users", "ck_users_user_tier")
      /\ u[4] = Write("admin_role-to-number")
      /\ u[5] = Write("user_tier-to-number")
      /\ u[6] = Modify("admins", "admin_role", "int")
      /\ u[7] = Modify("users", "user_tier", "int")
      /\ u[8] = Create("admins", "ck_admins_admin_role", "int")
      /\ u[9] = Create("admins", "ck_admins_protected_is_super", "100")
      /\ u[10] = Create("users", "ck_users_user_tier", "int")
  BY DEF AdminRoleUserTierToInt, Script
<1> HIDE DEF u, f
<1>3. Len(u) \in Nat
  BY <1>1
<1>4. f[0] = S
  BY <1>3, StagesStep DEF f
<1>5. \A k \in 1..Len(u) : f[k] = Altered(f[k - 1], u[k])
  BY <1>3, StagesStep DEF f
<1>6. /\ f[1] = Altered(f[0], u[1])
      /\ f[2] = Altered(f[1], u[2])
      /\ f[3] = Altered(f[2], u[3])
      /\ f[4] = Altered(f[3], u[4])
      /\ f[5] = Altered(f[4], u[5])
      /\ f[6] = Altered(f[5], u[6])
      /\ f[7] = Altered(f[6], u[7])
      /\ f[8] = Altered(f[7], u[8])
      /\ f[9] = Altered(f[8], u[9])
      /\ f[10] = Altered(f[9], u[10])
  BY <1>1, <1>5
<1>7. /\ Of(f[0], "admins") = Admins13
      /\ Of(f[1], "admins") = {x \in Of(f[0], "admins") : x[2] # "ck_admins_admin_role"}
      /\ Of(f[2], "admins") = {x \in Of(f[1], "admins") : x[2] # "ck_admins_protected_is_super"}
      /\ Of(f[3], "admins") = Of(f[2], "admins")
      /\ Of(f[4], "admins") = Of(f[3], "admins")
      /\ Of(f[5], "admins") = Of(f[4], "admins")
      /\ Of(f[6], "admins") = {x \in Of(f[5], "admins") : x[2] # "admin_role"} \cup {<< "admins", "admin_role", "int" >>}
      /\ Of(f[7], "admins") = Of(f[6], "admins")
      /\ Of(f[8], "admins") = Of(f[7], "admins") \cup {<< "admins", "ck_admins_admin_role", "int" >>}
      /\ Of(f[9], "admins") = Of(f[8], "admins") \cup {<< "admins", "ck_admins_protected_is_super", "100" >>}
      /\ Of(f[10], "admins") = Of(f[9], "admins")
  BY <1>2, <1>4, <1>6, OfCreate, OfDrop, OfModify, OfWrite
<1>8. Of(f[10], "admins") = Admins14
  BY <1>7 DEF Admins13, Admins14
<1>9. /\ Of(f[0], "users") = Users12
      /\ Of(f[1], "users") = Of(f[0], "users")
      /\ Of(f[2], "users") = Of(f[1], "users")
      /\ Of(f[3], "users") = {x \in Of(f[2], "users") : x[2] # "ck_users_user_tier"}
      /\ Of(f[4], "users") = Of(f[3], "users")
      /\ Of(f[5], "users") = Of(f[4], "users")
      /\ Of(f[6], "users") = Of(f[5], "users")
      /\ Of(f[7], "users") = {x \in Of(f[6], "users") : x[2] # "user_tier"} \cup {<< "users", "user_tier", "int" >>}
      /\ Of(f[8], "users") = Of(f[7], "users")
      /\ Of(f[9], "users") = Of(f[8], "users")
      /\ Of(f[10], "users") = Of(f[9], "users") \cup {<< "users", "ck_users_user_tier", "int" >>}
  BY <1>2, <1>4, <1>6, OfCreate, OfDrop, OfModify, OfWrite
<1>10. Of(f[10], "users") = Users14
  BY <1>9 DEF Users12, Users14
<1>11. ASSUME NEW o, o \notin {"admins", "users"} PROVE Of(f[10], o) = Of(S, o)
  BY <1>2, <1>4, <1>6, <1>11, OfCreate, OfDrop, OfModify, OfWrite
<1> QED
  BY <1>8, <1>10, <1>11 DEF f, u

LEMMA AdminRoleUserTierToIntDown ==
  ASSUME NEW S, Of(S, "admins") = Admins14, Of(S, "users") = Users14
  PROVE  /\ Of(Stages(S, AdminRoleUserTierToInt.down)[10], "admins") = Admins13
         /\ Of(Stages(S, AdminRoleUserTierToInt.down)[10], "users") = Users12
         /\ \A o : o \notin {"admins", "users"} => Of(Stages(S, AdminRoleUserTierToInt.down)[10], o) = Of(S, o)
<1> DEFINE u == AdminRoleUserTierToInt.down
           f == Stages(S, u)
<1>1. Len(u) = 10
  BY DEF AdminRoleUserTierToInt, Script
<1>2. /\ u[1] = Drop("admins", "ck_admins_admin_role")
      /\ u[2] = Drop("admins", "ck_admins_protected_is_super")
      /\ u[3] = Drop("users", "ck_users_user_tier")
      /\ u[4] = Modify("admins", "admin_role", "text")
      /\ u[5] = Modify("users", "user_tier", "text")
      /\ u[6] = Write("admin_role-to-word")
      /\ u[7] = Write("user_tier-to-word")
      /\ u[8] = Create("admins", "ck_admins_admin_role", "text")
      /\ u[9] = Create("admins", "ck_admins_protected_is_super", "super_admin")
      /\ u[10] = Create("users", "ck_users_user_tier", "text")
  BY DEF AdminRoleUserTierToInt, Script
<1> HIDE DEF u, f
<1>3. Len(u) \in Nat
  BY <1>1
<1>4. f[0] = S
  BY <1>3, StagesStep DEF f
<1>5. \A k \in 1..Len(u) : f[k] = Altered(f[k - 1], u[k])
  BY <1>3, StagesStep DEF f
<1>6. /\ f[1] = Altered(f[0], u[1])
      /\ f[2] = Altered(f[1], u[2])
      /\ f[3] = Altered(f[2], u[3])
      /\ f[4] = Altered(f[3], u[4])
      /\ f[5] = Altered(f[4], u[5])
      /\ f[6] = Altered(f[5], u[6])
      /\ f[7] = Altered(f[6], u[7])
      /\ f[8] = Altered(f[7], u[8])
      /\ f[9] = Altered(f[8], u[9])
      /\ f[10] = Altered(f[9], u[10])
  BY <1>1, <1>5
<1>7. /\ Of(f[0], "admins") = Admins14
      /\ Of(f[1], "admins") = {x \in Of(f[0], "admins") : x[2] # "ck_admins_admin_role"}
      /\ Of(f[2], "admins") = {x \in Of(f[1], "admins") : x[2] # "ck_admins_protected_is_super"}
      /\ Of(f[3], "admins") = Of(f[2], "admins")
      /\ Of(f[4], "admins") = {x \in Of(f[3], "admins") : x[2] # "admin_role"} \cup {<< "admins", "admin_role", "text" >>}
      /\ Of(f[5], "admins") = Of(f[4], "admins")
      /\ Of(f[6], "admins") = Of(f[5], "admins")
      /\ Of(f[7], "admins") = Of(f[6], "admins")
      /\ Of(f[8], "admins") = Of(f[7], "admins") \cup {<< "admins", "ck_admins_admin_role", "text" >>}
      /\ Of(f[9], "admins") = Of(f[8], "admins") \cup {<< "admins", "ck_admins_protected_is_super", "super_admin" >>}
      /\ Of(f[10], "admins") = Of(f[9], "admins")
  BY <1>2, <1>4, <1>6, OfCreate, OfDrop, OfModify, OfWrite
<1>8. Of(f[10], "admins") = Admins13
  BY <1>7 DEF Admins14, Admins13
<1>9. /\ Of(f[0], "users") = Users14
      /\ Of(f[1], "users") = Of(f[0], "users")
      /\ Of(f[2], "users") = Of(f[1], "users")
      /\ Of(f[3], "users") = {x \in Of(f[2], "users") : x[2] # "ck_users_user_tier"}
      /\ Of(f[4], "users") = Of(f[3], "users")
      /\ Of(f[5], "users") = {x \in Of(f[4], "users") : x[2] # "user_tier"} \cup {<< "users", "user_tier", "text" >>}
      /\ Of(f[6], "users") = Of(f[5], "users")
      /\ Of(f[7], "users") = Of(f[6], "users")
      /\ Of(f[8], "users") = Of(f[7], "users")
      /\ Of(f[9], "users") = Of(f[8], "users")
      /\ Of(f[10], "users") = Of(f[9], "users") \cup {<< "users", "ck_users_user_tier", "text" >>}
  BY <1>2, <1>4, <1>6, OfCreate, OfDrop, OfModify, OfWrite
<1>10. Of(f[10], "users") = Users12
  BY <1>9 DEF Users14, Users12
<1>11. ASSUME NEW o, o \notin {"admins", "users"} PROVE Of(f[10], o) = Of(S, o)
  BY <1>2, <1>4, <1>6, <1>11, OfCreate, OfDrop, OfModify, OfWrite
<1> QED
  BY <1>8, <1>10, <1>11 DEF f, u

LEMMA ProtectedRootToRootGradeUp ==
  ASSUME NEW S, Of(S, "admins") = Admins14
  PROVE  /\ Of(Stages(S, ProtectedRootToRootGrade.up)[2], "admins") = Admins15
         /\ \A o : o # "admins" => Of(Stages(S, ProtectedRootToRootGrade.up)[2], o) = Of(S, o)
<1> DEFINE u == ProtectedRootToRootGrade.up
           f == Stages(S, u)
<1>1. Len(u) = 2
  BY DEF ProtectedRootToRootGrade, Script
<1>2. /\ u[1] = Drop("admins", "ck_admins_protected_is_super")
      /\ u[2] = Create("admins", "ck_admins_protected_is_super", "999")
  BY DEF ProtectedRootToRootGrade, Script
<1> HIDE DEF u, f
<1>3. Len(u) \in Nat
  BY <1>1
<1>4. f[0] = S
  BY <1>3, StagesStep DEF f
<1>5. \A k \in 1..Len(u) : f[k] = Altered(f[k - 1], u[k])
  BY <1>3, StagesStep DEF f
<1>6. /\ f[1] = Altered(f[0], u[1])
      /\ f[2] = Altered(f[1], u[2])
  BY <1>1, <1>5
<1>7. /\ Of(f[0], "admins") = Admins14
      /\ Of(f[1], "admins") = {x \in Of(f[0], "admins") : x[2] # "ck_admins_protected_is_super"}
      /\ Of(f[2], "admins") = Of(f[1], "admins") \cup {<< "admins", "ck_admins_protected_is_super", "999" >>}
  BY <1>2, <1>4, <1>6, OfCreate, OfDrop
<1>8. Of(f[2], "admins") = Admins15
  BY <1>7 DEF Admins14, Admins15
<1>9. ASSUME NEW o, o # "admins" PROVE Of(f[2], o) = Of(S, o)
  BY <1>2, <1>4, <1>6, <1>9, OfCreate, OfDrop
<1> QED
  BY <1>8, <1>9 DEF f, u

LEMMA ProtectedRootToRootGradeDown ==
  ASSUME NEW S, Of(S, "admins") = Admins15
  PROVE  /\ Of(Stages(S, ProtectedRootToRootGrade.down)[2], "admins") = Admins14
         /\ \A o : o # "admins" => Of(Stages(S, ProtectedRootToRootGrade.down)[2], o) = Of(S, o)
<1> DEFINE u == ProtectedRootToRootGrade.down
           f == Stages(S, u)
<1>1. Len(u) = 2
  BY DEF ProtectedRootToRootGrade, Script
<1>2. /\ u[1] = Drop("admins", "ck_admins_protected_is_super")
      /\ u[2] = Create("admins", "ck_admins_protected_is_super", "100")
  BY DEF ProtectedRootToRootGrade, Script
<1> HIDE DEF u, f
<1>3. Len(u) \in Nat
  BY <1>1
<1>4. f[0] = S
  BY <1>3, StagesStep DEF f
<1>5. \A k \in 1..Len(u) : f[k] = Altered(f[k - 1], u[k])
  BY <1>3, StagesStep DEF f
<1>6. /\ f[1] = Altered(f[0], u[1])
      /\ f[2] = Altered(f[1], u[2])
  BY <1>1, <1>5
<1>7. /\ Of(f[0], "admins") = Admins15
      /\ Of(f[1], "admins") = {x \in Of(f[0], "admins") : x[2] # "ck_admins_protected_is_super"}
      /\ Of(f[2], "admins") = Of(f[1], "admins") \cup {<< "admins", "ck_admins_protected_is_super", "100" >>}
  BY <1>2, <1>4, <1>6, OfCreate, OfDrop
<1>8. Of(f[2], "admins") = Admins14
  BY <1>7 DEF Admins15, Admins14
<1>9. ASSUME NEW o, o # "admins" PROVE Of(f[2], o) = Of(S, o)
  BY <1>2, <1>4, <1>6, <1>9, OfCreate, OfDrop
<1> QED
  BY <1>8, <1>9 DEF f, u

LEMMA CreateRecordsUp ==
  ASSUME NEW S, Of(S, "record_categories") = {}, Of(S, "records") = {}
  PROVE  /\ Of(Stages(S, CreateRecords.up)[6], "record_categories") = Categories16
         /\ Of(Stages(S, CreateRecords.up)[6], "records") = Records16
         /\ \A o : o \notin {"record_categories", "records"} => Of(Stages(S, CreateRecords.up)[6], o) = Of(S, o)
<1> DEFINE u == CreateRecords.up
           f == Stages(S, u)
<1>1. Len(u) = 6
  BY DEF CreateRecords, Script
<1>2. /\ u[1] = CreateTable("record_categories", {})
      /\ u[2] = Create("record_categories", "ix_record_categories_name", "plain")
      /\ u[3] = Write("seed-categories")
      /\ u[4] = CreateTable("records", {})
      /\ u[5] = Create("records", "ix_records_category_id", "plain")
      /\ u[6] = Create("records", "ix_records_deleted_at", "plain")
  BY DEF CreateRecords, Script
<1> HIDE DEF u, f
<1>3. Len(u) \in Nat
  BY <1>1
<1>4. f[0] = S
  BY <1>3, StagesStep DEF f
<1>5. \A k \in 1..Len(u) : f[k] = Altered(f[k - 1], u[k])
  BY <1>3, StagesStep DEF f
<1>6. /\ f[1] = Altered(f[0], u[1])
      /\ f[2] = Altered(f[1], u[2])
      /\ f[3] = Altered(f[2], u[3])
      /\ f[4] = Altered(f[3], u[4])
      /\ f[5] = Altered(f[4], u[5])
      /\ f[6] = Altered(f[5], u[6])
  BY <1>1, <1>5
<1>7. /\ Of(f[0], "record_categories") = {}
      /\ Of(f[1], "record_categories") = Of(f[0], "record_categories") \cup {<< "record_categories", "table", "plain" >>}
      /\ Of(f[2], "record_categories") = Of(f[1], "record_categories") \cup {<< "record_categories", "ix_record_categories_name", "plain" >>}
      /\ Of(f[3], "record_categories") = Of(f[2], "record_categories")
      /\ Of(f[4], "record_categories") = Of(f[3], "record_categories")
      /\ Of(f[5], "record_categories") = Of(f[4], "record_categories")
      /\ Of(f[6], "record_categories") = Of(f[5], "record_categories")
  BY <1>2, <1>4, <1>6, OfCreate, OfCreateTable, OfWrite
<1>8. Of(f[6], "record_categories") = Categories16
  BY <1>7 DEF Categories16
<1>9. /\ Of(f[0], "records") = {}
      /\ Of(f[1], "records") = Of(f[0], "records")
      /\ Of(f[2], "records") = Of(f[1], "records")
      /\ Of(f[3], "records") = Of(f[2], "records")
      /\ Of(f[4], "records") = Of(f[3], "records") \cup {<< "records", "table", "plain" >>}
      /\ Of(f[5], "records") = Of(f[4], "records") \cup {<< "records", "ix_records_category_id", "plain" >>}
      /\ Of(f[6], "records") = Of(f[5], "records") \cup {<< "records", "ix_records_deleted_at", "plain" >>}
  BY <1>2, <1>4, <1>6, OfCreate, OfCreateTable, OfWrite
<1>10. Of(f[6], "records") = Records16
  BY <1>9 DEF Records16
<1>11. ASSUME NEW o, o \notin {"record_categories", "records"} PROVE Of(f[6], o) = Of(S, o)
  BY <1>2, <1>4, <1>6, <1>11, OfCreate, OfCreateTable, OfWrite
<1> QED
  BY <1>8, <1>10, <1>11 DEF f, u

LEMMA CreateRecordsDown ==
  ASSUME NEW S, Of(S, "records") = Records16, Of(S, "record_categories") = Categories16
  PROVE  /\ Of(Stages(S, CreateRecords.down)[2], "records") = {}
         /\ Of(Stages(S, CreateRecords.down)[2], "record_categories") = {}
         /\ \A o : o \notin {"records", "record_categories"} => Of(Stages(S, CreateRecords.down)[2], o) = Of(S, o)
<1> DEFINE u == CreateRecords.down
           f == Stages(S, u)
<1>1. Len(u) = 2
  BY DEF CreateRecords, Script
<1>2. /\ u[1] = DropTable("records")
      /\ u[2] = DropTable("record_categories")
  BY DEF CreateRecords, Script
<1> HIDE DEF u, f
<1>3. Len(u) \in Nat
  BY <1>1
<1>4. f[0] = S
  BY <1>3, StagesStep DEF f
<1>5. \A k \in 1..Len(u) : f[k] = Altered(f[k - 1], u[k])
  BY <1>3, StagesStep DEF f
<1>6. /\ f[1] = Altered(f[0], u[1])
      /\ f[2] = Altered(f[1], u[2])
  BY <1>1, <1>5
<1>7. /\ Of(f[0], "records") = Records16
      /\ Of(f[1], "records") = {}
      /\ Of(f[2], "records") = Of(f[1], "records")
  BY <1>2, <1>4, <1>6, OfDropTable
<1>8. Of(f[2], "records") = {}
  BY <1>7 DEF Records16
<1>9. /\ Of(f[0], "record_categories") = Categories16
      /\ Of(f[1], "record_categories") = Of(f[0], "record_categories")
      /\ Of(f[2], "record_categories") = {}
  BY <1>2, <1>4, <1>6, OfDropTable
<1>10. Of(f[2], "record_categories") = {}
  BY <1>9 DEF Categories16
<1>11. ASSUME NEW o, o \notin {"records", "record_categories"} PROVE Of(f[2], o) = Of(S, o)
  BY <1>2, <1>4, <1>6, <1>11, OfDropTable
<1> QED
  BY <1>8, <1>10, <1>11 DEF f, u

LEMMA AddIxRecordsCreatedAtUp ==
  ASSUME NEW S, Of(S, "records") = Records16
  PROVE  /\ Of(Stages(S, AddIxRecordsCreatedAt.up)[1], "records") = Records17
         /\ \A o : o # "records" => Of(Stages(S, AddIxRecordsCreatedAt.up)[1], o) = Of(S, o)
<1> DEFINE u == AddIxRecordsCreatedAt.up
           f == Stages(S, u)
<1>1. Len(u) = 1
  BY DEF AddIxRecordsCreatedAt, Script
<1>2. u[1] = Create("records", "ix_records_created_at", "plain")
  BY DEF AddIxRecordsCreatedAt, Script
<1> HIDE DEF u, f
<1>3. Len(u) \in Nat
  BY <1>1
<1>4. f[0] = S
  BY <1>3, StagesStep DEF f
<1>5. \A k \in 1..Len(u) : f[k] = Altered(f[k - 1], u[k])
  BY <1>3, StagesStep DEF f
<1>6. f[1] = Altered(f[0], u[1])
  BY <1>1, <1>5
<1>7. /\ Of(f[0], "records") = Records16
      /\ Of(f[1], "records") = Of(f[0], "records") \cup {<< "records", "ix_records_created_at", "plain" >>}
  BY <1>2, <1>4, <1>6, OfCreate
<1>8. Of(f[1], "records") = Records17
  BY <1>7 DEF Records16, Records17
<1>9. ASSUME NEW o, o # "records" PROVE Of(f[1], o) = Of(S, o)
  BY <1>2, <1>4, <1>6, <1>9, OfCreate
<1> QED
  BY <1>8, <1>9 DEF f, u

LEMMA AddIxRecordsCreatedAtDown ==
  ASSUME NEW S, Of(S, "records") = Records17
  PROVE  /\ Of(Stages(S, AddIxRecordsCreatedAt.down)[1], "records") = Records16
         /\ \A o : o # "records" => Of(Stages(S, AddIxRecordsCreatedAt.down)[1], o) = Of(S, o)
<1> DEFINE u == AddIxRecordsCreatedAt.down
           f == Stages(S, u)
<1>1. Len(u) = 1
  BY DEF AddIxRecordsCreatedAt, Script
<1>2. u[1] = Drop("records", "ix_records_created_at")
  BY DEF AddIxRecordsCreatedAt, Script
<1> HIDE DEF u, f
<1>3. Len(u) \in Nat
  BY <1>1
<1>4. f[0] = S
  BY <1>3, StagesStep DEF f
<1>5. \A k \in 1..Len(u) : f[k] = Altered(f[k - 1], u[k])
  BY <1>3, StagesStep DEF f
<1>6. f[1] = Altered(f[0], u[1])
  BY <1>1, <1>5
<1>7. /\ Of(f[0], "records") = Records17
      /\ Of(f[1], "records") = {x \in Of(f[0], "records") : x[2] # "ix_records_created_at"}
  BY <1>2, <1>4, <1>6, OfDrop
<1>8. Of(f[1], "records") = Records16
  BY <1>7 DEF Records17, Records16
<1>9. ASSUME NEW o, o # "records" PROVE Of(f[1], o) = Of(S, o)
  BY <1>2, <1>4, <1>6, <1>9, OfDrop
<1> QED
  BY <1>8, <1>9 DEF f, u

LEMMA AddRealtimeReadingsUp ==
  ASSUME NEW S, Of(S, "realtime_readings") = {}
  PROVE  /\ Of(Stages(S, AddRealtimeReadings.up)[2], "realtime_readings") = Readings18
         /\ \A o : o # "realtime_readings" => Of(Stages(S, AddRealtimeReadings.up)[2], o) = Of(S, o)
<1> DEFINE u == AddRealtimeReadings.up
           f == Stages(S, u)
<1>1. Len(u) = 2
  BY DEF AddRealtimeReadings, Script
<1>2. /\ u[1] = CreateTable("realtime_readings", {})
      /\ u[2] = Create("realtime_readings", "ix_realtime_readings_ts", "plain")
  BY DEF AddRealtimeReadings, Script
<1> HIDE DEF u, f
<1>3. Len(u) \in Nat
  BY <1>1
<1>4. f[0] = S
  BY <1>3, StagesStep DEF f
<1>5. \A k \in 1..Len(u) : f[k] = Altered(f[k - 1], u[k])
  BY <1>3, StagesStep DEF f
<1>6. /\ f[1] = Altered(f[0], u[1])
      /\ f[2] = Altered(f[1], u[2])
  BY <1>1, <1>5
<1>7. /\ Of(f[0], "realtime_readings") = {}
      /\ Of(f[1], "realtime_readings") = Of(f[0], "realtime_readings") \cup {<< "realtime_readings", "table", "plain" >>}
      /\ Of(f[2], "realtime_readings") = Of(f[1], "realtime_readings") \cup {<< "realtime_readings", "ix_realtime_readings_ts", "plain" >>}
  BY <1>2, <1>4, <1>6, OfCreate, OfCreateTable
<1>8. Of(f[2], "realtime_readings") = Readings18
  BY <1>7 DEF Readings18
<1>9. ASSUME NEW o, o # "realtime_readings" PROVE Of(f[2], o) = Of(S, o)
  BY <1>2, <1>4, <1>6, <1>9, OfCreate, OfCreateTable
<1> QED
  BY <1>8, <1>9 DEF f, u

LEMMA AddRealtimeReadingsDown ==
  ASSUME NEW S, Of(S, "realtime_readings") = Readings18
  PROVE  /\ Of(Stages(S, AddRealtimeReadings.down)[1], "realtime_readings") = {}
         /\ \A o : o # "realtime_readings" => Of(Stages(S, AddRealtimeReadings.down)[1], o) = Of(S, o)
<1> DEFINE u == AddRealtimeReadings.down
           f == Stages(S, u)
<1>1. Len(u) = 1
  BY DEF AddRealtimeReadings, Script
<1>2. u[1] = DropTable("realtime_readings")
  BY DEF AddRealtimeReadings, Script
<1> HIDE DEF u, f
<1>3. Len(u) \in Nat
  BY <1>1
<1>4. f[0] = S
  BY <1>3, StagesStep DEF f
<1>5. \A k \in 1..Len(u) : f[k] = Altered(f[k - 1], u[k])
  BY <1>3, StagesStep DEF f
<1>6. f[1] = Altered(f[0], u[1])
  BY <1>1, <1>5
<1>7. /\ Of(f[0], "realtime_readings") = Readings18
      /\ Of(f[1], "realtime_readings") = {}
  BY <1>2, <1>4, <1>6, OfDropTable
<1>8. Of(f[1], "realtime_readings") = {}
  BY <1>7 DEF Readings18
<1>9. ASSUME NEW o, o # "realtime_readings" PROVE Of(f[1], o) = Of(S, o)
  BY <1>2, <1>4, <1>6, <1>9, OfDropTable
<1> QED
  BY <1>8, <1>9 DEF f, u

-----------------------------------------------------------------------------
(* The chain *)

\* The scripts that write rows alone.
LEMMA NoSchemaChange ==
  ASSUME NEW S
  PROVE  /\ Stages(S, Initial.up)[0] = S /\ Stages(S, Initial.down)[0] = S
         /\ Stages(S, Seed10Admins.up)[1] = S /\ Stages(S, Seed10Admins.down)[1] = S
         /\ Stages(S, Seed300Records.up)[1] = S /\ Stages(S, Seed300Records.down)[1] = S
<1>1. Stages(S, Initial.up)[0] = S
  <2>1. Len(Initial.up) = 0
    BY DEF Initial, Script
  <2> QED
    BY <2>1, StagesStep
<1>2. Stages(S, Initial.down)[0] = S
  <2>1. Len(Initial.down) = 0
    BY DEF Initial, Script
  <2> QED
    BY <2>1, StagesStep
<1>3. Stages(S, Seed10Admins.up)[1] = S
  <2> DEFINE u == Seed10Admins.up
  <2>1. Len(u) = 1 /\ u[1] = Write("seed-admins")
    BY DEF Seed10Admins, Script
  <2> HIDE DEF u
  <2>2. Len(u) \in Nat /\ 1 \in 1..Len(u) /\ 1 - 1 = 0
    BY <2>1
  <2>3. Stages(S, u)[0] = S /\ Stages(S, u)[1] = Altered(Stages(S, u)[0], u[1])
    BY <2>2, StagesStep
  <2>4. Altered(S, u[1]) = S
    BY <2>1 DEF Altered, Write, Stmt
  <2> QED
    BY <2>3, <2>4 DEF u
<1>4. Stages(S, Seed10Admins.down)[1] = S
  <2> DEFINE u == Seed10Admins.down
  <2>1. Len(u) = 1 /\ u[1] = Write("delete-seed-admins")
    BY DEF Seed10Admins, Script
  <2> HIDE DEF u
  <2>2. Len(u) \in Nat /\ 1 \in 1..Len(u) /\ 1 - 1 = 0
    BY <2>1
  <2>3. Stages(S, u)[0] = S /\ Stages(S, u)[1] = Altered(Stages(S, u)[0], u[1])
    BY <2>2, StagesStep
  <2>4. Altered(S, u[1]) = S
    BY <2>1 DEF Altered, Write, Stmt
  <2> QED
    BY <2>3, <2>4 DEF u
<1>5. Stages(S, Seed300Records.up)[1] = S
  <2> DEFINE u == Seed300Records.up
  <2>1. Len(u) = 1 /\ u[1] = Write("seed-records")
    BY DEF Seed300Records, Script
  <2> HIDE DEF u
  <2>2. Len(u) \in Nat /\ 1 \in 1..Len(u) /\ 1 - 1 = 0
    BY <2>1
  <2>3. Stages(S, u)[0] = S /\ Stages(S, u)[1] = Altered(Stages(S, u)[0], u[1])
    BY <2>2, StagesStep
  <2>4. Altered(S, u[1]) = S
    BY <2>1 DEF Altered, Write, Stmt
  <2> QED
    BY <2>3, <2>4 DEF u
<1>6. Stages(S, Seed300Records.down)[1] = S
  <2> DEFINE u == Seed300Records.down
  <2>1. Len(u) = 1 /\ u[1] = Write("delete-records")
    BY DEF Seed300Records, Script
  <2> HIDE DEF u
  <2>2. Len(u) \in Nat /\ 1 \in 1..Len(u) /\ 1 - 1 = 0
    BY <2>1
  <2>3. Stages(S, u)[0] = S /\ Stages(S, u)[1] = Altered(Stages(S, u)[0], u[1])
    BY <2>2, StagesStep
  <2>4. Altered(S, u[1]) = S
    BY <2>1 DEF Altered, Write, Stmt
  <2> QED
    BY <2>3, <2>4 DEF u
<1> QED
  BY <1>1, <1>2, <1>3, <1>4, <1>5, <1>6

LEMMA ChainIs ==
  /\ Chain[1] = Initial
  /\ Chain[2] = AddUserTable
  /\ Chain[3] = RenameDeletedToIsActive
  /\ Chain[4] = EncryptUserEmailColumn
  /\ Chain[5] = ResizeUserEmailColumn
  /\ Chain[6] = AddUserPasswordHash
  /\ Chain[7] = ExtractIdentityFromUser
  /\ Chain[8] = AddRefreshTokensTable
  /\ Chain[9] = AddPrincipals
  /\ Chain[10] = RefreshTokensOwner
  /\ Chain[11] = AddAdminsTable
  /\ Chain[12] = AddUserTier
  /\ Chain[13] = AddAdminIsProtected
  /\ Chain[14] = AdminRoleUserTierToInt
  /\ Chain[15] = ProtectedRootToRootGrade
  /\ Chain[16] = CreateRecords
  /\ Chain[17] = AddIxRecordsCreatedAt
  /\ Chain[18] = AddRealtimeReadings
  /\ Chain[19] = Seed10Admins
  /\ Chain[20] = Seed300Records
BY DEF Chain

LEMMA SchemaUp ==
  /\ Schema(1) = Stages(Schema(0), Initial.up)[0]
  /\ Schema(2) = Stages(Schema(1), AddUserTable.up)[2]
  /\ Schema(3) = Stages(Schema(2), RenameDeletedToIsActive.up)[3]
  /\ Schema(4) = Stages(Schema(3), EncryptUserEmailColumn.up)[1]
  /\ Schema(5) = Stages(Schema(4), ResizeUserEmailColumn.up)[1]
  /\ Schema(6) = Stages(Schema(5), AddUserPasswordHash.up)[1]
  /\ Schema(7) = Stages(Schema(6), ExtractIdentityFromUser.up)[6]
  /\ Schema(8) = Stages(Schema(7), AddRefreshTokensTable.up)[4]
  /\ Schema(9) = Stages(Schema(8), AddPrincipals.up)[9]
  /\ Schema(10) = Stages(Schema(9), RefreshTokensOwner.up)[8]
  /\ Schema(11) = Stages(Schema(10), AddAdminsTable.up)[3]
  /\ Schema(12) = Stages(Schema(11), AddUserTier.up)[2]
  /\ Schema(13) = Stages(Schema(12), AddAdminIsProtected.up)[4]
  /\ Schema(14) = Stages(Schema(13), AdminRoleUserTierToInt.up)[10]
  /\ Schema(15) = Stages(Schema(14), ProtectedRootToRootGrade.up)[2]
  /\ Schema(16) = Stages(Schema(15), CreateRecords.up)[6]
  /\ Schema(17) = Stages(Schema(16), AddIxRecordsCreatedAt.up)[1]
  /\ Schema(18) = Stages(Schema(17), AddRealtimeReadings.up)[2]
  /\ Schema(19) = Stages(Schema(18), Seed10Admins.up)[1]
  /\ Schema(20) = Stages(Schema(19), Seed300Records.up)[1]
<1>1. Schema(1) = Stages(Schema(0), Initial.up)[0]
  <2>1. 1 \in 1..20 /\ 1 - 1 = 0
    OBVIOUS
  <2>2. Schema(1) = Stages(Schema(0), Chain[1].up)[Len(Chain[1].up)]
    BY <2>1, SchemasStep
  <2>3. Chain[1] = Initial
    BY ChainIs
  <2>4. Len(Initial.up) = 0
    BY DEF Initial, Script
  <2> QED
    BY <2>2, <2>3, <2>4
<1>2. Schema(2) = Stages(Schema(1), AddUserTable.up)[2]
  <2>1. 2 \in 1..20 /\ 2 - 1 = 1
    OBVIOUS
  <2>2. Schema(2) = Stages(Schema(1), Chain[2].up)[Len(Chain[2].up)]
    BY <2>1, SchemasStep
  <2>3. Chain[2] = AddUserTable
    BY ChainIs
  <2>4. Len(AddUserTable.up) = 2
    BY DEF AddUserTable, Script
  <2> QED
    BY <2>2, <2>3, <2>4
<1>3. Schema(3) = Stages(Schema(2), RenameDeletedToIsActive.up)[3]
  <2>1. 3 \in 1..20 /\ 3 - 1 = 2
    OBVIOUS
  <2>2. Schema(3) = Stages(Schema(2), Chain[3].up)[Len(Chain[3].up)]
    BY <2>1, SchemasStep
  <2>3. Chain[3] = RenameDeletedToIsActive
    BY ChainIs
  <2>4. Len(RenameDeletedToIsActive.up) = 3
    BY DEF RenameDeletedToIsActive, Script
  <2> QED
    BY <2>2, <2>3, <2>4
<1>4. Schema(4) = Stages(Schema(3), EncryptUserEmailColumn.up)[1]
  <2>1. 4 \in 1..20 /\ 4 - 1 = 3
    OBVIOUS
  <2>2. Schema(4) = Stages(Schema(3), Chain[4].up)[Len(Chain[4].up)]
    BY <2>1, SchemasStep
  <2>3. Chain[4] = EncryptUserEmailColumn
    BY ChainIs
  <2>4. Len(EncryptUserEmailColumn.up) = 1
    BY DEF EncryptUserEmailColumn, Script
  <2> QED
    BY <2>2, <2>3, <2>4
<1>5. Schema(5) = Stages(Schema(4), ResizeUserEmailColumn.up)[1]
  <2>1. 5 \in 1..20 /\ 5 - 1 = 4
    OBVIOUS
  <2>2. Schema(5) = Stages(Schema(4), Chain[5].up)[Len(Chain[5].up)]
    BY <2>1, SchemasStep
  <2>3. Chain[5] = ResizeUserEmailColumn
    BY ChainIs
  <2>4. Len(ResizeUserEmailColumn.up) = 1
    BY DEF ResizeUserEmailColumn, Script
  <2> QED
    BY <2>2, <2>3, <2>4
<1>6. Schema(6) = Stages(Schema(5), AddUserPasswordHash.up)[1]
  <2>1. 6 \in 1..20 /\ 6 - 1 = 5
    OBVIOUS
  <2>2. Schema(6) = Stages(Schema(5), Chain[6].up)[Len(Chain[6].up)]
    BY <2>1, SchemasStep
  <2>3. Chain[6] = AddUserPasswordHash
    BY ChainIs
  <2>4. Len(AddUserPasswordHash.up) = 1
    BY DEF AddUserPasswordHash, Script
  <2> QED
    BY <2>2, <2>3, <2>4
<1>7. Schema(7) = Stages(Schema(6), ExtractIdentityFromUser.up)[6]
  <2>1. 7 \in 1..20 /\ 7 - 1 = 6
    OBVIOUS
  <2>2. Schema(7) = Stages(Schema(6), Chain[7].up)[Len(Chain[7].up)]
    BY <2>1, SchemasStep
  <2>3. Chain[7] = ExtractIdentityFromUser
    BY ChainIs
  <2>4. Len(ExtractIdentityFromUser.up) = 6
    BY DEF ExtractIdentityFromUser, Script
  <2> QED
    BY <2>2, <2>3, <2>4
<1>8. Schema(8) = Stages(Schema(7), AddRefreshTokensTable.up)[4]
  <2>1. 8 \in 1..20 /\ 8 - 1 = 7
    OBVIOUS
  <2>2. Schema(8) = Stages(Schema(7), Chain[8].up)[Len(Chain[8].up)]
    BY <2>1, SchemasStep
  <2>3. Chain[8] = AddRefreshTokensTable
    BY ChainIs
  <2>4. Len(AddRefreshTokensTable.up) = 4
    BY DEF AddRefreshTokensTable, Script
  <2> QED
    BY <2>2, <2>3, <2>4
<1>9. Schema(9) = Stages(Schema(8), AddPrincipals.up)[9]
  <2>1. 9 \in 1..20 /\ 9 - 1 = 8
    OBVIOUS
  <2>2. Schema(9) = Stages(Schema(8), Chain[9].up)[Len(Chain[9].up)]
    BY <2>1, SchemasStep
  <2>3. Chain[9] = AddPrincipals
    BY ChainIs
  <2>4. Len(AddPrincipals.up) = 9
    BY DEF AddPrincipals, Script
  <2> QED
    BY <2>2, <2>3, <2>4
<1>10. Schema(10) = Stages(Schema(9), RefreshTokensOwner.up)[8]
  <2>1. 10 \in 1..20 /\ 10 - 1 = 9
    OBVIOUS
  <2>2. Schema(10) = Stages(Schema(9), Chain[10].up)[Len(Chain[10].up)]
    BY <2>1, SchemasStep
  <2>3. Chain[10] = RefreshTokensOwner
    BY ChainIs
  <2>4. Len(RefreshTokensOwner.up) = 8
    BY DEF RefreshTokensOwner, Script
  <2> QED
    BY <2>2, <2>3, <2>4
<1>11. Schema(11) = Stages(Schema(10), AddAdminsTable.up)[3]
  <2>1. 11 \in 1..20 /\ 11 - 1 = 10
    OBVIOUS
  <2>2. Schema(11) = Stages(Schema(10), Chain[11].up)[Len(Chain[11].up)]
    BY <2>1, SchemasStep
  <2>3. Chain[11] = AddAdminsTable
    BY ChainIs
  <2>4. Len(AddAdminsTable.up) = 3
    BY DEF AddAdminsTable, Script
  <2> QED
    BY <2>2, <2>3, <2>4
<1>12. Schema(12) = Stages(Schema(11), AddUserTier.up)[2]
  <2>1. 12 \in 1..20 /\ 12 - 1 = 11
    OBVIOUS
  <2>2. Schema(12) = Stages(Schema(11), Chain[12].up)[Len(Chain[12].up)]
    BY <2>1, SchemasStep
  <2>3. Chain[12] = AddUserTier
    BY ChainIs
  <2>4. Len(AddUserTier.up) = 2
    BY DEF AddUserTier, Script
  <2> QED
    BY <2>2, <2>3, <2>4
<1>13. Schema(13) = Stages(Schema(12), AddAdminIsProtected.up)[4]
  <2>1. 13 \in 1..20 /\ 13 - 1 = 12
    OBVIOUS
  <2>2. Schema(13) = Stages(Schema(12), Chain[13].up)[Len(Chain[13].up)]
    BY <2>1, SchemasStep
  <2>3. Chain[13] = AddAdminIsProtected
    BY ChainIs
  <2>4. Len(AddAdminIsProtected.up) = 4
    BY DEF AddAdminIsProtected, Script
  <2> QED
    BY <2>2, <2>3, <2>4
<1>14. Schema(14) = Stages(Schema(13), AdminRoleUserTierToInt.up)[10]
  <2>1. 14 \in 1..20 /\ 14 - 1 = 13
    OBVIOUS
  <2>2. Schema(14) = Stages(Schema(13), Chain[14].up)[Len(Chain[14].up)]
    BY <2>1, SchemasStep
  <2>3. Chain[14] = AdminRoleUserTierToInt
    BY ChainIs
  <2>4. Len(AdminRoleUserTierToInt.up) = 10
    BY DEF AdminRoleUserTierToInt, Script
  <2> QED
    BY <2>2, <2>3, <2>4
<1>15. Schema(15) = Stages(Schema(14), ProtectedRootToRootGrade.up)[2]
  <2>1. 15 \in 1..20 /\ 15 - 1 = 14
    OBVIOUS
  <2>2. Schema(15) = Stages(Schema(14), Chain[15].up)[Len(Chain[15].up)]
    BY <2>1, SchemasStep
  <2>3. Chain[15] = ProtectedRootToRootGrade
    BY ChainIs
  <2>4. Len(ProtectedRootToRootGrade.up) = 2
    BY DEF ProtectedRootToRootGrade, Script
  <2> QED
    BY <2>2, <2>3, <2>4
<1>16. Schema(16) = Stages(Schema(15), CreateRecords.up)[6]
  <2>1. 16 \in 1..20 /\ 16 - 1 = 15
    OBVIOUS
  <2>2. Schema(16) = Stages(Schema(15), Chain[16].up)[Len(Chain[16].up)]
    BY <2>1, SchemasStep
  <2>3. Chain[16] = CreateRecords
    BY ChainIs
  <2>4. Len(CreateRecords.up) = 6
    BY DEF CreateRecords, Script
  <2> QED
    BY <2>2, <2>3, <2>4
<1>17. Schema(17) = Stages(Schema(16), AddIxRecordsCreatedAt.up)[1]
  <2>1. 17 \in 1..20 /\ 17 - 1 = 16
    OBVIOUS
  <2>2. Schema(17) = Stages(Schema(16), Chain[17].up)[Len(Chain[17].up)]
    BY <2>1, SchemasStep
  <2>3. Chain[17] = AddIxRecordsCreatedAt
    BY ChainIs
  <2>4. Len(AddIxRecordsCreatedAt.up) = 1
    BY DEF AddIxRecordsCreatedAt, Script
  <2> QED
    BY <2>2, <2>3, <2>4
<1>18. Schema(18) = Stages(Schema(17), AddRealtimeReadings.up)[2]
  <2>1. 18 \in 1..20 /\ 18 - 1 = 17
    OBVIOUS
  <2>2. Schema(18) = Stages(Schema(17), Chain[18].up)[Len(Chain[18].up)]
    BY <2>1, SchemasStep
  <2>3. Chain[18] = AddRealtimeReadings
    BY ChainIs
  <2>4. Len(AddRealtimeReadings.up) = 2
    BY DEF AddRealtimeReadings, Script
  <2> QED
    BY <2>2, <2>3, <2>4
<1>19. Schema(19) = Stages(Schema(18), Seed10Admins.up)[1]
  <2>1. 19 \in 1..20 /\ 19 - 1 = 18
    OBVIOUS
  <2>2. Schema(19) = Stages(Schema(18), Chain[19].up)[Len(Chain[19].up)]
    BY <2>1, SchemasStep
  <2>3. Chain[19] = Seed10Admins
    BY ChainIs
  <2>4. Len(Seed10Admins.up) = 1
    BY DEF Seed10Admins, Script
  <2> QED
    BY <2>2, <2>3, <2>4
<1>20. Schema(20) = Stages(Schema(19), Seed300Records.up)[1]
  <2>1. 20 \in 1..20 /\ 20 - 1 = 19
    OBVIOUS
  <2>2. Schema(20) = Stages(Schema(19), Chain[20].up)[Len(Chain[20].up)]
    BY <2>1, SchemasStep
  <2>3. Chain[20] = Seed300Records
    BY ChainIs
  <2>4. Len(Seed300Records.up) = 1
    BY DEF Seed300Records, Script
  <2> QED
    BY <2>2, <2>3, <2>4
<1> QED
  BY <1>1, <1>2, <1>3, <1>4, <1>5, <1>6, <1>7, <1>8, <1>9, <1>10, <1>11, <1>12, <1>13, <1>14, <1>15, <1>16, <1>17, <1>18, <1>19, <1>20

\* The parts a schema has of each table.
Made(S, u, i, r, p, a, c, d, z) ==
  /\ Of(S, "users") = u
  /\ Of(S, "identities") = i
  /\ Of(S, "refresh_tokens") = r
  /\ Of(S, "principals") = p
  /\ Of(S, "admins") = a
  /\ Of(S, "record_categories") = c
  /\ Of(S, "records") = d
  /\ Of(S, "realtime_readings") = z

\* What the revisions have of each table.
LEMMA SchemaIs ==
  /\ Made(Schema(0), {}, {}, {}, {}, {}, {}, {}, {})
  /\ Made(Schema(1), {}, {}, {}, {}, {}, {}, {}, {})
  /\ Made(Schema(2), Users2, {}, {}, {}, {}, {}, {}, {})
  /\ Made(Schema(3), Users3, {}, {}, {}, {}, {}, {}, {})
  /\ Made(Schema(4), Users4, {}, {}, {}, {}, {}, {}, {})
  /\ Made(Schema(5), Users5, {}, {}, {}, {}, {}, {}, {})
  /\ Made(Schema(6), Users6, {}, {}, {}, {}, {}, {}, {})
  /\ Made(Schema(7), Users7, Identities7, {}, {}, {}, {}, {}, {})
  /\ Made(Schema(8), Users7, Identities7, Tokens8, {}, {}, {}, {}, {})
  /\ Made(Schema(9), Users9, Identities7, Tokens8, Principals9, {}, {}, {}, {})
  /\ Made(Schema(10), Users9, Identities7, Tokens10, Principals9, {}, {}, {}, {})
  /\ Made(Schema(11), Users9, Identities7, Tokens10, Principals9, Admins11, {}, {}, {})
  /\ Made(Schema(12), Users12, Identities7, Tokens10, Principals9, Admins11, {}, {}, {})
  /\ Made(Schema(13), Users12, Identities7, Tokens10, Principals9, Admins13, {}, {}, {})
  /\ Made(Schema(14), Users14, Identities7, Tokens10, Principals9, Admins14, {}, {}, {})
  /\ Made(Schema(15), Users14, Identities7, Tokens10, Principals9, Admins15, {}, {}, {})
  /\ Made(Schema(16), Users14, Identities7, Tokens10, Principals9, Admins15, Categories16, Records16, {})
  /\ Made(Schema(17), Users14, Identities7, Tokens10, Principals9, Admins15, Categories16, Records17, {})
  /\ Made(Schema(18), Users14, Identities7, Tokens10, Principals9, Admins15, Categories16, Records17, Readings18)
  /\ Made(Schema(19), Users14, Identities7, Tokens10, Principals9, Admins15, Categories16, Records17, Readings18)
  /\ Made(Schema(20), Users14, Identities7, Tokens10, Principals9, Admins15, Categories16, Records17, Readings18)
<1>0. Made(Schema(0), {}, {}, {}, {}, {}, {}, {}, {})
  BY SchemasStep DEF Made, Of
<1>1. Made(Schema(1), {}, {}, {}, {}, {}, {}, {}, {})
  <2>1. Schema(1) = Stages(Schema(0), Initial.up)[0]
    BY SchemaUp
  <2> QED
    BY <1>0, <2>1, NoSchemaChange
<1>2. Made(Schema(2), Users2, {}, {}, {}, {}, {}, {}, {})
  <2>1. Schema(2) = Stages(Schema(1), AddUserTable.up)[2]
    BY SchemaUp
  <2> QED
    BY <1>1, <2>1, AddUserTableUp DEF Made
<1>3. Made(Schema(3), Users3, {}, {}, {}, {}, {}, {}, {})
  <2>1. Schema(3) = Stages(Schema(2), RenameDeletedToIsActive.up)[3]
    BY SchemaUp
  <2> QED
    BY <1>2, <2>1, RenameDeletedToIsActiveUp DEF Made
<1>4. Made(Schema(4), Users4, {}, {}, {}, {}, {}, {}, {})
  <2>1. Schema(4) = Stages(Schema(3), EncryptUserEmailColumn.up)[1]
    BY SchemaUp
  <2> QED
    BY <1>3, <2>1, EncryptUserEmailColumnUp DEF Made
<1>5. Made(Schema(5), Users5, {}, {}, {}, {}, {}, {}, {})
  <2>1. Schema(5) = Stages(Schema(4), ResizeUserEmailColumn.up)[1]
    BY SchemaUp
  <2> QED
    BY <1>4, <2>1, ResizeUserEmailColumnUp DEF Made
<1>6. Made(Schema(6), Users6, {}, {}, {}, {}, {}, {}, {})
  <2>1. Schema(6) = Stages(Schema(5), AddUserPasswordHash.up)[1]
    BY SchemaUp
  <2> QED
    BY <1>5, <2>1, AddUserPasswordHashUp DEF Made
<1>7. Made(Schema(7), Users7, Identities7, {}, {}, {}, {}, {}, {})
  <2>1. Schema(7) = Stages(Schema(6), ExtractIdentityFromUser.up)[6]
    BY SchemaUp
  <2> QED
    BY <1>6, <2>1, ExtractIdentityFromUserUp DEF Made
<1>8. Made(Schema(8), Users7, Identities7, Tokens8, {}, {}, {}, {}, {})
  <2>1. Schema(8) = Stages(Schema(7), AddRefreshTokensTable.up)[4]
    BY SchemaUp
  <2> QED
    BY <1>7, <2>1, AddRefreshTokensTableUp DEF Made
<1>9. Made(Schema(9), Users9, Identities7, Tokens8, Principals9, {}, {}, {}, {})
  <2>1. Schema(9) = Stages(Schema(8), AddPrincipals.up)[9]
    BY SchemaUp
  <2> QED
    BY <1>8, <2>1, AddPrincipalsUp DEF Made
<1>10. Made(Schema(10), Users9, Identities7, Tokens10, Principals9, {}, {}, {}, {})
  <2>1. Schema(10) = Stages(Schema(9), RefreshTokensOwner.up)[8]
    BY SchemaUp
  <2> QED
    BY <1>9, <2>1, RefreshTokensOwnerUp DEF Made
<1>11. Made(Schema(11), Users9, Identities7, Tokens10, Principals9, Admins11, {}, {}, {})
  <2>1. Schema(11) = Stages(Schema(10), AddAdminsTable.up)[3]
    BY SchemaUp
  <2> QED
    BY <1>10, <2>1, AddAdminsTableUp DEF Made
<1>12. Made(Schema(12), Users12, Identities7, Tokens10, Principals9, Admins11, {}, {}, {})
  <2>1. Schema(12) = Stages(Schema(11), AddUserTier.up)[2]
    BY SchemaUp
  <2> QED
    BY <1>11, <2>1, AddUserTierUp DEF Made
<1>13. Made(Schema(13), Users12, Identities7, Tokens10, Principals9, Admins13, {}, {}, {})
  <2>1. Schema(13) = Stages(Schema(12), AddAdminIsProtected.up)[4]
    BY SchemaUp
  <2> QED
    BY <1>12, <2>1, AddAdminIsProtectedUp DEF Made
<1>14. Made(Schema(14), Users14, Identities7, Tokens10, Principals9, Admins14, {}, {}, {})
  <2>1. Schema(14) = Stages(Schema(13), AdminRoleUserTierToInt.up)[10]
    BY SchemaUp
  <2> QED
    BY <1>13, <2>1, AdminRoleUserTierToIntUp DEF Made
<1>15. Made(Schema(15), Users14, Identities7, Tokens10, Principals9, Admins15, {}, {}, {})
  <2>1. Schema(15) = Stages(Schema(14), ProtectedRootToRootGrade.up)[2]
    BY SchemaUp
  <2> QED
    BY <1>14, <2>1, ProtectedRootToRootGradeUp DEF Made
<1>16. Made(Schema(16), Users14, Identities7, Tokens10, Principals9, Admins15, Categories16, Records16, {})
  <2>1. Schema(16) = Stages(Schema(15), CreateRecords.up)[6]
    BY SchemaUp
  <2> QED
    BY <1>15, <2>1, CreateRecordsUp DEF Made
<1>17. Made(Schema(17), Users14, Identities7, Tokens10, Principals9, Admins15, Categories16, Records17, {})
  <2>1. Schema(17) = Stages(Schema(16), AddIxRecordsCreatedAt.up)[1]
    BY SchemaUp
  <2> QED
    BY <1>16, <2>1, AddIxRecordsCreatedAtUp DEF Made
<1>18. Made(Schema(18), Users14, Identities7, Tokens10, Principals9, Admins15, Categories16, Records17, Readings18)
  <2>1. Schema(18) = Stages(Schema(17), AddRealtimeReadings.up)[2]
    BY SchemaUp
  <2> QED
    BY <1>17, <2>1, AddRealtimeReadingsUp DEF Made
<1>19. Made(Schema(19), Users14, Identities7, Tokens10, Principals9, Admins15, Categories16, Records17, Readings18)
  <2>1. Schema(19) = Stages(Schema(18), Seed10Admins.up)[1]
    BY SchemaUp
  <2> QED
    BY <1>18, <2>1, NoSchemaChange
<1>20. Made(Schema(20), Users14, Identities7, Tokens10, Principals9, Admins15, Categories16, Records17, Readings18)
  <2>1. Schema(20) = Stages(Schema(19), Seed300Records.up)[1]
    BY SchemaUp
  <2> QED
    BY <1>19, <2>1, NoSchemaChange
<1> QED
  BY <1>0, <1>1, <1>2, <1>3, <1>4, <1>5, <1>6, <1>7, <1>8, <1>9, <1>10, <1>11, <1>12, <1>13, <1>14, <1>15, <1>16, <1>17, <1>18, <1>19, <1>20

LEMMA SameOf ==
  ASSUME NEW S, NEW T, \A o : Of(S, o) = Of(T, o)
  PROVE  S = T
BY DEF Of

\* A downgrade takes the schema back to the revision before.
THEOREM DownIsInverse ==
  \A v \in 1..20 : Stages(Schema(v), Chain[v].down)[Len(Chain[v].down)] = Schema(v - 1)
<1> DEFINE Back(v) == Stages(Schema(v), Chain[v].down)[Len(Chain[v].down)] = Schema(v - 1)
<1>1. Back(1)
  <2> Chain[1] = Initial /\ Len(Initial.down) = 0 /\ 1 - 1 = 0
    BY ChainIs DEF Initial, Script
  <2>1. Schema(1) = Stages(Schema(0), Initial.up)[0]
    BY SchemaUp
  <2> QED
    BY <2>1, NoSchemaChange
<1>2. Back(2)
  <2> Chain[2] = AddUserTable /\ Len(AddUserTable.down) = 2 /\ 2 - 1 = 1
    BY ChainIs DEF AddUserTable, Script
  <2>1. Schema(2) = Stages(Schema(1), AddUserTable.up)[2]
    BY SchemaUp
  <2> DEFINE T == Stages(Schema(2), AddUserTable.down)[2]
  <2>2. Made(Schema(1), {}, {}, {}, {}, {}, {}, {}, {}) /\ Made(Schema(2), Users2, {}, {}, {}, {}, {}, {}, {})
    BY SchemaIs
  <2>3. Of(T, "users") = Of(Schema(1), "users")
    BY <2>2, AddUserTableDown DEF Made
  <2>4. ASSUME NEW o, o # "users" PROVE Of(T, o) = Of(Schema(1), o)
    <3>1. Of(T, o) = Of(Schema(2), o)
      BY <2>2, <2>4, AddUserTableDown DEF Made
    <3>2. Of(Schema(2), o) = Of(Schema(1), o)
      BY <2>1, <2>2, <2>4, AddUserTableUp DEF Made
    <3> QED
      BY <3>1, <3>2
  <2> HIDE DEF T
  <2>5. T = Schema(1)
    BY <2>3, <2>4, SameOf
  <2> QED
    BY <2>5 DEF T
<1>3. Back(3)
  <2> Chain[3] = RenameDeletedToIsActive /\ Len(RenameDeletedToIsActive.down) = 3 /\ 3 - 1 = 2
    BY ChainIs DEF RenameDeletedToIsActive, Script
  <2>1. Schema(3) = Stages(Schema(2), RenameDeletedToIsActive.up)[3]
    BY SchemaUp
  <2> DEFINE T == Stages(Schema(3), RenameDeletedToIsActive.down)[3]
  <2>2. Made(Schema(2), Users2, {}, {}, {}, {}, {}, {}, {}) /\ Made(Schema(3), Users3, {}, {}, {}, {}, {}, {}, {})
    BY SchemaIs
  <2>3. Of(T, "users") = Of(Schema(2), "users")
    BY <2>2, RenameDeletedToIsActiveDown DEF Made
  <2>4. ASSUME NEW o, o # "users" PROVE Of(T, o) = Of(Schema(2), o)
    <3>1. Of(T, o) = Of(Schema(3), o)
      BY <2>2, <2>4, RenameDeletedToIsActiveDown DEF Made
    <3>2. Of(Schema(3), o) = Of(Schema(2), o)
      BY <2>1, <2>2, <2>4, RenameDeletedToIsActiveUp DEF Made
    <3> QED
      BY <3>1, <3>2
  <2> HIDE DEF T
  <2>5. T = Schema(2)
    BY <2>3, <2>4, SameOf
  <2> QED
    BY <2>5 DEF T
<1>4. Back(4)
  <2> Chain[4] = EncryptUserEmailColumn /\ Len(EncryptUserEmailColumn.down) = 1 /\ 4 - 1 = 3
    BY ChainIs DEF EncryptUserEmailColumn, Script
  <2>1. Schema(4) = Stages(Schema(3), EncryptUserEmailColumn.up)[1]
    BY SchemaUp
  <2> DEFINE T == Stages(Schema(4), EncryptUserEmailColumn.down)[1]
  <2>2. Made(Schema(3), Users3, {}, {}, {}, {}, {}, {}, {}) /\ Made(Schema(4), Users4, {}, {}, {}, {}, {}, {}, {})
    BY SchemaIs
  <2>3. Of(T, "users") = Of(Schema(3), "users")
    BY <2>2, EncryptUserEmailColumnDown DEF Made
  <2>4. ASSUME NEW o, o # "users" PROVE Of(T, o) = Of(Schema(3), o)
    <3>1. Of(T, o) = Of(Schema(4), o)
      BY <2>2, <2>4, EncryptUserEmailColumnDown DEF Made
    <3>2. Of(Schema(4), o) = Of(Schema(3), o)
      BY <2>1, <2>2, <2>4, EncryptUserEmailColumnUp DEF Made
    <3> QED
      BY <3>1, <3>2
  <2> HIDE DEF T
  <2>5. T = Schema(3)
    BY <2>3, <2>4, SameOf
  <2> QED
    BY <2>5 DEF T
<1>5. Back(5)
  <2> Chain[5] = ResizeUserEmailColumn /\ Len(ResizeUserEmailColumn.down) = 1 /\ 5 - 1 = 4
    BY ChainIs DEF ResizeUserEmailColumn, Script
  <2>1. Schema(5) = Stages(Schema(4), ResizeUserEmailColumn.up)[1]
    BY SchemaUp
  <2> DEFINE T == Stages(Schema(5), ResizeUserEmailColumn.down)[1]
  <2>2. Made(Schema(4), Users4, {}, {}, {}, {}, {}, {}, {}) /\ Made(Schema(5), Users5, {}, {}, {}, {}, {}, {}, {})
    BY SchemaIs
  <2>3. Of(T, "users") = Of(Schema(4), "users")
    BY <2>2, ResizeUserEmailColumnDown DEF Made
  <2>4. ASSUME NEW o, o # "users" PROVE Of(T, o) = Of(Schema(4), o)
    <3>1. Of(T, o) = Of(Schema(5), o)
      BY <2>2, <2>4, ResizeUserEmailColumnDown DEF Made
    <3>2. Of(Schema(5), o) = Of(Schema(4), o)
      BY <2>1, <2>2, <2>4, ResizeUserEmailColumnUp DEF Made
    <3> QED
      BY <3>1, <3>2
  <2> HIDE DEF T
  <2>5. T = Schema(4)
    BY <2>3, <2>4, SameOf
  <2> QED
    BY <2>5 DEF T
<1>6. Back(6)
  <2> Chain[6] = AddUserPasswordHash /\ Len(AddUserPasswordHash.down) = 1 /\ 6 - 1 = 5
    BY ChainIs DEF AddUserPasswordHash, Script
  <2>1. Schema(6) = Stages(Schema(5), AddUserPasswordHash.up)[1]
    BY SchemaUp
  <2> DEFINE T == Stages(Schema(6), AddUserPasswordHash.down)[1]
  <2>2. Made(Schema(5), Users5, {}, {}, {}, {}, {}, {}, {}) /\ Made(Schema(6), Users6, {}, {}, {}, {}, {}, {}, {})
    BY SchemaIs
  <2>3. Of(T, "users") = Of(Schema(5), "users")
    BY <2>2, AddUserPasswordHashDown DEF Made
  <2>4. ASSUME NEW o, o # "users" PROVE Of(T, o) = Of(Schema(5), o)
    <3>1. Of(T, o) = Of(Schema(6), o)
      BY <2>2, <2>4, AddUserPasswordHashDown DEF Made
    <3>2. Of(Schema(6), o) = Of(Schema(5), o)
      BY <2>1, <2>2, <2>4, AddUserPasswordHashUp DEF Made
    <3> QED
      BY <3>1, <3>2
  <2> HIDE DEF T
  <2>5. T = Schema(5)
    BY <2>3, <2>4, SameOf
  <2> QED
    BY <2>5 DEF T
<1>7. Back(7)
  <2> Chain[7] = ExtractIdentityFromUser /\ Len(ExtractIdentityFromUser.down) = 4 /\ 7 - 1 = 6
    BY ChainIs DEF ExtractIdentityFromUser, Script
  <2>1. Schema(7) = Stages(Schema(6), ExtractIdentityFromUser.up)[6]
    BY SchemaUp
  <2> DEFINE T == Stages(Schema(7), ExtractIdentityFromUser.down)[4]
  <2>2. Made(Schema(6), Users6, {}, {}, {}, {}, {}, {}, {}) /\ Made(Schema(7), Users7, Identities7, {}, {}, {}, {}, {}, {})
    BY SchemaIs
  <2>3. Of(T, "identities") = Of(Schema(6), "identities") /\ Of(T, "users") = Of(Schema(6), "users")
    BY <2>2, ExtractIdentityFromUserDown DEF Made
  <2>4. ASSUME NEW o, o \notin {"identities", "users"} PROVE Of(T, o) = Of(Schema(6), o)
    <3>1. Of(T, o) = Of(Schema(7), o)
      BY <2>2, <2>4, ExtractIdentityFromUserDown DEF Made
    <3>2. Of(Schema(7), o) = Of(Schema(6), o)
      BY <2>1, <2>2, <2>4, ExtractIdentityFromUserUp DEF Made
    <3> QED
      BY <3>1, <3>2
  <2> HIDE DEF T
  <2>5. T = Schema(6)
    BY <2>3, <2>4, SameOf
  <2> QED
    BY <2>5 DEF T
<1>8. Back(8)
  <2> Chain[8] = AddRefreshTokensTable /\ Len(AddRefreshTokensTable.down) = 1 /\ 8 - 1 = 7
    BY ChainIs DEF AddRefreshTokensTable, Script
  <2>1. Schema(8) = Stages(Schema(7), AddRefreshTokensTable.up)[4]
    BY SchemaUp
  <2> DEFINE T == Stages(Schema(8), AddRefreshTokensTable.down)[1]
  <2>2. Made(Schema(7), Users7, Identities7, {}, {}, {}, {}, {}, {}) /\ Made(Schema(8), Users7, Identities7, Tokens8, {}, {}, {}, {}, {})
    BY SchemaIs
  <2>3. Of(T, "refresh_tokens") = Of(Schema(7), "refresh_tokens")
    BY <2>2, AddRefreshTokensTableDown DEF Made
  <2>4. ASSUME NEW o, o # "refresh_tokens" PROVE Of(T, o) = Of(Schema(7), o)
    <3>1. Of(T, o) = Of(Schema(8), o)
      BY <2>2, <2>4, AddRefreshTokensTableDown DEF Made
    <3>2. Of(Schema(8), o) = Of(Schema(7), o)
      BY <2>1, <2>2, <2>4, AddRefreshTokensTableUp DEF Made
    <3> QED
      BY <3>1, <3>2
  <2> HIDE DEF T
  <2>5. T = Schema(7)
    BY <2>3, <2>4, SameOf
  <2> QED
    BY <2>5 DEF T
<1>9. Back(9)
  <2> Chain[9] = AddPrincipals /\ Len(AddPrincipals.down) = 6 /\ 9 - 1 = 8
    BY ChainIs DEF AddPrincipals, Script
  <2>1. Schema(9) = Stages(Schema(8), AddPrincipals.up)[9]
    BY SchemaUp
  <2> DEFINE T == Stages(Schema(9), AddPrincipals.down)[6]
  <2>2. Made(Schema(8), Users7, Identities7, Tokens8, {}, {}, {}, {}, {}) /\ Made(Schema(9), Users9, Identities7, Tokens8, Principals9, {}, {}, {}, {})
    BY SchemaIs
  <2>3. Of(T, "principals") = Of(Schema(8), "principals") /\ Of(T, "users") = Of(Schema(8), "users")
    BY <2>2, AddPrincipalsDown DEF Made
  <2>4. ASSUME NEW o, o \notin {"principals", "users"} PROVE Of(T, o) = Of(Schema(8), o)
    <3>1. Of(T, o) = Of(Schema(9), o)
      BY <2>2, <2>4, AddPrincipalsDown DEF Made
    <3>2. Of(Schema(9), o) = Of(Schema(8), o)
      BY <2>1, <2>2, <2>4, AddPrincipalsUp DEF Made
    <3> QED
      BY <3>1, <3>2
  <2> HIDE DEF T
  <2>5. T = Schema(8)
    BY <2>3, <2>4, SameOf
  <2> QED
    BY <2>5 DEF T
<1>10. Back(10)
  <2> Chain[10] = RefreshTokensOwner /\ Len(RefreshTokensOwner.down) = 8 /\ 10 - 1 = 9
    BY ChainIs DEF RefreshTokensOwner, Script
  <2>1. Schema(10) = Stages(Schema(9), RefreshTokensOwner.up)[8]
    BY SchemaUp
  <2> DEFINE T == Stages(Schema(10), RefreshTokensOwner.down)[8]
  <2>2. Made(Schema(9), Users9, Identities7, Tokens8, Principals9, {}, {}, {}, {}) /\ Made(Schema(10), Users9, Identities7, Tokens10, Principals9, {}, {}, {}, {})
    BY SchemaIs
  <2>3. Of(T, "refresh_tokens") = Of(Schema(9), "refresh_tokens")
    BY <2>2, RefreshTokensOwnerDown DEF Made
  <2>4. ASSUME NEW o, o # "refresh_tokens" PROVE Of(T, o) = Of(Schema(9), o)
    <3>1. Of(T, o) = Of(Schema(10), o)
      BY <2>2, <2>4, RefreshTokensOwnerDown DEF Made
    <3>2. Of(Schema(10), o) = Of(Schema(9), o)
      BY <2>1, <2>2, <2>4, RefreshTokensOwnerUp DEF Made
    <3> QED
      BY <3>1, <3>2
  <2> HIDE DEF T
  <2>5. T = Schema(9)
    BY <2>3, <2>4, SameOf
  <2> QED
    BY <2>5 DEF T
<1>11. Back(11)
  <2> Chain[11] = AddAdminsTable /\ Len(AddAdminsTable.down) = 3 /\ 11 - 1 = 10
    BY ChainIs DEF AddAdminsTable, Script
  <2>1. Schema(11) = Stages(Schema(10), AddAdminsTable.up)[3]
    BY SchemaUp
  <2> DEFINE T == Stages(Schema(11), AddAdminsTable.down)[3]
  <2>2. Made(Schema(10), Users9, Identities7, Tokens10, Principals9, {}, {}, {}, {}) /\ Made(Schema(11), Users9, Identities7, Tokens10, Principals9, Admins11, {}, {}, {})
    BY SchemaIs
  <2>3. Of(T, "admins") = Of(Schema(10), "admins")
    BY <2>2, AddAdminsTableDown DEF Made
  <2>4. ASSUME NEW o, o # "admins" PROVE Of(T, o) = Of(Schema(10), o)
    <3>1. Of(T, o) = Of(Schema(11), o)
      BY <2>2, <2>4, AddAdminsTableDown DEF Made
    <3>2. Of(Schema(11), o) = Of(Schema(10), o)
      BY <2>1, <2>2, <2>4, AddAdminsTableUp DEF Made
    <3> QED
      BY <3>1, <3>2
  <2> HIDE DEF T
  <2>5. T = Schema(10)
    BY <2>3, <2>4, SameOf
  <2> QED
    BY <2>5 DEF T
<1>12. Back(12)
  <2> Chain[12] = AddUserTier /\ Len(AddUserTier.down) = 2 /\ 12 - 1 = 11
    BY ChainIs DEF AddUserTier, Script
  <2>1. Schema(12) = Stages(Schema(11), AddUserTier.up)[2]
    BY SchemaUp
  <2> DEFINE T == Stages(Schema(12), AddUserTier.down)[2]
  <2>2. Made(Schema(11), Users9, Identities7, Tokens10, Principals9, Admins11, {}, {}, {}) /\ Made(Schema(12), Users12, Identities7, Tokens10, Principals9, Admins11, {}, {}, {})
    BY SchemaIs
  <2>3. Of(T, "users") = Of(Schema(11), "users")
    BY <2>2, AddUserTierDown DEF Made
  <2>4. ASSUME NEW o, o # "users" PROVE Of(T, o) = Of(Schema(11), o)
    <3>1. Of(T, o) = Of(Schema(12), o)
      BY <2>2, <2>4, AddUserTierDown DEF Made
    <3>2. Of(Schema(12), o) = Of(Schema(11), o)
      BY <2>1, <2>2, <2>4, AddUserTierUp DEF Made
    <3> QED
      BY <3>1, <3>2
  <2> HIDE DEF T
  <2>5. T = Schema(11)
    BY <2>3, <2>4, SameOf
  <2> QED
    BY <2>5 DEF T
<1>13. Back(13)
  <2> Chain[13] = AddAdminIsProtected /\ Len(AddAdminIsProtected.down) = 3 /\ 13 - 1 = 12
    BY ChainIs DEF AddAdminIsProtected, Script
  <2>1. Schema(13) = Stages(Schema(12), AddAdminIsProtected.up)[4]
    BY SchemaUp
  <2> DEFINE T == Stages(Schema(13), AddAdminIsProtected.down)[3]
  <2>2. Made(Schema(12), Users12, Identities7, Tokens10, Principals9, Admins11, {}, {}, {}) /\ Made(Schema(13), Users12, Identities7, Tokens10, Principals9, Admins13, {}, {}, {})
    BY SchemaIs
  <2>3. Of(T, "admins") = Of(Schema(12), "admins")
    BY <2>2, AddAdminIsProtectedDown DEF Made
  <2>4. ASSUME NEW o, o # "admins" PROVE Of(T, o) = Of(Schema(12), o)
    <3>1. Of(T, o) = Of(Schema(13), o)
      BY <2>2, <2>4, AddAdminIsProtectedDown DEF Made
    <3>2. Of(Schema(13), o) = Of(Schema(12), o)
      BY <2>1, <2>2, <2>4, AddAdminIsProtectedUp DEF Made
    <3> QED
      BY <3>1, <3>2
  <2> HIDE DEF T
  <2>5. T = Schema(12)
    BY <2>3, <2>4, SameOf
  <2> QED
    BY <2>5 DEF T
<1>14. Back(14)
  <2> Chain[14] = AdminRoleUserTierToInt /\ Len(AdminRoleUserTierToInt.down) = 10 /\ 14 - 1 = 13
    BY ChainIs DEF AdminRoleUserTierToInt, Script
  <2>1. Schema(14) = Stages(Schema(13), AdminRoleUserTierToInt.up)[10]
    BY SchemaUp
  <2> DEFINE T == Stages(Schema(14), AdminRoleUserTierToInt.down)[10]
  <2>2. Made(Schema(13), Users12, Identities7, Tokens10, Principals9, Admins13, {}, {}, {}) /\ Made(Schema(14), Users14, Identities7, Tokens10, Principals9, Admins14, {}, {}, {})
    BY SchemaIs
  <2>3. Of(T, "admins") = Of(Schema(13), "admins") /\ Of(T, "users") = Of(Schema(13), "users")
    BY <2>2, AdminRoleUserTierToIntDown DEF Made
  <2>4. ASSUME NEW o, o \notin {"admins", "users"} PROVE Of(T, o) = Of(Schema(13), o)
    <3>1. Of(T, o) = Of(Schema(14), o)
      BY <2>2, <2>4, AdminRoleUserTierToIntDown DEF Made
    <3>2. Of(Schema(14), o) = Of(Schema(13), o)
      BY <2>1, <2>2, <2>4, AdminRoleUserTierToIntUp DEF Made
    <3> QED
      BY <3>1, <3>2
  <2> HIDE DEF T
  <2>5. T = Schema(13)
    BY <2>3, <2>4, SameOf
  <2> QED
    BY <2>5 DEF T
<1>15. Back(15)
  <2> Chain[15] = ProtectedRootToRootGrade /\ Len(ProtectedRootToRootGrade.down) = 2 /\ 15 - 1 = 14
    BY ChainIs DEF ProtectedRootToRootGrade, Script
  <2>1. Schema(15) = Stages(Schema(14), ProtectedRootToRootGrade.up)[2]
    BY SchemaUp
  <2> DEFINE T == Stages(Schema(15), ProtectedRootToRootGrade.down)[2]
  <2>2. Made(Schema(14), Users14, Identities7, Tokens10, Principals9, Admins14, {}, {}, {}) /\ Made(Schema(15), Users14, Identities7, Tokens10, Principals9, Admins15, {}, {}, {})
    BY SchemaIs
  <2>3. Of(T, "admins") = Of(Schema(14), "admins")
    BY <2>2, ProtectedRootToRootGradeDown DEF Made
  <2>4. ASSUME NEW o, o # "admins" PROVE Of(T, o) = Of(Schema(14), o)
    <3>1. Of(T, o) = Of(Schema(15), o)
      BY <2>2, <2>4, ProtectedRootToRootGradeDown DEF Made
    <3>2. Of(Schema(15), o) = Of(Schema(14), o)
      BY <2>1, <2>2, <2>4, ProtectedRootToRootGradeUp DEF Made
    <3> QED
      BY <3>1, <3>2
  <2> HIDE DEF T
  <2>5. T = Schema(14)
    BY <2>3, <2>4, SameOf
  <2> QED
    BY <2>5 DEF T
<1>16. Back(16)
  <2> Chain[16] = CreateRecords /\ Len(CreateRecords.down) = 2 /\ 16 - 1 = 15
    BY ChainIs DEF CreateRecords, Script
  <2>1. Schema(16) = Stages(Schema(15), CreateRecords.up)[6]
    BY SchemaUp
  <2> DEFINE T == Stages(Schema(16), CreateRecords.down)[2]
  <2>2. Made(Schema(15), Users14, Identities7, Tokens10, Principals9, Admins15, {}, {}, {}) /\ Made(Schema(16), Users14, Identities7, Tokens10, Principals9, Admins15, Categories16, Records16, {})
    BY SchemaIs
  <2>3. Of(T, "record_categories") = Of(Schema(15), "record_categories") /\ Of(T, "records") = Of(Schema(15), "records")
    BY <2>2, CreateRecordsDown DEF Made
  <2>4. ASSUME NEW o, o \notin {"record_categories", "records"} PROVE Of(T, o) = Of(Schema(15), o)
    <3>1. Of(T, o) = Of(Schema(16), o)
      BY <2>2, <2>4, CreateRecordsDown DEF Made
    <3>2. Of(Schema(16), o) = Of(Schema(15), o)
      BY <2>1, <2>2, <2>4, CreateRecordsUp DEF Made
    <3> QED
      BY <3>1, <3>2
  <2> HIDE DEF T
  <2>5. T = Schema(15)
    BY <2>3, <2>4, SameOf
  <2> QED
    BY <2>5 DEF T
<1>17. Back(17)
  <2> Chain[17] = AddIxRecordsCreatedAt /\ Len(AddIxRecordsCreatedAt.down) = 1 /\ 17 - 1 = 16
    BY ChainIs DEF AddIxRecordsCreatedAt, Script
  <2>1. Schema(17) = Stages(Schema(16), AddIxRecordsCreatedAt.up)[1]
    BY SchemaUp
  <2> DEFINE T == Stages(Schema(17), AddIxRecordsCreatedAt.down)[1]
  <2>2. Made(Schema(16), Users14, Identities7, Tokens10, Principals9, Admins15, Categories16, Records16, {}) /\ Made(Schema(17), Users14, Identities7, Tokens10, Principals9, Admins15, Categories16, Records17, {})
    BY SchemaIs
  <2>3. Of(T, "records") = Of(Schema(16), "records")
    BY <2>2, AddIxRecordsCreatedAtDown DEF Made
  <2>4. ASSUME NEW o, o # "records" PROVE Of(T, o) = Of(Schema(16), o)
    <3>1. Of(T, o) = Of(Schema(17), o)
      BY <2>2, <2>4, AddIxRecordsCreatedAtDown DEF Made
    <3>2. Of(Schema(17), o) = Of(Schema(16), o)
      BY <2>1, <2>2, <2>4, AddIxRecordsCreatedAtUp DEF Made
    <3> QED
      BY <3>1, <3>2
  <2> HIDE DEF T
  <2>5. T = Schema(16)
    BY <2>3, <2>4, SameOf
  <2> QED
    BY <2>5 DEF T
<1>18. Back(18)
  <2> Chain[18] = AddRealtimeReadings /\ Len(AddRealtimeReadings.down) = 1 /\ 18 - 1 = 17
    BY ChainIs DEF AddRealtimeReadings, Script
  <2>1. Schema(18) = Stages(Schema(17), AddRealtimeReadings.up)[2]
    BY SchemaUp
  <2> DEFINE T == Stages(Schema(18), AddRealtimeReadings.down)[1]
  <2>2. Made(Schema(17), Users14, Identities7, Tokens10, Principals9, Admins15, Categories16, Records17, {}) /\ Made(Schema(18), Users14, Identities7, Tokens10, Principals9, Admins15, Categories16, Records17, Readings18)
    BY SchemaIs
  <2>3. Of(T, "realtime_readings") = Of(Schema(17), "realtime_readings")
    BY <2>2, AddRealtimeReadingsDown DEF Made
  <2>4. ASSUME NEW o, o # "realtime_readings" PROVE Of(T, o) = Of(Schema(17), o)
    <3>1. Of(T, o) = Of(Schema(18), o)
      BY <2>2, <2>4, AddRealtimeReadingsDown DEF Made
    <3>2. Of(Schema(18), o) = Of(Schema(17), o)
      BY <2>1, <2>2, <2>4, AddRealtimeReadingsUp DEF Made
    <3> QED
      BY <3>1, <3>2
  <2> HIDE DEF T
  <2>5. T = Schema(17)
    BY <2>3, <2>4, SameOf
  <2> QED
    BY <2>5 DEF T
<1>19. Back(19)
  <2> Chain[19] = Seed10Admins /\ Len(Seed10Admins.down) = 1 /\ 19 - 1 = 18
    BY ChainIs DEF Seed10Admins, Script
  <2>1. Schema(19) = Stages(Schema(18), Seed10Admins.up)[1]
    BY SchemaUp
  <2> QED
    BY <2>1, NoSchemaChange
<1>20. Back(20)
  <2> Chain[20] = Seed300Records /\ Len(Seed300Records.down) = 1 /\ 20 - 1 = 19
    BY ChainIs DEF Seed300Records, Script
  <2>1. Schema(20) = Stages(Schema(19), Seed300Records.up)[1]
    BY SchemaUp
  <2> QED
    BY <2>1, NoSchemaChange
<1> HIDE DEF Back
<1> SUFFICES ASSUME NEW v \in 1..20 PROVE Back(v)
  BY DEF Back
<1>21. v \in {1, 2, 3, 4, 5, 6, 7, 8, 9, 10, 11, 12, 13, 14, 15, 16, 17, 18, 19, 20}
  OBVIOUS
<1> QED
  BY <1>21, <1>1, <1>2, <1>3, <1>4, <1>5, <1>6, <1>7, <1>8, <1>9, <1>10,
     <1>11, <1>12, <1>13, <1>14, <1>15, <1>16, <1>17, <1>18, <1>19, <1>20, Zenon

-----------------------------------------------------------------------------
(* The statements of the scripts *)

Kinds == {"create_table", "drop_table", "create", "drop", "modify", "write"}

\* What every statement of a script is.
IsStatement(s) ==
  /\ s.do \in Kinds
  /\ s.do \in {"create_table", "drop_table"} => s.name = "table"
  /\ s.do = "write" => s.name \in DataStatements

LEMMA WriteIs == ASSUME NEW w \in DataStatements PROVE IsStatement(Write(w))
BY DEF IsStatement, Write, Stmt, Kinds, DataStatements

LEMMA AddColumnIs ==
  ASSUME NEW t, NEW c, NEW d, NEW v PROVE IsStatement(AddColumn(t, c, d, v))
BY DEF IsStatement, AddColumn, Stmt, Kinds

LEMMA CreateIs ==
  ASSUME NEW t, NEW k, NEW d PROVE IsStatement(Create(t, k, d))
BY DEF IsStatement, Create, Stmt, Kinds

LEMMA DropIs ==
  ASSUME NEW t, NEW n PROVE IsStatement(Drop(t, n))
BY DEF IsStatement, Drop, Stmt, Kinds

LEMMA ModifyIs ==
  ASSUME NEW t, NEW c, NEW d PROVE IsStatement(Modify(t, c, d))
BY DEF IsStatement, Modify, Stmt, Kinds

LEMMA DropTableIs == ASSUME NEW t PROVE IsStatement(DropTable(t))
BY DEF IsStatement, DropTable, Stmt, Kinds

LEMMA CreateTableIs == ASSUME NEW t, NEW d PROVE IsStatement(CreateTable(t, d))
BY DEF IsStatement, CreateTable, Stmt, Kinds

\* A script, in either direction, is a sequence of such statements.
LEMMA ScriptIs ==
  \A v \in 1..20 : \A u \in {Chain[v].up, Chain[v].down} :
    Len(u) \in Nat /\ DOMAIN u = 1..Len(u) /\ \A k \in 1..Len(u) : IsStatement(u[k])
<1> DEFINE Good(u) ==
      Len(u) \in Nat /\ DOMAIN u = 1..Len(u) /\ \A k \in 1..Len(u) : IsStatement(u[k])
<1>1. Good(Chain[1].up)
  <2> DEFINE u == Chain[1].up
  <2>1. Len(u) = 0 /\ DOMAIN u = 1..0
    BY ChainIs DEF Initial, Script
  <2> HIDE DEF u
  <2> QED
    BY <2>1 DEF u
<1>2. Good(Chain[1].down)
  <2> DEFINE u == Chain[1].down
  <2>1. Len(u) = 0 /\ DOMAIN u = 1..0
    BY ChainIs DEF Initial, Script
  <2> HIDE DEF u
  <2> QED
    BY <2>1 DEF u
<1>3. Good(Chain[2].up)
  <2> DEFINE u == Chain[2].up
  <2>1. Len(u) = 2 /\ DOMAIN u = 1..2
    BY ChainIs DEF AddUserTable, Script
  <2>2. IsStatement(u[1])
    BY ChainIs, CreateTableIs DEF AddUserTable, Script
  <2>3. IsStatement(u[2])
    BY ChainIs, CreateIs DEF AddUserTable, Script
  <2> HIDE DEF u
  <2> QED
    BY <2>1, <2>2, <2>3 DEF u
<1>4. Good(Chain[2].down)
  <2> DEFINE u == Chain[2].down
  <2>1. Len(u) = 2 /\ DOMAIN u = 1..2
    BY ChainIs DEF AddUserTable, Script
  <2>2. IsStatement(u[1])
    BY ChainIs, DropIs DEF AddUserTable, Script
  <2>3. IsStatement(u[2])
    BY ChainIs, DropTableIs DEF AddUserTable, Script
  <2> HIDE DEF u
  <2> QED
    BY <2>1, <2>2, <2>3 DEF u
<1>5. Good(Chain[3].up)
  <2> DEFINE u == Chain[3].up
  <2>1. Len(u) = 3 /\ DOMAIN u = 1..3
    BY ChainIs DEF RenameDeletedToIsActive, Script
  <2>2. IsStatement(u[1])
    BY ChainIs DEF RenameDeletedToIsActive, Script, IsStatement, AddColumn, Stmt, Kinds
  <2>3. IsStatement(u[2])
    BY ChainIs, WriteIs DEF RenameDeletedToIsActive, Script, DataStatements
  <2>4. IsStatement(u[3])
    BY ChainIs, DropIs DEF RenameDeletedToIsActive, Script
  <2> HIDE DEF u
  <2> QED
    BY <2>1, <2>2, <2>3, <2>4 DEF u
<1>6. Good(Chain[3].down)
  <2> DEFINE u == Chain[3].down
  <2>1. Len(u) = 3 /\ DOMAIN u = 1..3
    BY ChainIs DEF RenameDeletedToIsActive, Script
  <2>2. IsStatement(u[1])
    BY ChainIs DEF RenameDeletedToIsActive, Script, IsStatement, AddColumn, Stmt, Kinds
  <2>3. IsStatement(u[2])
    BY ChainIs, WriteIs DEF RenameDeletedToIsActive, Script, DataStatements
  <2>4. IsStatement(u[3])
    BY ChainIs, DropIs DEF RenameDeletedToIsActive, Script
  <2> HIDE DEF u
  <2> QED
    BY <2>1, <2>2, <2>3, <2>4 DEF u
<1>7. Good(Chain[4].up)
  <2> DEFINE u == Chain[4].up
  <2>1. Len(u) = 1 /\ DOMAIN u = 1..1
    BY ChainIs DEF EncryptUserEmailColumn, Script
  <2>2. IsStatement(u[1])
    BY ChainIs, ModifyIs DEF EncryptUserEmailColumn, Script
  <2> HIDE DEF u
  <2> QED
    BY <2>1, <2>2 DEF u
<1>8. Good(Chain[4].down)
  <2> DEFINE u == Chain[4].down
  <2>1. Len(u) = 1 /\ DOMAIN u = 1..1
    BY ChainIs DEF EncryptUserEmailColumn, Script
  <2>2. IsStatement(u[1])
    BY ChainIs, ModifyIs DEF EncryptUserEmailColumn, Script
  <2> HIDE DEF u
  <2> QED
    BY <2>1, <2>2 DEF u
<1>9. Good(Chain[5].up)
  <2> DEFINE u == Chain[5].up
  <2>1. Len(u) = 1 /\ DOMAIN u = 1..1
    BY ChainIs DEF ResizeUserEmailColumn, Script
  <2>2. IsStatement(u[1])
    BY ChainIs, ModifyIs DEF ResizeUserEmailColumn, Script
  <2> HIDE DEF u
  <2> QED
    BY <2>1, <2>2 DEF u
<1>10. Good(Chain[5].down)
  <2> DEFINE u == Chain[5].down
  <2>1. Len(u) = 1 /\ DOMAIN u = 1..1
    BY ChainIs DEF ResizeUserEmailColumn, Script
  <2>2. IsStatement(u[1])
    BY ChainIs, ModifyIs DEF ResizeUserEmailColumn, Script
  <2> HIDE DEF u
  <2> QED
    BY <2>1, <2>2 DEF u
<1>11. Good(Chain[6].up)
  <2> DEFINE u == Chain[6].up
  <2>1. Len(u) = 1 /\ DOMAIN u = 1..1
    BY ChainIs DEF AddUserPasswordHash, Script
  <2>2. IsStatement(u[1])
    BY ChainIs, AddColumnIs DEF AddUserPasswordHash, Script
  <2> HIDE DEF u
  <2> QED
    BY <2>1, <2>2 DEF u
<1>12. Good(Chain[6].down)
  <2> DEFINE u == Chain[6].down
  <2>1. Len(u) = 1 /\ DOMAIN u = 1..1
    BY ChainIs DEF AddUserPasswordHash, Script
  <2>2. IsStatement(u[1])
    BY ChainIs, DropIs DEF AddUserPasswordHash, Script
  <2> HIDE DEF u
  <2> QED
    BY <2>1, <2>2 DEF u
<1>13. Good(Chain[7].up)
  <2> DEFINE u == Chain[7].up
  <2>1. Len(u) = 6 /\ DOMAIN u = 1..6
    BY ChainIs DEF ExtractIdentityFromUser, Script
  <2>2. IsStatement(u[1])
    BY ChainIs, CreateTableIs DEF ExtractIdentityFromUser, Script
  <2>3. IsStatement(u[2])
    BY ChainIs, CreateIs DEF ExtractIdentityFromUser, Script
  <2>4. IsStatement(u[3])
    BY ChainIs, CreateIs DEF ExtractIdentityFromUser, Script
  <2>5. IsStatement(u[4])
    BY ChainIs, WriteIs DEF ExtractIdentityFromUser, Script, DataStatements
  <2>6. IsStatement(u[5])
    BY ChainIs, DropIs DEF ExtractIdentityFromUser, Script
  <2>7. IsStatement(u[6])
    BY ChainIs, ModifyIs DEF ExtractIdentityFromUser, Script
  <2> HIDE DEF u
  <2> QED
    BY <2>1, <2>2, <2>3, <2>4, <2>5, <2>6, <2>7 DEF u
<1>14. Good(Chain[7].down)
  <2> DEFINE u == Chain[7].down
  <2>1. Len(u) = 4 /\ DOMAIN u = 1..4
    BY ChainIs DEF ExtractIdentityFromUser, Script
  <2>2. IsStatement(u[1])
    BY ChainIs, AddColumnIs DEF ExtractIdentityFromUser, Script
  <2>3. IsStatement(u[2])
    BY ChainIs, WriteIs DEF ExtractIdentityFromUser, Script, DataStatements
  <2>4. IsStatement(u[3])
    BY ChainIs, ModifyIs DEF ExtractIdentityFromUser, Script
  <2>5. IsStatement(u[4])
    BY ChainIs, DropTableIs DEF ExtractIdentityFromUser, Script
  <2> HIDE DEF u
  <2> QED
    BY <2>1, <2>2, <2>3, <2>4, <2>5 DEF u
<1>15. Good(Chain[8].up)
  <2> DEFINE u == Chain[8].up
  <2>1. Len(u) = 4 /\ DOMAIN u = 1..4
    BY ChainIs DEF AddRefreshTokensTable, Script
  <2>2. IsStatement(u[1])
    BY ChainIs, CreateTableIs DEF AddRefreshTokensTable, Script
  <2>3. IsStatement(u[2])
    BY ChainIs, CreateIs DEF AddRefreshTokensTable, Script
  <2>4. IsStatement(u[3])
    BY ChainIs, CreateIs DEF AddRefreshTokensTable, Script
  <2>5. IsStatement(u[4])
    BY ChainIs, CreateIs DEF AddRefreshTokensTable, Script
  <2> HIDE DEF u
  <2> QED
    BY <2>1, <2>2, <2>3, <2>4, <2>5 DEF u
<1>16. Good(Chain[8].down)
  <2> DEFINE u == Chain[8].down
  <2>1. Len(u) = 1 /\ DOMAIN u = 1..1
    BY ChainIs DEF AddRefreshTokensTable, Script
  <2>2. IsStatement(u[1])
    BY ChainIs, DropTableIs DEF AddRefreshTokensTable, Script
  <2> HIDE DEF u
  <2> QED
    BY <2>1, <2>2 DEF u
<1>17. Good(Chain[9].up)
  <2> DEFINE u == Chain[9].up
  <2>1. Len(u) = 9 /\ DOMAIN u = 1..9
    BY ChainIs DEF AddPrincipals, Script
  <2>2. IsStatement(u[1])
    BY ChainIs, CreateTableIs DEF AddPrincipals, Script
  <2>3. IsStatement(u[2])
    BY ChainIs, AddColumnIs DEF AddPrincipals, Script
  <2>4. IsStatement(u[3])
    BY ChainIs, AddColumnIs DEF AddPrincipals, Script
  <2>5. IsStatement(u[4])
    BY ChainIs, WriteIs DEF AddPrincipals, Script, DataStatements
  <2>6. IsStatement(u[5])
    BY ChainIs, WriteIs DEF AddPrincipals, Script, DataStatements
  <2>7. IsStatement(u[6])
    BY ChainIs, ModifyIs DEF AddPrincipals, Script
  <2>8. IsStatement(u[7])
    BY ChainIs, CreateIs DEF AddPrincipals, Script
  <2>9. IsStatement(u[8])
    BY ChainIs, CreateIs DEF AddPrincipals, Script
  <2>10. IsStatement(u[9])
    BY ChainIs, CreateIs DEF AddPrincipals, Script
  <2> HIDE DEF u
  <2> QED
    BY <2>1, <2>2, <2>3, <2>4, <2>5, <2>6, <2>7, <2>8, <2>9, <2>10 DEF u
<1>18. Good(Chain[9].down)
  <2> DEFINE u == Chain[9].down
  <2>1. Len(u) = 6 /\ DOMAIN u = 1..6
    BY ChainIs DEF AddPrincipals, Script
  <2>2. IsStatement(u[1])
    BY ChainIs, DropIs DEF AddPrincipals, Script
  <2>3. IsStatement(u[2])
    BY ChainIs, DropIs DEF AddPrincipals, Script
  <2>4. IsStatement(u[3])
    BY ChainIs, DropIs DEF AddPrincipals, Script
  <2>5. IsStatement(u[4])
    BY ChainIs, DropIs DEF AddPrincipals, Script
  <2>6. IsStatement(u[5])
    BY ChainIs, DropIs DEF AddPrincipals, Script
  <2>7. IsStatement(u[6])
    BY ChainIs, DropTableIs DEF AddPrincipals, Script
  <2> HIDE DEF u
  <2> QED
    BY <2>1, <2>2, <2>3, <2>4, <2>5, <2>6, <2>7 DEF u
<1>19. Good(Chain[10].up)
  <2> DEFINE u == Chain[10].up
  <2>1. Len(u) = 8 /\ DOMAIN u = 1..8
    BY ChainIs DEF RefreshTokensOwner, Script
  <2>2. IsStatement(u[1])
    BY ChainIs, AddColumnIs DEF RefreshTokensOwner, Script
  <2>3. IsStatement(u[2])
    BY ChainIs, WriteIs DEF RefreshTokensOwner, Script, DataStatements
  <2>4. IsStatement(u[3])
    BY ChainIs, DropIs DEF RefreshTokensOwner, Script
  <2>5. IsStatement(u[4])
    BY ChainIs, DropIs DEF RefreshTokensOwner, Script
  <2>6. IsStatement(u[5])
    BY ChainIs, DropIs DEF RefreshTokensOwner, Script
  <2>7. IsStatement(u[6])
    BY ChainIs, ModifyIs DEF RefreshTokensOwner, Script
  <2>8. IsStatement(u[7])
    BY ChainIs, CreateIs DEF RefreshTokensOwner, Script
  <2>9. IsStatement(u[8])
    BY ChainIs, CreateIs DEF RefreshTokensOwner, Script
  <2> HIDE DEF u
  <2> QED
    BY <2>1, <2>2, <2>3, <2>4, <2>5, <2>6, <2>7, <2>8, <2>9 DEF u
<1>20. Good(Chain[10].down)
  <2> DEFINE u == Chain[10].down
  <2>1. Len(u) = 8 /\ DOMAIN u = 1..8
    BY ChainIs DEF RefreshTokensOwner, Script
  <2>2. IsStatement(u[1])
    BY ChainIs, AddColumnIs DEF RefreshTokensOwner, Script
  <2>3. IsStatement(u[2])
    BY ChainIs, WriteIs DEF RefreshTokensOwner, Script, DataStatements
  <2>4. IsStatement(u[3])
    BY ChainIs, DropIs DEF RefreshTokensOwner, Script
  <2>5. IsStatement(u[4])
    BY ChainIs, DropIs DEF RefreshTokensOwner, Script
  <2>6. IsStatement(u[5])
    BY ChainIs, DropIs DEF RefreshTokensOwner, Script
  <2>7. IsStatement(u[6])
    BY ChainIs, ModifyIs DEF RefreshTokensOwner, Script
  <2>8. IsStatement(u[7])
    BY ChainIs, CreateIs DEF RefreshTokensOwner, Script
  <2>9. IsStatement(u[8])
    BY ChainIs, CreateIs DEF RefreshTokensOwner, Script
  <2> HIDE DEF u
  <2> QED
    BY <2>1, <2>2, <2>3, <2>4, <2>5, <2>6, <2>7, <2>8, <2>9 DEF u
<1>21. Good(Chain[11].up)
  <2> DEFINE u == Chain[11].up
  <2>1. Len(u) = 3 /\ DOMAIN u = 1..3
    BY ChainIs DEF AddAdminsTable, Script
  <2>2. IsStatement(u[1])
    BY ChainIs, CreateTableIs DEF AddAdminsTable, Script
  <2>3. IsStatement(u[2])
    BY ChainIs, CreateIs DEF AddAdminsTable, Script
  <2>4. IsStatement(u[3])
    BY ChainIs, CreateIs DEF AddAdminsTable, Script
  <2> HIDE DEF u
  <2> QED
    BY <2>1, <2>2, <2>3, <2>4 DEF u
<1>22. Good(Chain[11].down)
  <2> DEFINE u == Chain[11].down
  <2>1. Len(u) = 3 /\ DOMAIN u = 1..3
    BY ChainIs DEF AddAdminsTable, Script
  <2>2. IsStatement(u[1])
    BY ChainIs, DropIs DEF AddAdminsTable, Script
  <2>3. IsStatement(u[2])
    BY ChainIs, DropIs DEF AddAdminsTable, Script
  <2>4. IsStatement(u[3])
    BY ChainIs, DropTableIs DEF AddAdminsTable, Script
  <2> HIDE DEF u
  <2> QED
    BY <2>1, <2>2, <2>3, <2>4 DEF u
<1>23. Good(Chain[12].up)
  <2> DEFINE u == Chain[12].up
  <2>1. Len(u) = 2 /\ DOMAIN u = 1..2
    BY ChainIs DEF AddUserTier, Script
  <2>2. IsStatement(u[1])
    BY ChainIs, AddColumnIs DEF AddUserTier, Script
  <2>3. IsStatement(u[2])
    BY ChainIs, CreateIs DEF AddUserTier, Script
  <2> HIDE DEF u
  <2> QED
    BY <2>1, <2>2, <2>3 DEF u
<1>24. Good(Chain[12].down)
  <2> DEFINE u == Chain[12].down
  <2>1. Len(u) = 2 /\ DOMAIN u = 1..2
    BY ChainIs DEF AddUserTier, Script
  <2>2. IsStatement(u[1])
    BY ChainIs, DropIs DEF AddUserTier, Script
  <2>3. IsStatement(u[2])
    BY ChainIs, DropIs DEF AddUserTier, Script
  <2> HIDE DEF u
  <2> QED
    BY <2>1, <2>2, <2>3 DEF u
<1>25. Good(Chain[13].up)
  <2> DEFINE u == Chain[13].up
  <2>1. Len(u) = 4 /\ DOMAIN u = 1..4
    BY ChainIs DEF AddAdminIsProtected, Script
  <2>2. IsStatement(u[1])
    BY ChainIs DEF AddAdminIsProtected, Script, IsStatement, AddColumn, Stmt, Kinds
  <2>3. IsStatement(u[2])
    BY ChainIs, WriteIs DEF AddAdminIsProtected, Script, DataStatements
  <2>4. IsStatement(u[3])
    BY ChainIs, CreateIs DEF AddAdminIsProtected, Script
  <2>5. IsStatement(u[4])
    BY ChainIs, CreateIs DEF AddAdminIsProtected, Script
  <2> HIDE DEF u
  <2> QED
    BY <2>1, <2>2, <2>3, <2>4, <2>5 DEF u
<1>26. Good(Chain[13].down)
  <2> DEFINE u == Chain[13].down
  <2>1. Len(u) = 3 /\ DOMAIN u = 1..3
    BY ChainIs DEF AddAdminIsProtected, Script
  <2>2. IsStatement(u[1])
    BY ChainIs, DropIs DEF AddAdminIsProtected, Script
  <2>3. IsStatement(u[2])
    BY ChainIs, DropIs DEF AddAdminIsProtected, Script
  <2>4. IsStatement(u[3])
    BY ChainIs, DropIs DEF AddAdminIsProtected, Script
  <2> HIDE DEF u
  <2> QED
    BY <2>1, <2>2, <2>3, <2>4 DEF u
<1>27. Good(Chain[14].up)
  <2> DEFINE u == Chain[14].up
  <2>1. Len(u) = 10 /\ DOMAIN u = 1..10
    BY ChainIs DEF AdminRoleUserTierToInt, Script
  <2>2. IsStatement(u[1])
    BY ChainIs, DropIs DEF AdminRoleUserTierToInt, Script
  <2>3. IsStatement(u[2])
    BY ChainIs, DropIs DEF AdminRoleUserTierToInt, Script
  <2>4. IsStatement(u[3])
    BY ChainIs, DropIs DEF AdminRoleUserTierToInt, Script
  <2>5. IsStatement(u[4])
    BY ChainIs, WriteIs DEF AdminRoleUserTierToInt, Script, DataStatements
  <2>6. IsStatement(u[5])
    BY ChainIs, WriteIs DEF AdminRoleUserTierToInt, Script, DataStatements
  <2>7. IsStatement(u[6])
    BY ChainIs, ModifyIs DEF AdminRoleUserTierToInt, Script
  <2>8. IsStatement(u[7])
    BY ChainIs, ModifyIs DEF AdminRoleUserTierToInt, Script
  <2>9. IsStatement(u[8])
    BY ChainIs, CreateIs DEF AdminRoleUserTierToInt, Script
  <2>10. IsStatement(u[9])
    BY ChainIs, CreateIs DEF AdminRoleUserTierToInt, Script
  <2>11. IsStatement(u[10])
    BY ChainIs, CreateIs DEF AdminRoleUserTierToInt, Script
  <2> HIDE DEF u
  <2> QED
    BY <2>1, <2>2, <2>3, <2>4, <2>5, <2>6, <2>7, <2>8, <2>9, <2>10, <2>11 DEF u
<1>28. Good(Chain[14].down)
  <2> DEFINE u == Chain[14].down
  <2>1. Len(u) = 10 /\ DOMAIN u = 1..10
    BY ChainIs DEF AdminRoleUserTierToInt, Script
  <2>2. IsStatement(u[1])
    BY ChainIs, DropIs DEF AdminRoleUserTierToInt, Script
  <2>3. IsStatement(u[2])
    BY ChainIs, DropIs DEF AdminRoleUserTierToInt, Script
  <2>4. IsStatement(u[3])
    BY ChainIs, DropIs DEF AdminRoleUserTierToInt, Script
  <2>5. IsStatement(u[4])
    BY ChainIs, ModifyIs DEF AdminRoleUserTierToInt, Script
  <2>6. IsStatement(u[5])
    BY ChainIs, ModifyIs DEF AdminRoleUserTierToInt, Script
  <2>7. IsStatement(u[6])
    BY ChainIs, WriteIs DEF AdminRoleUserTierToInt, Script, DataStatements
  <2>8. IsStatement(u[7])
    BY ChainIs, WriteIs DEF AdminRoleUserTierToInt, Script, DataStatements
  <2>9. IsStatement(u[8])
    BY ChainIs, CreateIs DEF AdminRoleUserTierToInt, Script
  <2>10. IsStatement(u[9])
    BY ChainIs, CreateIs DEF AdminRoleUserTierToInt, Script
  <2>11. IsStatement(u[10])
    BY ChainIs, CreateIs DEF AdminRoleUserTierToInt, Script
  <2> HIDE DEF u
  <2> QED
    BY <2>1, <2>2, <2>3, <2>4, <2>5, <2>6, <2>7, <2>8, <2>9, <2>10, <2>11 DEF u
<1>29. Good(Chain[15].up)
  <2> DEFINE u == Chain[15].up
  <2>1. Len(u) = 2 /\ DOMAIN u = 1..2
    BY ChainIs DEF ProtectedRootToRootGrade, Script
  <2>2. IsStatement(u[1])
    BY ChainIs, DropIs DEF ProtectedRootToRootGrade, Script
  <2>3. IsStatement(u[2])
    BY ChainIs, CreateIs DEF ProtectedRootToRootGrade, Script
  <2> HIDE DEF u
  <2> QED
    BY <2>1, <2>2, <2>3 DEF u
<1>30. Good(Chain[15].down)
  <2> DEFINE u == Chain[15].down
  <2>1. Len(u) = 2 /\ DOMAIN u = 1..2
    BY ChainIs DEF ProtectedRootToRootGrade, Script
  <2>2. IsStatement(u[1])
    BY ChainIs, DropIs DEF ProtectedRootToRootGrade, Script
  <2>3. IsStatement(u[2])
    BY ChainIs, CreateIs DEF ProtectedRootToRootGrade, Script
  <2> HIDE DEF u
  <2> QED
    BY <2>1, <2>2, <2>3 DEF u
<1>31. Good(Chain[16].up)
  <2> DEFINE u == Chain[16].up
  <2>1. Len(u) = 6 /\ DOMAIN u = 1..6
    BY ChainIs DEF CreateRecords, Script
  <2>2. IsStatement(u[1])
    BY ChainIs, CreateTableIs DEF CreateRecords, Script
  <2>3. IsStatement(u[2])
    BY ChainIs, CreateIs DEF CreateRecords, Script
  <2>4. IsStatement(u[3])
    BY ChainIs, WriteIs DEF CreateRecords, Script, DataStatements
  <2>5. IsStatement(u[4])
    BY ChainIs, CreateTableIs DEF CreateRecords, Script
  <2>6. IsStatement(u[5])
    BY ChainIs, CreateIs DEF CreateRecords, Script
  <2>7. IsStatement(u[6])
    BY ChainIs, CreateIs DEF CreateRecords, Script
  <2> HIDE DEF u
  <2> QED
    BY <2>1, <2>2, <2>3, <2>4, <2>5, <2>6, <2>7 DEF u
<1>32. Good(Chain[16].down)
  <2> DEFINE u == Chain[16].down
  <2>1. Len(u) = 2 /\ DOMAIN u = 1..2
    BY ChainIs DEF CreateRecords, Script
  <2>2. IsStatement(u[1])
    BY ChainIs, DropTableIs DEF CreateRecords, Script
  <2>3. IsStatement(u[2])
    BY ChainIs, DropTableIs DEF CreateRecords, Script
  <2> HIDE DEF u
  <2> QED
    BY <2>1, <2>2, <2>3 DEF u
<1>33. Good(Chain[17].up)
  <2> DEFINE u == Chain[17].up
  <2>1. Len(u) = 1 /\ DOMAIN u = 1..1
    BY ChainIs DEF AddIxRecordsCreatedAt, Script
  <2>2. IsStatement(u[1])
    BY ChainIs, CreateIs DEF AddIxRecordsCreatedAt, Script
  <2> HIDE DEF u
  <2> QED
    BY <2>1, <2>2 DEF u
<1>34. Good(Chain[17].down)
  <2> DEFINE u == Chain[17].down
  <2>1. Len(u) = 1 /\ DOMAIN u = 1..1
    BY ChainIs DEF AddIxRecordsCreatedAt, Script
  <2>2. IsStatement(u[1])
    BY ChainIs, DropIs DEF AddIxRecordsCreatedAt, Script
  <2> HIDE DEF u
  <2> QED
    BY <2>1, <2>2 DEF u
<1>35. Good(Chain[18].up)
  <2> DEFINE u == Chain[18].up
  <2>1. Len(u) = 2 /\ DOMAIN u = 1..2
    BY ChainIs DEF AddRealtimeReadings, Script
  <2>2. IsStatement(u[1])
    BY ChainIs, CreateTableIs DEF AddRealtimeReadings, Script
  <2>3. IsStatement(u[2])
    BY ChainIs, CreateIs DEF AddRealtimeReadings, Script
  <2> HIDE DEF u
  <2> QED
    BY <2>1, <2>2, <2>3 DEF u
<1>36. Good(Chain[18].down)
  <2> DEFINE u == Chain[18].down
  <2>1. Len(u) = 1 /\ DOMAIN u = 1..1
    BY ChainIs DEF AddRealtimeReadings, Script
  <2>2. IsStatement(u[1])
    BY ChainIs, DropTableIs DEF AddRealtimeReadings, Script
  <2> HIDE DEF u
  <2> QED
    BY <2>1, <2>2 DEF u
<1>37. Good(Chain[19].up)
  <2> DEFINE u == Chain[19].up
  <2>1. Len(u) = 1 /\ DOMAIN u = 1..1
    BY ChainIs DEF Seed10Admins, Script
  <2>2. IsStatement(u[1])
    BY ChainIs, WriteIs DEF Seed10Admins, Script, DataStatements
  <2> HIDE DEF u
  <2> QED
    BY <2>1, <2>2 DEF u
<1>38. Good(Chain[19].down)
  <2> DEFINE u == Chain[19].down
  <2>1. Len(u) = 1 /\ DOMAIN u = 1..1
    BY ChainIs DEF Seed10Admins, Script
  <2>2. IsStatement(u[1])
    BY ChainIs, WriteIs DEF Seed10Admins, Script, DataStatements
  <2> HIDE DEF u
  <2> QED
    BY <2>1, <2>2 DEF u
<1>39. Good(Chain[20].up)
  <2> DEFINE u == Chain[20].up
  <2>1. Len(u) = 1 /\ DOMAIN u = 1..1
    BY ChainIs DEF Seed300Records, Script
  <2>2. IsStatement(u[1])
    BY ChainIs, WriteIs DEF Seed300Records, Script, DataStatements
  <2> HIDE DEF u
  <2> QED
    BY <2>1, <2>2 DEF u
<1>40. Good(Chain[20].down)
  <2> DEFINE u == Chain[20].down
  <2>1. Len(u) = 1 /\ DOMAIN u = 1..1
    BY ChainIs DEF Seed300Records, Script
  <2>2. IsStatement(u[1])
    BY ChainIs, WriteIs DEF Seed300Records, Script, DataStatements
  <2> HIDE DEF u
  <2> QED
    BY <2>1, <2>2 DEF u
<1> HIDE DEF Good
<1> SUFFICES ASSUME NEW v \in 1..20, NEW u \in {Chain[v].up, Chain[v].down} PROVE Good(u)
  BY DEF Good
<1>41. v \in {1, 2, 3, 4, 5, 6, 7, 8, 9, 10, 11, 12, 13, 14, 15, 16, 17, 18, 19, 20}
  OBVIOUS
<1> QED
  BY <1>41, <1>1, <1>2, <1>3, <1>4, <1>5, <1>6, <1>7, <1>8, <1>9, <1>10, <1>11,
     <1>12, <1>13, <1>14, <1>15, <1>16, <1>17, <1>18, <1>19, <1>20, <1>21,
     <1>22, <1>23, <1>24, <1>25, <1>26, <1>27, <1>28, <1>29, <1>30, <1>31,
     <1>32, <1>33, <1>34, <1>35, <1>36, <1>37, <1>38, <1>39, <1>40, Zenon

-----------------------------------------------------------------------------
(* Confinement *)

\* What a schema has under a name of a table.
At(S, t, n) == {x \in S : x[1] = t /\ x[2] = n}

\* A name that no script of V touches.
Spared(t, n, V) ==
  \A v \in V : << t, n >> \notin Touched[v] /\ << t, "table" >> \notin Touched[v]

LEMMA ConfinedAt ==
  ASSUME NEW S, NEW T, NEW V
  PROVE  Confined(S, T, V) <=>
           \A t, n : Spared(t, n, V) => At(S, t, n) = At(T, t, n)
<1>1. ASSUME Confined(S, T, V), NEW t, NEW n, Spared(t, n, V)
      PROVE  At(S, t, n) = At(T, t, n)
  <2>1. ASSUME NEW x \in (S \ T) \cup (T \ S) PROVE ~ (x[1] = t /\ x[2] = n)
    BY <1>1 DEF Confined, Spared
  <2> QED
    BY <2>1 DEF At
<1>2. ASSUME \A t, n : Spared(t, n, V) => At(S, t, n) = At(T, t, n)
      PROVE  Confined(S, T, V)
  <2>1. ASSUME NEW x \in (S \ T) \cup (T \ S), Spared(x[1], x[2], V) PROVE FALSE
    <3>1. At(S, x[1], x[2]) = At(T, x[1], x[2])
      BY <1>2, <2>1
    <3> QED
      BY <2>1, <3>1 DEF At
  <2> QED
    BY <2>1 DEF Confined, Spared
<1> QED
  BY <1>1, <1>2

\* The effect of a statement at a name depends on nothing else.
LEMMA AlteredAt ==
  ASSUME NEW S, NEW T, NEW s, IsStatement(s), NEW t, NEW n, At(S, t, n) = At(T, t, n)
  PROVE  At(Altered(S, s), t, n) = At(Altered(T, s), t, n)
<1>1. CASE s.do = "create_table"
  <2> DEFINE P == {<< s.table, "table", "plain" >>} \cup {<< s.table, p[1], p[2] >> : p \in s.def}
  <2>1. Altered(S, s) = S \cup P /\ Altered(T, s) = T \cup P
    BY <1>1 DEF Altered
  <2> HIDE DEF P
  <2> QED
    BY <2>1 DEF At
<1>2. CASE s.do = "drop_table"
  <2>1. /\ Altered(S, s) = {x \in S : x[1] # s.table}
        /\ Altered(T, s) = {x \in T : x[1] # s.table}
    BY <1>2 DEF Altered
  <2> QED
    BY <2>1 DEF At
<1>3. CASE s.do = "create"
  <2>1. /\ Altered(S, s) = S \cup {<< s.table, s.name, s.def >>}
        /\ Altered(T, s) = T \cup {<< s.table, s.name, s.def >>}
    BY <1>3 DEF Altered
  <2> QED
    BY <2>1 DEF At
<1>4. CASE s.do = "drop"
  <2>1. /\ Altered(S, s) = Without(S, s.table, s.name)
        /\ Altered(T, s) = Without(T, s.table, s.name)
    BY <1>4 DEF Altered
  <2> QED
    BY <2>1 DEF At, Without
<1>5. CASE s.do = "modify"
  <2> DEFINE P == {<< s.table, s.name, s.def >>}
  <2>1. /\ Altered(S, s) = Without(S, s.table, s.name) \cup P
        /\ Altered(T, s) = Without(T, s.table, s.name) \cup P
    BY <1>5 DEF Altered
  <2> HIDE DEF P
  <2> QED
    BY <2>1 DEF At, Without
<1>6. CASE s.do = "write"
  BY <1>6 DEF Altered
<1> QED
  BY <1>1, <1>2, <1>3, <1>4, <1>5, <1>6 DEF IsStatement, Kinds

\* A statement changes nothing under other names and in other tables.
LEMMA AlteredElsewhere ==
  ASSUME NEW S, NEW s, IsStatement(s), NEW t, NEW n,
         << s.table, s.name >> # << t, n >>, << s.table, s.name >> # << t, "table" >>
  PROVE  At(Altered(S, s), t, n) = At(S, t, n)
<1>1. CASE s.do \in {"create_table", "drop_table"}
  <2>1. s.table # t
    BY <1>1 DEF IsStatement
  <2>2. CASE s.do = "create_table"
    BY <2>1, <2>2 DEF Altered, At
  <2>3. CASE s.do = "drop_table"
    BY <2>1, <2>3 DEF Altered, At
  <2> QED
    BY <1>1, <2>2, <2>3
<1>2. CASE s.do = "create"
  BY <1>2 DEF Altered, At
<1>3. CASE s.do = "drop"
  BY <1>3 DEF Altered, At, Without
<1>4. CASE s.do = "modify"
  BY <1>4 DEF Altered, At, Without
<1>5. CASE s.do = "write"
  BY <1>5 DEF Altered
<1> QED
  BY <1>1, <1>2, <1>3, <1>4, <1>5 DEF IsStatement, Kinds

\* A script touches what its statements name.
LEMMA StatementTouches ==
  ASSUME NEW v \in 1..20, NEW u \in {Chain[v].up, Chain[v].down}, NEW k \in 1..Len(u)
  PROVE  IsStatement(u[k]) /\ << u[k].table, u[k].name >> \in Touched[v]
<1> DEFINE N(x) == {<< x.table, x.name >>} \cup
             (IF x.do = "create_table" THEN {<< x.table, p[1] >> : p \in x.def} ELSE {})
           s == u[k]
<1>1. IsStatement(s) /\ s \in Range(Chain[v].up) \cup Range(Chain[v].down)
  BY ScriptIs DEF Range
<1>2. Touched[v] = UNION {N(x) : x \in Range(Chain[v].up) \cup Range(Chain[v].down)}
  BY LatestIs DEF Touched
<1>3. N(s) \subseteq Touched[v]
  <2> HIDE DEF N, s
  <2> QED
    BY <1>1, <1>2
<1> QED
  BY <1>1, <1>3

\* Confinement under a statement of a script among V, on one side or on both.
LEMMA ConfinedAltered ==
  ASSUME NEW S, NEW T, NEW V, NEW v \in V, NEW s, IsStatement(s),
         << s.table, s.name >> \in Touched[v], Confined(S, T, V)
  PROVE  Confined(Altered(S, s), T, V)
<1>1. \A t, n : Spared(t, n, V) => At(S, t, n) = At(T, t, n)
  BY ConfinedAt
<1>2. ASSUME NEW t, NEW n, Spared(t, n, V)
      PROVE  At(Altered(S, s), t, n) = At(T, t, n)
  <2>1. << s.table, s.name >> # << t, n >> /\ << s.table, s.name >> # << t, "table" >>
    BY <1>2 DEF Spared
  <2>2. At(Altered(S, s), t, n) = At(S, t, n)
    BY <2>1, AlteredElsewhere
  <2> QED
    BY <1>1, <1>2, <2>2
<1> QED
  BY <1>2, ConfinedAt

LEMMA ConfinedBoth ==
  ASSUME NEW S, NEW T, NEW V, NEW s, IsStatement(s), Confined(S, T, V)
  PROVE  Confined(Altered(S, s), Altered(T, s), V)
<1>1. \A t, n : Spared(t, n, V) => At(S, t, n) = At(T, t, n)
  BY ConfinedAt
<1>2. \A t, n : Spared(t, n, V) => At(Altered(S, s), t, n) = At(Altered(T, s), t, n)
  BY <1>1, AlteredAt
<1> QED
  BY <1>2, ConfinedAt

LEMMA ConfinedMore ==
  ASSUME NEW S, NEW T, NEW V, NEW W, V \subseteq W, Confined(S, T, V)
  PROVE  Confined(S, T, W)
BY DEF Confined

-----------------------------------------------------------------------------
(* Rows *)

LEMMA WrittenTables ==
  ASSUME NEW R, NEW w \in DataStatements
  PROVE  DOMAIN Written(R, w) = DOMAIN R
<1>1. CASE w = "is_active=NOT(deleted)"
  BY <1>1 DEF Written, SetColumn
<1>2. CASE w = "deleted=NOT(is_active)"
  BY <1>2 DEF Written, SetColumn
<1>3. CASE w = "identities-from-password_hash"
  BY <1>3 DEF Written
<1>4. CASE w = "password_hash-from-identities"
  BY <1>4 DEF Written, SetColumn
<1>5. CASE w = "principals-from-users"
  BY <1>5 DEF Written
<1>6. CASE w = "users.principal_id=id"
  BY <1>6 DEF Written, SetColumn
<1>7. CASE w = "token-principals-from-users"
  BY <1>7 DEF Written, SetColumn
<1>8. CASE w = "token-users-from-principals"
  BY <1>8 DEF Written, SetColumn
<1>9. CASE w = "protect-active-super_admins"
  BY <1>9 DEF Written, SetColumn
<1>10. CASE w = "admin_role-to-number"
  BY <1>10 DEF Written, SetColumn
<1>11. CASE w = "user_tier-to-number"
  BY <1>11 DEF Written, SetColumn
<1>12. CASE w = "admin_role-to-word"
  BY <1>12 DEF Written, SetColumn
<1>13. CASE w = "user_tier-to-word"
  BY <1>13 DEF Written, SetColumn
<1>14. CASE w = "seed-categories"
  BY <1>14 DEF Written
<1>15. CASE w = "seed-admins"
  BY <1>15 DEF Written
<1>16. CASE w = "delete-seed-admins"
  BY <1>16 DEF Written
<1>17. CASE w = "seed-records"
  BY <1>17 DEF Written
<1>18. CASE w = "delete-records"
  BY <1>18 DEF Written
<1> QED
  BY <1>1, <1>2, <1>3, <1>4, <1>5, <1>6, <1>7, <1>8, <1>9, <1>10, <1>11,
     <1>12, <1>13, <1>14, <1>15, <1>16, <1>17, <1>18 DEF DataStatements

LEMMA DefinedTables ==
  ASSUME NEW R, NEW s PROVE DOMAIN Defined(R, s) = DOMAIN R
BY DEF Defined

\* The function that Rewritten chooses exists.
LEMMA RewrittenStep ==
  ASSUME NEW R, NEW D, NEW ws \in Seq(D)
  PROVE  \E f : /\ f[0] = R /\ Rewritten(R, ws) = f[Len(ws)]
                /\ \A k \in 1..Len(ws) : f[k] = Written(f[k - 1], ws[k])
<1> DEFINE n0 == Len(ws)
           Def(f, n) == f = [k \in 0..n |-> IF k = 0 THEN R ELSE Written(f[k - 1], ws[k])]
           Bad == {n \in Nat : ~ \E f : Def(f, n)}
<1>1. Bad = {}
  <2> SUFFICES ASSUME Bad # {} PROVE FALSE
    OBVIOUS
  <2>1. PICK n \in Bad : \A m \in Bad : n <= m
    <3> HIDE DEF Bad
    <3>1. Bad \in SUBSET Nat
      BY DEF Bad
    <3> QED
      BY <3>1, Least
  <2>2. CASE n = 0
    <3> DEFINE g == [k \in 0..0 |-> R]
    <3>1. Def(g, 0)
      OBVIOUS
    <3> QED
      BY <2>1, <2>2, <3>1
  <2>3. CASE n # 0
    <3>1. n \in Nat /\ n - 1 \in Nat /\ n - 1 \notin Bad
      <4>1. n \in Nat
        OBVIOUS
      <4> HIDE DEF Bad
      <4> QED
        BY <2>1, <2>3, <4>1
    <3>2. PICK f : Def(f, n - 1)
      BY <3>1
    <3> DEFINE g == [k \in 0..n |-> IF k = n THEN Written(f[n - 1], ws[n]) ELSE f[k]]
    <3>3. \A k \in 0..n : g[k] = IF k = 0 THEN R ELSE Written(g[k - 1], ws[k])
      BY <2>3, <3>1, <3>2
    <3>4. Def(g, n)
      BY <3>3
    <3> QED
      BY <2>1, <3>1, <3>4
  <2> QED
    BY <2>2, <2>3
<1> DEFINE h == CHOOSE f : Def(f, n0)
<1>2. n0 \in Nat
  OBVIOUS
<1>3. \E f : Def(f, n0)
  BY <1>1, <1>2
<1>4. Def(h, n0)
  BY <1>3
<1>5. Rewritten(R, ws) = h[n0]
  BY DEF Rewritten
<1> HIDE DEF h
<1>6. h[0] = R /\ \A k \in 1..n0 : h[k] = Written(h[k - 1], ws[k])
  BY <1>2, <1>4
<1> QED
  BY <1>5, <1>6

LEMMA RewrittenTables ==
  ASSUME NEW R, NEW ws \in Seq(DataStatements)
  PROVE  DOMAIN Rewritten(R, ws) = DOMAIN R
<1>1. PICK f : /\ f[0] = R /\ Rewritten(R, ws) = f[Len(ws)]
               /\ \A k \in 1..Len(ws) : f[k] = Written(f[k - 1], ws[k])
  BY RewrittenStep
<1> DEFINE Bad == {k \in 0..Len(ws) : DOMAIN f[k] # DOMAIN R}
<1>2. Bad = {}
  <2> SUFFICES ASSUME Bad # {} PROVE FALSE
    OBVIOUS
  <2>1. PICK k \in Bad : \A m \in Bad : k <= m
    <3>1. Bad \in SUBSET Nat
      OBVIOUS
    <3> HIDE DEF Bad
    <3> QED
      BY <3>1, Least
  <2>2. k # 0
    BY <1>1
  <2>3. k \in 1..Len(ws) /\ k - 1 \in 0..Len(ws) /\ ~ (k <= k - 1)
    BY <2>2
  <2>4. DOMAIN f[k - 1] = DOMAIN R
    BY <2>1, <2>3
  <2>5. ws[k] \in DataStatements
    BY <2>3
  <2>6. DOMAIN f[k] = DOMAIN f[k - 1]
    BY <1>1, <2>3, <2>5, WrittenTables
  <2> QED
    BY <2>1, <2>4, <2>6
<1> QED
  BY <1>1, <1>2

-----------------------------------------------------------------------------
(* The inductive invariant *)

LEMMA StatementsAre ==
  ASSUME NEW p, p.rev \in 1..20, p.way \in {"up", "down"}
  PROVE  /\ Len(StatementsOf(p)) \in Nat
         /\ DOMAIN StatementsOf(p) = 1..Len(StatementsOf(p))
         /\ \A k \in 1..Len(StatementsOf(p)) :
              /\ IsStatement(StatementsOf(p)[k])
              /\ << StatementsOf(p)[k].table, StatementsOf(p)[k].name >> \in Touched[p.rev]
<1>1. StatementsOf(p) \in {Chain[p.rev].up, Chain[p.rev].down}
  BY DEF StatementsOf
<1> QED
  BY <1>1, ScriptIs, StatementTouches

LEMMA StageFirst ==
  ASSUME NEW p, p.rev \in 1..20, p.way \in {"up", "down"}, p.next = 1
  PROVE  Stage(p) = Schema(From(p))
<1>1. Stages(Schema(From(p)), StatementsOf(p))[0] = Schema(From(p))
  BY StatementsAre, StagesStep
<1>2. p.next - 1 = 0
  OBVIOUS
<1> QED
  BY <1>1, <1>2 DEF Stage

\* A statement takes a process from one stage to the next.
LEMMA StageNext ==
  ASSUME NEW p, p.rev \in 1..20, p.way \in {"up", "down"},
         p.next \in 1..Len(StatementsOf(p)),
         NEW q, q.rev = p.rev, q.way = p.way, q.next = p.next + 1
  PROVE  Stage(q) = Altered(Stage(p), StatementsOf(p)[p.next])
<1> DEFINE u == StatementsOf(p)
           f == Stages(Schema(From(p)), u)
<1>1. StatementsOf(q) = u /\ From(q) = From(p)
  BY DEF StatementsOf, From
<1>2. Len(u) \in Nat
  BY StatementsAre
<1>3. \A k \in 1..Len(u) : f[k] = Altered(f[k - 1], u[k])
  BY <1>2, StagesStep
<1>4. Stage(p) = f[p.next - 1] /\ Stage(q) = f[q.next - 1]
  BY <1>1 DEF Stage
<1> HIDE DEF f, u
<1>5. p.next \in 1..Len(u) /\ q.next - 1 = p.next
  BY <1>2 DEF u
<1>6. f[p.next] = Altered(f[p.next - 1], u[p.next])
  BY <1>3, <1>5
<1> QED
  BY <1>4, <1>5, <1>6 DEF u

\* At its end the script has brought about the schema it leads to.
LEMMA StageLast ==
  ASSUME NEW p, p.rev \in 1..20, p.way \in {"up", "down"},
         p.next = Len(StatementsOf(p)) + 1
  PROVE  Stage(p) = Schema(To(p))
<1>1. p.next - 1 = Len(StatementsOf(p))
  BY StatementsAre
<1>2. Stage(p) = Stages(Schema(From(p)), StatementsOf(p))[Len(StatementsOf(p))]
  BY <1>1 DEF Stage
<1>3. CASE p.way = "up"
  BY <1>2, <1>3, SchemasStep DEF StatementsOf, From, To
<1>4. CASE p.way = "down"
  BY <1>2, <1>4, DownIsInverse DEF StatementsOf, From, To
<1> QED
  BY <1>3, <1>4

LEMMA ConfinedSame == ASSUME NEW S, NEW V PROVE Confined(S, S, V)
BY DEF Confined

LEMMA InitInv == Init => IInv
<1> SUFFICES ASSUME Init PROVE IInv
  OBVIOUS
<1>1. version \in 0..Latest
  <2>1. Revision("e1f2a3b4c5d6") \in 1..Latest
    <3>1. Chain[19].id = "e1f2a3b4c5d6"
      BY ChainIs DEF Seed10Admins, Script
    <3>2. 19 \in 1..Latest
      BY LatestIs
    <3> QED
      BY <3>1, <3>2 DEF Revision
  <2> QED
    BY <2>1, LatestIs, StartsAssumption DEF Init
<1>2. Asleep \in Process
  BY LatestIs DEF Asleep, Process
<1>3. TypeOK
  BY <1>1, <1>2 DEF Init, TypeOK
<1>4. \A c \in Containers : run[c].at = "down"
  BY DEF Init, Asleep
<1>5. PartsFollow
  BY ConfinedSame DEF Init, PartsFollow
<1> QED
  BY <1>3, <1>4, <1>5 DEF IInv, ScriptsRun, StageReached

\* What the invariant says of a process that runs a script.
LEMMA Migrating ==
  ASSUME IInv, NEW c \in Containers, run[c].at = "migrating"
  PROVE  /\ run[c].rev \in 1..20 /\ run[c].way \in {"up", "down"} /\ version \in 0..20
         /\ Len(StatementsOf(run[c])) \in Nat
         /\ run[c].next \in 1..(Len(StatementsOf(run[c])) + 1)
         /\ run[c].pending \in Seq(DataStatements) /\ run[c].begun \in BOOLEAN
<1>1. run[c] \in Process /\ version \in 0..20
  BY LatestIs DEF IInv, TypeOK
<1>2. run[c].rev \in 1..20 /\ run[c].next \in 1..(Len(StatementsOf(run[c])) + 1)
  BY LatestIs DEF IInv, ScriptsRun
<1>3. run[c].way \in {"up", "down"} /\ run[c].pending \in Seq(DataStatements) /\ run[c].begun \in BOOLEAN
  BY <1>1 DEF Process
<1> QED
  BY <1>1, <1>2, <1>3, StatementsAre

\* A process that leaves its script, or was in none, leaves its work to the
\* others.
LEMMA Leaves ==
  ASSUME IInv, NEW c \in Containers, run'[c].at # "migrating",
         \A d \in Containers \ {c} : run'[d] = run[d],
         UNCHANGED << parts, version >>,
         aborted' = IF run[c].at = "migrating" /\ run[c].begun
                    THEN aborted \cup {run[c].rev} ELSE aborted
  PROVE  ScriptsRun' /\ PartsFollow' /\ \A d \in Containers : StageReached(d)'
<1>1. ScriptsRun'
  BY DEF IInv, ScriptsRun, StatementsOf, From
<1>2. ASSUME NEW C \in SUBSET Containers, c \in C PROVE Begun(C)' = Begun(C)
  BY <1>2 DEF Begun
<1>3. PartsFollow'
  BY <1>2 DEF IInv, PartsFollow, Schema
<1>4. ASSUME NEW d \in Containers PROVE StageReached(d)'
  <2>1. CASE d = c
    BY <2>1 DEF StageReached
  <2>2. CASE d # c
    <3>1. Begun(Containers \ {d})' = Begun(Containers \ {d})
      BY <1>2, <2>2
    <3>2. run'[d] = run[d]
      BY <2>2
    <3>3. StageReached(d)
      BY DEF IInv
    <3> QED
      BY <3>1, <3>2, <3>3 DEF StageReached, VersionFree
  <2> QED
    BY <2>1, <2>2
<1> QED
  BY <1>1, <1>3, <1>4

\* A process that takes up a script, from the version there is.
LEMMA TakesUp ==
  ASSUME IInv, NEW c \in Containers, run[c].at # "migrating",
         run'[c].rev \in 1..20, run'[c].way \in {"up", "down"}, run'[c].next = 1,
         ~ run'[c].begun, From(run'[c]) = version,
         \A d \in Containers \ {c} : run'[d] = run[d],
         UNCHANGED << parts, version, aborted >>,
         \A d \in Containers \ {c} :
           run[d].at = "migrating" => run'[c].way = "up" /\ run[d].way = "up"
  PROVE  ScriptsRun' /\ PartsFollow' /\ \A d \in Containers : StageReached(d)'
<1>1. Len(StatementsOf(run'[c])) \in Nat /\ version \in Nat
  BY StatementsAre, LatestIs DEF IInv, TypeOK
<1>2. ScriptsRun'
  <2> SUFFICES ASSUME NEW d \in Containers, run'[d].at = "migrating"
               PROVE  /\ run'[d].rev \in 1..Latest
                      /\ run'[d].next \in 1..(Len(StatementsOf(run'[d])) + 1)
                      /\ IF run'[d].way = "up" THEN From(run'[d]) <= version'
                         ELSE /\ From(run'[d]) = version'
                              /\ \A e \in Containers \ {d} : run'[e].at # "migrating"
    BY DEF ScriptsRun, From, StatementsOf
  <2>1. CASE d = c
    <3>1. run'[d].rev \in 1..Latest /\ run'[d].next \in 1..(Len(StatementsOf(run'[d])) + 1)
      BY <1>1, <2>1, LatestIs
    <3>2. From(run'[d]) = version'
      BY <2>1
    <3>3. run'[d].way # "up" => \A e \in Containers \ {d} : run'[e].at # "migrating"
      BY <2>1
    <3> QED
      BY <1>1, <3>1, <3>2, <3>3
  <2>2. CASE d # c
    BY <2>2 DEF IInv, ScriptsRun
  <2> QED
    BY <2>1, <2>2
<1>3. ASSUME NEW C \in SUBSET Containers PROVE Begun(C)' = Begun(C)
  BY DEF Begun
<1>4. PartsFollow'
  BY <1>3 DEF IInv, PartsFollow, Schema
<1>5. ASSUME NEW d \in Containers PROVE StageReached(d)'
  <2>1. CASE d = c
    <3>1. Stage(run'[c]) = Schema(version)
      BY StageFirst
    <3>2. Begun(Containers \ {c})' = Begun(Containers \ {c})
      BY <1>3
    <3>3. Begun(Containers) \subseteq Begun(Containers \ {c})
      BY DEF Begun
    <3>4. Confined(parts, Schema(version), Begun(Containers \ {c}))
      BY <3>3, ConfinedMore DEF IInv, PartsFollow
    <3> QED
      BY <2>1, <3>1, <3>2, <3>4 DEF StageReached, Stage, From, StatementsOf
  <2>2. CASE d # c
    <3>1. Begun(Containers \ {d})' = Begun(Containers \ {d})
      BY <1>3
    <3>2. run'[d] = run[d]
      BY <2>2
    <3>3. StageReached(d)
      BY DEF IInv
    <3> QED
      BY <3>1, <3>2, <3>3 DEF StageReached, VersionFree
  <2> QED
    BY <2>1, <2>2
<1> QED
  BY <1>2, <1>4, <1>5

\* The processes that start.
LEMMA AsleepIs ==
  ASSUME NEW a \in {"down", "migrating", "ready", "serving", "failed"}, NEW v \in 0..20
  PROVE  /\ Asleep \in Process
         /\ [Asleep EXCEPT !.at = a] \in Process
         /\ [Asleep EXCEPT !.at = a, !.rev = v] \in Process
         /\ [Asleep EXCEPT !.at = a, !.rev = v, !.way = "down"] \in Process
<1>1. Asleep \in Process
  BY LatestIs DEF Asleep, Process
<1>2. [Asleep EXCEPT !.at = a] \in Process
  BY <1>1 DEF Process
<1>3. [Asleep EXCEPT !.at = a, !.rev = v] \in Process
  BY <1>1, LatestIs DEF Process
<1>4. [Asleep EXCEPT !.at = a, !.rev = v, !.way = "down"] \in Process
  BY <1>1, LatestIs DEF Process
<1> QED
  BY <1>1, <1>2, <1>3, <1>4

LEMMA ApplicationInv == ASSUME IInv, Application PROVE IInv'
<1>1. UNCHANGED << parts, version, run, aborted >>
  BY DEF Application, UserJoins, AdminJoins, RecordMade
<1>2. DOMAIN rows' = Tables
  <2>1. DOMAIN rows = Tables
    BY DEF IInv, TypeOK
  <2> QED
    BY <2>1 DEF Application, UserJoins, AdminJoins, RecordMade
<1>3. TypeOK'
  BY <1>1, <1>2 DEF IInv, TypeOK
<1>4. ScriptsRun' /\ PartsFollow'
  BY <1>1 DEF IInv, ScriptsRun, PartsFollow, Begun, Schema
<1>5. ASSUME NEW c \in Containers PROVE StageReached(c)'
  <2>1. StageReached(c)
    BY DEF IInv
  <2> QED
    BY <1>1, <2>1 DEF StageReached, VersionFree, Begun, Stage
<1> QED
  BY <1>3, <1>4, <1>5 DEF IInv

LEMMA BootInv == ASSUME IInv, NEW c \in Containers, Boot(c) PROVE IInv'
<1>1. run \in [Containers -> Process] /\ version \in 0..20 /\ Latest = 20
  BY LatestIs DEF IInv, TypeOK
<1>2. /\ run[c].at = "down" /\ \A d \in Containers : run[d].way = "up"
      /\ UNCHANGED << parts, rows, version, aborted >>
      /\ \A d \in Containers \ {c} : run'[d] = run[d]
  BY <1>1 DEF Boot
<1>3. CASE version = 20
  <2>1. run' = [run EXCEPT ![c] = [Asleep EXCEPT !.at = "ready"]]
    BY <1>1, <1>3 DEF Boot
  <2>2. run'[c].at = "ready" /\ run'[c] \in Process
    <3>1. run'[c] = [Asleep EXCEPT !.at = "ready"]
      BY <1>1, <2>1
    <3>2. [Asleep EXCEPT !.at = "ready"] \in Process
      BY AsleepIs
    <3> QED
      BY <3>1, <3>2 DEF Asleep
  <2>3. TypeOK'
    BY <1>1, <1>2, <2>1, <2>2 DEF IInv, TypeOK
  <2>4. ScriptsRun' /\ PartsFollow' /\ \A d \in Containers : StageReached(d)'
    BY <1>2, <2>2, Leaves
  <2> QED
    BY <2>3, <2>4 DEF IInv
<1>4. CASE version # 20
  <2>1. run' = [run EXCEPT ![c] = [Asleep EXCEPT !.at = "migrating", !.rev = version + 1]]
    BY <1>1, <1>4 DEF Boot
  <2>2. /\ run'[c].at = "migrating" /\ run'[c].rev = version + 1 /\ run'[c].way = "up"
        /\ run'[c].next = 1 /\ ~ run'[c].begun /\ run'[c] \in Process
    <3>1. run'[c] = [Asleep EXCEPT !.at = "migrating", !.rev = version + 1]
      BY <1>1, <2>1
    <3>2. version + 1 \in 0..20
      BY <1>1, <1>4
    <3>3. [Asleep EXCEPT !.at = "migrating", !.rev = version + 1] \in Process
      BY <3>2, AsleepIs
    <3> QED
      BY <3>1, <3>3 DEF Asleep
  <2>3. TypeOK'
    BY <1>1, <1>2, <2>1, <2>2 DEF IInv, TypeOK
  <2>4. run'[c].rev \in 1..20 /\ From(run'[c]) = version
    BY <1>1, <1>4, <2>2 DEF From
  <2>5. ScriptsRun' /\ PartsFollow' /\ \A d \in Containers : StageReached(d)'
    BY <1>2, <2>2, <2>4, TakesUp
  <2> QED
    BY <2>3, <2>5 DEF IInv
<1> QED
  BY <1>3, <1>4

LEMMA DowngradeInv == ASSUME IInv, NEW c \in Containers, Downgrade(c) PROVE IInv'
<1>1. run \in [Containers -> Process] /\ version \in 0..20 /\ Latest = 20
  BY LatestIs DEF IInv, TypeOK
<1>2. /\ \A d \in Containers : run[d].at # "migrating"
      /\ run' = [run EXCEPT ![c] = [Asleep EXCEPT !.at = "migrating", !.rev = version, !.way = "down"]]
      /\ version > Floor
      /\ UNCHANGED << parts, rows, version, aborted >>
  BY DEF Downgrade, AtRest
<1>3. version \in 1..20
  BY <1>1, <1>2, SchemaMigrationAssumption
<1>4. /\ run'[c].at = "migrating" /\ run'[c].rev = version /\ run'[c].way = "down"
      /\ run'[c].next = 1 /\ ~ run'[c].begun /\ run'[c] \in Process
      /\ \A d \in Containers \ {c} : run'[d] = run[d]
  <2>1. run'[c] = [Asleep EXCEPT !.at = "migrating", !.rev = version, !.way = "down"]
    BY <1>1, <1>2
  <2>2. [Asleep EXCEPT !.at = "migrating", !.rev = version, !.way = "down"] \in Process
    BY <1>1, AsleepIs
  <2>3. \A d \in Containers \ {c} : run'[d] = run[d]
    BY <1>1, <1>2
  <2> QED
    BY <2>1, <2>2, <2>3 DEF Asleep
<1>5. TypeOK'
  BY <1>1, <1>2, <1>4 DEF IInv, TypeOK
<1>6. From(run'[c]) = version
  BY <1>4 DEF From
<1>7. ScriptsRun' /\ PartsFollow' /\ \A d \in Containers : StageReached(d)'
  BY <1>2, <1>3, <1>4, <1>6, TakesUp
<1> QED
  BY <1>5, <1>7 DEF IInv

\* The writes that a commit makes leave the tables in place.
LEMMA CommittedTables ==
  ASSUME IInv, NEW c \in Containers, run[c].at = "migrating"
  PROVE  DOMAIN Committed(run[c]) = Tables
BY Migrating, RewrittenTables DEF Committed, IInv, TypeOK

\* A process that goes on with its script.
LEMMA ContinuesInv ==
  ASSUME IInv, NEW c \in Containers, run[c].at = "migrating",
         run[c].next \in DOMAIN StatementsOf(run[c]),
         run'[c].at = "migrating", run'[c].rev = run[c].rev, run'[c].way = run[c].way,
         run'[c].next = run[c].next + 1,
         \A d \in Containers \ {c} : run'[d] = run[d],
         UNCHANGED << version, aborted >>,
         parts' = Altered(parts, StatementsOf(run[c])[run[c].next]),
         (run'[c].begun = run[c].begun /\ parts' = parts) \/ run'[c].begun
  PROVE  ScriptsRun' /\ PartsFollow' /\ \A d \in Containers : StageReached(d)'
<1> DEFINE p == run[c]
           s == StatementsOf(p)[p.next]
           v == p.rev
<1>1. /\ v \in 1..20 /\ p.way \in {"up", "down"} /\ Len(StatementsOf(p)) \in Nat
      /\ p.next \in 1..Len(StatementsOf(p))
  BY Migrating, StatementsAre
<1>2. IsStatement(s) /\ << s.table, s.name >> \in Touched[v]
  BY <1>1, StatementsAre
<1>3. StatementsOf(run'[c]) = StatementsOf(p) /\ From(run'[c]) = From(p)
  BY DEF StatementsOf, From
<1>4. Stage(run'[c]) = Altered(Stage(p), s)
  BY <1>1, StageNext
<1>5. ScriptsRun'
  <2>1. \A d \in Containers : run'[d].at = run[d].at /\ run'[d].rev = run[d].rev /\ run'[d].way = run[d].way
    OBVIOUS
  <2>2. \A d \in Containers : StatementsOf(run'[d]) = StatementsOf(run[d]) /\ From(run'[d]) = From(run[d])
    BY <2>1 DEF StatementsOf, From
  <2>3. run'[c].next \in 1..(Len(StatementsOf(run'[c])) + 1)
    BY <1>1, <1>3
  <2> SUFFICES ASSUME NEW d \in Containers, run'[d].at = "migrating"
               PROVE  /\ run'[d].rev \in 1..Latest
                      /\ run'[d].next \in 1..(Len(StatementsOf(run'[d])) + 1)
                      /\ IF run'[d].way = "up" THEN From(run'[d]) <= version'
                         ELSE /\ From(run'[d]) = version'
                              /\ \A e \in Containers \ {d} : run'[e].at # "migrating"
    BY DEF ScriptsRun, From, StatementsOf
  <2>4. /\ run[d].rev \in 1..Latest
        /\ run[d].next \in 1..(Len(StatementsOf(run[d])) + 1)
        /\ IF run[d].way = "up" THEN From(run[d]) <= version
           ELSE /\ From(run[d]) = version
                /\ \A e \in Containers \ {d} : run[e].at # "migrating"
    BY <2>1 DEF IInv, ScriptsRun
  <2>5. run'[d].next \in 1..(Len(StatementsOf(run'[d])) + 1)
    BY <2>3, <2>4
  <2> QED
    BY <2>1, <2>2, <2>4, <2>5
<1>6. /\ \A C \in SUBSET Containers : Begun(C) \subseteq Begun(C)'
      /\ Begun(Containers \ {c})' = Begun(Containers \ {c})
  BY DEF Begun
<1>7. parts' = parts \/ \A C \in SUBSET Containers : c \in C => v \in Begun(C)'
  BY DEF Begun
<1> HIDE DEF s, v, p
\* What all schemas are compared with.
<1>8. ASSUME NEW T, NEW C \in SUBSET Containers, c \in C, Confined(parts, T, Begun(C))
      PROVE  Confined(parts', T, Begun(C)')
  <2>1. Confined(parts, T, Begun(C)')
    BY <1>6, <1>8, ConfinedMore
  <2>2. CASE parts' = parts
    BY <2>1, <2>2
  <2>3. CASE v \in Begun(C)'
    <3>1. parts' = Altered(parts, s)
      BY DEF s, p
    <3> QED
      BY <1>2, <2>1, <2>3, <3>1, ConfinedAltered
  <2> QED
    BY <1>7, <1>8, <2>2, <2>3
<1>9. PartsFollow'
  <2>1. Confined(parts, Schema(version), Begun(Containers))
    BY DEF IInv, PartsFollow
  <2>2. Confined(parts', Schema(version), Begun(Containers)')
    BY <1>8, <2>1
  <2> QED
    BY <2>2 DEF PartsFollow, Schema
<1>10. ASSUME NEW d \in Containers PROVE StageReached(d)'
  <2>1. StageReached(d)
    BY DEF IInv
  <2>2. CASE d = c
    <3>1. VersionFree(run[c])' => VersionFree(run[c])
      BY <1>3 DEF VersionFree, p
    <3>2. ASSUME VersionFree(run[c]) PROVE Confined(parts, Stage(run[c]), Begun(Containers \ {c}))
      BY <2>1, <2>2, <3>2 DEF StageReached
    <3>3. ASSUME VersionFree(run[c])
          PROVE  Confined(parts', Stage(run'[c]), Begun(Containers \ {c})')
      <4>1. parts' = Altered(parts, s)
        BY DEF s, p
      <4> QED
        BY <1>2, <1>4, <1>6, <3>2, <3>3, <4>1, ConfinedBoth DEF p
    <3> QED
      BY <2>2, <3>1, <3>3 DEF StageReached, Stage, From, StatementsOf
  <2>3. CASE d # c
    <3>1. run'[d] = run[d] /\ c \in Containers \ {d}
      BY <2>3
    <3>2. ASSUME run[d].at = "migrating", VersionFree(run[d])
          PROVE  Confined(parts', Stage(run[d]), Begun(Containers \ {d})')
      BY <1>8, <2>1, <3>1, <3>2 DEF StageReached
    <3> QED
      BY <3>1, <3>2 DEF StageReached, VersionFree, Stage, Schema
  <2> QED
    BY <2>2, <2>3
<1> QED
  BY <1>5, <1>9, <1>10

LEMMA ExecuteDDLInv == ASSUME IInv, NEW c \in Containers, ExecuteDDL(c) PROVE IInv'
<1> DEFINE s == StatementsOf(run[c])[run[c].next]
<1>1. /\ run \in [Containers -> Process] /\ run[c].at = "migrating"
      /\ run[c].next \in DOMAIN StatementsOf(run[c])
      /\ UNCHANGED << version, aborted >>
      /\ parts' = Altered(parts, s)
      /\ rows' = Defined(Committed(run[c]), s)
      /\ run' = [run EXCEPT ![c].next = @ + 1, ![c].pending = << >>, ![c].begun = TRUE]
  BY DEF ExecuteDDL, IInv, TypeOK
<1> HIDE DEF s
<1>2. run[c] \in Process /\ run[c].next \in Nat
  BY <1>1 DEF Process
<1>3. /\ run'[c].at = "migrating" /\ run'[c].rev = run[c].rev /\ run'[c].way = run[c].way
      /\ run'[c].next = run[c].next + 1 /\ run'[c].begun
      /\ \A d \in Containers \ {c} : run'[d] = run[d]
  BY <1>1, <1>2 DEF Process
<1>4. run'[c] \in Process
  <2>1. run'[c] = [run[c] EXCEPT !.next = run[c].next + 1, !.pending = << >>, !.begun = TRUE]
    BY <1>1
  <2>2. run[c].next + 1 \in Nat /\ << >> \in Seq(DataStatements) /\ TRUE \in BOOLEAN
    BY <1>2
  <2> QED
    BY <1>2, <2>1, <2>2 DEF Process
<1>5. run' \in [Containers -> Process]
  BY <1>1, <1>3, <1>4
<1>6. DOMAIN rows' = Tables
  BY <1>1, CommittedTables, DefinedTables
<1>7. TypeOK'
  BY <1>1, <1>5, <1>6 DEF IInv, TypeOK
<1>8. ScriptsRun' /\ PartsFollow' /\ \A d \in Containers : StageReached(d)'
  BY <1>1, <1>3, ContinuesInv DEF s
<1> QED
  BY <1>7, <1>8 DEF IInv

LEMMA ExecuteWriteInv == ASSUME IInv, NEW c \in Containers, ExecuteWrite(c) PROVE IInv'
<1> DEFINE s == StatementsOf(run[c])[run[c].next]
<1>1. /\ run \in [Containers -> Process] /\ run[c].at = "migrating"
      /\ run[c].next \in DOMAIN StatementsOf(run[c])
      /\ UNCHANGED << parts, rows, version, aborted >>
      /\ s.do = "write"
      /\ run' = [run EXCEPT ![c].next = @ + 1, ![c].pending = Append(@, s.name)]
  BY DEF ExecuteWrite, IInv, TypeOK, IsDDL
<1>2. IsStatement(s)
  BY <1>1, Migrating, StatementsAre
<1> HIDE DEF s
<1>3. run[c] \in Process /\ run[c].next \in Nat /\ run[c].pending \in Seq(DataStatements)
  BY <1>1 DEF Process
<1>4. s.name \in DataStatements /\ parts = Altered(parts, s)
  BY <1>1, <1>2 DEF IsStatement, Altered
<1>5. /\ run'[c].at = "migrating" /\ run'[c].rev = run[c].rev /\ run'[c].way = run[c].way
      /\ run'[c].next = run[c].next + 1 /\ run'[c].begun = run[c].begun
      /\ \A d \in Containers \ {c} : run'[d] = run[d]
  BY <1>1, <1>3 DEF Process
<1>6. Append(run[c].pending, s.name) \in Seq(DataStatements)
  BY <1>3, <1>4
<1>7. run'[c] \in Process
  BY <1>1, <1>3, <1>6 DEF Process
<1>8. run' \in [Containers -> Process]
  BY <1>1, <1>5, <1>7
<1>9. TypeOK'
  BY <1>1, <1>8 DEF IInv, TypeOK
<1>10. ScriptsRun' /\ PartsFollow' /\ \A d \in Containers : StageReached(d)'
  BY <1>1, <1>4, <1>5, ContinuesInv DEF s
<1> QED
  BY <1>9, <1>10 DEF IInv

\* A script that is cut off.
LEMMA CutOffInv ==
  ASSUME IInv, NEW c \in Containers, run[c].at = "migrating",
         NEW at \in {"failed", "down"}, CutOff(c, at, run[c].begun),
         UNCHANGED << parts, version >>, DOMAIN rows' = Tables
  PROVE  IInv'
<1>1. run \in [Containers -> Process] /\ run' = [run EXCEPT ![c] = [Asleep EXCEPT !.at = at]]
  BY DEF IInv, TypeOK, CutOff
<1>2. run'[c].at = at /\ run'[c] \in Process /\ \A d \in Containers \ {c} : run'[d] = run[d]
  <2>1. run'[c] = [Asleep EXCEPT !.at = at] /\ \A d \in Containers \ {c} : run'[d] = run[d]
    BY <1>1
  <2>2. [Asleep EXCEPT !.at = at] \in Process
    BY AsleepIs
  <2> QED
    BY <2>1, <2>2 DEF Asleep
<1>3. run' \in [Containers -> Process]
  BY <1>1, <1>2
<1>4. aborted' = IF run[c].begun THEN aborted \cup {run[c].rev} ELSE aborted
  BY DEF CutOff
<1>5. TypeOK'
  BY <1>3, <1>4, Migrating, LatestIs DEF IInv, TypeOK
<1>6. ScriptsRun' /\ PartsFollow' /\ \A d \in Containers : StageReached(d)'
  BY <1>2, <1>4, Leaves
<1> QED
  BY <1>5, <1>6 DEF IInv

\* A process between two scripts.
LEMMA IdleInv ==
  ASSUME IInv, NEW c \in Containers, run[c].at # "migrating",
         run'[c].at # "migrating", run'[c] \in Process,
         run' \in [Containers -> Process], \A d \in Containers \ {c} : run'[d] = run[d],
         UNCHANGED << parts, version, aborted >>, DOMAIN rows' = Tables
  PROVE  IInv'
<1>1. TypeOK'
  BY DEF IInv, TypeOK
<1>2. ScriptsRun' /\ PartsFollow' /\ \A d \in Containers : StageReached(d)'
  BY Leaves
<1> QED
  BY <1>1, <1>2 DEF IInv

\* The end of a script: what the others have begun is still all that the schema
\* can differ by from the one of the new version.
LEMMA FinishInv == ASSUME IInv, NEW c \in Containers, Finish(c) PROVE IInv'
<1> DEFINE p == run[c]
<1>1. /\ p.at = "migrating" /\ p.next = Len(StatementsOf(p)) + 1
      /\ version = From(p) /\ version' = To(p)
      /\ rows' = Committed(p)
      /\ UNCHANGED << parts, aborted >>
      /\ run' = [run EXCEPT ![c] =
           IF p.way = "down" THEN Asleep
           ELSE IF p.rev = Latest THEN [Asleep EXCEPT !.at = "ready"]
           ELSE [Asleep EXCEPT !.at = "migrating", !.rev = p.rev + 1]]
  BY DEF Finish, VersionFree
<1>2. /\ run \in [Containers -> Process] /\ Latest = 20
      /\ p.rev \in 1..20 /\ p.way \in {"up", "down"} /\ version \in 0..20
  BY <1>1, Migrating, LatestIs DEF IInv, TypeOK
<1>3. \A d \in Containers \ {c} : run'[d] = run[d]
  BY <1>1
<1>4. ~ run'[c].begun /\ run'[c] \in Process
  <2>1. CASE p.way = "down"
    <3>1. run'[c] = Asleep
      BY <1>1, <1>2, <2>1
    <3> QED
      BY <3>1, AsleepIs DEF Asleep
  <2>2. CASE p.way = "up" /\ p.rev = 20
    <3>1. run'[c] = [Asleep EXCEPT !.at = "ready"]
      BY <1>1, <1>2, <2>2
    <3> QED
      BY <3>1, AsleepIs DEF Asleep
  <2>3. CASE p.way = "up" /\ p.rev # 20
    <3>1. run'[c] = [Asleep EXCEPT !.at = "migrating", !.rev = p.rev + 1]
      BY <1>1, <1>2, <2>3
    <3>2. p.rev + 1 \in 0..20
      BY <1>2, <2>3
    <3>3. [Asleep EXCEPT !.at = "migrating", !.rev = p.rev + 1] \in Process
      BY <3>2, AsleepIs
    <3> QED
      BY <3>1, <3>3 DEF Asleep
  <2> QED
    BY <1>2, <2>1, <2>2, <2>3
<1>5. run'[c].at = "migrating" =>
        /\ run'[c].rev \in 1..20 /\ run'[c].way = "up" /\ run'[c].next = 1
        /\ run'[c].rev = p.rev + 1 /\ p.way = "up"
  <2>1. CASE p.way = "down"
    <3>1. run'[c] = Asleep
      BY <1>1, <1>2, <2>1
    <3> QED
      BY <3>1 DEF Asleep
  <2>2. CASE p.way = "up" /\ p.rev = 20
    <3>1. run'[c] = [Asleep EXCEPT !.at = "ready"]
      BY <1>1, <1>2, <2>2
    <3> QED
      BY <3>1 DEF Asleep
  <2>3. CASE p.way = "up" /\ p.rev # 20
    <3>1. run'[c] = [Asleep EXCEPT !.at = "migrating", !.rev = p.rev + 1]
      BY <1>1, <1>2, <2>3
    <3>2. p.rev + 1 \in 1..20
      BY <1>2, <2>3
    <3> QED
      BY <2>3, <3>1, <3>2 DEF Asleep
  <2> QED
    BY <1>2, <2>1, <2>2, <2>3
<1>6. version' \in 0..20 /\ (p.way = "up" => version' = version + 1)
  BY <1>1, <1>2 DEF From, To
<1>7. TypeOK'
  <2>1. DOMAIN rows' = Tables
    BY <1>1, CommittedTables
  <2>2. run' \in [Containers -> Process]
    BY <1>1, <1>2, <1>4
  <2>3. version' \in 0..Latest /\ aborted' \subseteq 1..Latest
    BY <1>1, <1>2, <1>6 DEF IInv, TypeOK
  <2> QED
    BY <2>1, <2>2, <2>3 DEF TypeOK
<1>8. \A d \in Containers \ {c} : run[d].at = "migrating" =>
        p.way = "up" /\ run[d].way = "up" /\ From(run[d]) <= version /\ From(run[d]) \in Int
  <2>1. p.way = "down" => \A d \in Containers \ {c} : run[d].at # "migrating"
    BY <1>1 DEF IInv, ScriptsRun
  <2>2. ASSUME NEW d \in Containers \ {c}, run[d].at = "migrating"
        PROVE  run[d].way = "up" /\ From(run[d]) <= version /\ From(run[d]) \in Int
    <3>1. run[d].rev \in 1..20 /\ run[d].way \in {"up", "down"}
      BY <2>2, Migrating
    <3>2. run[d].way = "up"
      BY <1>1, <2>2, <3>1 DEF IInv, ScriptsRun
    <3> QED
      BY <2>2, <3>1, <3>2 DEF IInv, ScriptsRun, From
  <2> QED
    BY <1>2, <2>1, <2>2
<1>9. ScriptsRun'
  <2> SUFFICES ASSUME NEW d \in Containers, run'[d].at = "migrating"
               PROVE  /\ run'[d].rev \in 1..Latest
                      /\ run'[d].next \in 1..(Len(StatementsOf(run'[d])) + 1)
                      /\ IF run'[d].way = "up" THEN From(run'[d]) <= version'
                         ELSE /\ From(run'[d]) = version'
                              /\ \A e \in Containers \ {d} : run'[e].at # "migrating"
    BY DEF ScriptsRun, From, StatementsOf
  <2>1. CASE d = c
    <3>1. run'[d].rev \in 1..20 /\ run'[d].way = "up" /\ run'[d].next = 1
      BY <1>5, <2>1
    <3>2. Len(StatementsOf(run'[d])) \in Nat
      BY <3>1, StatementsAre
    <3>3. From(run'[d]) = version'
      BY <1>1, <1>2, <1>5, <2>1 DEF From, To
    <3>4. run'[d].next \in 1..(Len(StatementsOf(run'[d])) + 1)
      BY <3>1, <3>2
    <3>5. From(run'[d]) <= version'
      BY <1>6, <3>3
    <3> QED
      BY <1>2, <3>1, <3>4, <3>5
  <2>2. CASE d # c
    <3>1. run'[d] = run[d] /\ run[d].way = "up"
      BY <1>3, <1>8, <2>2
    <3>2. From(run[d]) <= version'
      BY <1>2, <1>6, <1>8, <2>2, <3>1
    <3> QED
      BY <3>1, <3>2 DEF IInv, ScriptsRun
  <2> QED
    BY <2>1, <2>2
<1>10. ASSUME NEW C \in SUBSET Containers PROVE Begun(C)' = Begun(C \ {c})
  BY <1>1, <1>3, <1>4 DEF Begun
<1>11. Confined(parts, Schema(To(p)), Begun(Containers \ {c}))
  <2>1. Confined(parts, Stage(p), Begun(Containers \ {c}))
    BY <1>1 DEF IInv, StageReached, VersionFree
  <2>2. Stage(p) = Schema(To(p))
    BY <1>1, <1>2, StageLast
  <2> QED
    BY <2>1, <2>2
<1>12. PartsFollow'
  BY <1>1, <1>10, <1>11 DEF PartsFollow, Schema
<1>13. ASSUME NEW d \in Containers PROVE StageReached(d)'
  <2>1. CASE d = c
    <3> SUFFICES ASSUME run'[c].at = "migrating"
                 PROVE  Confined(parts', Stage(run'[c]), Begun(Containers \ {c})')
      BY <2>1 DEF StageReached, Stage, From, StatementsOf, Schema
    <3>1. Stage(run'[c]) = Schema(From(run'[c]))
      BY <1>5, StageFirst
    <3>2. From(run'[c]) = To(p)
      BY <1>2, <1>5 DEF From, To
    <3>3. Begun(Containers \ {c})' = Begun(Containers \ {c})
      BY <1>10
    <3> QED
      BY <1>1, <1>11, <3>1, <3>2, <3>3
  <2>2. CASE d # c
    <3>1. run'[d] = run[d]
      BY <1>3, <2>2
    <3>2. run[d].at = "migrating" => From(run[d]) # version'
      BY <1>2, <1>6, <1>8, <2>2
    <3> QED
      BY <3>1, <3>2 DEF StageReached, VersionFree, From
  <2> QED
    BY <2>1, <2>2
<1> QED
  BY <1>7, <1>9, <1>12, <1>13 DEF IInv

LEMMA CutOffActions ==
  ASSUME IInv, NEW c \in Containers,
         DDLFails(c) \/ WriteFails(c) \/ Overtaken(c) \/ Crash(c)
  PROVE  IInv'
<1>1. CASE DDLFails(c)
  <2>1. /\ run[c].at = "migrating" /\ CutOff(c, "failed", run[c].begun)
        /\ UNCHANGED << parts, version >> /\ rows' = Committed(run[c])
    BY <1>1 DEF DDLFails
  <2>2. DOMAIN rows' = Tables
    BY <2>1, CommittedTables
  <2> QED
    BY <2>1, <2>2, CutOffInv
<1>2. CASE WriteFails(c) \/ Overtaken(c) \/ Crash(c)
  <2>1. /\ run[c].at = "migrating"
        /\ CutOff(c, "failed", run[c].begun) \/ CutOff(c, "down", run[c].begun)
        /\ UNCHANGED << parts, version, rows >>
    BY <1>2 DEF WriteFails, Overtaken, Crash
  <2>2. DOMAIN rows' = Tables
    BY <2>1 DEF IInv, TypeOK
  <2> QED
    BY <2>1, <2>2, CutOffInv
<1> QED
  BY <1>1, <1>2

LEMMA IdleActions ==
  ASSUME IInv, NEW c \in Containers, Restart(c) \/ Serve(c) \/ Stop(c)
  PROVE  IInv'
<1>1. run \in [Containers -> Process] /\ DOMAIN rows = Tables
  BY DEF IInv, TypeOK
<1>2. CASE Restart(c) \/ Stop(c)
  <2>1. /\ run[c].at # "migrating" /\ run' = [run EXCEPT ![c] = Asleep]
        /\ UNCHANGED << parts, version, aborted, rows >>
    BY <1>2 DEF Restart, Stop
  <2>2. /\ run'[c] = Asleep /\ run' \in [Containers -> Process]
        /\ \A d \in Containers \ {c} : run'[d] = run[d]
    BY <1>1, <2>1, AsleepIs
  <2>3. run'[c].at # "migrating" /\ run'[c] \in Process
    BY <2>2, AsleepIs DEF Asleep
  <2> QED
    BY <1>1, <2>1, <2>2, <2>3, IdleInv
<1>3. CASE Serve(c)
  <2>1. /\ run[c].at # "migrating" /\ run' = [run EXCEPT ![c].at = "serving"]
        /\ UNCHANGED << parts, version, aborted >>
    BY <1>3 DEF Serve
  <2>2. DOMAIN rows' = Tables
    BY <1>1, <1>3 DEF Serve
  <2>3. run'[c] = [run[c] EXCEPT !.at = "serving"] /\ \A d \in Containers \ {c} : run'[d] = run[d]
    BY <1>1, <2>1
  <2>4. run'[c].at # "migrating" /\ run'[c] \in Process
    BY <1>1, <2>3 DEF Process
  <2>5. run' \in [Containers -> Process]
    BY <1>1, <2>1, <2>4
  <2> QED
    BY <2>1, <2>2, <2>3, <2>4, <2>5, IdleInv
<1> QED
  BY <1>2, <1>3

LEMMA StepInv == IInv /\ [Next]_vars => IInv'
<1> SUFFICES ASSUME IInv, [Next]_vars PROVE IInv'
  OBVIOUS
<1>1. CASE Application
  BY <1>1, ApplicationInv
<1>2. ASSUME NEW c \in Containers, Alembic(c) PROVE IInv'
  BY <1>2, BootInv, ExecuteDDLInv, ExecuteWriteInv, FinishInv, CutOffActions, IdleActions DEF Alembic
<1>3. ASSUME NEW c \in Containers, Downgrade(c) \/ Crash(c) \/ Stop(c) PROVE IInv'
  BY <1>3, DowngradeInv, CutOffActions, IdleActions
<1>4. CASE UNCHANGED vars
  <2>1. TypeOK' /\ ScriptsRun' /\ PartsFollow'
    BY <1>4 DEF vars, IInv, TypeOK, ScriptsRun, PartsFollow, Begun, Schema
  <2>2. ASSUME NEW c \in Containers PROVE StageReached(c)'
    <3>1. StageReached(c)
      BY DEF IInv
    <3> QED
      BY <1>4, <3>1 DEF vars, StageReached, VersionFree, Begun, Stage
  <2> QED
    BY <2>1, <2>2 DEF IInv
<1> QED
  BY <1>1, <1>2, <1>3, <1>4 DEF Next

\* However many containers migrate at once, fail, die and are started again,
\* and whatever was downgraded between: each is within its script, and the
\* schema is what the version and the scripts under way say.
THEOREM Invariant == Spec => []IInv
<1>1. Init => IInv
  BY InitInv
<1>2. IInv /\ [Next]_vars => IInv'
  BY StepInv
<1> QED
  BY <1>1, <1>2, PTL DEF Spec

\* alembic_version tells the schema, but for what the scripts that run or that
\* were cut off create, alter or drop.
THEOREM VersionTellsSchema == Spec => []DamageConfined
<1>1. IInv => DamageConfined
  <2> SUFFICES ASSUME IInv PROVE DamageConfined
    OBVIOUS
  <2>1. Begun(Containers) \subseteq Suspects
    BY DEF Begun, Suspects
  <2> QED
    BY <2>1, ConfinedMore DEF IInv, PartsFollow, DamageConfined
<1> QED
  BY <1>1, Invariant, PTL

\* While no script runs and none was cut off before, the schema is exactly the
\* one of the recorded revision, whatever was upgraded and downgraded.
THEOREM SchemaAtRest == Spec => [](AtRest /\ aborted = {} => parts = Schema(version))
<1>1. IInv => (AtRest /\ aborted = {} => parts = Schema(version))
  <2> SUFFICES ASSUME IInv, AtRest, aborted = {} PROVE parts = Schema(version)
    OBVIOUS
  <2>1. Begun(Containers) = {}
    BY DEF Begun, AtRest
  <2> QED
    BY <2>1 DEF IInv, PartsFollow, Confined
<1> QED
  BY <1>1, Invariant, PTL

=============================================================================
