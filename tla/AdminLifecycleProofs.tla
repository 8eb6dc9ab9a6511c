------------------------ MODULE AdminLifecycleProofs ------------------------
(***************************************************************************)
(* The root stands, for any number of workers, admins and requests.  The   *)
(* inductive invariant is TypeOK /\ Reserved: a write that could end or    *)
(* duplicate the root would have to name a column no request carries or a  *)
(* username the UNIQUE index refuses, and a worker that lost the race for  *)
(* the insert knows the winner's row by its username.                      *)
(***************************************************************************)
EXTENDS AdminLifecycle, TLAPS

Inv == TypeOK /\ Reserved

\* The constants mean what their declaration says.
USE DEF SUPER_ADMIN, ROOT

\* What an UPDATE makes of a row: a row, whose username and protection are the
\* old ones, and whose other columns come from the patch or from the old row.
LEMMA PatchedRow ==
  ASSUME NEW row \in Row, NEW cols,
         \A c \in DOMAIN cols : c \in DOMAIN Column /\ cols[c] \in Column[c]
  PROVE  /\ Patched(row, cols) \in Row
         /\ Patched(row, cols).username = row.username
         /\ Patched(row, cols).is_protected = row.is_protected
<1> DEFINE new == Patched(row, cols)
           Fields == {"username", "name", "admin_role", "is_protected",
                      "archived_at", "archived_by", "deleted_at", "deleted_by"}
<1>1. DOMAIN row = Fields
  BY DEF Row
<1>2. DOMAIN cols \subseteq Fields \ {"username", "is_protected"}
  BY DEF Column
<1>3. new = [c \in Fields |-> IF c \in DOMAIN cols THEN cols[c] ELSE row[c]]
  BY <1>1, <1>2 DEF Patched
<1>4. new["username"] = row["username"] /\ new["is_protected"] = row["is_protected"]
  BY <1>2, <1>3
<1>5. /\ new["name"] \in Names /\ new["admin_role"] \in Roles
      /\ new["archived_at"] \in Stamp /\ new["archived_by"] \in Stamp
      /\ new["deleted_at"] \in Stamp /\ new["deleted_by"] \in Stamp
  BY <1>3 DEF Column, Row
<1>6. new \in Row
  BY <1>3, <1>4, <1>5 DEF Row
<1> QED
  BY <1>4, <1>6


\* A pending write as TypeOK and Reserved describe it, against a table.
Sound(q, table) ==
  /\ q.op \in Ops /\ q.actor \in Ids /\ q.target \in Ids
  /\ IF q.op = "create"
     THEN q.cols \in Row /\ ~q.cols.is_protected /\ q.cols.username # RootName
     ELSE /\ DOMAIN q.cols # {}
          /\ \A c \in DOMAIN q.cols :
               c \in DOMAIN Column /\ q.cols[c] \in Column[c]
          /\ table[q.target] # None

\* What Reserved asks of the table alone.
Table(table) ==
  /\ table \in [Ids -> Row \cup {None}]
  /\ \A a \in Ids : table[a] # None =>
       /\ table[a].is_protected <=> table[a].username = RootName
       /\ Checks(table[a])
  /\ \A a, b \in Ids : table[a] # None /\ table[b] # None /\ a # b
                          => table[a].username # table[b].username

Seated(table) == \E a \in Ids : table[a] # None /\ table[a].is_protected

LEMMA InvParts ==
  Inv <=> /\ Table(admins)
          /\ \A r \in Requests : req[r] # None => Sound(req[r], admins)
          /\ worker \in [Workers -> {"down", "hashing", "up"}]
          /\ (\E w \in Workers : worker[w] = "up") => Seated(admins)
BY DEF Inv, TypeOK, Reserved, Table, Sound, Seated, ProtectedRootExists, Exists

LEMMA InvPartsPrime ==
  Inv' <=> /\ Table(admins')
           /\ \A r \in Requests : req'[r] # None => Sound(req'[r], admins')
           /\ worker' \in [Workers -> {"down", "hashing", "up"}]
           /\ (\E w \in Workers : worker'[w] = "up") => Seated(admins')
BY DEF Inv, TypeOK, Reserved, Table, Sound, Seated, ProtectedRootExists, Exists,
       Free, Checks

-----------------------------------------------------------------------------

\* An INSERT that the constraints accept keeps the table in order, and every
\* row that was there.
LEMMA InsertKeeps ==
  ASSUME Table(admins), NEW row \in Row, NEW a \in Ids,
         Free(row.username), Checks(row), ~Exists(a),
         admins' = [admins EXCEPT ![a] = row],
         row.is_protected <=> row.username = RootName
  PROVE  /\ Table(admins')
         /\ \A b \in Ids : admins[b] # None => admins'[b] # None
         /\ Seated(admins) \/ row.is_protected => Seated(admins')
<1>1. admins'[a] = row /\ \A b \in Ids : b # a => admins'[b] = admins[b]
  BY DEF Table
<1>2. row # None
  BY AdminLifecycleAssumption
<1>3. Table(admins')
  <2>1. admins' \in [Ids -> Row \cup {None}]
    BY DEF Table
  <2>2. \A b \in Ids : admins'[b] # None =>
          /\ admins'[b].is_protected <=> admins'[b].username = RootName
          /\ Checks(admins'[b])
    BY <1>1 DEF Table
  <2>3. \A b, c \in Ids : admins'[b] # None /\ admins'[c] # None /\ b # c
                            => admins'[b].username # admins'[c].username
    BY <1>1 DEF Table, Free, Exists
  <2> QED
    BY <2>1, <2>2, <2>3 DEF Table
<1>4. Seated(admins) \/ row.is_protected => Seated(admins')
  BY <1>1, <1>2 DEF Seated, Exists
<1> QED
  BY <1>1, <1>2, <1>3, <1>4 DEF Exists

\* So does an UPDATE of mutable columns.
LEMMA UpdateKeeps ==
  ASSUME Table(admins), NEW a \in Ids, admins[a] # None, NEW cols,
         \A c \in DOMAIN cols : c \in DOMAIN Column /\ cols[c] \in Column[c],
         Checks(Patched(admins[a], cols)),
         admins' = [admins EXCEPT ![a] = Patched(@, cols)]
  PROVE  /\ Table(admins')
         /\ \A b \in Ids : admins[b] # None => admins'[b] # None
         /\ Seated(admins) => Seated(admins')
<1> DEFINE new == Patched(admins[a], cols)
<1>1. admins[a] \in Row
  BY DEF Table
<1>2. /\ new \in Row
      /\ new.username = admins[a].username
      /\ new.is_protected = admins[a].is_protected
  BY <1>1, PatchedRow
<1>3. new # None
  BY <1>2, AdminLifecycleAssumption
<1>4. admins'[a] = new /\ \A b \in Ids : b # a => admins'[b] = admins[b]
  BY DEF Table
<1> HIDE DEF new
<1>5. Table(admins')
  <2>1. admins' \in [Ids -> Row \cup {None}]
    BY <1>2 DEF Table, new
  <2>2. \A b \in Ids : admins'[b] # None =>
          /\ admins'[b].is_protected <=> admins'[b].username = RootName
          /\ Checks(admins'[b])
    BY <1>2, <1>4 DEF Table, new
  <2>3. \A b, c \in Ids : admins'[b] # None /\ admins'[c] # None /\ b # c
                            => admins'[b].username # admins'[c].username
    BY <1>2, <1>4 DEF Table
  <2> QED
    BY <2>1, <2>2, <2>3 DEF Table
<1>6. Seated(admins) => Seated(admins')
  BY <1>2, <1>3, <1>4 DEF Seated
<1> QED
  BY <1>3, <1>4, <1>5, <1>6

\* A read leaves the table alone; what it puts in its slot is sound.
LEMMA BeginKeeps ==
  ASSUME Inv, NEW r \in Requests, NEW op \in Ops \ {"create"},
         NEW actor \in Ids, NEW target \in Ids, NEW cols,
         \A c \in DOMAIN cols : c \in DOMAIN Column /\ cols[c] \in Column[c],
         Exists(target), Begin(r, op, actor, target, cols)
  PROVE  Inv'
<1> DEFINE dirty == Dirty(admins[target], cols)
<1>1. /\ DOMAIN dirty # {}
      /\ req' = [req EXCEPT ![r] = [op |-> op, actor |-> actor,
                                    target |-> target, cols |-> dirty]]
      /\ admins' = admins /\ worker' = worker
  BY DEF Begin
<1>2. \A c \in DOMAIN dirty : c \in DOMAIN Column /\ dirty[c] \in Column[c]
  BY DEF Dirty
<1>3. ASSUME NEW s \in Requests, req'[s] # None
      PROVE  Sound(req'[s], admins')
  <2>1. CASE s = r /\ r \in DOMAIN req
    <3> HIDE DEF dirty
    <3> QED BY <1>1, <1>2, <2>1 DEF Sound, Exists
  <2>2. CASE s # r \/ r \notin DOMAIN req
    <3>1. req'[s] = req[s]
      BY <1>1, <2>2
    <3> QED BY <1>1, <1>3, <3>1, InvParts
  <2> QED BY <2>1, <2>2
<1> QED
  BY <1>1, <1>3, InvParts, InvPartsPrime

-----------------------------------------------------------------------------

LEMMA InitInv ==
  ASSUME RootName \notin LegacyNames, Init
  PROVE  Inv
<1>1. ASSUME NEW a \in Ids, admins[a] # None
      PROVE  /\ admins[a] \in Row
             /\ admins[a].username # RootName /\ ~admins[a].is_protected
  BY <1>1 DEF Init, Legacy
<1>2. admins \in [Ids -> Row \cup {None}]
  BY <1>1 DEF Init
<1>3. Table(admins)
  BY <1>1, <1>2 DEF Table, Checks, Init
<1> QED
  BY <1>3, InvParts DEF Init

LEMMA NextInv == Inv /\ [Next]_vars => Inv'
<1> SUFFICES ASSUME Inv, [Next]_vars PROVE Inv'
  OBVIOUS
<1>0. /\ Table(admins)
      /\ \A r \in Requests : req[r] # None => Sound(req[r], admins)
      /\ worker \in [Workers -> {"down", "hashing", "up"}]
      /\ (\E w \in Workers : worker[w] = "up") => Seated(admins)
  BY InvParts
<1>1. ASSUME NEW w \in Workers, BootstrapSeed(w) PROVE Inv'
  BY <1>0, <1>1, InvPartsPrime DEF BootstrapSeed
<1>2. ASSUME NEW w \in Workers, BootstrapSkip(w) PROVE Inv'
  <2>1. Seated(admins)
    BY <1>2 DEF BootstrapSkip, ProtectedRootExists, Exists, Seated
  <2> QED
    BY <1>0, <1>2, <2>1, InvPartsPrime DEF BootstrapSkip
<1>3. ASSUME NEW w \in Workers, BootstrapInsert(w) PROVE Inv'
  <2>1. PICK n \in Names : Insert(NewRow(RootName, n, ROOT, TRUE))
    BY <1>3 DEF BootstrapInsert
  <2> DEFINE row == NewRow(RootName, n, ROOT, TRUE)
  <2>2. row \in Row /\ row.username = RootName /\ row.is_protected
    BY AdminLifecycleAssumption DEF NewRow, Row, Stamp
  <2> HIDE DEF row
  <2>3. /\ Table(admins') /\ Seated(admins')
        /\ \A a \in Ids : admins[a] # None => admins'[a] # None
    <3>1. PICK a \in Ids : ~Exists(a) /\ admins' = [admins EXCEPT ![a] = row]
      BY <2>1 DEF Insert, row
    <3>2. Free(row.username) /\ Checks(row)
      BY <2>1 DEF Insert, row
    <3> QED
      BY <1>0, <2>2, <3>1, <3>2, InsertKeeps
  <2>4. \A r \in Requests : req'[r] # None => Sound(req'[r], admins')
    BY <1>0, <1>3, <2>3 DEF BootstrapInsert, Sound
  <2> QED
    BY <1>0, <1>3, <2>3, <2>4, InvPartsPrime DEF BootstrapInsert
<1>4. ASSUME NEW w \in Workers, BootstrapLost(w) PROVE Inv'
  \* The row that holds the reserved username is the root.
  <2>1. Seated(admins)
    BY <1>0, <1>4 DEF BootstrapLost, Free, Exists, Table, Seated
  <2> QED
    BY <1>0, <1>4, <2>1, InvPartsPrime DEF BootstrapLost
<1>5. ASSUME NEW w \in Workers, Crash(w) PROVE Inv'
  BY <1>0, <1>5, InvPartsPrime DEF Crash
<1>6. ASSUME NEW r \in Requests, Write(r) PROVE Inv'
  <2> DEFINE q == req[r]
  <2>1. Sound(q, admins)
    BY <1>0, <1>6 DEF Write
  <2>2. /\ Table(admins')
        /\ \A a \in Ids : admins[a] # None => admins'[a] # None
        /\ Seated(admins) => Seated(admins')
    <3>1. CASE q.op = "create"
      <4>1. /\ q.cols \in Row /\ q.cols.username # RootName
            /\ ~q.cols.is_protected
        BY <2>1, <3>1 DEF Sound
      <4>2. PICK a \in Ids :
              ~Exists(a) /\ admins' = [admins EXCEPT ![a] = q.cols]
        BY <1>6, <3>1 DEF Write, Insert
      <4>3. Free(q.cols.username) /\ Checks(q.cols)
        BY <1>6, <3>1 DEF Write, Insert
      <4> QED
        BY <1>0, <4>1, <4>2, <4>3, InsertKeeps
    <3>2. CASE q.op # "create"
      <4>1. /\ q.target \in Ids /\ admins[q.target] # None
            /\ \A c \in DOMAIN q.cols :
                 c \in DOMAIN Column /\ q.cols[c] \in Column[c]
            /\ Checks(Patched(admins[q.target], q.cols))
            /\ admins' = [admins EXCEPT ![q.target] = Patched(@, q.cols)]
        BY <1>6, <2>1, <3>2 DEF Write, Sound
      <4> QED
        BY <1>0, <4>1, UpdateKeeps
    <3> QED
      BY <3>1, <3>2
  <2>3. \A s \in Requests : req'[s] # None => req'[s] = req[s]
    BY <1>6 DEF Write
  <2>4. \A s \in Requests : req'[s] # None => Sound(req'[s], admins')
    BY <1>0, <2>2, <2>3 DEF Sound
  <2> QED
    BY <1>0, <1>6, <2>2, <2>4, InvPartsPrime DEF Write
<1>7. ASSUME NEW r \in Requests, Rollback(r) PROVE Inv'
  <2>1. \A s \in Requests : req'[s] # None => req'[s] = req[s]
    BY <1>7 DEF Rollback
  <2> QED
    BY <1>0, <1>7, <2>1, InvPartsPrime DEF Rollback
<1>8. ASSUME NEW r \in Requests, NEW actor \in Ids, CreateRead(r, actor)
      PROVE  Inv'
  <2>1. PICK u \in Usernames \ {RootName}, n \in Names, role \in Roles :
          req' = [req EXCEPT ![r] =
                    [op |-> "create", actor |-> actor, target |-> actor,
                     cols |-> NewRow(u, n, role, FALSE)]]
    BY <1>8 DEF CreateRead
  <2> DEFINE row == NewRow(u, n, role, FALSE)
  <2>2. row \in Row /\ row.username # RootName /\ ~row.is_protected
    BY DEF NewRow, Row, Stamp
  <2> HIDE DEF row
  <2>3. ASSUME NEW s \in Requests, req'[s] # None PROVE Sound(req'[s], admins')
    <3>1. CASE s = r /\ r \in DOMAIN req
      BY <2>1, <2>2, <3>1 DEF Sound, Ops, row
    <3>2. CASE s # r \/ r \notin DOMAIN req
      <4>1. req'[s] = req[s]
        BY <2>1, <3>2
      <4> QED
        BY <1>0, <1>8, <2>3, <4>1 DEF CreateRead
    <3> QED
      BY <3>1, <3>2
  <2> QED
    BY <1>0, <1>8, <2>3, InvPartsPrime DEF CreateRead
<1>9. ASSUME NEW r \in Requests, NEW actor \in Ids, NEW target \in Ids,
             Manage(r, actor, target)
      PROVE  Inv'
  <2>1. CASE UpdateRead(r, actor, target)
    <3>1. PICK n \in Names : Begin(r, "update", actor, target, [name |-> n])
      BY <2>1 DEF UpdateRead
    <3> QED
      BY <2>1, <3>1, BeginKeeps DEF UpdateRead, Found, Ops, Column
  <2>2. CASE SetAdminRoleRead(r, actor, target)
    <3>1. PICK role \in Roles :
            Begin(r, "role", actor, target, [admin_role |-> role])
      BY <2>2 DEF SetAdminRoleRead
    <3> QED
      BY <2>2, <3>1, BeginKeeps DEF SetAdminRoleRead, Found, Ops, Column
  <2>3. CASE ArchiveRead(r, actor, target)
    BY <2>3, BeginKeeps DEF ArchiveRead, Found, Ops, Column, Stamp
  <2>4. CASE UnarchiveRead(r, actor, target)
    BY <2>4, BeginKeeps DEF UnarchiveRead, Found, Ops, Column, Stamp
  <2>5. CASE DeleteRead(r, actor, target)
    BY <2>5, BeginKeeps DEF DeleteRead, Found, Ops, Column, Stamp
  <2>6. CASE RestoreRead(r, actor, target)
    BY <2>6, BeginKeeps DEF RestoreRead, Ops, Column, Stamp
  <2> QED
    BY <1>9, <2>1, <2>2, <2>3, <2>4, <2>5, <2>6 DEF Manage
<1>10. CASE UNCHANGED vars
  BY <1>0, <1>10, InvPartsPrime DEF vars
<1> QED
  BY <1>1, <1>2, <1>3, <1>4, <1>5, <1>6, <1>7, <1>8, <1>9, <1>10
  DEF Next, Bootstrap

\* Unless an admin has the reserved username before the first start, the
\* invariant holds in every reachable state: rows and pending writes are
\* of their types, and the reserved username marks the one protected row.
\* service_initial_admin.py, service_admin.py
THEOREM Invariant ==
  ASSUME RootName \notin LegacyNames
  PROVE  Spec => [](TypeOK /\ Reserved)
<1>1. Init => Inv
  BY InitInv
<1>2. Inv => TypeOK /\ Reserved
  BY DEF Inv
<1> QED
  BY <1>1, <1>2, NextInv, PTL DEF Spec

\* Under the same condition there is a root from the moment a worker serves
\* requests, active, of the highest grade and the only one, for any number of
\* workers, rows and requests.
\* ensure_initial_admin, the guards of AdminService, the CHECK constraints
THEOREM RootStands ==
  ASSUME RootName \notin LegacyNames
  PROVE  Spec => []RootFloor
<1>1. Inv => RootFloor
  <2> SUFFICES ASSUME Inv PROVE RootFloor
    OBVIOUS
  <2>1. \A a, b \in Protected : a = b
    <3>1. \A a \in Protected : a \in Ids /\ admins[a] # None
                               /\ admins[a].username = RootName
      BY DEF Inv, Reserved, Protected, Exists
    <3> QED
      BY <3>1 DEF Inv, Reserved, Exists
  <2>2. \A a \in Protected : IsActive(admins[a]) /\ admins[a].admin_role = ROOT
    <3>1. \A a \in Protected : admins[a].is_protected /\ Checks(admins[a])
      BY DEF Inv, Reserved, Protected, Exists
    <3> QED
      BY <3>1 DEF Checks, IsActive
  <2>3. (\E w \in Workers : worker[w] = "up") => Protected # {}
    BY DEF Inv, Reserved, Protected, ProtectedRootExists
  <2> QED
    BY <2>1, <2>2, <2>3 DEF RootFloor
<1>2. TypeOK /\ Reserved => Inv
  BY DEF Inv
<1> QED
  BY <1>1, <1>2, Invariant, PTL

-----------------------------------------------------------------------------
(* Types, whatever names there were before the first start *)

\* A pending write has its type, and the row it lands on is there.
TypedWrite(q, table) ==
  /\ q.op \in Ops /\ q.actor \in Ids /\ q.target \in Ids
  /\ IF q.op = "create" THEN q.cols \in Row
     ELSE /\ DOMAIN q.cols # {}
          /\ \A c \in DOMAIN q.cols :
               c \in DOMAIN Column /\ q.cols[c] \in Column[c]
          /\ table[q.target] # None

Typed ==
  /\ admins \in [Ids -> Row \cup {None}]
  /\ DOMAIN req = Requests
  /\ \A r \in Requests : req[r] # None => TypedWrite(req[r], admins)
  /\ worker \in [Workers -> {"down", "hashing", "up"}]

\* A read leaves the table alone; what it puts in its slot has its type.
LEMMA BeginTyped ==
  ASSUME Typed, NEW r \in Requests, NEW op \in Ops \ {"create"},
         NEW actor \in Ids, NEW target \in Ids, NEW cols,
         \A c \in DOMAIN cols : c \in DOMAIN Column /\ cols[c] \in Column[c],
         Exists(target), Begin(r, op, actor, target, cols)
  PROVE  Typed'
<1> DEFINE dirty == Dirty(admins[target], cols)
           q == [op |-> op, actor |-> actor, target |-> target, cols |-> dirty]
<1>1. /\ DOMAIN dirty # {} /\ req' = [req EXCEPT ![r] = q]
      /\ admins' = admins /\ worker' = worker
  BY DEF Begin
<1>2. \A c \in DOMAIN dirty : c \in DOMAIN Column /\ dirty[c] \in Column[c]
  BY DEF Dirty
<1> HIDE DEF dirty
<1>3. TypedWrite(q, admins)
  BY <1>1, <1>2 DEF TypedWrite, Exists
<1> HIDE DEF q
<1>4. DOMAIN req' = Requests /\ \A s \in Requests : req'[s] = IF s = r THEN q ELSE req[s]
  BY <1>1 DEF Typed
<1> QED
  BY <1>1, <1>3, <1>4 DEF Typed

LEMMA ManageTyped ==
  ASSUME Typed, NEW r \in Requests, NEW actor \in Ids, NEW target \in Ids,
         Manage(r, actor, target)
  PROVE  Typed'
<1>1. CASE UpdateRead(r, actor, target)
  <2>1. PICK n \in Names : Begin(r, "update", actor, target, [name |-> n])
    BY <1>1 DEF UpdateRead
  <2> QED
    BY <1>1, <2>1, BeginTyped DEF UpdateRead, Found, Ops, Column
<1>2. CASE SetAdminRoleRead(r, actor, target)
  <2>1. PICK role \in Roles : Begin(r, "role", actor, target, [admin_role |-> role])
    BY <1>2 DEF SetAdminRoleRead
  <2> QED
    BY <1>2, <2>1, BeginTyped DEF SetAdminRoleRead, Found, Ops, Column
<1>3. CASE ArchiveRead(r, actor, target)
  BY <1>3, BeginTyped DEF ArchiveRead, Found, Ops, Column, Stamp
<1>4. CASE UnarchiveRead(r, actor, target)
  BY <1>4, BeginTyped DEF UnarchiveRead, Found, Ops, Column, Stamp
<1>5. CASE DeleteRead(r, actor, target)
  BY <1>5, BeginTyped DEF DeleteRead, Found, Ops, Column, Stamp
<1>6. CASE RestoreRead(r, actor, target)
  BY <1>6, BeginTyped DEF RestoreRead, Ops, Column, Stamp
<1> QED
  BY <1>1, <1>2, <1>3, <1>4, <1>5, <1>6 DEF Manage

LEMMA NextTyped == Typed /\ [Next]_vars => Typed'
<1> SUFFICES ASSUME Typed, [Next]_vars PROVE Typed'
  OBVIOUS
<1>0. /\ admins \in [Ids -> Row \cup {None}] /\ DOMAIN req = Requests
      /\ \A r \in Requests : req[r] # None => TypedWrite(req[r], admins)
      /\ worker \in [Workers -> {"down", "hashing", "up"}]
  BY DEF Typed
\* The rows that are there stay there.
<1>1. ASSUME NEW row \in Row, NEW a \in Ids, admins' = [admins EXCEPT ![a] = row]
      PROVE  /\ admins' \in [Ids -> Row \cup {None}]
             /\ \A q : TypedWrite(q, admins) => TypedWrite(q, admins')
  <2>1. \A b \in Ids : admins[b] # None => admins'[b] # None
    BY <1>0, <1>1, AdminLifecycleAssumption
  <2>2. admins' \in [Ids -> Row \cup {None}]
    BY <1>0, <1>1
  <2>3. \A q : TypedWrite(q, admins) => TypedWrite(q, admins')
    BY <2>1 DEF TypedWrite
  <2> QED
    BY <2>2, <2>3
<1>2. ASSUME NEW r \in Requests, req' = [req EXCEPT ![r] = None]
      PROVE  DOMAIN req' = Requests /\ \A s \in Requests : req'[s] # None => req'[s] = req[s]
  BY <1>0, <1>2
<1>3. ASSUME NEW w \in Workers, BootstrapInsert(w) PROVE Typed'
  <2>1. PICK n \in Names : Insert(NewRow(RootName, n, ROOT, TRUE))
    BY <1>3 DEF BootstrapInsert
  <2> DEFINE row == NewRow(RootName, n, ROOT, TRUE)
  <2>2. row \in Row
    BY AdminLifecycleAssumption DEF NewRow, Row, Stamp
  <2> HIDE DEF row
  <2>3. PICK a \in Ids : ~Exists(a) /\ admins' = [admins EXCEPT ![a] = row]
    BY <2>1 DEF Insert, row
  <2> QED
    BY <1>0, <1>1, <1>3, <2>2, <2>3 DEF Typed, BootstrapInsert
<1>4. ASSUME NEW w \in Workers,
             \/ BootstrapSeed(w) \/ BootstrapSkip(w)
             \/ BootstrapLost(w) \/ Crash(w)
      PROVE  Typed'
  BY <1>0, <1>4 DEF Typed, BootstrapSeed, BootstrapSkip, BootstrapLost, Crash
<1>5. ASSUME NEW r \in Requests, Write(r) PROVE Typed'
  <2>1. TypedWrite(req[r], admins) /\ req' = [req EXCEPT ![r] = None] /\ worker' = worker
    BY <1>0, <1>5 DEF Write
  <2>2. PICK row \in Row, a \in Ids : admins' = [admins EXCEPT ![a] = row]
    <3>1. CASE req[r].op = "create"
      BY <1>5, <2>1, <3>1 DEF Write, Insert, TypedWrite
    <3>2. CASE req[r].op # "create"
      <4>1. /\ req[r].target \in Ids /\ admins[req[r].target] \in Row
            /\ \A c \in DOMAIN req[r].cols : c \in DOMAIN Column /\ req[r].cols[c] \in Column[c]
        BY <1>0, <2>1, <3>2 DEF TypedWrite
      <4>2. Patched(admins[req[r].target], req[r].cols) \in Row
        BY <4>1, PatchedRow
      <4> QED
        BY <1>5, <3>2, <4>1, <4>2 DEF Write
    <3> QED
      BY <3>1, <3>2
  <2> QED
    BY <1>0, <1>1, <1>2, <2>1, <2>2 DEF Typed
<1>6. ASSUME NEW r \in Requests, Rollback(r) PROVE Typed'
  BY <1>0, <1>2, <1>6 DEF Typed, Rollback
<1>7. ASSUME NEW r \in Requests, NEW actor \in Ids, CreateRead(r, actor)
      PROVE  Typed'
  <2>1. PICK u \in Usernames, n \in Names, role \in Roles :
          req' = [req EXCEPT ![r] =
                    [op |-> "create", actor |-> actor, target |-> actor,
                     cols |-> NewRow(u, n, role, FALSE)]]
    BY <1>7 DEF CreateRead
  <2> DEFINE q == [op |-> "create", actor |-> actor, target |-> actor,
                   cols |-> NewRow(u, n, role, FALSE)]
  <2>2. NewRow(u, n, role, FALSE) \in Row
    BY DEF NewRow, Row, Stamp
  <2>3. TypedWrite(q, admins)
    BY <2>2 DEF TypedWrite, Ops
  <2> HIDE DEF q
  <2>4. DOMAIN req' = Requests /\ \A s \in Requests : req'[s] = IF s = r THEN q ELSE req[s]
    BY <1>0, <2>1 DEF q
  <2> QED
    BY <1>0, <1>7, <2>3, <2>4 DEF Typed, CreateRead
<1>8. ASSUME NEW r \in Requests, NEW actor \in Ids, NEW target \in Ids,
             Manage(r, actor, target)
      PROVE  Typed'
  BY <1>8, ManageTyped
<1>9. CASE UNCHANGED vars
  BY <1>0, <1>9 DEF Typed, vars
<1> QED
  BY <1>3, <1>4, <1>5, <1>6, <1>7, <1>8, <1>9 DEF Next, Bootstrap

LEMMA InitTyped == Init => Typed
<1> SUFFICES ASSUME Init PROVE Typed
  OBVIOUS
<1>1. admins \in [Ids -> Row \cup {None}]
  BY DEF Init, Legacy
<1> QED
  BY <1>1 DEF Init, Typed

\* Rows and pending writes are of their types in every reachable state.
\* models/admin.py, service_admin.py
THEOREM TypeCorrect == Spec => []TypeOK
<1>1. Typed => TypeOK
  BY DEF Typed, TypeOK, TypedWrite
<1> QED
  BY <1>1, InitTyped, NextTyped, PTL DEF Spec

-----------------------------------------------------------------------------
(* What the constraints alone keep, whatever names there were *)

\* A row of its type that the CHECK constraints accept.
Rows(table) ==
  /\ table \in [Ids -> Row \cup {None}]
  /\ \A a \in Ids : table[a] # None => Checks(table[a])

\* A pending write of its type, which protects nobody.
Modest(q, table) ==
  /\ TypedWrite(q, table)
  /\ q.op = "create" => ~q.cols.is_protected

Sane ==
  /\ Typed
  /\ Rows(admins)
  /\ \A r \in Requests : req[r] # None => Modest(req[r], admins)

LEMMA SaneParts ==
  Sane => /\ Rows(admins)
          /\ \A r \in Requests : req[r] # None => Modest(req[r], admins)
BY DEF Sane

LEMMA InitSane == Init => Sane
<1> SUFFICES ASSUME Init PROVE Sane
  OBVIOUS
<1>1. Typed
  BY InitTyped
<1>2. \A a \in Ids : admins[a] # None => Checks(admins[a])
  BY DEF Init, Legacy, Checks
<1>3. \A r \in Requests : req[r] = None
  BY DEF Init
<1> QED
  BY <1>1, <1>2, <1>3 DEF Sane, Rows, Typed

LEMMA NextSane == Sane /\ [Next]_vars => Sane'
<1> SUFFICES ASSUME Sane, [Next]_vars PROVE Sane'
  OBVIOUS
<1>0. Typed /\ Typed'
  BY NextTyped DEF Sane
<1>1. \A a \in Ids : admins'[a] # None => Checks(admins'[a])
  <2>0. /\ admins \in [Ids -> Row \cup {None}]
        /\ \A a \in Ids : admins[a] # None => Checks(admins[a])
    BY DEF Sane, Rows
  <2>1. ASSUME NEW row, NEW a \in Ids, Checks(row), admins' = [admins EXCEPT ![a] = row]
        PROVE  \A b \in Ids : admins'[b] # None => Checks(admins'[b])
    <3>1. \A b \in Ids : admins'[b] = IF b = a THEN row ELSE admins[b]
      BY <2>0, <2>1
    <3> QED
      BY <2>0, <2>1, <3>1
  <2>2. ASSUME NEW row, Insert(row)
        PROVE  \A b \in Ids : admins'[b] # None => Checks(admins'[b])
    BY <2>1, <2>2 DEF Insert
  <2>3. ASSUME NEW w \in Workers, BootstrapInsert(w)
        PROVE  \A b \in Ids : admins'[b] # None => Checks(admins'[b])
    BY <2>2, <2>3 DEF BootstrapInsert
  <2>4. ASSUME NEW r \in Requests, Write(r)
        PROVE  \A b \in Ids : admins'[b] # None => Checks(admins'[b])
    <3>1. CASE req[r].op = "create"
      BY <2>2, <2>4, <3>1 DEF Write
    <3>2. CASE req[r].op # "create"
      <4>1. req[r].target \in Ids
        BY <1>0, <2>4 DEF Write, Typed, TypedWrite
      <4> QED
        BY <2>1, <2>4, <3>2, <4>1 DEF Write
    <3> QED
      BY <3>1, <3>2
  <2>5. ASSUME admins' = admins
        PROVE  \A b \in Ids : admins'[b] # None => Checks(admins'[b])
    BY <2>0, <2>5
  <2>6. ASSUME NEW r \in Requests, NEW actor \in Ids, NEW target \in Ids,
               Manage(r, actor, target)
        PROVE  admins' = admins
    BY <2>6 DEF Manage, UpdateRead, SetAdminRoleRead, ArchiveRead, UnarchiveRead,
                DeleteRead, RestoreRead, Begin
  <2> QED
    BY <2>3, <2>4, <2>5, <2>6 DEF Next, Bootstrap, BootstrapSeed, BootstrapSkip,
       BootstrapLost, Crash, Rollback, CreateRead, vars
\* Only POST /admin/admins prepares an INSERT, and it marks nobody.
<1>2. ASSUME NEW s \in Requests, req'[s] # None, req'[s].op = "create"
      PROVE  ~req'[s].cols.is_protected
  <2>0. /\ DOMAIN req = Requests
        /\ \A r \in Requests : req[r] # None /\ req[r].op = "create"
                                 => ~req[r].cols.is_protected
    BY DEF Sane, Typed, Modest
  <2>1. CASE req' = req
    BY <1>2, <2>0, <2>1
  <2>2. ASSUME NEW r \in Requests, req' = [req EXCEPT ![r] = None]
        PROVE  ~req'[s].cols.is_protected
    <3>1. req'[s] = req[s]
      BY <1>2, <2>0, <2>2
    <3> QED
      BY <1>2, <2>0, <3>1
  <2>3. ASSUME NEW r \in Requests, NEW actor \in Ids, CreateRead(r, actor)
        PROVE  ~req'[s].cols.is_protected
    <3>1. PICK u \in Usernames, n \in Names, role \in Roles :
            req' = [req EXCEPT ![r] =
                      [op |-> "create", actor |-> actor, target |-> actor,
                       cols |-> NewRow(u, n, role, FALSE)]]
      BY <2>3 DEF CreateRead
    <3>2. req'[s] = req[s] \/ req'[s].cols = NewRow(u, n, role, FALSE)
      BY <2>0, <3>1
    <3> QED
      BY <1>2, <2>0, <3>2 DEF NewRow
  <2>4. ASSUME NEW r \in Requests, NEW op \in Ops \ {"create"}, NEW actor \in Ids,
               NEW target \in Ids, NEW cols, Begin(r, op, actor, target, cols)
        PROVE  ~req'[s].cols.is_protected
    <3>1. req' = [req EXCEPT ![r] = [op |-> op, actor |-> actor, target |-> target,
                                     cols |-> Dirty(admins[target], cols)]]
      BY <2>4 DEF Begin
    <3>2. req'[s] = req[s] \/ req'[s].op = op
      BY <2>0, <3>1
    <3> QED
      BY <1>2, <2>0, <3>2
  <2>5. ASSUME NEW r \in Requests, NEW actor \in Ids, NEW target \in Ids,
               Manage(r, actor, target)
        PROVE  ~req'[s].cols.is_protected
    <3>1. CASE UpdateRead(r, actor, target)
      BY <2>4, <3>1 DEF UpdateRead, Ops
    <3>2. CASE SetAdminRoleRead(r, actor, target)
      BY <2>4, <3>2 DEF SetAdminRoleRead, Ops
    <3>3. CASE ArchiveRead(r, actor, target)
      BY <2>4, <3>3 DEF ArchiveRead, Ops
    <3>4. CASE UnarchiveRead(r, actor, target)
      BY <2>4, <3>4 DEF UnarchiveRead, Ops
    <3>5. CASE DeleteRead(r, actor, target)
      BY <2>4, <3>5 DEF DeleteRead, Ops
    <3>6. CASE RestoreRead(r, actor, target)
      BY <2>4, <3>6 DEF RestoreRead, Ops
    <3> QED
      BY <2>5, <3>1, <3>2, <3>3, <3>4, <3>5, <3>6 DEF Manage
  <2> QED
    BY <2>1, <2>2, <2>3, <2>5 DEF Next, Bootstrap, BootstrapSeed, BootstrapSkip,
       BootstrapInsert, BootstrapLost, Crash, Write, Rollback, vars
<1> QED
  BY <1>0, <1>1, <1>2 DEF Sane, Rows, Modest, Typed, Checks

-----------------------------------------------------------------------------

\* What the guards have let into a pending write.  Only the root itself writes
\* to its row, and only its name or its grade; and only an unarchive or a
\* restore clears a mark.
Entitled(q, table) ==
  q.op # "create" =>
    /\ table[q.target].is_protected =>
         q.actor = q.target /\ DOMAIN q.cols \subseteq {"name", "admin_role"}
    /\ q.op \notin {"unarchive", "restore"} =>
         \A c \in DOMAIN q.cols \cap {"archived_at", "deleted_at"} : q.cols[c] # None

\* There is no mark on the root that one could clear.
Unmarked(table) ==
  \A a \in Ids : table[a] # None /\ table[a].is_protected =>
    table[a].archived_by = None /\ table[a].deleted_by = None

Rightful ==
  /\ DOMAIN req = Requests
  /\ Unmarked(admins)
  /\ \A r \in Requests : req[r] # None => Entitled(req[r], admins)

\* What a step does to the rows: nothing, or it adds one, or the request that
\* finishes updates its target.
LEMMA RowsChange ==
  ASSUME Sane, [Next]_vars, admins' # admins
  PROVE  \/ \E a \in Ids : /\ admins[a] = None /\ admins'[a] # None
                           /\ \A b \in Ids \ {a} : admins'[b] = admins[b]
                           /\ admins'[a].is_protected =>
                                admins'[a].archived_by = None /\ admins'[a].deleted_by = None
         \/ \E r \in Requests :
              /\ Write(r) /\ req[r] # None /\ req[r].op # "create"
              /\ Modest(req[r], admins)
              /\ admins' = [admins EXCEPT ![req[r].target] = Patched(@, req[r].cols)]
<1>0. Rows(admins) /\ \A r \in Requests : req[r] # None => Modest(req[r], admins)
  BY SaneParts
<1>1. ASSUME NEW w \in Workers, BootstrapInsert(w)
      PROVE  \E a \in Ids : /\ admins[a] = None /\ admins'[a] # None
                            /\ \A b \in Ids \ {a} : admins'[b] = admins[b]
                            /\ admins'[a].archived_by = None /\ admins'[a].deleted_by = None
  <2>1. PICK n \in Names : Insert(NewRow(RootName, n, ROOT, TRUE))
    BY <1>1 DEF BootstrapInsert
  <2> DEFINE row == NewRow(RootName, n, ROOT, TRUE)
  <2>2. row \in Row /\ row.archived_by = None /\ row.deleted_by = None
    BY AdminLifecycleAssumption DEF NewRow, Row, Stamp
  <2>3. PICK a \in Ids : ~Exists(a) /\ admins' = [admins EXCEPT ![a] = row]
    BY <2>1 DEF Insert
  <2> HIDE DEF row
  <2> QED
    BY <1>0, <2>2, <2>3, AdminLifecycleAssumption DEF Exists, Rows
<1>2. ASSUME NEW r \in Requests, Write(r), req[r].op = "create"
      PROVE  \E a \in Ids : /\ admins[a] = None /\ admins'[a] # None
                            /\ \A b \in Ids \ {a} : admins'[b] = admins[b]
                            /\ ~admins'[a].is_protected
  <2>1. req[r].cols \in Row /\ ~req[r].cols.is_protected
    BY <1>0, <1>2 DEF Write, Modest, TypedWrite
  <2>2. PICK a \in Ids : ~Exists(a) /\ admins' = [admins EXCEPT ![a] = req[r].cols]
    BY <1>2 DEF Write, Insert
  <2> QED
    BY <1>0, <2>1, <2>2, AdminLifecycleAssumption DEF Exists, Rows
<1>3. ASSUME NEW r \in Requests, Write(r), req[r].op # "create"
      PROVE  /\ req[r] # None /\ Modest(req[r], admins)
             /\ admins' = [admins EXCEPT ![req[r].target] = Patched(@, req[r].cols)]
  BY <1>0, <1>3 DEF Write
<1>4. ASSUME NEW r \in Requests, NEW actor \in Ids, NEW target \in Ids,
             Manage(r, actor, target)
      PROVE  UNCHANGED admins
  BY <1>4 DEF Manage, UpdateRead, SetAdminRoleRead, ArchiveRead, UnarchiveRead,
              DeleteRead, RestoreRead, Begin
<1> QED
  BY <1>1, <1>2, <1>3, <1>4 DEF Next, Bootstrap, BootstrapSeed, BootstrapSkip,
     BootstrapLost, Crash, Rollback, CreateRead, vars

\* A row that is there keeps its protection, and the root stays unmarked.
LEMMA RowsKeep ==
  ASSUME Sane, Rightful, [Next]_vars
  PROVE  /\ Unmarked(admins')
         /\ \A a \in Ids : admins[a] # None =>
              admins'[a].is_protected = admins[a].is_protected
<1>0. Rows(admins)
  BY SaneParts
<1>1. CASE admins' = admins
  BY <1>1 DEF Rightful
<1>2. ASSUME NEW a \in Ids, admins[a] = None, admins'[a] # None,
             \A b \in Ids \ {a} : admins'[b] = admins[b],
             admins'[a].is_protected =>
               admins'[a].archived_by = None /\ admins'[a].deleted_by = None
      PROVE  /\ Unmarked(admins')
             /\ \A b \in Ids : admins[b] # None =>
                  admins'[b].is_protected = admins[b].is_protected
  BY <1>2 DEF Rightful, Unmarked
<1>3. ASSUME NEW r \in Requests, Write(r), req[r] # None, req[r].op # "create",
             Modest(req[r], admins),
             admins' = [admins EXCEPT ![req[r].target] = Patched(@, req[r].cols)]
      PROVE  /\ Unmarked(admins')
             /\ \A b \in Ids : admins[b] # None =>
                  admins'[b].is_protected = admins[b].is_protected
  <2> DEFINE a   == req[r].target
             old == admins[a]
             new == Patched(old, req[r].cols)
  <2>1. a \in Ids /\ old \in Row
    BY <1>0, <1>3 DEF Modest, TypedWrite, Rows
  <2>2. new.is_protected = old.is_protected
    BY <1>3, <2>1, PatchedRow DEF Modest, TypedWrite
  <2>3. admins'[a] = new /\ \A b \in Ids \ {a} : admins'[b] = admins[b]
    BY <1>0, <1>3, <2>1 DEF Rows
  <2>4. ASSUME old.is_protected
        PROVE  new.archived_by = None /\ new.deleted_by = None
    <3>1. old.archived_by = None /\ old.deleted_by = None
      BY <1>3, <2>1, <2>4 DEF Rightful, Unmarked, Modest, TypedWrite
    <3>2. DOMAIN req[r].cols \subseteq {"name", "admin_role"}
      BY <1>3, <2>4 DEF Rightful, Entitled
    <3>3. {"archived_by", "deleted_by"} \subseteq DOMAIN old
      BY <2>1 DEF Row
    <3> QED
      BY <3>1, <3>2, <3>3 DEF Patched
  <2> HIDE DEF new
  <2>5. Unmarked(admins')
    BY <1>3, <2>1, <2>2, <2>3, <2>4 DEF Rightful, Unmarked
  <2> QED
    BY <2>1, <2>2, <2>3, <2>5
<1> QED
  BY <1>1, <1>2, <1>3, RowsChange

\* A read puts an entitled write into its slot.
LEMMA BeginRightful ==
  ASSUME Sane, Rightful, NEW r \in Requests, NEW op, NEW actor \in Ids,
         NEW target \in Ids, NEW cols, Exists(target),
         Begin(r, op, actor, target, cols),
         admins[target].is_protected =>
           actor = target /\ DOMAIN Dirty(admins[target], cols) \subseteq {"name", "admin_role"},
         op \notin {"unarchive", "restore"} =>
           \A c \in DOMAIN Dirty(admins[target], cols) \cap {"archived_at", "deleted_at"} :
             Dirty(admins[target], cols)[c] # None
  PROVE  Rightful'
<1> DEFINE dirty == Dirty(admins[target], cols)
           q == [op |-> op, actor |-> actor, target |-> target, cols |-> dirty]
<1>1. req' = [req EXCEPT ![r] = q] /\ admins' = admins
  BY DEF Begin
<1>2. Entitled(q, admins)
  BY DEF Entitled
<1> HIDE DEF q
<1>3. DOMAIN req' = Requests /\ req'[r] = q /\ \A s \in Requests \ {r} : req'[s] = req[s]
  BY <1>1 DEF Rightful
<1> QED
  BY <1>1, <1>2, <1>3 DEF Rightful, Unmarked, Entitled

LEMMA ManageRightful ==
  ASSUME Sane, Rightful, NEW r \in Requests, NEW actor \in Ids, NEW target \in Ids,
         Manage(r, actor, target)
  PROVE  Rightful'
<1>0. Rows(admins)
  BY SaneParts
<1>1. CASE UpdateRead(r, actor, target)
  <2>1. PICK n \in Names : Begin(r, "update", actor, target, [name |-> n])
    BY <1>1 DEF UpdateRead
  <2>2. DOMAIN Dirty(admins[target], [name |-> n]) \subseteq {"name"}
    BY DEF Dirty
  <2> QED
    BY <1>1, <2>1, <2>2, BeginRightful DEF UpdateRead, Found, GuardProtectedTarget
<1>2. CASE SetAdminRoleRead(r, actor, target)
  <2>1. PICK role \in Roles : Begin(r, "role", actor, target, [admin_role |-> role])
    BY <1>2 DEF SetAdminRoleRead
  <2>2. DOMAIN Dirty(admins[target], [admin_role |-> role]) \subseteq {"admin_role"}
    BY DEF Dirty
  <2> QED
    BY <1>2, <2>1, <2>2, BeginRightful DEF SetAdminRoleRead, Found, GuardProtectedTarget
<1>3. CASE ArchiveRead(r, actor, target)
  <2> DEFINE cols == [archived_at |-> "set", archived_by |-> "set"]
  \* The mark is written because it differs from what was loaded: none.
  <2>1. \A c \in DOMAIN Dirty(admins[target], cols) \cap {"archived_at", "deleted_at"} :
          Dirty(admins[target], cols)[c] # None
    BY <1>3 DEF ArchiveRead, Dirty
  <2> QED
    BY <1>3, <2>1, BeginRightful DEF ArchiveRead, Found, GuardTransition
<1>4. CASE DeleteRead(r, actor, target)
  <2> DEFINE cols == [deleted_at |-> "set", deleted_by |-> "set"]
  <2>1. \A c \in DOMAIN Dirty(admins[target], cols) \cap {"archived_at", "deleted_at"} :
          Dirty(admins[target], cols)[c] # None
    BY <1>4 DEF DeleteRead, Found, Dirty
  <2> QED
    BY <1>4, <2>1, BeginRightful DEF DeleteRead, Found, GuardTransition
<1>5. CASE UnarchiveRead(r, actor, target)
  <2> DEFINE cols == [archived_at |-> None, archived_by |-> None]
  <2>1. ~admins[target].is_protected
    <3> SUFFICES ASSUME admins[target].is_protected PROVE FALSE
      OBVIOUS
    <3>1. admins[target].archived_at = None /\ admins[target].archived_by = None
      BY <1>0, <1>5 DEF UnarchiveRead, Found, Exists, Rows, Checks, Rightful, Unmarked
    <3>2. DOMAIN Dirty(admins[target], cols) = {}
      BY <3>1 DEF Dirty
    <3> QED
      BY <1>5, <3>2 DEF UnarchiveRead, Begin
  <2> QED
    BY <1>5, <2>1, BeginRightful DEF UnarchiveRead, Found
<1>6. CASE RestoreRead(r, actor, target)
  <2>1. ~admins[target].is_protected
    BY <1>0, <1>6 DEF RestoreRead, Exists, Rows, Checks
  <2> QED
    BY <1>6, <2>1, BeginRightful DEF RestoreRead
<1> QED
  BY <1>1, <1>2, <1>3, <1>4, <1>5, <1>6 DEF Manage

LEMMA NextRightful == Sane /\ Rightful /\ [Next]_vars => Rightful'
<1> SUFFICES ASSUME Sane, Rightful, [Next]_vars PROVE Rightful'
  OBVIOUS
<1>1. /\ Unmarked(admins')
      /\ \A a \in Ids : admins[a] # None =>
           admins'[a].is_protected = admins[a].is_protected
  BY RowsKeep
\* A write that was pending and still is stays entitled.
<1>2. ASSUME NEW s \in Requests, req[s] # None
      PROVE  Entitled(req[s], admins')
  <2>1. Modest(req[s], admins) /\ Entitled(req[s], admins)
    BY <1>2, SaneParts DEF Rightful
  <2> QED
    BY <1>1, <2>1 DEF Modest, TypedWrite, Entitled
<1>3. CASE UNCHANGED req
  BY <1>1, <1>2, <1>3 DEF Rightful
<1>4. ASSUME NEW r \in Requests, req' = [req EXCEPT ![r] = None]
      PROVE  Rightful'
  <2>1. DOMAIN req' = Requests /\ \A s \in Requests : req'[s] # None => req'[s] = req[s]
    BY <1>4 DEF Rightful
  <2> QED
    BY <1>1, <1>2, <2>1 DEF Rightful
<1>5. ASSUME NEW r \in Requests, NEW actor \in Ids, CreateRead(r, actor)
      PROVE  Rightful'
  <2>1. PICK u \in Usernames, n \in Names, role \in Roles :
          req' = [req EXCEPT ![r] =
                    [op |-> "create", actor |-> actor, target |-> actor,
                     cols |-> NewRow(u, n, role, FALSE)]]
    BY <1>5 DEF CreateRead
  <2>2. /\ DOMAIN req' = Requests /\ req'[r].op = "create"
        /\ \A s \in Requests \ {r} : req'[s] = req[s]
    BY <2>1 DEF Rightful
  <2> QED
    BY <1>1, <1>2, <2>2 DEF Rightful, Entitled
<1>6. ASSUME NEW r \in Requests, NEW actor \in Ids, NEW target \in Ids,
             Manage(r, actor, target)
      PROVE  Rightful'
  BY <1>6, ManageRightful
<1> QED
  BY <1>3, <1>4, <1>5, <1>6 DEF Next, Bootstrap, BootstrapSeed, BootstrapSkip,
     BootstrapInsert, BootstrapLost, Crash, Write, Rollback, vars

LEMMA InitRightful == Init => Rightful
<1> SUFFICES ASSUME Init PROVE Rightful
  OBVIOUS
<1>1. \A a \in Ids : admins[a] # None => ~admins[a].is_protected
  BY DEF Init, Legacy
<1> QED
  BY <1>1 DEF Init, Rightful, Unmarked

\* The update that changes row a is the end of a request on a.
LEMMA UpdateFinishes ==
  ASSUME Sane, Rightful, [Next]_vars, NEW a \in Ids, admins[a] # None,
         admins'[a] # admins[a]
  PROVE  \E r \in Requests :
           /\ Finishes(r, a, Ops) /\ req[r].op # "create"
           /\ Entitled(req[r], admins)
           /\ admins'[a] = Patched(admins[a], req[r].cols)
<1>1. PICK r \in Requests :
        /\ Write(r) /\ req[r] # None /\ req[r].op # "create"
        /\ Modest(req[r], admins)
        /\ admins' = [admins EXCEPT ![req[r].target] = Patched(@, req[r].cols)]
  BY RowsChange
<1>2. req'[r] = None
  BY <1>1 DEF Write, Rightful
<1>3. req[r].target = a /\ admins'[a] = Patched(admins[a], req[r].cols)
  BY <1>1, SaneParts DEF Rows, Modest, TypedWrite
<1>4. Entitled(req[r], admins)
  BY <1>1 DEF Rightful
<1> QED
  BY <1>1, <1>2, <1>3, <1>4 DEF Finishes, Modest, TypedWrite

\* Whatever names there were before the first start, nothing in a protected
\* row changes but by a request of the root itself, whatever requests of other
\* admins overlap.
\* AdminService._guard_protected_target
THEOREM RootIsItsOwn == Spec => RootChangesItself
<1>1. ASSUME Sane, Rightful, [Next]_vars, NEW a \in Protected, admins'[a] # admins[a]
      PROVE  \E r \in Requests : Finishes(r, a, Ops) /\ req[r].actor = a
  <2>1. a \in Ids /\ admins[a] # None /\ admins[a].is_protected
    BY <1>1 DEF Protected, Exists
  <2>2. PICK r \in Requests :
          Finishes(r, a, Ops) /\ req[r].op # "create" /\ Entitled(req[r], admins)
    BY <1>1, <2>1, UpdateFinishes
  <2> QED
    BY <2>1, <2>2 DEF Entitled, Finishes
<1>2. Sane /\ Rightful /\ [Next]_vars =>
        [\A a \in Protected : admins'[a] # admins[a] =>
           \E r \in Requests : Finishes(r, a, Ops) /\ req[r].actor = a]_vars
  BY <1>1
<1>3. Init => Sane
  BY InitSane
<1> QED
  BY <1>2, <1>3, InitRightful, NextSane, NextRightful, PTL DEF Spec, RootChangesItself

\* An archived or deleted admin becomes active again only by an unarchive or a
\* restore of that admin: no UPDATE that was prepared earlier writes the old
\* columns back.
\* AdminService.update and set_admin_role under the session's partial UPDATE
THEOREM NobodyReturnsByAccident == Spec => NoResurrection
<1>1. ASSUME Sane, Rightful, [Next]_vars, NEW a \in Ids,
             Exists(a), ~IsActive(admins[a]), IsActive(admins'[a])
      PROVE  \E r \in Requests : Finishes(r, a, {"unarchive", "restore"})
  <2>1. PICK r \in Requests :
          /\ Finishes(r, a, Ops) /\ req[r].op # "create"
          /\ Entitled(req[r], admins)
          /\ admins'[a] = Patched(admins[a], req[r].cols)
    BY <1>1, UpdateFinishes DEF Exists
  <2>2. admins[a] \in Row
    BY <1>1, SaneParts DEF Rows, Exists
  <2>3. PICK c \in {"archived_at", "deleted_at"} :
          admins[a][c] # None /\ admins'[a][c] = None
    BY <1>1 DEF IsActive
  <2>4. c \in DOMAIN admins[a]
    BY <2>2 DEF Row
  <2>5. c \in DOMAIN req[r].cols /\ req[r].cols[c] = None
    BY <2>1, <2>3, <2>4 DEF Patched
  <2> QED
    BY <2>1, <2>5 DEF Entitled, Finishes
<1>2. Sane /\ Rightful /\ [Next]_vars =>
        [\A a \in Ids : Exists(a) /\ ~IsActive(admins[a]) /\ IsActive(admins'[a]) =>
           \E r \in Requests : Finishes(r, a, {"unarchive", "restore"})]_vars
  BY <1>1
<1>3. Init => Sane
  BY InitSane
<1> QED
  BY <1>2, <1>3, InitRightful, NextSane, NextRightful, PTL DEF Spec, NoResurrection

-----------------------------------------------------------------------------
(* When and who: archived_at and archived_by, deleted_at and deleted_by *)

PairedRow(row) ==
  /\ row.archived_at = None <=> row.archived_by = None
  /\ row.deleted_at = None <=> row.deleted_by = None

\* An UPDATE names both columns of a pair or none, and sets or clears both.
PairedCols(cols) ==
  /\ "archived_at" \in DOMAIN cols <=> "archived_by" \in DOMAIN cols
  /\ "archived_at" \in DOMAIN cols =>
       (cols["archived_at"] = None <=> cols["archived_by"] = None)
  /\ "deleted_at" \in DOMAIN cols <=> "deleted_by" \in DOMAIN cols
  /\ "deleted_at" \in DOMAIN cols =>
       (cols["deleted_at"] = None <=> cols["deleted_by"] = None)

PairedWrite(q) ==
  IF q.op = "create" THEN PairedRow(q.cols) ELSE PairedCols(q.cols)

Paired ==
  /\ DOMAIN req = Requests
  /\ \A a \in Ids : admins[a] # None => PairedRow(admins[a])
  /\ \A r \in Requests : req[r] # None => PairedWrite(req[r])

LEMMA PatchedPaired ==
  ASSUME NEW row \in Row, PairedRow(row), NEW cols, PairedCols(cols)
  PROVE  PairedRow(Patched(row, cols))
<1>1. {"archived_at", "archived_by", "deleted_at", "deleted_by"} \subseteq DOMAIN row
  BY DEF Row
<1> DEFINE new == Patched(row, cols)
<1>2. \A c \in {"archived_at", "archived_by", "deleted_at", "deleted_by"} :
        new[c] = IF c \in DOMAIN cols THEN cols[c] ELSE row[c]
  BY <1>1 DEF Patched
<1> HIDE DEF new
<1>3. new.archived_at = None <=> new.archived_by = None
  BY <1>2 DEF PairedRow, PairedCols
<1>4. new.deleted_at = None <=> new.deleted_by = None
  BY <1>2 DEF PairedRow, PairedCols
<1> QED
  BY <1>3, <1>4 DEF PairedRow, new

\* What a read finds to write is paired, because what it loaded was.
LEMMA BeginPaired ==
  ASSUME Paired, NEW r \in Requests, NEW op \in Ops \ {"create"}, NEW actor \in Ids,
         NEW target \in Ids, NEW cols, Begin(r, op, actor, target, cols),
         PairedCols(Dirty(admins[target], cols))
  PROVE  Paired'
<1> DEFINE q == [op |-> op, actor |-> actor, target |-> target,
                 cols |-> Dirty(admins[target], cols)]
<1>1. req' = [req EXCEPT ![r] = q] /\ admins' = admins
  BY DEF Begin
<1>2. PairedWrite(q)
  BY DEF PairedWrite
<1> HIDE DEF q
<1>3. /\ DOMAIN req' = Requests
      /\ \A s \in Requests : req'[s] = IF s = r THEN q ELSE req[s]
  BY <1>1 DEF Paired
<1> QED
  BY <1>1, <1>2, <1>3 DEF Paired

LEMMA ManagePaired ==
  ASSUME Paired, NEW r \in Requests, NEW actor \in Ids, NEW target \in Ids,
         Manage(r, actor, target)
  PROVE  Paired'
<1> DEFINE row == admins[target]
<1>0. row # None => PairedRow(row)
  BY DEF Paired
<1>1. CASE UpdateRead(r, actor, target)
  <2>1. PICK n \in Names : Begin(r, "update", actor, target, [name |-> n])
    BY <1>1 DEF UpdateRead
  <2>2. PairedCols(Dirty(row, [name |-> n]))
    BY DEF Dirty, PairedCols
  <2> QED
    BY <2>1, <2>2, BeginPaired DEF Ops
<1>2. CASE SetAdminRoleRead(r, actor, target)
  <2>1. PICK role \in Roles : Begin(r, "role", actor, target, [admin_role |-> role])
    BY <1>2 DEF SetAdminRoleRead
  <2>2. PairedCols(Dirty(row, [admin_role |-> role]))
    BY DEF Dirty, PairedCols
  <2> QED
    BY <2>1, <2>2, BeginPaired DEF Ops
<1>3. CASE ArchiveRead(r, actor, target)
  <2> DEFINE cols == [archived_at |-> "set", archived_by |-> "set"]
  <2>1. row.archived_at = None /\ row.archived_by = None
    BY <1>0, <1>3 DEF ArchiveRead, Found, Exists, PairedRow
  <2>2. PairedCols(Dirty(row, cols))
    BY <2>1 DEF Dirty, PairedCols
  <2> QED
    BY <1>3, <2>2, BeginPaired DEF ArchiveRead, Ops
<1>4. CASE DeleteRead(r, actor, target)
  <2> DEFINE cols == [deleted_at |-> "set", deleted_by |-> "set"]
  <2>1. row.deleted_at = None /\ row.deleted_by = None
    BY <1>0, <1>4 DEF DeleteRead, Found, Exists, PairedRow
  <2>2. PairedCols(Dirty(row, cols))
    BY <2>1 DEF Dirty, PairedCols
  <2> QED
    BY <1>4, <2>2, BeginPaired DEF DeleteRead, Ops
<1>5. CASE UnarchiveRead(r, actor, target)
  <2> DEFINE cols == [archived_at |-> None, archived_by |-> None]
  <2>1. row.archived_at = None <=> row.archived_by = None
    BY <1>0, <1>5 DEF UnarchiveRead, Found, Exists, PairedRow
  <2>2. PairedCols(Dirty(row, cols))
    BY <2>1 DEF Dirty, PairedCols
  <2> QED
    BY <1>5, <2>2, BeginPaired DEF UnarchiveRead, Ops
<1>6. CASE RestoreRead(r, actor, target)
  <2> DEFINE cols == [deleted_at |-> None, deleted_by |-> None]
  <2>1. row.deleted_at = None <=> row.deleted_by = None
    BY <1>0, <1>6 DEF RestoreRead, Exists, PairedRow
  <2>2. PairedCols(Dirty(row, cols))
    BY <2>1 DEF Dirty, PairedCols
  <2> QED
    BY <1>6, <2>2, BeginPaired DEF RestoreRead, Ops
<1> QED
  BY <1>1, <1>2, <1>3, <1>4, <1>5, <1>6 DEF Manage

LEMMA NewRowPaired ==
  ASSUME NEW u, NEW n, NEW role, NEW protected
  PROVE  PairedRow(NewRow(u, n, role, protected))
BY DEF PairedRow, NewRow

LEMMA NextPaired == Typed /\ Paired /\ [Next]_vars => Paired'
<1> SUFFICES ASSUME Typed, Paired, [Next]_vars PROVE Paired'
  OBVIOUS
<1>0. /\ admins \in [Ids -> Row \cup {None}] /\ DOMAIN req = Requests
      /\ \A a \in Ids : admins[a] # None => PairedRow(admins[a])
      /\ \A r \in Requests : req[r] # None => PairedWrite(req[r]) /\ TypedWrite(req[r], admins)
  BY DEF Paired, Typed
<1>1. CASE UNCHANGED << admins, req >>
  BY <1>1 DEF Paired
\* A row that is inserted carries no mark.
<1>2. ASSUME NEW row, PairedRow(row), Insert(row)
      PROVE  \A a \in Ids : admins'[a] # None => PairedRow(admins'[a])
  <2>1. PICK a \in Ids : admins' = [admins EXCEPT ![a] = row]
    BY <1>2 DEF Insert
  <2>2. \A b \in Ids : admins'[b] = IF b = a THEN row ELSE admins[b]
    BY <1>0, <2>1
  <2> QED
    BY <1>0, <1>2, <2>2
<1>3. ASSUME NEW w \in Workers, BootstrapInsert(w) PROVE Paired'
  <2>1. PICK n \in Names : Insert(NewRow(RootName, n, ROOT, TRUE))
    BY <1>3 DEF BootstrapInsert
  <2>2. PairedRow(NewRow(RootName, n, ROOT, TRUE))
    BY DEF PairedRow, NewRow
  <2>3. \A a \in Ids : admins'[a] # None => PairedRow(admins'[a])
    BY <1>2, <2>1, <2>2
  <2> QED
    BY <1>0, <1>3, <2>3 DEF Paired, BootstrapInsert
<1>4. ASSUME NEW r \in Requests, req' = [req EXCEPT ![r] = None],
             \A a \in Ids : admins'[a] # None => PairedRow(admins'[a])
      PROVE  Paired'
  <2>1. DOMAIN req' = Requests /\ \A s \in Requests : req'[s] # None => req'[s] = req[s]
    BY <1>0, <1>4
  <2> QED
    BY <1>0, <1>4, <2>1 DEF Paired
<1>5. ASSUME NEW r \in Requests, Write(r) PROVE Paired'
  <2>1. /\ PairedWrite(req[r]) /\ TypedWrite(req[r], admins)
        /\ req' = [req EXCEPT ![r] = None]
    BY <1>0, <1>5 DEF Write
  <2>2. CASE req[r].op = "create"
    <3>1. PairedRow(req[r].cols) /\ Insert(req[r].cols)
      BY <1>5, <2>1, <2>2 DEF Write, PairedWrite
    <3> QED
      BY <1>2, <1>4, <2>1, <3>1
  <2>3. CASE req[r].op # "create"
    <3> DEFINE a == req[r].target
               new == Patched(admins[a], req[r].cols)
    <3>1. a \in Ids /\ admins[a] \in Row /\ PairedRow(admins[a]) /\ PairedCols(req[r].cols)
      BY <1>0, <2>1, <2>3 DEF TypedWrite, PairedWrite
    <3>2. admins' = [admins EXCEPT ![a] = new]
      BY <1>5, <2>3 DEF Write
    <3>3. PairedRow(new)
      BY <3>1, PatchedPaired
    <3> HIDE DEF new
    <3>4. \A b \in Ids : admins'[b] = IF b = a THEN new ELSE admins[b]
      BY <1>0, <3>2
    <3> QED
      BY <1>0, <1>4, <2>1, <3>3, <3>4
  <2> QED
    BY <2>2, <2>3
<1>6. ASSUME NEW r \in Requests, Rollback(r) PROVE Paired'
  BY <1>0, <1>4, <1>6 DEF Rollback
<1>7. ASSUME NEW r \in Requests, NEW actor \in Ids, CreateRead(r, actor)
      PROVE  Paired'
  <2>1. PICK u \in Usernames, n \in Names, role \in Roles :
          req' = [req EXCEPT ![r] =
                    [op |-> "create", actor |-> actor, target |-> actor,
                     cols |-> NewRow(u, n, role, FALSE)]]
    BY <1>7 DEF CreateRead
  <2> DEFINE q == [op |-> "create", actor |-> actor, target |-> actor,
                   cols |-> NewRow(u, n, role, FALSE)]
  <2>2. PairedWrite(q)
    BY NewRowPaired DEF PairedWrite
  <2> HIDE DEF q
  <2>3. DOMAIN req' = Requests /\ \A s \in Requests : req'[s] = IF s = r THEN q ELSE req[s]
    BY <1>0, <2>1 DEF q
  <2> QED
    BY <1>0, <1>7, <2>2, <2>3 DEF Paired, CreateRead
<1>8. ASSUME NEW r \in Requests, NEW actor \in Ids, NEW target \in Ids,
             Manage(r, actor, target)
      PROVE  Paired'
  BY <1>8, ManagePaired
<1> QED
  BY <1>1, <1>3, <1>5, <1>6, <1>7, <1>8 DEF Next, Bootstrap, BootstrapSeed, BootstrapSkip,
     BootstrapLost, Crash, vars

LEMMA InitPaired == Init => Paired
<1> SUFFICES ASSUME Init PROVE Paired
  OBVIOUS
<1>1. \A a \in Ids : admins[a] # None => PairedRow(admins[a])
  BY DEF Init, Legacy, PairedRow
<1> QED
  BY <1>1 DEF Init, Paired

\* Whatever requests overlap, who archived or deleted an admin is recorded
\* exactly while the admin is archived or deleted: both columns are written by
\* the same UPDATE, or, when the loaded row has them already, neither is.
\* models/admin.py: archived_at and archived_by come and go together
THEOREM WhoGoesWithWhen == Spec => []AuditPaired
<1>1. Paired => AuditPaired
  BY DEF Paired, AuditPaired, PairedRow, Exists
<1> QED
  BY <1>1, InitTyped, InitPaired, NextTyped, NextPaired, PTL DEF Spec

=============================================================================
