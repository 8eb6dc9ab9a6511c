------------------------------ MODULE Records ------------------------------
(***************************************************************************)
(* The records (RecordService, RecordRepository): create, bulk_create,     *)
(* update, delete (soft) and the paged list, by overlapping requests.      *)
(*                                                                         *)
(* A request is one session on InnoDB at REPEATABLE READ: everything it    *)
(* reads before its commit is the state of its first read, and what it     *)
(* writes goes to the row as it is by then.  SQLAlchemy's UPDATE names the *)
(* columns whose value differs from the one that was loaded, and none when *)
(* none differs.  Sessions do not expire their objects on commit: a record *)
(* read again after the commit is the object in memory, beside columns     *)
(* that are joined anew.                                                   *)
(*                                                                         *)
(* MariaDB since 11.6 (docker-compose.yml has 11.7) refuses to write a row *)
(* that has changed since the snapshot of the request was taken, unless    *)
(* innodb_snapshot_isolation is off; older servers write it.  The model    *)
(* knows both: conflicts.                                                  *)
(***************************************************************************)
EXTENDS Integers, Sequences, FiniteSetsExt

CONSTANTS
  Requests,     \* writing requests that may overlap
  Titles,       \* contents (title, value and note), ordered
  Categories,   \* ids of record_categories, ordered as their names
  MaxRecords,   \* bound: rows
  MaxOps,       \* bound: writing requests altogether
  Contents,     \* bound: what they ask for
  Bulks,        \* bound: the imports
  Withdrawn,    \* bound: categories that may be withdrawn
  Seeds,      \* bound: the contents of the records there are at first
  LastDay,      \* bound: days, beginning with 1
  ListMax,      \* records_list_max_page_size
  AnalyticsMax, \* records_analytics_max_page_size
  Queries,      \* what the client that pages through the list asks for
  None          \* NULL, no such filter

ASSUME RecordsAssumption ==
  /\ Titles \subseteq Nat /\ Categories \subseteq Nat
  /\ MaxRecords \in Nat /\ MaxOps \in Nat /\ LastDay \in Nat \ {0}
  /\ ListMax \in Nat \ {0} /\ AnalyticsMax \in Nat \ {0}

Ids  == 1..MaxRecords
Days == 1..LastDay

Content == [title : Titles, category : Categories]

\* What an import keeps when A are the active categories.
Kept(ds, A) ==
  LET valid == {i \in DOMAIN ds : ds[i].category \in A}
      place == CHOOSE p \in [1..Cardinality(valid) -> valid] :
                 \A i, j \in DOMAIN p : i < j => p[i] < p[j]
  IN [k \in DOMAIN place |-> ds[place[k]]]

ASSUME ContentsAssumption ==
  /\ Contents \subseteq Content
  /\ Seeds \in Seq(Content) /\ Len(Seeds) <= MaxRecords
  /\ Withdrawn \subseteq Categories
  /\ Bulks \subseteq Seq(Content)

Row == [title : Titles, category : Categories, day : Days, deleted : BOOLEAN]

Query == [category : Nat \cup {None}, keyword : Titles \cup {None},
          from : Days \cup {None}, to : Days \cup {None},
          sort : {"id", "title", "category", "created_at"}, dir : {"asc", "desc"},
          deleted : BOOLEAN, size : Nat]

ASSUME QueriesAssumption == Queries \subseteq Query

VARIABLES
  rows,       \* committed rows, by id
  nextId,     \* AUTO_INCREMENT
  active,     \* categories with is_active
  today,
  conflicts,  \* whether the server refuses to write a row that has changed
  req,        \* req[r]: a writing request
  ops,        \* how many there have been
  list,       \* a client that pages through the list
  asked       \* asked[i]: contents some request asked record i to have

vars == << rows, nextId, active, today, conflicts, req, ops, list, asked >>

\* drafts: rows to be inserted, ids: theirs.  stale: rows others have
\* committed since the snapshot.
Idle == [pc |-> "idle", id |-> None, drafts |-> << >>, ids |-> {},
         loaded |-> None, sent |-> None, stale |-> {}]

\* start: the ids that were selected when the client began; seen: those it was
\* shown; disturbed: an existing row has changed meanwhile.
Resting == [pc |-> "resting", q |-> None, page |-> 1, snap |-> << >>, shown |-> {},
            total |-> 0, seen |-> {}, start |-> {}, disturbed |-> FALSE]

ContentOf(row) == [title |-> row.title, category |-> row.category]

-----------------------------------------------------------------------------
(* The list *)

\* The size of a page: two ceilings, one for queries with a range of days.
SizeOf(q) ==
  Min({Max({q.size, 1}), IF q.from # None \/ q.to # None THEN AnalyticsMax ELSE ListMax})

\* The predicate list and count share.  The range ends with the day of q.to.
Selected(S, q) ==
  {i \in DOMAIN S :
     /\ q.deleted \/ ~S[i].deleted
     /\ q.category # None => S[i].category = q.category
     /\ q.keyword # None => S[i].title = q.keyword
     /\ q.from # None => S[i].day >= q.from
     /\ q.to # None => S[i].day < q.to + 1}

Key(S, q, i) ==
  CASE q.sort = "id"         -> i
    [] q.sort = "title"      -> S[i].title
    [] q.sort = "category"   -> S[i].category
    [] q.sort = "created_at" -> S[i].day

\* Fault: rows with equal keys are in no order.
BeforeByKey(S, q, i, j) ==
  IF q.dir = "asc" THEN Key(S, q, i) < Key(S, q, j) ELSE Key(S, q, i) > Key(S, q, j)

\* ORDER BY key dir, id dir
Before(S, q, i, j) ==
  LET k == Key(S, q, i)  l == Key(S, q, j)
  IN IF q.dir = "asc" THEN k < l \/ (k = l /\ i < j) ELSE k > l \/ (k = l /\ i > j)

\* Fault: pages are counted from zero.
OffsetFromZero(q, page) == page * SizeOf(q)

Offset(q, page) == (page - 1) * SizeOf(q)

\* How many of the selected rows come before row i.
Rank(S, q, i) == Cardinality({j \in Selected(S, q) : Before(S, q, j, i)})

\* LIMIT and OFFSET
PageOf(S, q, page) ==
  {i \in Selected(S, q) :
     Offset(q, page) <= Rank(S, q, i) /\ Rank(S, q, i) < Offset(q, page) + SizeOf(q)}

\* A filter may name a category that is not active, but not one there is not.
ListBegin(q) ==
  /\ list.pc = "resting"
  /\ q.category # None => q.category \in Categories
  /\ list' = [Resting EXCEPT !.pc = "rows", !.q = q, !.start = Selected(rows, q)]
  /\ UNCHANGED << rows, nextId, active, today, conflicts, req, ops, asked >>

ListRows ==
  /\ list.pc = "rows"
  /\ list' = [list EXCEPT !.pc = "count", !.snap = rows, !.shown = PageOf(rows, list.q, list.page)]
  /\ UNCHANGED << rows, nextId, active, today, conflicts, req, ops, asked >>

\* Fault: the count is read in a transaction of its own.
CountOfNow(S, q) == Cardinality(Selected(rows, q))

Count(S, q) == Cardinality(Selected(S, q))

ListCount ==
  /\ list.pc = "count"
  /\ list' = [list EXCEPT !.pc = "answered", !.total = Count(list.snap, list.q), !.snap = << >>,
                          !.seen = @ \cup list.shown]
  /\ UNCHANGED << rows, nextId, active, today, conflicts, req, ops, asked >>

ListNext ==
  /\ list.pc = "answered"
  /\ list' = IF list.page * SizeOf(list.q) < list.total
             THEN [list EXCEPT !.pc = "rows", !.page = @ + 1, !.shown = {}, !.total = 0]
             ELSE [list EXCEPT !.pc = "done", !.shown = {}, !.total = 0]
  /\ UNCHANGED << rows, nextId, active, today, conflicts, req, ops, asked >>

ListEnd ==
  /\ list.pc = "done"
  /\ list' = Resting
  /\ UNCHANGED << rows, nextId, active, today, conflicts, req, ops, asked >>

-----------------------------------------------------------------------------
(* Writing requests *)

Begin(r, state) ==
  /\ req[r].pc = "idle" /\ ops < MaxOps
  /\ req' = [req EXCEPT ![r] = state]
  /\ ops' = ops + 1
  /\ UNCHANGED << rows, nextId, active, today, conflicts, list, asked >>

\* create_record reads its category.
CreateRead(r, d) ==
  /\ d.category \in active
  /\ Begin(r, [Idle EXCEPT !.pc = "insertOne", !.drafts = << d >>, !.sent = d])

\* bulk_create keeps the drafts that are valid and reports the others.
BulkRead(r, ds) ==
  Begin(r, [Idle EXCEPT !.pc = "insert", !.drafts = Kept(ds, active)])

\* INSERT, not committed yet: the ids are given now.
Insert(r) ==
  LET n == Len(req[r].drafts) IN
  /\ req[r].pc \in {"insert", "insertOne"}
  /\ nextId + n <= MaxRecords + 1
  /\ nextId' = nextId + n
  /\ req' = [req EXCEPT ![r].pc = IF @ = "insert" THEN "commit" ELSE "commitOne",
                        ![r].ids = nextId..(nextId + n - 1)]
  /\ UNCHANGED << rows, active, today, conflicts, ops, list, asked >>

\* Bound: created_at is the day of the commit.
Inserted(r) ==
  [i \in req[r].ids |->
     LET d == req[r].drafts[i - Min(req[r].ids) + 1]
     IN [title |-> d.title, category |-> d.category, day |-> today, deleted |-> FALSE]]

InsertCommit(r) ==
  /\ req[r].pc \in {"commit", "commitOne"}
  /\ rows' = [i \in DOMAIN rows \cup req[r].ids |->
                IF i \in req[r].ids THEN Inserted(r)[i] ELSE rows[i]]
  /\ asked' = [i \in Ids |-> IF i \in req[r].ids THEN {ContentOf(rows'[i])} ELSE asked[i]]
  /\ req' = [req EXCEPT ![r] =
       IF @.pc = "commit" THEN Idle
       ELSE [Idle EXCEPT !.pc = "reread", !.id = Min(req[r].ids), !.sent = req[r].sent]]
  /\ UNCHANGED << nextId, active, today, conflicts, ops, list >>

\* Fault: update and delete load the record whether it is deleted or not.
FoundAny(i) == i \in DOMAIN rows

\* get_active
Found(i) == i \in DOMAIN rows /\ ~rows[i].deleted

UpdateRead(r, i, d) ==
  /\ Found(i)
  /\ d.category \in active
  /\ Begin(r, [Idle EXCEPT !.pc = "update", !.id = i, !.loaded = ContentOf(rows[i]), !.sent = d])

DeleteRead(r, i) ==
  /\ Found(i)
  /\ Begin(r, [Idle EXCEPT !.pc = "delete", !.id = i])

\* Fault: the sessions run at READ COMMITTED.
RefusedNever(r) == FALSE

\* The write of a row others have committed since the snapshot is refused.
Refused(r) == conflicts /\ req[r].id \in req[r].stale

\* What a commit of row i leaves to the other requests and the client.
Noticed(r, i, state) ==
  /\ req' = [s \in Requests |->
       IF s = r THEN state
       ELSE IF req[s].pc = "idle" THEN req[s] ELSE [req[s] EXCEPT !.stale = @ \cup {i}]]
  /\ list' = [list EXCEPT !.disturbed = list.pc # "resting"]

UpdateCommit(r) ==
  LET i == req[r].id
      sent == req[r].sent
      reread == [Idle EXCEPT !.pc = "reread", !.id = i, !.sent = sent]
      row == [rows[i] EXCEPT
                !.title    = IF sent.title # req[r].loaded.title THEN sent.title ELSE @,
                !.category = IF sent.category # req[r].loaded.category THEN sent.category ELSE @]
  IN /\ req[r].pc = "update"
     /\ asked' = [asked EXCEPT ![i] = @ \cup {sent}]
     /\ IF sent = req[r].loaded
        THEN req' = [req EXCEPT ![r] = reread] /\ UNCHANGED << rows, list >>
        ELSE /\ ~Refused(r)
             /\ rows' = [rows EXCEPT ![i] = row]
             /\ Noticed(r, i, reread)
     /\ UNCHANGED << nextId, active, today, conflicts, ops >>

DeleteCommit(r) ==
  /\ req[r].pc = "delete"
  /\ ~Refused(r)
  /\ rows' = [rows EXCEPT ![req[r].id].deleted = TRUE]
  /\ Noticed(r, req[r].id, Idle)
  /\ UNCHANGED << nextId, active, today, conflicts, ops, asked >>

\* The answer: the object in memory beside the joined name of its category, or
\* 404 when the record has been deleted since the commit.
Reread(r) ==
  /\ req[r].pc = "reread"
  /\ req' = [req EXCEPT ![r] = Idle]
  /\ UNCHANGED << rows, nextId, active, today, conflicts, ops, list, asked >>

\* Refused, or any other error of the database: rollback.  Ids are not reused.
Rollback(r) ==
  /\ req[r].pc \notin {"idle", "reread"}
  /\ req' = [req EXCEPT ![r] = Idle]
  /\ UNCHANGED << rows, nextId, active, today, conflicts, ops, list, asked >>

-----------------------------------------------------------------------------

\* A category is withdrawn, by hand.
Retire(c) ==
  /\ c \in active
  /\ active' = active \ {c}
  /\ UNCHANGED << rows, nextId, today, conflicts, req, ops, list, asked >>

Midnight ==
  /\ today < LastDay
  /\ today' = today + 1
  /\ UNCHANGED << rows, nextId, active, conflicts, req, ops, list, asked >>

Init ==
  /\ rows = [i \in DOMAIN Seeds |-> [title |-> Seeds[i].title, category |-> Seeds[i].category,
                                    day |-> 1, deleted |-> FALSE]]
  /\ nextId = Len(Seeds) + 1
  /\ active = Categories /\ today = 1
  /\ conflicts \in BOOLEAN
  /\ req = [r \in Requests |-> Idle] /\ ops = 0
  /\ list = Resting
  /\ asked = [i \in Ids |-> IF i \in DOMAIN Seeds THEN {Seeds[i]} ELSE {}]

Write(r) ==
  \/ \E d \in Contents : CreateRead(r, d)
  \/ \E ds \in Bulks : BulkRead(r, ds)
  \/ Insert(r) \/ InsertCommit(r)
  \/ \E i \in Ids, d \in Contents : UpdateRead(r, i, d)
  \/ \E i \in Ids : DeleteRead(r, i)
  \/ UpdateCommit(r) \/ DeleteCommit(r) \/ Reread(r) \/ Rollback(r)

List == (\E q \in Queries : ListBegin(q)) \/ ListRows \/ ListCount \/ ListNext \/ ListEnd

Next ==
  \/ \E r \in Requests : Write(r)
  \/ List
  \/ \E c \in Withdrawn : Retire(c)
  \/ Midnight

Spec == Init /\ [][Next]_vars

-----------------------------------------------------------------------------

Pcs == {"idle", "insert", "insertOne", "commit", "commitOne", "update", "delete", "reread"}

Request == [pc : Pcs, id : Ids \cup {None}, drafts : Seq(Content), ids : SUBSET Ids,
            loaded : Content \cup {None}, sent : Content \cup {None}, stale : SUBSET Ids]

TypeOK ==
  /\ DOMAIN rows \subseteq Ids /\ \A i \in DOMAIN rows : rows[i] \in Row
  /\ nextId \in 1..(MaxRecords + 1)
  /\ active \subseteq Categories /\ today \in Days /\ conflicts \in BOOLEAN
  /\ req \in [Requests -> Request] /\ ops \in 0..MaxOps
  /\ asked \in [Ids -> SUBSET Content]
  /\ DOMAIN list = DOMAIN Resting
  /\ list.pc \in {"resting", "rows", "count", "answered", "done"}

(* Safety *)

\* An INSERT that is not committed has ids of its own, which no row has yet.
Numbered ==
  /\ DOMAIN rows \subseteq 1..(nextId - 1)
  /\ \A r \in Requests :
       /\ req[r].ids \cap DOMAIN rows = {}
       /\ req[r].pc \in {"insertOne", "commitOne"} => Len(req[r].drafts) = 1
       /\ IF req[r].pc \in {"commit", "commitOne"}
          THEN \E first \in 1..nextId :
                 /\ req[r].ids = first..(first + Len(req[r].drafts) - 1)
                 /\ first + Len(req[r].drafts) <= nextId
          ELSE req[r].ids = {}
  /\ \A r, s \in Requests : r # s => req[r].ids \cap req[s].ids = {}

\* A request that is about to write has loaded what the row still is, unless
\* another has committed it meanwhile.
Loaded ==
  \A r \in Requests : req[r].pc \in {"update", "delete"} =>
    /\ req[r].id \in DOMAIN rows
    /\ req[r].pc = "update" => req[r].loaded \in Content /\ req[r].sent \in Content
    /\ req[r].id \notin req[r].stale =>
         /\ ~rows[req[r].id].deleted
         /\ req[r].pc = "update" => ContentOf(rows[req[r].id]) = req[r].loaded

\* A page and its total tell of one state of the table: the page has as many
\* rows as the total leaves for it, whatever commits between the two SELECTs
\* (service_record.py:68-86).
PageAgrees ==
  list.pc = "answered" =>
    Cardinality(list.shown) =
      Max({0, Min({SizeOf(list.q), list.total - Offset(list.q, list.page)})})

\* No existing row can leave the selection, or change its place in it.
Immune(q) ==
  q.deleted /\ q.category = None /\ q.keyword = None /\ q.sort \in {"id", "created_at"}

\* A client that asks for one page after the other until there is none left has
\* seen every record there was when it began, though others insert meanwhile,
\* and commit later ids before earlier ones; nothing is promised when existing
\* rows change under a query that is not immune to that (repo_record.py:102).
WalkComplete ==
  list.pc = "done" /\ (Immune(list.q) \/ ~list.disturbed) => list.start \subseteq list.seen

\* What the client has not seen of what there was is still ahead of it: what is
\* inserted meanwhile only puts it further back.
Ahead(q) ==
  /\ list.start \subseteq Selected(rows, q)
  /\ list.pc = "count" => /\ list.start \subseteq Selected(list.snap, q)
                          /\ \A i \in list.start : Rank(list.snap, q, i) <= Rank(rows, q, i)
  /\ \A i \in list.start \ list.seen :
       /\ list.pc = "rows" => Offset(q, list.page) <= Rank(rows, q, i)
       /\ list.pc = "count" =>
            i \in list.shown \/ Offset(q, list.page + 1) <= Rank(list.snap, q, i)
       /\ list.pc = "answered" => /\ Offset(q, list.page + 1) <= Rank(rows, q, i)
                                  /\ Offset(q, list.page + 1) < list.total
       /\ list.pc # "done"

\* A state the table may be in.
Table(S) == DOMAIN S \subseteq Ids /\ \A i \in DOMAIN S : S[i] \in Row

\* Why pages agree with their total and a walk is complete, inductively.
ListInv ==
  /\ list.page \in Nat \ {0}
  /\ list.pc # "resting" => list.q \in Queries
  /\ list.pc = "count" => Table(list.snap) /\ list.shown = PageOf(list.snap, list.q, list.page)
  /\ PageAgrees
  /\ list.pc # "resting" /\ (Immune(list.q) \/ ~list.disturbed) => Ahead(list.q)

\* update replaces the row as a whole (dto_record.py:22): when the server
\* refuses stale writes, no interleaving of partial UPDATEs leaves a content
\* that nobody asked for.
WholeRows == conflicts => \A i \in DOMAIN rows : ContentOf(rows[i]) \in asked[i]

\* Why rows stay whole and the deleted ones as they were, inductively.
RowsInv == TypeOK /\ Numbered /\ Loaded /\ WholeRows

\* The whole inductive invariant.
IInv == RowsInv /\ ListInv

\* A deleted record is never brought back, and on such a server never written
\* again: of two deletions, or of an update and a deletion, that overlap one
\* fails (record.py:40).
DeletedIsFinal ==
  [][\A i \in DOMAIN rows : rows[i].deleted =>
       rows'[i].deleted /\ (conflicts => rows'[i] = rows[i])]_vars

=============================================================================
