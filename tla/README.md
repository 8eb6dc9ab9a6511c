# A formal model of StreamSightBackend

TLA+ modules, TLC configurations and TLAPS proofs for the backend under
`src/app`: a FastAPI application that runs as several instances (each one
process, one asyncio event loop) over one MariaDB and one Redis.  Paths below
are relative to `src/app/` unless they start with `docs/`.

## 1. The system

| Component | State it keeps | Operations | Status |
|---|---|---|---|
| **Refresh tokens and sessions** `services/service_auth.py`, `repositories/repo_refresh_token.py` | table `refresh_tokens`: rows with a session (`family_id`), an owner (`principal_id`), `expires_at`, `revoked_at`, `replaced_by_id` | register, login, admin_login, refresh (rotation, reuse verdict), logout, logout_all, purge | `TokenRotation` |
| **Admin accounts** `services/service_admin.py` | table `admins`: `archived_at`, `deleted_at`, `admin_role`, `is_protected`, password hash | create, update, change_password, set_admin_role, archive, unarchive, delete, restore | `AdminLifecycle`; password and tokens in `TokenRotation` |
| **Bootstrap root** `services/service_initial_admin.py` | the protected row of `admins` | ensure_initial_admin at every start of every worker | `AdminLifecycle` |
| **User accounts** `services/service_user.py` | tables `users`, `principals` | create, update (deactivate), set_tier, delete (cascade) | the token side in `TokenRotation` |
| **WebSocket connections** `services/ws/manager.py`, `services/ws/bridge.py`, `api/routers/ws/router.py` | per instance: four indexes of connections; per connection: queue, subscriptions, `closed`, `missed_pongs`, three tasks | handshake, register (replace), control messages, deliveries, kicks, heartbeat, recheck, teardown | `WsConnections` |
| **Tickets, recheck, publisher** `services/ws/ticket.py`, `reauth.py`, `publisher.py` | Redis: one-shot tickets, pub/sub channels | issue and consume a ticket, kick, recheck `is_active` and the session | `WsRevocation` |
| **Sampler and lease** `services/monitoring/sampler.py`, `store.py` | Redis: leader key, stream, sorted set | acquire, renew, release, tick | `SamplerLease` |
| **Log pipeline** `services/monitoring/log_handler.py`, `logs.py`, `store.py` | bounded queue, Redis stream | emit, flush, page through | `Telemetry` |
| **Realtime streamer** `services/realtime/streamer.py` | a batch in memory, table of readings | tick, flush, stop | `Telemetry`, without the history query |
| **Lifespan** `app.py` | how far start-up and shutdown have come | start, stop in order | `AdminLifecycle` (seeding the root), `Telemetry` (shutdown) |
| **Records** `services/service_record.py`, `repositories/repo_record.py` | table `records` with soft deletion | create, update, delete, bulk import, list | `Records` |
| **Schema migrations** `alembic/versions/` | the schema, `alembic_version`, the rows the scripts convert | upgrade at every start of a container, downgrade by hand | `SchemaMigration` |
| Infra sampler, probes and metrics, HTTP layer, DTOs, JWT, passwords, configuration, cache, deployment files | none, or fixed at start | | not modelled (section 8) |

How they interact:

* *Accounts and tokens* share the database and nothing else.  A request is one
  transaction at REPEATABLE READ.  `archive`, `delete`, `change_password` and
  `logout_all` revoke every token of a principal with one UPDATE;
  `login` and `refresh` insert tokens and look at the account first.
* *Tokens and WebSockets.*  After a commit that revokes tokens the service
  publishes a kick over Redis, best effort; each instance's bridge closes the
  connections it knows at that moment.  A periodic recheck
  of every connection is the safety net.
* *Inside an instance* everything runs in one event loop.  The only places at
  which WebSocket code interleaves are its `await`s: the close of a
  socket above all, because the closing procedure
  `await conn.close(code); await manager._teardown(conn)` can be running for
  the same connection in its writer, its heartbeat, its recheck, its handler,
  the bridge and the handler of a newer connection of the same tab.

The hard behaviours are therefore: concurrent refreshes of one token; a refresh
or a login in flight while the account or the session is revoked; transactions
that end halfway; the purge of rows that others refer to; overlapping
replacements, teardowns and control messages of one connection; slow clients;
what must happen in the end once a socket is closed; workers that seed the root at
once, and account changes written long after they were checked; a lease that is
kept by several commands; batches whose commit is not answered; a shutdown that
cancels a task at whatever it awaits; pages of a list that changes; schema changes
that a crash cuts in half, or that two containers execute at once.  `PROJECT.json` lists each
one at its line under "hazards", with the properties that cover it or the reason
why none does.

What makes each component correct:

* *Sessions*: one live token per session; a token is exchanged once; a dead
  session stays dead; a revocation leaves nothing alive; no token is served to
  an account that is not active; seen from outside, a session is an atomic thing
  that is opened and closed.
* *Connections*: a kick finds every open connection (indexes agree with
  connections); a closed connection is gone from every index and leaves no task;
  a tab has one connection; limits hold; a stream has no hole; closing ends.
* *Accounts*: one protected root, active from the moment anything is served, which
  only itself changes; an archived or deleted admin stays so until somebody
  reinstates it; no archived super admin (which does not hold).
* *Revocation end to end*: a ticket opens one connection; a kick reaches every
  connection that was registered before the revocation; whichever messages are lost,
  a connection whose session is revoked is closed in the end.
* *Lease, batches, logs*: one writer at a time, replaced when it is gone; each reading
  stored, and once; what is dropped is what a full queue, a failure or a trim explains.
* *Records*: a page tells of one state; a walk through the pages misses nothing; an
  update replaces a row as a whole; a deleted record stays as it was.
* *Migrations*: no account, session or record is lost; `alembic_version` tells the
  schema; a container that is merely restarted gets through.

## 2. Modules

| Module | What it is |
|---|---|
| `SessionAuthority` | what callers rely on: sessions that are opened, closed, and closed together with their account, each in one step |
| `TokenRotation` | refresh-token rows, statements, locks and transactions; accounts as far as tokens depend on them |
| `MCTokenRotation` | the symmetry set for TLC |
| `TokenRotationProofs` | theorems about `TokenRotation`, checked by TLAPS |
| `WsConnections` | one instance's connections, from the handshake to the teardown |
| `MCWsConnections` | the ownership of sessions and the symmetry set for TLC |
| `WsConnectionsProofs` | theorems about `WsConnections`, checked by TLAPS |
| `AdminLifecycle` | the admins table: bootstrap of the root, management of admins by admins |
| `MCAdminLifecycle` | the symmetry set for TLC |
| `AdminLifecycleProofs` | theorems about `AdminLifecycle`, checked by TLAPS |
| `WsRevocation` | from a session to a connection and back: tickets, handshakes, kicks over Redis, rechecks; composed with `SessionAuthority` |
| `MCWsRevocation` | the ownership of sessions for TLC |
| `WsRevocationProofs` | theorems about `WsRevocation`, checked by TLAPS |
| `SamplerLease` | the leader lease of the samplers of all instances, command by command, with a clock |
| `MCSamplerLease` | nothing but the instance |
| `SamplerLeaseProofs` | theorems about `SamplerLease`, checked by TLAPS |
| `Telemetry` | one process: the streamer and its batch, the log queue and its flusher, the log query, the shutdown |
| `MCTelemetry` | nothing but the instance |
| `TelemetryProofs` | theorems about `Telemetry`, checked by TLAPS |
| `Records` | the table of records, overlapping writing requests, a client that pages through the list |
| `MCRecords` | contents, queries and the symmetry set for TLC |
| `RecordsProofs` | theorems about the rows, the requests that write them and the paged list, checked by TLAPS |
| `SchemaMigration` | the chain of migration scripts, executed by several containers that may die |
| `MCSchemaMigration` | the symmetry set for TLC |
| `SchemaMigrationProofs` | theorems about `SchemaMigration`, checked by TLAPS |

Operators whose comment begins with "Fault:" are not part of a specification.
Each is the definition that follows it with one plausible programming error, and
is used to confirm that the properties notice that error.

### TokenRotation

A *request slot* `r` serves one HTTP request after another; `req[r]` is what the
request's coroutine holds in local variables, `req[r].pc` where it is.  One step
is one SQL statement, or the snapshot read a request begins with and the Python
checks on what it returned.  Between two steps any other request may run, which
is what several instances on one database amount to.

| Code | Actions |
|---|---|
| `login`, `admin_login` | `LoginRead` (account read, argon2 in the thread pool, checks on the object already read), `LoginIssue`, `Commit`, `PurgeExpired` (users only, its own transaction) |
| `refresh` | `RefreshRead`, `RefreshIssue` (INSERT, flush), `RefreshConsume` or `RefreshLost` (rollback, 401), `Commit` |
| `refresh`, reuse branch | `ReuseRead`, `ReuseRevoke`, `Commit` |
| `logout` | `LogoutRead`, `LogoutMark`, `Kick` |
| `logout_all` | `LogoutAllStart`, `RevokeAll`, `Commit`, `Kick` |
| `archive`, `delete`, `change_password` | `AdminRead`, `RevokeAll`, `Commit` (flushes the account too), `Kick` |
| `unarchive`, `restore` | `AdminRead`, `Commit` |
| `UserService.update(is_active=False)`, `.delete` | `UserRead`, `Commit` or `UserDeleteCommit` |
| any exception, rollback, lost connection, dead process | `DbError` |

The database is external to `src/`; it is modelled from how the code uses it
(the header of the module lists the assumptions).  `refresh_tokens` and
`accounts` are the committed state; `written[r]` are the row versions of r's
open transaction.  `LockedByOther`, `PrincipalUnlocked`, `FamilyUnlocked` and
`InsertUnlocked` are the lock conflicts: row locks are exclusive, and a range
UPDATE keeps inserts out of its range until it commits.  A SELECT takes no lock.
`PrincipalUnlocked` and `FamilyUnlocked` make a range UPDATE wait until it can
have all its rows at once; the deadlocks this hides end in `DbError`.

`family_id` is a random UUID in the code; here it is the id of the login's own
row, which is as unique.  Registration is a login of a principal nobody else can
know yet.  Requests answered 401, 403 or 404 after a read write nothing and are
not steps.

The refinement `AuthoritySpec` maps the rows to sessions: a session is open when
some committed row of the family is live.  Rotation is then a stuttering step,
and every commit is one step of `SessionAuthority`, whatever the statements of
other transactions around it.

### WsConnections

A step is what a task does between two suspensions.  `handler[c]` is where the
request handler of connection `c` is, `tasks[c]` which of its three background
tasks run, `index` the manager's four dictionaries, `closing[a]` where actor `a`
(the bridge, a task or a handler) is inside the closing procedure, and on which
connection.

| Code | Actions |
|---|---|
| `admin_ws` up to `register` | `AcceptRefused`, `AcceptFresh`, `AcceptReplacing` |
| control loop, `_handle_control` | `Subscribe`, `Unsubscribe`, `Pong`, `Rejected`, `ProtocolError`, `Disconnect` |
| `send_to_connection` | `SendTo`, part of the actions that send |
| `_run_writer` | `WriterSends`, `WriterFails` |
| `_run_heartbeat`, `_run_reauth` | `HeartbeatPing`, `HeartbeatTimeout`, `ReauthInvalid`, `TaskEnds` |
| `send_local`, `broadcast_local` | `SendLocal`, then `BridgeCloses` per overflowing connection |
| `kick_local`, `kick_local_sid` | `Kick`, then `BridgeCloses` per connection |
| `conn.close(); _teardown()` | `StartClose`, then `Teardown`, or `TeardownBegin` and `TeardownEnd` when nobody has closed the socket yet, or `TeardownAgain` when somebody else has torn it down |

What a client sends, when it leaves, whether a send fails and what the recheck
answers are free choices.  So is what a connection is opened with (`Openings`): a session id or
none, a tab id or none.  `Sid`s in `Sessionless` stand for a ticket without a session id, whose
connection is in no session index and no tab, whatever tab id it sends (`HasTab`, `Enrolled`).
The topic index agrees with the subscriptions of every connection until its teardown; of one
that is torn down it may keep an entry (section 3, `UnregisteredEverywhere`), which is why
`IndexesAgree` speaks of the other three indexes for all connections and of this one for those
that are not torn down.  An explicit close of a socket that is closed already
returns at once in the code and is one more suspension here: more interleavings,
never fewer.  In the two violation runs the traces found do not depend on that.
`NoHoleInStream` rests on the bridge being the only caller of `send_local`,
`broadcast_local` and the kicks, which a search of the source confirms.

### AdminLifecycle

`admins` is the committed table, `req[r]` the flush a request slot is about to
make (operation, actor, target, columns), `worker[w]` how far a process is in its
start-up.  The two steps of a request are the ones at which others can interleave:

| Code | Actions |
|---|---|
| `ensure_initial_admin` | `BootstrapSkip` (a root is there) or `BootstrapSeed` (none; argon2 in the thread pool), then `BootstrapInsert` or `BootstrapLost` (IntegrityError), or `Crash` |
| `require_min_admin_role(SUPER_ADMIN)`, `get`, guards, assignments | `UpdateRead`, `SetAdminRoleRead`, `ArchiveRead`, `UnarchiveRead`, `DeleteRead`, `RestoreRead`, `CreateRead` |
| flush and `session.commit()` | `Write` |
| any exception or dead process | `Rollback` |

The actor's row and the target's are read in one snapshot, so one step reads both.
SQLAlchemy (external) puts into an UPDATE only the columns whose assigned value
differs from the loaded one (`Dirty`), and the statement applies to the row as it
is when it runs (`Patched`); a request without such a column issues no UPDATE and
is no step.  The CHECK constraints and the UNIQUE index are guards of
`Insert` and `Write`; what violates them goes to `Rollback` or `BootstrapLost`.
A timestamp and the id of its author are only "set" or `None`: nothing compares
them.  All workers have the same `INITIAL_ADMIN_USERNAME`.

Tokens, passwords and kicks are left to `TokenRotation`, whose account operations
and these share no column but the two flags, which both modules keep.

MariaDB 11.7 (`docker-compose.yml`) refuses, with `innodb_snapshot_isolation`, to
write a row that has changed since the snapshot of the transaction.  `Rollback`
here and `DbError` in `TokenRotation` may happen at any write, so the refusals are
behaviours of both modules; that a server with the setting off writes the row is the
case the two modules do not exclude either.  `Records` distinguishes the two, because
its properties do.

### WsRevocation

`sessions`, `spent` and `suspended` are the variables of `SessionAuthority`, and
sessions change by its actions only (`Authority == INSTANCE SessionAuthority`): what
`TokenRotation` implements, as the run `rotation_admin` checks, is what is relied on
here.  `tickets` are Redis keys, `conns` handshakes and connections, `pending` the
kicks between a commit and its PUBLISH, `mail[i]` what the channel has for instance
i, `bridges` the instances that listen.

| Code | Actions |
|---|---|
| `login`, `refresh` | `Login`; a rotation changes nothing here |
| `logout`, `logout_all`, `change_password`, `archive`, `delete` | `Logout`, `LogoutAll`, `Suspend`: the commit, which leaves a kick in `pending` |
| reuse verdict, expiry of the last refresh token | `EndsSilently` |
| `unarchive`, `restore` | `Reinstate` |
| `POST /ws/ticket` | `TicketAsked` (`get_current_admin`), `TicketIssued` (`get_current_token_sid`, SET), `TicketGone` (TTL, SET fails) |
| `admin_ws` up to `register` | `Consume` (GETDEL), `Load` (account), `Register` (accept, register, start the tasks, or a refusal) |
| `Publisher.kick`, `kick_sid` | `Publish`, `PublishFails` |
| `WsBridge` | `Deliver`, `BridgeDies` |
| `_run_reauth`, `WsReauthService` | `Recheck`, `RecheckDies` |
| end of a connection, of a process | `Leave`, `Restart` |

Access tokens are stored nowhere.  One that was issued is accepted until it expires,
whatever became of its session, and whether it has expired is a free choice whenever
somebody looks.  Hence a connection can be opened for a session that is revoked
already (`late`), and a token that expires between the two dependencies of
`POST /ws/ticket` (`dependencies/auth.py:81-90`) gives a connection without a session
id, which no recheck asks about its session.  A logout that a refresh of its token has
overtaken leaves the session open and kicks all the same.  A kick that comes late also
cuts a connection opened after `logout_all`, which is harmless.

### SamplerLease

`owner` and `ttl` are the Redis key; `pc[i]` is the await instance i is in, `sleep[i]`
what it has left to sleep.  `belief[i]` counts the seconds for which an instance may
take itself for the leader (a whole lease from the last success of `_acquire_lease`);
`late[i]` counts what has been lost since then by delays and failures; `wronged` are the
instances whose key lapsed between their own GET and the EXPIRE or DELETE that relies on it,
and those whose key such an instance has deleted.  These three are auxiliary: no
action looks at them.  That a stale GET and a tick longer than the lease let a second
writer in does happen, in the code and in the model; `OneWriter` excepts the two and says
that nothing else does.

| Code | Actions |
|---|---|
| `_acquire_lease` | `AcquireSet` (SET NX EX), `AcquireGet`, `AcquireExpire` |
| `_tick` | the above, then `Sample` (probe, XADD, PUBLISH, ZADD, trim) and `SampleDone` |
| `_loop` | `Start`, `Wake`, `TickFails` (logged, then sleep) |
| `stop` | `Stop` (cancel at any await; a command that was sent may have been executed), `ReleaseGet`, `ReleaseDelete` |
| an exception out of `stop`, a dead process | `Crash`: an instance id is never used again |
| time | `Second`, which may pass anywhere |

`belief`, `late` and `Lease` are in seconds.  Redis is external: commands are executed
in the order they are sent, a key lapses when its time is over.  The code does not
validate `lease >= 2 * interval`, which the description of the setting asks for
(`config/base.py:224`); neither does the module's assumption.  That description falls one
second short of what one would expect of it: a tick that fails costs an interval, so
with a lease of exactly two intervals the key lapses after a single failed tick, two
sleeps after it was set.  A leader survives one failed tick when `lease > 2 * interval`;
the default (30) is far above.

### Telemetry

One process at a time, which ends and is started again (`stage`).  `spc` is the await
the streamer is in, `fpc` the flusher's; `rows[t]` says how often tick t is in
`realtime_readings`.  `excused`, `unsure` and `dropped` are auxiliary: the ticks and
records that were lost, or may have been stored twice, for a reason a reader would
accept.

| Code | Actions |
|---|---|
| `RealtimeStreamer._loop`, `_tick`, `_flush` | `Draw` (INCR), `DrawFails`, `Collect` (publish, append to the batch), `Insert`, `Flushed`, `FlushFails` (the commit may have been applied) |
| `RedisLogHandler.emit`, anywhere in the process | `Log`; also part of every action that fails, since failures are logged |
| `LogFlusher` | `Take`, `AppendMany` (one pipeline of XADD with approximate trims), `AppendFails` (a part of the pipeline was executed) |
| `LogQueryService.query` | `NextPage`, `NextCursor` |
| lifespan shutdown | `StopStreamer`, `StopFlusher`, `CloseResources`, `Exit`, `Boot` |
| a dead process, an exception in the shutdown | `Crash` |

What the model says of the code, beside its properties: a full queue drops the newest
record, although `config/base.py:196` says the oldest; the flusher is cancelled without
emptying the queue, so the last records of a process are lost; a batch grows with every
reading while its flush fails; a flush whose commit was not answered, or is cancelled
in its commit, stores its readings twice.

### Records

`rows` is the committed table.  `req[r]` is a writing request between its read and its
commit; `stale` the rows others have committed meanwhile.  `list` is a client that asks
for one page after the other.  `asked` (auxiliary) are the contents somebody has asked a
record to have.

| Code | Actions |
|---|---|
| `create_record` | `CreateRead`, `Insert` (ids are given), `InsertCommit`, `Reread` |
| `bulk_create_records` | `BulkRead` (valid rows are kept, the others reported), `Insert`, `InsertCommit` |
| `update_record` | `UpdateRead`, `UpdateCommit` (the columns that differ from what was loaded), `Reread` |
| `delete_record` | `DeleteRead`, `DeleteCommit` |
| any error of the database | `Rollback` |
| `list_records` | `ListBegin`, `ListRows` and `ListCount` (one snapshot), `ListNext`, `ListEnd` |
| categories, the calendar | `Retire`, `Midnight` |

Sessions are made with `expire_on_commit=False` (`session.py:32`): the answer of an
update is the object in memory beside the name of its category, joined anew, and may mix
the two.  `conflicts` says whether the server refuses stale writes.  With it off, two
partial updates leave a mixture nobody asked for, an update writes into a record that
was deleted meanwhile and then answers 404, and two deletions of one record both
succeed; `WholeRows` and the second half of `DeletedIsFinal` therefore say what they say
for servers that refuse.  A walk through the pages may show a row twice, never miss one
that stays where it is.

### SchemaMigration

A script is the sequence of its statements, one definition per file of
`alembic/versions/`, in the order of the chain.  `parts` is the schema as far as later
statements depend on it, `rows` the data the scripts convert, `version` the row of
`alembic_version`, `run[c]` what a container is doing.  `known` is what the application
has been told of each account, session and record; `aborted` are the scripts that were
cut off after a statement had committed.

| Code | Actions |
|---|---|
| `Dockerfile`: `alembic upgrade head`, then uvicorn | `Boot` (reads the version once), the statements, `Finish`, `Serve` (seeds the root) |
| a DDL statement | `ExecuteDDL` (commits what was pending, then itself), `DDLFails` |
| a data statement | `ExecuteWrite` (pending until the next commit), `WriteFails` |
| the version | `Finish` (UPDATE ... WHERE version_num = old), `Overtaken` (no row matches) |
| `alembic downgrade -1`, by hand | `Downgrade` |
| crash, restart, replacement of a container | `Crash`, `Restart`, `Stop` |
| the application meanwhile | `UserJoins`, `AdminJoins`, `RecordMade` |

MariaDB commits before and after every DDL statement, so that no script is atomic: a
container that dies between two statements leaves a schema from which every later boot
fails, although `Dockerfile:42` and the docstring of `f3e04d5de815` (line 10) call the
upgrade idempotent.  Two containers that migrate at once may leave `users.email` at the
narrower of two lengths with the version of the wider.  Both are damage that
`DamageConfined` traces to a script that was cut off or overtaken.  What a downgrade
loses by design is not in `known` any more (`Forgotten`): `c3d4e5f6a7b8` drops the
admins, `d0e1f2a3b4c5` deletes every record, the seeded ones and the others.  Two
downgrades fail on the way: that of `a7b8c9d0e1f2` once a root exists, because the old
check does not admit its grade, and that of `b2c3d4e5f6a7` while there are sessions of
admins, for which it has no `user_id`.

## 3. Runs

| Run | Checks | Instance |
|---|---|---|
| `rotation_admin` | `IInv`, `RefreshServesActiveAdmin`, `RevocationComplete`, `AuthoritySpec` | 2 requests, 1 admin, 3 rows, clock 1..3, TTL 2, grace 1 |
| `rotation_user` | `OneLivePerFamily`, `TokensSingleUse`, `DeadFamilyStaysDead`, `AuthoritySpec` | 2 requests, 2 users, 3 rows, clock 1..2, TTL 1, grace 0 |
| `rotation_login_race` | `InactiveAdminHasNoLiveToken` (violated) | 2 requests, 1 admin, 1 row |
| `ws_registry` | `IInv`, `IndexesAgree`, `TeardownLeavesNoTask` | 3 connections with one tab id, each with the one session or without a session, 1 topic, queue of 1, recheck, 1 event, limit 2 |
| `ws_delivery` | `NoHoleInStream`, `ClosedIsTornDown` | 1 connection, with a session or without, with all its tasks, 1 topic, queue of 2, 2 missed pongs, 3 events |
| `ws_same_tab` | `OneConnectionPerTab` (violated) | 3 connections of one tab, total limit 1 |
| `admin_lifecycle` | `TypeOK`, `Reserved`, `RootFloor`, `AuditPaired`, `RootChangesItself`, `NoResurrection` | 3 ids, 2 requests, 2 workers, 3 usernames, grades 0, 100 and 999 |
| `migrations` | `IInv`, `AccountsKept`, `DamageConfined`, `FailsForCause` | 2 containers, databases at revision 2, 8, 12 or 14 of the chain, 1 user, 1 admin, 2 troubles |
| `records` | `IInv`, `PageAgrees`, `WalkComplete`, `WholeRows`, `DeletedIsFinal` | 2 requests, 2 writing operations, 2 records and room for 2, 2 categories, 4 queries, pages of 1 and 2, 2 days |
| `lease` | `IInv`, `OneWriter`, `LapsesForCause`, `TakenOver` | 2 instances, lease 5, interval 2, 2 faults |
| `telemetry` | `IInv`, `ReadingsKept`, `LogsAccounted`, `PagedOnce` | batch 2, queue 2, flush 2, page 1 and fetch factor 2, 4 ticks, 4 records, 2 faults |
| `revocation` | `IInv`, `TicketOnce`, `KickComplete`, `CutInTheEnd` | 1 admin with 1 session, 2 instances, 2 tickets, 2 connections, 1 fault |

`IInv` is each module's inductive invariant, its type invariant `TypeOK` the first
part of it.  A run that checks it shows on a small instance what the proofs of
section 5 show on every one, and `TypeOK` with it; what is listed beside it are the
properties the code is held to.

Why these bounds are enough for the interesting cases:

* Two requests give every pairwise race (refresh against refresh, logout, reuse,
  archive, purge, login).  A slot serves any number of requests in turn, so
  sequences of any length are covered up to the number of rows.  Three rows are a
  login and two rotations, or two sessions one of which rotates; the lost race,
  which draws an id and rolls back, fits too.  TTL 2 with clock 3 lets a row
  expire while another is alive; grace 1 has both sides of the window, grace 0
  makes every replay a reuse.  The proofs of section 5 have none of these bounds.
* Three connections are the fewest for two overlapping replacements of one tab.
  One session, and connections without one, are enough for the indexes: the entries of
  different sessions and principals never meet.  A queue of one is full after the welcome message, so
  every send may overflow, and the bridge then has several connections to close.
  Of the background tasks `ws_registry` keeps the recheck only: the heartbeat
  closes connections in the same way.
* `ws_delivery` is about one connection and everybody who may close it at once:
  its writer, heartbeat, recheck, handler and the bridge.  A queue of two holds the
  welcome and a ping, which is what it takes for a pong to be missed; three events
  let one fit, one be lost and one come too late.  That a close of one connection
  does not keep the bridge from the next is the fairness of the bridge, and is
  seen with several connections in `ws_registry` for safety only: with two
  connections and all tasks the liveness check does not end within minutes.
* `admin_lifecycle`: three rows are the root, an actor beside it and a target
  different from both, or the root and two admins that manage each other.  Two
  requests overlap in every pair of operations, and a slot is used again and again,
  so histories have any length.  Two workers are what a lost race takes.  A
  viewer, a super admin and the root's grade are the three sides of every guard;
  an editor is refused where a viewer is.
* `migrations`: two containers are what a race takes.  The revisions to start from
  are those before the four groups of scripts that move or check values (the users' flags
  and password hashes, the owners of sessions, the admins' grades, the root and the seeds);
  from each the chain is run to its end.  Two troubles are a crash and a boot beside another, a
  crash and a downgrade, or two of a kind.
* `records`: two operations overlap in every pair, of a creation, an import, an update and a
  deletion.  The two contents differ from the records' first content in one column each,
  so that partial updates can mix.  The four queries have each kind of order and filter,
  and both ceilings of the page size.
* `lease`: a lease of two intervals and one second is the smallest with which a leader
  survives one failed tick; two failed ticks, or one and a delay,
  end it.  Two faults are one of each instance or two of one.
  Two instances are enough for a change of hands; the proof has any number.
* `telemetry`: a batch of two is filled twice by four ticks, and once more after a failing
  flush.  The queue and the flush of two are exceeded by four records.  A page of one out of
  two fetched entries ends before, at and behind the last that matches.
* `revocation`: two tickets and two connections are one of before and one of after a
  revocation, on the same or on different instances.  Sessions of different admins meet
  only in the kick of a principal, and `Hits` compares nothing else.
* `Permutations` of slots, workers, rows, display names, principals of one kind,
  connections, containers and requests are sound: nothing orders or names them.
  `ws_delivery`, `lease` and `revocation` check liveness and use none.

`CHECK_DEADLOCK FALSE` in the WebSocket runs: connection objects are finite and
are not reused, so the system stops when all are done.  The rotation runs do
check deadlock: the clock stops and rows run out, but `logout_all` and aborted
requests are always possible.  So do the admin runs: once a worker is up there is
a root, and it can always rename itself.  `lease` checks it as well: time goes on.  In
`migrations`, `records`, `telemetry` and `revocation` it is off: their bounds on operations, ticks, troubles, tickets and
connections end, which is the only way in which these models stop.

### What the violations show

* `rotation_login_race`: a login reads an active admin and starts argon2; the
  archive reads, revokes every token there is, commits; the login inserts its
  token and commits.  The comment of `admin_login` says an archived admin is given
  no token.  The token does nothing while the admin is archived, but works once
  the admin is unarchived; for `change_password` the same race leaves a login with
  the old password alive.
* `ws_same_tab`: `register` reads the tab index, awaits the close of the old
  connection, and writes the index without looking again.

### Known behaviour that is not a run

Four statements of the repository, kept as definitions in the modules, do not hold of
the code.  They cost a run each to show again, and the properties around them say what
holds instead.

* `UnregisteredEverywhere` (`WsConnections`): a message that had arrived before another
  task tore the connection down is handled afterwards, and `subscribe` puts the closed
  connection back into the topic index, where nothing removes it.
* `ArchivedIsNotSuper` (`AdminLifecycle`): `docs/specs/admin-management-service.md`
  argues that an archived admin is never a super admin, because `archive` demands a
  demotion first.  `set_admin_role` accepts an archived target, alone or overlapping the
  archive.
* `RootBuilt` (`AdminLifecycle`): when an ordinary admin already has the configured
  username, the count finds no root, the INSERT fails, and the bootstrap takes the failure
  for a lost race: the application serves requests without a root.
* `RootCheckPasses` (`SchemaMigration`): `a7b8c9d0e1f2` (line 10) says that no row is
  protected before the root is seeded.  `e5f6a7b8c9d0` has protected the active super
  admins there were; the old check is dropped, the new one fails, and every later boot
  fails at the drop.

## 4. Fairness

`TokenRotation`, `AdminLifecycle`, `Records`, `Telemetry` and `SchemaMigration` promise
safety only and have no fairness.  `WsConnections` has
weak fairness per task: whoever is in the closing procedure goes on with it, the
bridge turns to its next target, and a handler that reads from a closed socket is
told so.  The event loop runs every task that is ready
(first in, first out), `Connection.close` ends because the server bounds the
closing handshake and suppresses exceptions, and Starlette's `receive_text`
raises on a closed socket.  Nothing is assumed of clients, of the writer, of the
heartbeat or of the recheck: `ClosedIsTornDown` says only what happens after
somebody has decided to close.

`SamplerLease` has weak fairness of time, of each instance's steps and of its release:
the event loop runs a task that is ready, a command is answered or fails, because redis-py
has a timeout or the connection ends.  Faults are not fair, and there is a last one.
`TakenOver` holds once instances are neither started nor stopped any more.

`WsRevocation` has weak fairness of the recheck of each connection, and of nothing else: its
task sleeps for the interval and asks, as long as it lives.  `CutInTheEnd` therefore holds
though every kick may be lost, every bridge dead and no client ever leaves; it promises
nothing of a connection whose recheck an exception has ended, which is a hazard of its
own.

## 5. Proofs

Every theorem holds for all values of the constants that satisfy the assumption its
module states: any number of requests, instances, connections, tokens, rows and faults, any
clock, queue and page size.  The assumptions say that bounds are numbers, that sets which have
to be disjoint are, and that marks like `None` are none of the values beside them.  Two theorems of
`AdminLifecycleProofs` need more, which is said there.  In all eight modules the argument has the same form:
`Init => IInv`, one lemma per kind of step for `IInv /\ [Next]_vars => IInv'`, and
`IInv => ...` for what is claimed.

### TokenRotationProofs

* `TypeCorrect`, `RowInvariant` and `Invariant`: `TypeOK`, `RowInv` and `IInv` always hold
* `OneLive`: `Spec => []OneLivePerFamily`
* `DeadStaysDead`: `Spec => DeadFamilyStaysDead`
* `TokensUsedOnce`: `Spec => TokensSingleUse`
* `RefreshServes`: `Spec => []RefreshServesActiveAdmin`
* `RevocationIsComplete`: `Spec => RevocationComplete`
* `ImplementsAuthority`: `Spec => AuthoritySpec`, the refinement

`OneLivePerFamily` is not inductive: it says nothing of uncommitted rows, and
two commits could each bring one.  `RowInv` adds what the code relies on without
saying it.  `OneWriter`: no two transactions have written the same row.
`WritesAccounted`: an uncommitted version is either the one row its request
inserts, in the family the request carries, or the revocation of a row that is
live in the committed table.  `FreshIds`: nothing refers to an id that is not
drawn.  `OpeningIsPrivate`: until its login commits, a family is known to nobody
else.  `RefreshHoldsToken`: a refresh that is ready to commit has itself written
the revocation of the live token of its session.  From these, a commit that adds
a live row to a family either opens the family or takes its only live row away in
the same step, which is the heart of `OneLive` and of `DeadStaysDead`.

The two other properties are about who is revoked and served, which `RowInv` does not know.
`IInv` adds it.  `WritesOwned`: a request writes its own row, the token it refreshes and the
rows of the range it revokes.  `RefreshEntitled`: while the token of a refresh is live, the
admin who owns it is active, because whatever suspends an admin revokes the token in the
same commit; so the account that was read long before the commit is still right at
the commit.  `RangesSwept` and `RangesShut`: behind a range UPDATE no live
row is left that it has not written, and none is on its way into the range.  This pair
is why a commit of `logout_all`, of a reuse verdict or of an archive is complete although
others insert meanwhile: the login that has read its account before the archive and has
inserted nothing yet is in neither, and is the violation `rotation_login_race` shows.

The refinement follows the steps again.  Everything before a commit is invisible
(`InvisibleStep`); a commit of a login opens a session, that of a refresh takes one
live row away and puts another into the same family and changes nothing that
`SessionAuthority` sees, that of a range closes the sessions whose rows it took and, with an
account operation, suspends the account in the same step (`CommitSuspends`); a direct
UPDATE of one row closes at most its session.  Hence `WsRevocation`, which is written
against `SessionAuthority`, may rely on atomic sessions.

The proof classifies the steps (`Steps`) into reads, inserts, the consume,
range revocations, commits, withdrawals and direct updates, with one lemma each.

### AdminLifecycleProofs

Without any assumption on names:

* `TypeCorrect`: `Spec => []TypeOK`
* `WhoGoesWithWhen`: `Spec => []AuditPaired`
* `RootIsItsOwn`: `Spec => RootChangesItself`
* `NobodyReturnsByAccident`: `Spec => NoResurrection`

With one thing the code does not check, that no admin from before the first start has the
configured username (`RootName \notin LegacyNames`; without it `RootBuilt` fails, see
section 3):

* `Invariant`: `Spec => [](TypeOK /\ Reserved)`
* `RootStands`: `Spec => []RootFloor`

`RootFloor` is not inductive: nothing in it keeps a second worker from inserting a
second root.  `Reserved` is the argument the code makes in three places: the
protection and the configured username mark the same row, because `create` refuses
the one and never sets the other and an UPDATE names neither; the index allows the
username once; so an insert of the bootstrap succeeds once, and whoever fails knows
that a root exists.  That it stays active and of the highest grade is the CHECK
constraints (`Checks`), which `Write` evaluates on the row the UPDATE leaves.

`RootIsItsOwn` and `NobodyReturnsByAccident` are about an UPDATE that is executed long after
its guards were evaluated.  They use of the table only `Sane`: the types, the CHECK
constraints, and that no request inserts a protected row.  `Rightful` says what the guards have let into it: a request whose target is
protected is the target's own and names nothing but the name and the grade, and only
an unarchive or a restore sets a mark to NULL.  It stays true because no UPDATE makes a row protected, and a
row that is inserted has an id no request can have as its target (`RowsChange`).

`AuditPaired` is not inductive either: an UPDATE names the columns that differ
from what was loaded, and could name the time of a suspension without its author.  That
it names both or neither is part of what is proved of a request.

### WsConnectionsProofs

* `Invariant`: `Spec => []IInv`
* `RegistryAgrees`: `Spec => []IndexesAgree`
* `NoTaskOutlivesTeardown`: `Spec => []TeardownLeavesNoTask`
* `SlowClientsAreCut`: `Spec => []NoHoleInStream`

`ClosersKnow` is the strengthening for the first two: a connection is in an index, has tasks
or is told to close only once it is registered, its tasks close no other connection, and who is at the
cancelling has set `closed` before.  With it a teardown that finds `closed` set may return, since
the one who set it is still at it.  `IndexesAgree` has two parts.  `RegistrationsAgree` is about the principal, session and tab
index; `AgreeForm` rewrites it as an equation for each of these dictionaries, which `register` and
`unregister` keep step by step (`EnrollAgrees`, `UnregisterAgrees`), also when a replacement
overlaps another.  `SubscriptionsAgree` is about the topic index of connections that are not torn
down: `register` leaves that index alone, a subscription enters it in the step that records
it, and a teardown that starts takes its connection out of the claim (`NextTopics`).  `OverflowCut` is the strengthening for
the third: a connection whose queue an event found full is closed or is being closed by the
bridge, and the bridge dispatches nothing else until it has turned to all of them.

### WsRevocationProofs

* `Invariant`: `Spec => []IInv`
* `TicketsOpenOnce`: `Spec => []TicketOnce`
* `KicksReach`: `Spec => []KickComplete`

`KickComplete` speaks of states in which no kick is under way.  `KickCovers`
says the same of all states: whatever ends what a registered connection stands for leaves a
kick that finds it, among those to be published or in the mail of its instance, and the
kick stays there until it has closed the connection.  The step that needs `WellIssued` is
the registration: a connection carries the session its ticket was asked for and that
session's admin, so that a session or account that was valid when it
registered is the one a later kick names.

### SamplerLeaseProofs

* `Invariant`: `Spec => []IInv`
* `SingleWriter`: `Spec => []OneWriter`
* `LeaseLostForCause`: `Spec => LapsesForCause`

`OneWriter` is not inductive: it says nothing of an instance that is asleep, which may wake up
and take the key while another samples.  `Owned` in `IInv` is the reason it cannot: while
an instance may believe in its lease and is not wronged, the key is its own and has at
least as many seconds left as the belief (`belief[i] <= ttl`), so the key cannot lapse
first and SET NX finds it taken.  Two believers would both own one key.  `AsksFirst` is the
same for the commands that change a key without a condition: whoever is about to EXPIRE or
DELETE has found the key to be its own, and it is still unless the instance is wronged.
`wronged` is entered in two places only: when the key of an instance lapses while it relies
on its GET, and when an instance that is wronged deletes the key of another.  `OwnerLives`, part of
`IInv` as well, says that a sampler which has stopped has not left the lease behind.

`LapsesForCause` is about what has been lost on the way to the end of a lease, so its
invariant is an account of time (`Paced`): the seconds of the lease that are used up
are what the instance has slept since it last renewed and what its delays and failures have cost
it.  When the key lapses all of it is used up, and no more than one interval was sleep.

### TelemetryProofs

* `Invariant`: `Spec => []IInv`
* `ReadingsAreKept`: `Spec => []ReadingsKept`
* `LogsAreAccounted`: `Spec => []LogsAccounted`
* `PagesMissNothing`: `Spec => []PagedOnce`

`Collected` is the strengthening for the readings: a tick has no row before it was
collected, the batch is older than the reading being published, and what is in the batch has a row
only after a fault or in the last flush; so a second row has a commit that was not answered
before it.  `LogsAccounted` is inductive as it stands, once sequences are split: `Kept`
turns the order of the stream, the flusher's batch and the queue laid end to end into
the order of each and of each before the next, which `Take`, an append in part and a trim preserve.
`Followed` is the strengthening for the reader: its next page begins where what it has seen ends, and
whatever is not in the stream yet comes behind that.  `PageFollows` then goes through the three ways a page
ends: the limit is reached, the fetch was exhausted, or the stream was.  Entries in the order of
their ids are a CHOOSE in the model (`ById`); that they exist, for any set of entries, is `OrderExists`.

### RecordsProofs

* `RowsInvariant`: `Spec => []RowsInv`
* `RowsStayWhole`: `Spec => []WholeRows`
* `DeletedStaysDeleted`: `Spec => DeletedIsFinal`
* `Invariant`: `Spec => []IInv`
* `PagesAgree`: `Spec => []PageAgrees`
* `WalksAreComplete`: `Spec => []WalkComplete`

`WholeRows` is not inductive: an UPDATE names the columns that differ from what was
loaded, and the row may be another by now.  `Loaded` says when it is not: unless the row is
among those the request will be refused for, it is what was loaded, and not deleted.  So
the columns that are not sent have the values the request asked for, and the result is
its content as a whole.  `Numbered` is needed for the other writer, the INSERT that
commits late: its ids are a range of its own below `nextId`, where no row is yet, so it
never replaces one.  What an import keeps of its rows is a CHOOSE of their order (`Kept`), since the
prover cannot look into the recursion of `SelectSeq`; `OrderExists` shows that there is one.

A page is the rows whose rank, the number of selected rows before them, is in an interval.
`PageAgrees` comes down to counting them: the order is total (`BeforeOrder`), so the ranks
of n rows are the numbers 0 to n - 1, each once (`RankBijective`), and an interval of
ranks is as long as the page (`PageSize`).  `WalkComplete` speaks of the end of a walk;
`Ahead`, in `ListInv`, of every moment before: what there was at the start and was not seen is
still selected and has at least the rank the next page begins with.  Others can break
it only by taking a row out of the selection or forward in its order, and an
insert does neither, whatever id it commits late (`RankGrows`, `WritesDisturb`).

### SchemaMigrationProofs

* `Invariant`: `Spec => []IInv`
* `VersionTellsSchema`: `Spec => []DamageConfined`
* `SchemaAtRest`: with `IInv`, no script running and none cut off, `parts = Schema(version)`
* `DownIsInverse`: every downgrade leads from the schema of its revision back to exactly
  the schema of the revision before

The schema of a revision is what the scripts up to it make of an empty database, a
recursion over the chain and over the statements of each script.  The first part of the
proof evaluates it: each table has its own scripts, so the twenty schemas are assembled from the
schemas of eight tables, and each script is followed through its statements, up from the
schema before it and down again from its own.  `DownIsInverse` is read off that.

`DamageConfined` is not inductive: it says nothing of a process whose script is half done, which
may end and move the version.  `StageReached` says what such a process has brought about:
as long as its version update would still find its row, the schema is the one
its statements so far make of the revision it started from, except for what others have begun.  `PartsFollow`
is the same for the recorded version.  The step that counts is `Finish`: the process that
moves the version has `StageReached` at its last statement, which becomes `PartsFollow` for
the new version; for every other process, either the version no longer matches
its own, or it runs the same script, or the next.  A statement touches nothing but the
table and the name it names (`StatementTouches`), so what others have begun covers whatever it changes for them.
`ScriptsRun` is why no downgrade takes part in any of this: it starts alone, and while it runs nobody
boots.

Nothing is assumed of the number of containers, crashes and downgrades, or of the revisions the
database may start from.  The induction that a recursive function needs is over
numbers and done by hand: the set of numbers at which the claim fails would have a least element (`Least`).

### Only model-checked

Everything the passing runs check is proved, except:

* liveness under fairness, with the ENABLED it needs: `ClosedIsTornDown`, `TakenOver`,
  `CutInTheEnd`.  The prover has no rules for either.
* what the scripts of `SchemaMigration` do to the rows: `AccountsKept` and `FailsForCause`.
  They need the content of every table at every statement of twenty scripts, in both
  directions and for every way they can overlap, which is what TLC enumerates.

The two runs that expect a violation have nothing to prove.

## 6. Plan

What is left, in this order:

1. Proofs: what an account operation may do to the limits of `WsConnections` and the role
   guards of `AdminLifecycle`, once they are stated; the rows of `SchemaMigration`, table by
   table.
2. Larger instances: `revocation` with two admins and two faults, `ws_delivery` with two
   connections; both exceed some minutes today.
3. Accounts: the guard against raising one's own role when two requests of an admin
   on itself overlap.
4. The infra sampler, whose loop an error of Redis ends.

## 7. How to check it

    tlc -workers 2 -config MCRotationAdmin.cfg MCTokenRotation
    tlc -workers 2 -config MCWsRegistry.cfg MCWsConnections
    tlc -workers 2 -config MCAdminLifecycle.cfg MCAdminLifecycle
    tlc -workers 2 -config MCSchemaMigration.cfg MCSchemaMigration
    tlc -workers 2 -config MCRecords.cfg MCRecords
    tlc -workers 2 -config MCSamplerLease.cfg MCSamplerLease
    tlc -workers 2 -config MCTelemetry.cfg MCTelemetry
    tlc -workers 2 -config MCWsRevocation.cfg MCWsRevocation
    tlapm TokenRotationProofs.tla
    tlapm AdminLifecycleProofs.tla
    tlapm WsConnectionsProofs.tla
    tlapm WsRevocationProofs.tla
    tlapm SamplerLeaseProofs.tla
    tlapm TelemetryProofs.tla
    tlapm RecordsProofs.tla
    tlapm SchemaMigrationProofs.tla

## 8. Not modelled

* The infra sampler (`infra_sampler.py`): no lease, no state but its stream.  Its loop
  catches `InfraProbeError` only, so that one error of Redis ends the sampling for the
  life of the process, silently: a hazard without a model.
* Probes and metrics: I/O and arithmetic without shared state.
* The history query of the realtime readings: one SELECT and a downsampling.
* `WsManager.close_all`: uvicorn has closed the connections before the lifespan's shutdown
  begins, and nothing runs beside it.
* HTTP layer, DTOs, JWT, passwords, hashing, configuration, cache, request ids:
  stateless; their verdicts are guards or free choices of the models.
* Deployment files (Terraform, compose): what they set is quoted where a model
  relies on it.
* User profile changes and tiers: no property depends on them.
* Behaviour of the WebSocket router that is a decision rather than a hazard: topics are
  authorised with the role the connection was opened with (`router.py:132`), and above
  the rate limit pongs are discarded with everything else (`router.py:281`).
* Deactivating a user leaves its tokens live (`service_user.py:88`): `TokenRotation` has the
  action, and every use of a token looks at the account again.
