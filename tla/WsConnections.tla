--------------------------- MODULE WsConnections ---------------------------
(***************************************************************************)
(* The WebSocket connections of one application instance: the handshake    *)
(* and the control-message loop (api/routers/ws/router.py), the registry   *)
(* and the delivery queues (services/ws/manager.py) and the dispatching    *)
(* of what other instances publish (services/ws/bridge.py).                *)
(*                                                                         *)
(* Everything runs in one event loop: a step is what a task does from one  *)
(* suspension to the next.  A task is suspended while it sleeps, reads its *)
(* queue, its socket or Redis, and while it awaits the close of a socket.  *)
(* The latter is how tasks interleave inside the closing procedure,        *)
(*     await conn.close(code); await manager._teardown(conn)               *)
(* _teardown closes the socket once more, which suspends only if nobody    *)
(* has closed it yet.  An explicit close of a socket that another task has *)
(* closed returns at once in the code; here it is a suspension too, which  *)
(* only adds interleavings.                                                *)
(*                                                                         *)
(* What a client sends, when it leaves and whether a send fails are free   *)
(* choices, and so is the verdict of the periodic recheck.  Ticket and     *)
(* account have been checked when a handshake gets here.                   *)
(***************************************************************************)
EXTENDS Naturals, FiniteSets, Sequences

CONSTANTS
  Conns,              \* the Connection objects
  Sids, Cids,         \* login sessions, browser tabs
  Principals,
  Sessionless,        \* Sids that stand for a ticket without a session id
  Owner,              \* the principal of a session, or of such a ticket
  Openings,           \* what connections are opened with: sid, and cid or None
  Topics,
  Tasks,              \* the tasks every connection runs
  None,
  QueueSize,          \* ws_max_send_queue
  MissedPongLimit,    \* ws_missed_pong_limit
  MaxTotal,           \* ws_max_connections_total
  MaxPerPrincipal,    \* ws_max_connections_per_principal
  MaxEvents           \* bound: messages the bridge dispatches

Tabs == Sids \X Cids

\* Who runs the closing procedure: the bridge, or a task or the request
\* handler of a connection.
Bridge == << "bridge", None >>
Actors == {Bridge} \cup ((Tasks \cup {"handler"}) \X Conns)

\* Messages: the events, numbered as dispatched, and everything else (welcome,
\* ping, acknowledgement, error).
Event   == 1 .. MaxEvents
Nothing == 0
Notice  == MaxEvents + 1
Message == Event \cup {Notice}

ASSUME WsConnectionsAssumption ==
  /\ Tasks \subseteq {"writer", "heartbeat", "reauth"}
  /\ Sessionless \subseteq Sids
  /\ Openings \subseteq Sids \X (Cids \cup {None})
  /\ Owner \in [Sids -> Principals]
  /\ None \notin Conns \cup Sids \cup Cids
  /\ QueueSize \in Nat \ {0}
  /\ MissedPongLimit \in Nat \ {0}
  /\ MaxTotal \in Nat \ {0}
  /\ MaxPerPrincipal \in Nat \ {0}
  /\ MaxEvents \in Nat

VARIABLES
  handler,        \* where the handler of each connection is
  sid, cid,       \* what the connection was opened with
  socket,         \* application_state of the WebSocket
  closed,         \* Connection.closed
  queue,          \* Connection.queue
  subscriptions,  \* Connection.subscriptions
  missed_pongs,   \* Connection.missed_pongs
  tasks,          \* the tasks of the connection that run
  index,          \* the four indexes of the manager
  closing,        \* where each actor is in the closing procedure
  kicks,          \* what the bridge has yet to close
  events,         \* how many messages the bridge has dispatched
  lost            \* history: the first event that found the queue full

attributes == << sid, cid >>
delivery   == << queue, lost >>
vars == << handler, attributes, socket, closed, subscriptions, missed_pongs,
           tasks, index, closing, kicks, events, delivery >>

HandlerPc == {"new", "register", "loop", "last", "exit", "done"}
NotClosing == [conn |-> None, at |-> "none"]

TypeOK ==
  /\ handler \in [Conns -> HandlerPc]
  /\ sid \in [Conns -> Sids \cup {None}]
  /\ cid \in [Conns -> Cids \cup {None}]
  /\ socket \in [Conns -> {"none", "open", "closed"}]
  /\ closed \in [Conns -> BOOLEAN]
  /\ queue \in [Conns -> Seq(Message)]
  /\ \A c \in Conns : Len(queue[c]) <= QueueSize
  /\ subscriptions \in [Conns -> SUBSET Topics]
  /\ missed_pongs \in [Conns -> 0 .. MissedPongLimit]
  /\ tasks \in [Conns -> SUBSET Tasks]
  /\ index \in [principal : [Principals -> SUBSET Conns],
                sid : [Sids -> SUBSET Conns], topic : [Topics -> SUBSET Conns],
                tab : [Tabs -> Conns \cup {None}]]
  /\ closing \in [Actors -> [conn : Conns, at : {"teardown", "cancel"}]
                              \cup {NotClosing}]
  /\ kicks \in SUBSET Conns
  /\ events \in 0 .. MaxEvents
  /\ lost \in [Conns -> Event \cup {Nothing}]

Init ==
  /\ handler = [c \in Conns |-> "new"]
  /\ sid = [c \in Conns |-> None] /\ cid = [c \in Conns |-> None]
  /\ socket = [c \in Conns |-> "none"]
  /\ closed = [c \in Conns |-> FALSE]
  /\ queue = [c \in Conns |-> << >>]
  /\ subscriptions = [c \in Conns |-> {}]
  /\ missed_pongs = [c \in Conns |-> 0]
  /\ tasks = [c \in Conns |-> {}]
  /\ index = [principal |-> [p \in Principals |-> {}],
              sid |-> [s \in Sids |-> {}], topic |-> [t \in Topics |-> {}],
              tab |-> [k \in Tabs |-> None]]
  /\ closing = [a \in Actors |-> NotClosing]
  /\ kicks = {}
  /\ events = 0
  /\ lost = [c \in Conns |-> Nothing]

-----------------------------------------------------------------------------
(* The closing procedure *)

Principal(c) == Owner[sid[c]]

\* A tab is told by its session: nobody looks at the tab id of a connection
\* without a session id.
HasTab(s, d) == s \notin Sessionless /\ d # None

Registered == UNION {index.principal[p] : p \in Principals}

\* The actor is suspended in the closing procedure.
Closing(a) == closing[a] # NotClosing

\* await conn.close(code): the close frame goes out, and whatever the peer
\* does, the procedure goes on with _teardown.
StartClose(a, c) ==
  /\ socket' = [socket EXCEPT ![c] = "closed"]
  /\ closing' = [closing EXCEPT ![a] = [conn |-> c, at |-> "teardown"]]

\* The indexes after register, once no older connection of the tab is in its
\* way, and after unregister.  A connection without a session id is found under
\* its principal only.  An unregistered connection leaves the tab to the one that
\* has replaced it.
Enrolled(idx, c, s, d) ==
  [idx EXCEPT !.principal[Owner[s]] = @ \cup {c},
              !.sid[s] = IF s \in Sessionless THEN @ ELSE @ \cup {c},
              !.tab = IF HasTab(s, d) THEN [@ EXCEPT ![<< s, d >>] = c] ELSE @]
\* Fault: the tab index is forgotten.
UnregisteredButTab(idx, c) ==
  [idx EXCEPT !.principal[Principal(c)] = @ \ {c}, !.sid[sid[c]] = @ \ {c},
              !.topic = [t \in Topics |-> IF t \in subscriptions[c]
                                          THEN @[t] \ {c} ELSE @[t]]]
Unregistered(idx, c) ==
  [idx EXCEPT !.principal[Principal(c)] = @ \ {c}, !.sid[sid[c]] = @ \ {c},
              !.topic = [t \in Topics |-> IF t \in subscriptions[c]
                                          THEN @[t] \ {c} ELSE @[t]],
              !.tab = [k \in Tabs |-> IF k = << sid[c], cid[c] >> /\ @[k] = c
                                      THEN None ELSE @[k]]]

\* Actor a has closed a connection and goes on, tasks and indexes being ts and
\* idx: a handler in register enrolls its own connection, one that has left its
\* loop returns, a task ends, the bridge turns to its next target.
Resume(a, ts, idx) ==
  LET c         == a[2]
      register  == a[1] = "handler" /\ handler[c] = "register"
      returning == a[1] = "handler" /\ handler[c] = "exit"
  IN
  /\ handler' = IF register THEN [handler EXCEPT ![c] = "loop"]
                ELSE IF returning THEN [handler EXCEPT ![c] = "done"] ELSE handler
  /\ tasks' = IF register THEN [ts EXCEPT ![c] = Tasks]
              ELSE IF a[1] \in Tasks THEN [ts EXCEPT ![c] = @ \ {a[1]}] ELSE ts
  /\ index' = IF register THEN Enrolled(idx, c, sid[c], cid[c]) ELSE idx

\* Fault: the recheck is not among the cancelled tasks.
CancelButReauth(a, c, idx) ==
  /\ closing' = [b \in Actors |->
       IF b = a \/ b \in (Tasks \ {"reauth"}) \X {c} THEN NotClosing ELSE closing[b]]
  /\ Resume(a, [tasks EXCEPT ![c] = @ \cap {"reauth"}], idx)
  /\ queue' = [queue EXCEPT ![c] = << >>]
  /\ missed_pongs' = [missed_pongs EXCEPT ![c] = 0]

\* The end of _teardown: the tasks of the connection are cancelled wherever
\* they are suspended, the current one excepted, which ends by itself.  Nobody
\* reads the queue or the pong count any more.
Cancel(a, c, idx) ==
  /\ closing' = [b \in Actors |-> IF b = a \/ b \in Tasks \X {c}
                                  THEN NotClosing ELSE closing[b]]
  /\ Resume(a, [tasks EXCEPT ![c] = {}], idx)
  /\ queue' = [queue EXCEPT ![c] = << >>]
  /\ missed_pongs' = [missed_pongs EXCEPT ![c] = 0]

\* _teardown of a connection another actor has torn down: nothing to do.
TeardownAgain(a) ==
  /\ closing[a].at = "teardown" /\ closed[closing[a].conn]
  /\ closing' = [closing EXCEPT ![a] = NotClosing]
  /\ Resume(a, tasks, index)
  /\ UNCHANGED << attributes, socket, closed, subscriptions, missed_pongs,
                  kicks, events, delivery >>

\* _teardown after an explicit close.
Teardown(a) ==
  LET c == closing[a].conn IN
  /\ closing[a].at = "teardown" /\ ~closed[c] /\ socket[c] = "closed"
  /\ closed' = [closed EXCEPT ![c] = TRUE]
  /\ Cancel(a, c, Unregistered(index, c))
  /\ UNCHANGED << attributes, socket, subscriptions, kicks, events, lost >>

\* Fault: the connection is marked closed only after the close of its socket.
TeardownBeginUnmarked(a) ==
  LET c == closing[a].conn IN
  /\ closing[a].at = "teardown" /\ ~closed[c] /\ socket[c] = "open"
  /\ index' = Unregistered(index, c)
  /\ socket' = [socket EXCEPT ![c] = "closed"]
  /\ closing' = [closing EXCEPT ![a].at = "cancel"]
  /\ UNCHANGED << handler, attributes, closed, subscriptions, missed_pongs, tasks,
                  kicks, events, delivery >>

\* _teardown of a connection whose peer is gone, up to its await conn.close().
TeardownBegin(a) ==
  LET c == closing[a].conn IN
  /\ closing[a].at = "teardown" /\ ~closed[c] /\ socket[c] = "open"
  /\ closed' = [closed EXCEPT ![c] = TRUE]
  /\ index' = Unregistered(index, c)
  /\ socket' = [socket EXCEPT ![c] = "closed"]
  /\ closing' = [closing EXCEPT ![a].at = "cancel"]
  /\ UNCHANGED << handler, attributes, subscriptions, missed_pongs, tasks,
                  kicks, events, delivery >>

\* Fault: an exception of the close is not suppressed, and nothing is cancelled.
TeardownEndRaises(a) ==
  /\ closing[a].at = "cancel"
  /\ closing' = [closing EXCEPT ![a] = NotClosing]
  /\ Resume(a, tasks, index)
  /\ UNCHANGED << attributes, socket, closed, subscriptions, missed_pongs,
                  kicks, events, delivery >>

TeardownEnd(a) ==
  /\ closing[a].at = "cancel"
  /\ Cancel(a, closing[a].conn, index)
  /\ UNCHANGED << attributes, socket, closed, subscriptions, kicks, events, lost >>

-----------------------------------------------------------------------------
(* The handshake *)

Tab(s, d) == IF HasTab(s, d) THEN index.tab[<< s, d >>] ELSE None

\* The limits.  A connection that replaces another one of its tab is exempt.
AtLimit(s, d) ==
  /\ Tab(s, d) = None
  /\ \/ Cardinality(Registered) >= MaxTotal
     \/ Cardinality(index.principal[Owner[s]]) >= MaxPerPrincipal

\* accept, then close(1013).
AcceptRefused(c, s, d) ==
  /\ handler[c] = "new" /\ AtLimit(s, d)
  /\ handler' = [handler EXCEPT ![c] = "done"]
  /\ socket' = [socket EXCEPT ![c] = "closed"]
  /\ UNCHANGED << attributes, closed, subscriptions, missed_pongs, tasks,
                  index, closing, kicks, events, delivery >>

\* The connection is built, with the welcome in its queue, and registered.
AcceptFresh(c, s, d) ==
  /\ handler[c] = "new" /\ ~AtLimit(s, d) /\ Tab(s, d) = None
  /\ handler' = [handler EXCEPT ![c] = "loop"]
  /\ sid' = [sid EXCEPT ![c] = s] /\ cid' = [cid EXCEPT ![c] = d]
  /\ socket' = [socket EXCEPT ![c] = "open"]
  /\ queue' = [queue EXCEPT ![c] = << Notice >>]
  /\ tasks' = [tasks EXCEPT ![c] = Tasks]
  /\ index' = Enrolled(index, c, s, d)
  /\ UNCHANGED << closed, subscriptions, missed_pongs, closing, kicks, events,
                  lost >>

\* An older connection of the tab is closed first: 4409, then _teardown.
AcceptReplacing(c, s, d) ==
  LET existing == Tab(s, d) IN
  /\ handler[c] = "new" /\ existing # None
  /\ handler' = [handler EXCEPT ![c] = "register"]
  /\ sid' = [sid EXCEPT ![c] = s] /\ cid' = [cid EXCEPT ![c] = d]
  /\ socket' = [socket EXCEPT ![c] = "open", ![existing] = "closed"]
  /\ closing' = [closing EXCEPT ![<< "handler", c >>] =
                   [conn |-> existing, at |-> "teardown"]]
  /\ queue' = [queue EXCEPT ![c] = << Notice >>]
  /\ UNCHANGED << closed, subscriptions, missed_pongs, tasks, index, kicks,
                  events, lost >>

-----------------------------------------------------------------------------
(* Delivery *)

\* send_to_connection by actor a: into the queue, and if that is full the
\* connection is closed (1013).
SendTo(c, a, m) ==
  \/ closed[c] /\ UNCHANGED << queue, socket, closing >>
  \/ /\ ~closed[c] /\ Len(queue[c]) < QueueSize
     /\ queue' = [queue EXCEPT ![c] = Append(@, m)]
     /\ UNCHANGED << socket, closing >>
  \/ /\ ~closed[c] /\ Len(queue[c]) = QueueSize
     /\ StartClose(a, c)
     /\ UNCHANGED queue

\* _run_writer.  The connection of a writer that fails is torn down.
WriterSends(c) ==
  /\ "writer" \in tasks[c] /\ ~Closing(<< "writer", c >>)
  /\ queue[c] # << >> /\ socket[c] = "open"
  /\ queue' = [queue EXCEPT ![c] = Tail(@)]
  /\ UNCHANGED << handler, attributes, socket, closed, subscriptions,
                  missed_pongs, tasks, index, closing, kicks, events, lost >>

WriterFails(c) ==
  /\ "writer" \in tasks[c] /\ ~Closing(<< "writer", c >>)
  /\ queue[c] # << >>
  /\ queue' = [queue EXCEPT ![c] = Tail(@)]
  /\ closing' = [closing EXCEPT ![<< "writer", c >>] =
                   [conn |-> c, at |-> "teardown"]]
  /\ UNCHANGED << handler, attributes, socket, closed, subscriptions,
                  missed_pongs, tasks, index, kicks, events, lost >>

-----------------------------------------------------------------------------
(* The control-message loop.  receive_text has been waiting since before the *)
(* socket was closed, so one message may still be handled afterwards; the    *)
(* next receive_text raises.                                                 *)

AfterMessage(c) == IF socket'[c] = "open" THEN "loop" ELSE "last"

Control(c) == handler[c] = "loop" /\ ~Closing(<< "handler", c >>)

Subscribe(c, t) ==
  /\ Control(c)
  /\ subscriptions' = [subscriptions EXCEPT ![c] = @ \cup {t}]
  /\ index' = [index EXCEPT !.topic[t] = @ \cup {c}]
  /\ SendTo(c, << "handler", c >>, Notice)
  /\ handler' = [handler EXCEPT ![c] = AfterMessage(c)]
  /\ UNCHANGED << attributes, closed, missed_pongs, tasks, kicks, events, lost >>

Unsubscribe(c, t) ==
  /\ Control(c)
  /\ subscriptions' = [subscriptions EXCEPT ![c] = @ \ {t}]
  /\ index' = [index EXCEPT !.topic[t] = @ \ {c}]
  /\ SendTo(c, << "handler", c >>, Notice)
  /\ handler' = [handler EXCEPT ![c] = AfterMessage(c)]
  /\ UNCHANGED << attributes, closed, missed_pongs, tasks, kicks, events, lost >>

Pong(c) ==
  /\ Control(c)
  /\ missed_pongs' = [missed_pongs EXCEPT ![c] = 0]
  /\ handler' = [handler EXCEPT ![c] = IF socket[c] = "open" THEN "loop" ELSE "last"]
  /\ UNCHANGED << attributes, socket, closed, subscriptions, tasks, index,
                  closing, kicks, events, delivery >>

\* A message that is not understood, lacks its topic, asks for a topic beyond
\* the role, or is over the rate limit: answered with an error.
Rejected(c) ==
  /\ Control(c)
  /\ SendTo(c, << "handler", c >>, Notice)
  /\ handler' = [handler EXCEPT ![c] = AfterMessage(c)]
  /\ UNCHANGED << attributes, closed, subscriptions, missed_pongs, tasks,
                  index, kicks, events, lost >>

\* Too long or not JSON: close(4400), and _teardown on the way out.
ProtocolError(c) ==
  /\ Control(c)
  /\ StartClose(<< "handler", c >>, c)
  /\ handler' = [handler EXCEPT ![c] = "exit"]
  /\ UNCHANGED << attributes, closed, subscriptions, missed_pongs, tasks,
                  index, kicks, events, delivery >>

\* receive_text raises: the client has left, or the socket is closed.
Disconnect(c) ==
  /\ handler[c] \in {"loop", "last"} /\ ~Closing(<< "handler", c >>)
  /\ handler' = [handler EXCEPT ![c] = "exit"]
  /\ closing' = [closing EXCEPT ![<< "handler", c >>] =
                   [conn |-> c, at |-> "teardown"]]
  /\ UNCHANGED << attributes, socket, closed, subscriptions, missed_pongs,
                  tasks, index, kicks, events, delivery >>

-----------------------------------------------------------------------------
(* Heartbeat and recheck *)

Sleeping(c, task) ==
  task \in tasks[c] /\ ~Closing(<< task, c >>) /\ ~closed[c]

HeartbeatPing(c) ==
  /\ Sleeping(c, "heartbeat")
  /\ missed_pongs[c] < MissedPongLimit
  /\ missed_pongs' = [missed_pongs EXCEPT ![c] = @ + 1]
  /\ SendTo(c, << "heartbeat", c >>, Notice)
  /\ UNCHANGED << handler, attributes, closed, subscriptions, tasks, index,
                  kicks, events, lost >>

\* The limit is reached, or nothing has come in for the idle timeout: that is
\* longer than the ping interval, so a ping is unanswered then.
HeartbeatTimeout(c) ==
  /\ Sleeping(c, "heartbeat")
  /\ missed_pongs[c] > 0
  /\ StartClose(<< "heartbeat", c >>, c)
  /\ UNCHANGED << handler, attributes, closed, subscriptions, missed_pongs,
                  tasks, index, kicks, events, delivery >>

\* is_connection_valid returned False.
ReauthInvalid(c) ==
  /\ Sleeping(c, "reauth")
  /\ StartClose(<< "reauth", c >>, c)
  /\ UNCHANGED << handler, attributes, closed, subscriptions, missed_pongs,
                  tasks, index, kicks, events, delivery >>

\* A task finds conn.closed when it wakes up, or dies of an exception.
TaskEnds(c, task) ==
  /\ task \in {"heartbeat", "reauth"} \cap tasks[c] /\ ~Closing(<< task, c >>)
  /\ closed[c] \/ task = "reauth"
  /\ tasks' = [tasks EXCEPT ![c] = @ \ {task}]
  /\ UNCHANGED << handler, attributes, socket, closed, subscriptions,
                  missed_pongs, index, closing, kicks, events, delivery >>

-----------------------------------------------------------------------------
(* The bridge dispatches one message at a time: it does not read the next one *)
(* before every connection it has to close is closed.                         *)

BridgeReady == kicks = {} /\ ~Closing(Bridge)

\* kick_local, kick_local_sid: the connections known now.
Kick(S) ==
  /\ BridgeReady /\ S # {}
  /\ kicks' = S
  /\ UNCHANGED << handler, attributes, socket, closed, subscriptions,
                  missed_pongs, tasks, index, closing, events, delivery >>

\* Fault: a message that finds a queue full is dropped.
SendLocalDrops(S) ==
  LET open     == {c \in S : ~closed[c]}
      overflow == {c \in open : Len(queue[c]) = QueueSize}
  IN
  /\ BridgeReady /\ open # {} /\ events < MaxEvents
  /\ events' = events + 1
  /\ queue' = [c \in Conns |-> IF c \in open \ overflow
                               THEN Append(queue[c], events + 1) ELSE queue[c]]
  /\ lost' = [c \in Conns |-> IF c \in overflow /\ lost[c] = Nothing
                              THEN events + 1 ELSE lost[c]]
  /\ UNCHANGED << handler, attributes, socket, closed, subscriptions,
                  missed_pongs, tasks, index, closing, kicks >>

\* send_local, broadcast_local: into every queue, and the connections whose
\* queue is full are closed afterwards, one after the other.
SendLocal(S) ==
  LET open     == {c \in S : ~closed[c]}
      overflow == {c \in open : Len(queue[c]) = QueueSize}
  IN
  /\ BridgeReady /\ open # {} /\ events < MaxEvents
  /\ events' = events + 1
  /\ queue' = [c \in Conns |-> IF c \in open \ overflow
                               THEN Append(queue[c], events + 1) ELSE queue[c]]
  /\ lost' = [c \in Conns |-> IF c \in overflow /\ lost[c] = Nothing
                              THEN events + 1 ELSE lost[c]]
  /\ kicks' = overflow
  /\ UNCHANGED << handler, attributes, socket, closed, subscriptions,
                  missed_pongs, tasks, index, closing >>

BridgeCloses(c) ==
  /\ c \in kicks /\ ~Closing(Bridge)
  /\ kicks' = kicks \ {c}
  /\ StartClose(Bridge, c)
  /\ UNCHANGED << handler, attributes, closed, subscriptions, missed_pongs,
                  tasks, index, events, delivery >>

-----------------------------------------------------------------------------

Handshake(c) == \E o \in Openings :
  \/ AcceptRefused(c, o[1], o[2]) \/ AcceptFresh(c, o[1], o[2])
  \/ AcceptReplacing(c, o[1], o[2])
Receive(c) == \/ \E t \in Topics : Subscribe(c, t) \/ Unsubscribe(c, t)
              \/ Pong(c) \/ Rejected(c) \/ ProtocolError(c) \/ Disconnect(c)
Background(c) == \/ WriterSends(c) \/ WriterFails(c) \/ HeartbeatPing(c)
                 \/ HeartbeatTimeout(c) \/ ReauthInvalid(c)
                 \/ \E task \in Tasks : TaskEnds(c, task)
CloseStep(a) == \/ TeardownAgain(a) \/ Teardown(a)
                \/ TeardownBegin(a) \/ TeardownEnd(a)
Dispatch == \/ \E p \in Principals : \/ Kick(index.principal[p])
                                      \/ SendLocal(index.principal[p])
            \/ \E s \in Sids : Kick(index.sid[s])
            \/ \E t \in Topics : SendLocal(index.topic[t])
            \/ SendLocal(Registered)
            \/ \E c \in Conns : BridgeCloses(c)

Next == \/ \E c \in Conns : Handshake(c) \/ Receive(c) \/ Background(c)
        \/ \E a \in Actors : CloseStep(a)
        \/ Dispatch

\* The event loop runs every task that is ready: whoever is in the closing
\* procedure goes on with it (a close ends, whether the peer answers or the
\* server gives up), the bridge turns to its next target, and a handler that
\* reads from a closed socket is told so.
Fairness ==
  /\ WF_vars(CloseStep(Bridge) \/ \E c \in Conns : BridgeCloses(c))
  /\ \A c \in Conns : WF_vars(\/ CloseStep(<< "handler", c >>)
                              \/ socket[c] = "closed" /\ Disconnect(c))
  /\ \A task \in Tasks, c \in Conns : WF_vars(CloseStep(<< task, c >>))

Spec == Init /\ [][Next]_vars /\ Fairness

-----------------------------------------------------------------------------
(* Properties *)

\* Principal, session and tab index agree: a connection is found under its
\* principal and under its session, if it has one, from its registration to its
\* teardown, and what the tab index names is such a connection of that tab,
\* whichever replacements overlapped.
RegistrationsAgree ==
  /\ \A c \in Conns :
       LET enrolled == handler[c] \notin {"new", "register"} /\ sid[c] # None
                         /\ ~closed[c]
       IN  /\ \A p \in Principals :
                c \in index.principal[p] <=> enrolled /\ p = Principal(c)
           /\ \A s \in Sids :
                c \in index.sid[s] <=> enrolled /\ s = sid[c] /\ s \notin Sessionless
  /\ \A k \in Tabs : index.tab[k] # None =>
       /\ k = << sid[index.tab[k]], cid[index.tab[k]] >>
       /\ index.tab[k] \in Registered

\* The topic index names a connection under what it subscribes to until its
\* teardown.  Of a connection that is torn down it may name some topic for good
\* (UnregisteredEverywhere).
SubscriptionsAgree ==
  \A c \in Conns, t \in Topics :
    ~closed[c] => (c \in index.topic[t] <=> t \in subscriptions[c])

\* The four indexes agree with each other and with the connections that are
\* registered: a kick finds every open connection of its principal or session,
\* an event every open subscriber (manager.py:92-149).
IndexesAgree == RegistrationsAgree /\ SubscriptionsAgree

\* Whoever tears a connection down, and whichever of its own tasks are closing
\* it at that moment, no task of it is left running.
TeardownLeavesNoTask ==
  \A c \in Conns :
    closed[c] /\ (\A a \in Actors : closing[a] # [conn |-> c, at |-> "cancel"])
      => tasks[c] = {}

\* A slow client is cut off, not fed a stream with a hole in it: once an event
\* found its queue full no later event reaches it.
NoHoleInStream ==
  \A c \in Conns : lost[c] # Nothing =>
    \A i \in DOMAIN queue[c] : queue[c][i] \in Event => queue[c][i] < lost[c]

\* The inductive invariant.  A connection is known from its registration on.
\* Nobody closes a connection before, its tasks close no other one, and a
\* handler closes nothing before its handshake.
Known(c) == handler[c] \notin {"new", "register"} /\ sid[c] # None

ClosersKnow ==
  /\ \A c \in Conns :
       /\ \/ closed[c] \/ c \in kicks \/ tasks[c] # {}
          \/ \E t \in Topics : c \in index.topic[t]
          => Known(c)
       /\ handler[c] \in {"register", "loop", "last", "exit"} => sid[c] # None
       /\ handler[c] = "new" => sid[c] = None /\ ~Closing(<< "handler", c >>)
       /\ \A task \in Tasks : Closing(<< task, c >>) => closing[<< task, c >>].conn = c
  /\ \A a \in Actors : Closing(a) =>
       Known(closing[a].conn) /\ (closing[a].at = "cancel" => closed[closing[a].conn])

\* Whose queue an event found full is being closed by the bridge, before it
\* dispatches the next event, or is closed.
OverflowCut ==
  \A c \in Conns :
    /\ \A i \in DOMAIN queue[c] : queue[c][i] \in Event => queue[c][i] <= events
    /\ lost[c] # Nothing =>
         closed[c] \/ c \in kicks \/ (Closing(Bridge) /\ closing[Bridge].conn = c)

IInv == /\ TypeOK /\ ClosersKnow /\ IndexesAgree /\ TeardownLeavesNoTask
        /\ OverflowCut /\ NoHoleInStream

\* A connection the bridge is told to close, or whose socket anybody closed,
\* is torn down: its handler returns and its tasks are gone, whoever else is
\* closing it or is closed by the same actor.
ClosedIsTornDown ==
  \A c \in Conns :
    c \in kicks \/ socket[c] = "closed" ~>
      handler[c] = "done" /\ tasks[c] = {}

\* What register says of itself (manager.py:98): an older connection of the
\* same (sid, cid) is replaced, so a tab has one connection.
OneConnectionPerTab ==
  \A c, d \in Registered :
    HasTab(sid[c], cid[c]) /\ << sid[c], cid[c] >> = << sid[d], cid[d] >> => c = d

\* What unregister says of itself (manager.py:115): the connection is gone from
\* all four indexes.
UnregisteredEverywhere ==
  \A c \in Conns, t \in Topics : closed[c] => c \notin index.topic[t]

=============================================================================
