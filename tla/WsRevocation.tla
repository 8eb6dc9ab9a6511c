----------------------------- MODULE WsRevocation -----------------------------
(***************************************************************************)
(* From a session to a WebSocket and back: an admin exchanges an access    *)
(* token for a single-use ticket (TicketService) and the ticket for a      *)
(* connection (admin_ws); when the session or the account is revoked, the  *)
(* connection is kicked over Redis pub/sub (Publisher, WsBridge), or closed *)
(* by its periodic recheck (WsReauthService).                              *)
(*                                                                         *)
(* Sessions are those of SessionAuthority, which TokenRotation implements; *)
(* what a connection does while it is open is WsConnections.  Access       *)
(* tokens are not stored anywhere: one that was issued is accepted until   *)
(* it expires, whether or not its session still exists; whether it has     *)
(* expired is open whenever somebody looks.                                *)
(***************************************************************************)
EXTENDS Naturals, Sequences

CONSTANTS
  Families,   \* sessions (family_id, sid)
  Owners,     \* admins
  OwnerOf,    \* the admin a session belongs to
  Instances,  \* processes, each with a bridge
  Absent,     \* None: no sid in the ticket, no ticket, no session
  MaxTickets, \* bound: tickets asked for
  MaxConns,   \* bound: connections opened
  MaxFaults   \* bound

ASSUME RevocationAssumption ==
  /\ OwnerOf \in [Families -> Owners]
  /\ Absent \notin Families \cup Owners \cup Instances
  /\ MaxTickets \in Nat /\ MaxConns \in Nat /\ MaxFaults \in Nat

VARIABLES
  sessions, spent, suspended,  \* of SessionAuthority
  tickets,   \* in the order they were asked for
  conns,     \* in the order of their handshakes
  pending,   \* kicks whose revocation is committed, not yet published
  mail,      \* kicks on their way to an instance
  bridges,   \* instances whose bridge listens
  silent,    \* sessions that ended without a kick
  faults

sessionVars == <<sessions, spent, suspended>>
vars == <<sessionVars, tickets, conns, pending, mail, bridges, silent, faults>>

Authority == INSTANCE SessionAuthority

Kicks == ({"principal"} \X Owners) \cup ({"sid"} \X Families)

Ticket == [pc : {"asked", "issued", "used", "gone"},
           family : Families \cup {Absent}, sid : Families \cup {Absent}]

\* recheck: the task _run_reauth is alive; late: the session or the account
\* was revoked before the connection was registered.
Conn == [pc : {"consumed", "checked", "open", "closed"}, ticket : 1..MaxTickets,
         owner : Owners \cup {Absent}, sid : Families \cup {Absent},
         at : Instances \cup {Absent}, recheck : BOOLEAN, late : BOOLEAN]

\* What remains of a ticket that is used or gone, and of a closed connection.
Spent(state)  == [pc |-> state, family |-> Absent, sid |-> Absent]
Closed(conn)  == [pc |-> "closed", ticket |-> conn.ticket, owner |-> Absent, sid |-> Absent,
                  at |-> Absent, recheck |-> FALSE, late |-> FALSE]

Init ==
  /\ Authority!Init
  /\ tickets = <<>> /\ conns = <<>>
  /\ pending = {} /\ mail = [i \in Instances |-> {}] /\ bridges = Instances
  /\ silent = {} /\ faults = 0

Alive(f) == << f, OwnerOf[f] >> \in sessions
Fault    == faults < MaxFaults /\ faults' = faults + 1

sockets   == <<tickets, conns, pending, mail, bridges>>
transport == <<pending, mail, bridges>>

-----------------------------------------------------------------------------
(* Sessions and access tokens                                              *)

Login(f) ==
  /\ Authority!Open(f, OwnerOf[f])
  /\ UNCHANGED <<sockets, silent, faults>>

(* Logout of one session, and the kick that follows the commit.  Overtaken *)
(* by a refresh of its token, it leaves the session open and kicks.        *)
Logout(f) ==
  /\ Alive(f)
  /\ Authority!Close({<< f, OwnerOf[f] >>}) \/ UNCHANGED sessionVars
  /\ pending' = pending \cup {<< "sid", f >>}
  /\ UNCHANGED <<tickets, conns, mail, bridges, silent, faults>>

(* Logout of all devices and a password change: every session of the       *)
(* caller, whose own may be gone.                                          *)
LogoutAll(p) ==
  /\ \E f \in spent : OwnerOf[f] = p
  /\ Authority!Close(Authority!Of(p)) \/ (Authority!Of(p) = {} /\ UNCHANGED sessionVars)
  /\ pending' = pending \cup {<< "principal", p >>}
  /\ UNCHANGED <<tickets, conns, mail, bridges, silent, faults>>

(* The reuse verdict revokes a family, and refresh tokens expire, without  *)
(* a kick.                                                                 *)
EndsSilently(f) ==
  /\ Alive(f) /\ Authority!Close({<< f, OwnerOf[f] >>})
  /\ silent' = silent \cup {f}
  /\ UNCHANGED <<sockets, faults>>

\* Fault: the account is revoked and nobody is told.
SuspendQuietly(p) ==
  /\ Authority!Suspend(p)
  /\ UNCHANGED <<tickets, conns, transport, silent, faults>>

(* archive and delete.                                                     *)
Suspend(p) ==
  /\ Authority!Suspend(p)
  /\ pending' = pending \cup {<< "principal", p >>}
  /\ UNCHANGED <<tickets, conns, mail, bridges, silent, faults>>

Reinstate(p) ==
  /\ Authority!Reinstate(p)
  /\ UNCHANGED <<sockets, silent, faults>>

-----------------------------------------------------------------------------
(* POST /ws/ticket: get_current_admin accepts the token and the account;   *)
(* then get_current_token_sid decodes the token again and the ticket is    *)
(* SET.  A token that expires in between yields a ticket without a sid.    *)
TicketAsked(f) ==
  /\ Len(tickets) < MaxTickets /\ f \in spent /\ OwnerOf[f] \notin suspended
  /\ tickets' = Append(tickets, [pc |-> "asked", family |-> f, sid |-> Absent])
  /\ UNCHANGED <<sessionVars, conns, transport, silent, faults>>

TicketIssued(t) ==
  /\ tickets[t].pc = "asked"
  /\ \E sid \in {tickets[t].family, Absent} :
       tickets' = [tickets EXCEPT ![t].pc = "issued", ![t].sid = sid]
  /\ UNCHANGED <<sessionVars, conns, transport, silent, faults>>

\* ws_ticket_ttl_seconds have passed, or SET failed.
TicketGone(t) ==
  /\ tickets[t].pc \in {"asked", "issued"}
  /\ tickets' = [tickets EXCEPT ![t] = Spent("gone")]
  /\ UNCHANGED <<sessionVars, conns, transport, silent, faults>>

Handshake(t, i) ==
  /\ Len(conns) < MaxConns
  /\ conns' = Append(conns, [pc |-> "consumed", ticket |-> t, at |-> i,
                            owner |-> OwnerOf[tickets[t].family], sid |-> tickets[t].sid,
                            recheck |-> FALSE, late |-> FALSE])

\* Fault: GET and a later DEL instead of GETDEL.
ConsumeGet(t, i) ==
  /\ tickets[t].pc = "issued"
  /\ Handshake(t, i)
  /\ UNCHANGED <<sessionVars, tickets, transport, silent, faults>>

(* admin_ws takes the ticket (GETDEL) ...                                  *)
Consume(t, i) ==
  /\ tickets[t].pc = "issued"
  /\ tickets' = [tickets EXCEPT ![t] = Spent("used")]
  /\ Handshake(t, i)
  /\ UNCHANGED <<sessionVars, transport, silent, faults>>

(* ... loads the account, which must be active, whatever became of the     *)
(* session ...                                                             *)
Load(c) ==
  /\ conns[c].pc = "consumed"
  /\ conns' = [conns EXCEPT ![c] =
                 IF @.owner \in suspended THEN Closed(@) ELSE [@ EXCEPT !.pc = "checked"]]
  /\ UNCHANGED <<sessionVars, tickets, transport, silent, faults>>

\* What the connection stands for still exists.
Entitled(c) ==
  /\ conns[c].owner \notin suspended
  /\ conns[c].sid # Absent => Alive(conns[c].sid)

(* ... accepts it, registers it and starts the recheck; or the limits      *)
(* refuse it, or the client has gone.                                      *)
Register(c) ==
  /\ conns[c].pc = "checked"
  /\ \/ conns' = [conns EXCEPT ![c].pc = "open", ![c].recheck = TRUE, ![c].late = ~Entitled(c)]
     \/ conns' = [conns EXCEPT ![c] = Closed(@)]
  /\ UNCHANGED <<sessionVars, tickets, transport, silent, faults>>

\* The client leaves, or the connection ends for another reason.
Leave(c) ==
  /\ conns[c].pc = "open"
  /\ conns' = [conns EXCEPT ![c] = Closed(@)]
  /\ UNCHANGED <<sessionVars, tickets, transport, silent, faults>>

-----------------------------------------------------------------------------
(* Kicks: published after the commit, best effort, to the instances that   *)
(* listen at that moment.                                                  *)
Publish(k) ==
  /\ k \in pending /\ pending' = pending \ {k}
  /\ mail' = [i \in Instances |-> IF i \in bridges THEN mail[i] \cup {k} ELSE mail[i]]
  /\ UNCHANGED <<sessionVars, tickets, conns, bridges, silent, faults>>

\* PUBLISH fails, or the process dies after the commit.
PublishFails(k) ==
  /\ k \in pending /\ pending' = pending \ {k} /\ Fault
  /\ UNCHANGED <<sessionVars, tickets, conns, mail, bridges, silent>>

\* kick_local and kick_local_sid.
Hits(k, c) ==
  IF k[1] = "principal" THEN conns[c].owner = k[2] ELSE conns[c].sid = k[2]

\* Fault: the bridge stops at the first connection it has closed.
DeliverToOne(i, k) ==
  LET hit == {c \in DOMAIN conns : conns[c].pc = "open" /\ conns[c].at = i /\ Hits(k, c)} IN
  /\ k \in mail[i] /\ mail' = [mail EXCEPT ![i] = @ \ {k}]
  /\ conns' = [c \in DOMAIN conns |->
       IF c \in hit /\ \A d \in hit : c <= d THEN Closed(conns[c]) ELSE conns[c]]
  /\ UNCHANGED <<sessionVars, tickets, pending, bridges, silent, faults>>

Deliver(i, k) ==
  /\ k \in mail[i] /\ mail' = [mail EXCEPT ![i] = @ \ {k}]
  /\ conns' = [c \in DOMAIN conns |->
       IF conns[c].pc = "open" /\ conns[c].at = i /\ Hits(k, c)
       THEN Closed(conns[c]) ELSE conns[c]]
  /\ UNCHANGED <<sessionVars, tickets, pending, bridges, silent, faults>>

(* listen() raises: the bridge's task ends and nothing starts it again.    *)
BridgeDies(i) ==
  /\ i \in bridges /\ Fault
  /\ bridges' = bridges \ {i} /\ mail' = [mail EXCEPT ![i] = {}]
  /\ UNCHANGED <<sessionVars, tickets, conns, pending, silent>>

(* A process dies with its connections and is started again.               *)
Restart(i) ==
  /\ Fault
  /\ bridges' = bridges \cup {i} /\ mail' = [mail EXCEPT ![i] = {}]
  /\ conns' = [c \in DOMAIN conns |->
       IF conns[c].at = i THEN Closed(conns[c]) ELSE conns[c]]
  /\ UNCHANGED <<sessionVars, tickets, pending, silent>>

-----------------------------------------------------------------------------
\* Fault: the recheck asks only for the account.
AccountActive(c) == conns[c].owner \notin suspended

(* is_connection_valid, in one snapshot: the account is active and, if the *)
(* connection has a sid, its family has a live token.                      *)
ConnectionValid(c) ==
  /\ conns[c].owner \notin suspended
  /\ conns[c].sid = Absent \/ Alive(conns[c].sid)

(* The recheck closes a connection that is no longer valid.                *)
Recheck(c) ==
  /\ c \in DOMAIN conns
  /\ conns[c].pc = "open" /\ conns[c].recheck /\ ~ConnectionValid(c)
  /\ conns' = [conns EXCEPT ![c] = Closed(@)]
  /\ UNCHANGED <<sessionVars, tickets, transport, silent, faults>>

(* The recheck's query raises, which ends its task and nothing else.       *)
RecheckDies(c) ==
  /\ conns[c].pc = "open" /\ conns[c].recheck /\ Fault
  /\ conns' = [conns EXCEPT ![c].recheck = FALSE]
  /\ UNCHANGED <<sessionVars, tickets, transport, silent>>

Session ==
  \/ \E f \in Families : Login(f) \/ Logout(f) \/ EndsSilently(f)
  \/ \E p \in Owners : LogoutAll(p) \/ Suspend(p) \/ Reinstate(p)

Opening ==
  \/ \E f \in Families : TicketAsked(f)
  \/ \E t \in DOMAIN tickets : \/ TicketIssued(t) \/ TicketGone(t)
                               \/ \E i \in Instances : Consume(t, i)
  \/ \E c \in DOMAIN conns : Load(c) \/ Register(c) \/ Leave(c)

Closing ==
  \/ \E k \in Kicks : Publish(k) \/ PublishFails(k) \/ \E i \in Instances : Deliver(i, k)
  \/ \E i \in Instances : BridgeDies(i) \/ Restart(i)
  \/ \E c \in DOMAIN conns : Recheck(c) \/ RecheckDies(c)

Next == Session \/ Opening \/ Closing

(* asyncio wakes the recheck of every connection each reauth interval.     *)
Spec == Init /\ [][Next]_vars /\ \A c \in 1..MaxConns : WF_vars(Recheck(c))

-----------------------------------------------------------------------------
(* Types; a used ticket has its connection, and an instance that does not  *)
(* listen has no mail.                                                     *)
TypeOK ==
  /\ sessions \subseteq {<< f, OwnerOf[f] >> : f \in Families}
  /\ spent \subseteq Families /\ suspended \subseteq Owners
  /\ tickets \in Seq(Ticket) /\ conns \in Seq(Conn) /\ bridges \subseteq Instances
  /\ \A t \in DOMAIN tickets :
       tickets[t].pc = "used" <=> \E c \in DOMAIN conns : conns[c].ticket = t
  /\ pending \subseteq Kicks /\ mail \in [Instances -> SUBSET Kicks]
  /\ \A i \in Instances \ bridges : mail[i] = {}
  /\ silent \subseteq Families /\ faults \in 0..MaxFaults

(* A ticket opens one connection, to the admin and the session it was      *)
(* issued for, however many clients present it at whatever instances       *)
(* (ticket.py:40-47).                                                      *)
TicketOnce ==
  \A c, d \in DOMAIN conns : conns[c].ticket = conns[d].ticket => c = d

(* No fault, and no kick is under way: a connection that has outlived its  *)
(* session or account was registered after the revocation, or its session  *)
(* ended without a kick (service_auth.py:303-328, service_admin.py:190,    *)
(* 280, 306).  A kick that arrives between the check of the account and    *)
(* the registration is not lost on a session that was valid when the       *)
(* connection was registered.                                              *)
KickComplete ==
  faults = 0 /\ pending = {} /\ (\A i \in Instances : mail[i] = {}) =>
    \A c \in DOMAIN conns :
      conns[c].pc = "open" /\ ~Entitled(c) => conns[c].late \/ conns[c].sid \in silent

(* The inductive invariant.  Tickets and connections carry the session the *)
(* ticket was asked for, or none, and the admin it belongs to.             *)
WellIssued ==
  /\ Len(tickets) <= MaxTickets
  /\ \A t \in DOMAIN tickets : tickets[t].pc \in {"asked", "issued"} =>
       tickets[t].family \in Families /\ tickets[t].sid \in {tickets[t].family, Absent}
  /\ \A c \in DOMAIN conns : conns[c].ticket \in DOMAIN tickets
  /\ \A c \in DOMAIN conns : conns[c].pc # "closed" =>
       /\ conns[c].at \in Instances /\ conns[c].owner \in Owners
       /\ conns[c].sid # Absent => conns[c].owner = OwnerOf[conns[c].sid]

(* Whatever ends what a registered connection stands for leaves a kick     *)
(* that finds it, and the kick stays under way until it has closed the     *)
(* connection.                                                             *)
KickCovers ==
  faults = 0 =>
    /\ bridges = Instances
    /\ \A c \in DOMAIN conns : conns[c].pc = "open" /\ ~Entitled(c) =>
         \/ conns[c].late \/ conns[c].sid \in silent
         \/ \E k \in pending \cup mail[conns[c].at] : Hits(k, c)

IInv == TypeOK /\ WellIssued /\ TicketOnce /\ KickCovers

\* An open connection that is entitled no more, and whose recheck is alive.
Outlived(c) ==
  c \in DOMAIN conns /\ conns[c].pc = "open" /\ conns[c].recheck /\ ~Entitled(c)

(* Whatever became of the kick, a connection that is entitled no more does *)
(* not stay (reauth.py:30-47): its recheck closes it, unless the recheck   *)
(* itself has died (router.py:189).  A connection without a sid is         *)
(* entitled while the account is active.                                   *)
CutInTheEnd == \A c \in 1..MaxConns : Outlived(c) ~> ~Outlived(c)

=============================================================================
