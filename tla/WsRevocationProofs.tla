------------------------- MODULE WsRevocationProofs -------------------------
(***************************************************************************)
(* Proofs about WsRevocation: for any number of sessions, admins and       *)
(* instances, of tickets, connections and faults.                          *)
(***************************************************************************)
EXTENDS WsRevocation, SequenceTheorems, TLAPS

USE RevocationAssumption

-----------------------------------------------------------------------------
(* Sequences and types *)

\* A sequence that is changed at its places keeps its length.
LEMMA SameLength ==
  ASSUME NEW S, NEW s \in Seq(S), NEW f, f \in [DOMAIN s -> S]
  PROVE  f \in Seq(S) /\ DOMAIN f = DOMAIN s
<1>1. DOMAIN s = 1 .. Len(s) /\ Len(s) \in Nat
  BY LenProperties
<1>2. QED
  BY <1>1, SeqDef

LEMMA Places ==
  ASSUME TypeOK
  PROVE  /\ conns \in [DOMAIN conns -> Conn]
         /\ \A c \in DOMAIN conns : conns[c] \in Conn
         /\ \A t \in DOMAIN tickets : tickets[t] \in Ticket
         /\ DOMAIN tickets = 1 .. Len(tickets) /\ Len(tickets) \in Nat
BY LenProperties, ElementOfSeq DEF TypeOK

LEMMA ClosedType ==
  ASSUME NEW conn \in Conn
  PROVE  /\ Closed(conn) \in Conn /\ Closed(conn).pc = "closed"
         /\ Closed(conn).ticket = conn.ticket
BY DEF Closed, Conn

LEMMA InvInit == Init => IInv
<1> SUFFICES ASSUME Init PROVE IInv
  OBVIOUS
<1>1. /\ tickets = <<>> /\ conns = <<>> /\ DOMAIN tickets = {} /\ DOMAIN conns = {}
      /\ tickets \in Seq(Ticket) /\ conns \in Seq(Conn) /\ Len(tickets) = 0
  BY EmptySeq, LenProperties DEF Init
<1>2. TypeOK
  BY <1>1 DEF Init, TypeOK, Authority!Init
<1>3. QED
  BY <1>1, <1>2 DEF Init, IInv, WellIssued, TicketOnce, KickCovers

-----------------------------------------------------------------------------
(* Sessions: whatever ends one leaves a kick *)

LEMMA SessionType ==
  ASSUME TypeOK, Session
  PROVE  /\ sessions' \subseteq {<< f, OwnerOf[f] >> : f \in Families}
         /\ spent' \subseteq Families /\ suspended' \subseteq Owners
         /\ pending \subseteq pending' /\ pending' \subseteq Kicks
         /\ silent \subseteq silent' /\ silent' \subseteq Families
         /\ UNCHANGED << tickets, conns, mail, bridges, faults >>
<1> DEFINE Goal == /\ sessions' \subseteq {<< f, OwnerOf[f] >> : f \in Families}
                   /\ spent' \subseteq Families /\ suspended' \subseteq Owners
                   /\ pending \subseteq pending' /\ pending' \subseteq Kicks
                   /\ silent \subseteq silent' /\ silent' \subseteq Families
                   /\ UNCHANGED << tickets, conns, mail, bridges, faults >>
<1> USE DEF TypeOK, sockets, sessionVars, Kicks
<1>1. ASSUME NEW f \in Families, Login(f) PROVE Goal
  BY <1>1 DEF Login, Authority!Open
<1>2. ASSUME NEW f \in Families, Logout(f) PROVE Goal
  BY <1>2 DEF Logout, Authority!Close
<1>3. ASSUME NEW f \in Families, EndsSilently(f) PROVE Goal
  BY <1>3 DEF EndsSilently, Authority!Close
<1>4. ASSUME NEW p \in Owners, LogoutAll(p) PROVE Goal
  BY <1>4 DEF LogoutAll, Authority!Close
<1>5. ASSUME NEW p \in Owners, Suspend(p) PROVE Goal
  BY <1>5 DEF Suspend, Authority!Suspend
<1>6. ASSUME NEW p \in Owners, Reinstate(p) PROVE Goal
  BY <1>6 DEF Reinstate, Authority!Reinstate
<1>7. QED
  BY <1>1, <1>2, <1>3, <1>4, <1>5, <1>6 DEF Session

\* A connection that loses what it stands for is kicked, or its session has
\* ended silently.
LEMMA SessionCovers ==
  ASSUME TypeOK, WellIssued, Session,
         NEW c \in DOMAIN conns, conns[c].pc = "open", Entitled(c), ~Entitled(c)'
  PROVE  conns[c].sid \in silent' \/ \E k \in pending' : Hits(k, c)
<1> DEFINE owner == conns[c].owner
           sid   == conns[c].sid
           Goal  == sid \in silent' \/ \E k \in pending' : Hits(k, c)
<1>1. /\ owner \in Owners /\ sid \in Families \cup {Absent}
      /\ sid # Absent => owner = OwnerOf[sid]
  BY Places DEF WellIssued, Conn
<1>2. UNCHANGED conns
  BY SessionType
\* Either the account is suspended now, or the session is over.
<1>3. \/ owner \in suspended' \ suspended
      \/ sid # Absent /\ << sid, owner >> \in sessions \ sessions'
  BY <1>1, <1>2 DEF Entitled, Alive
<1>4. ASSUME NEW p \in Owners, << "principal", p >> \in pending', p = owner PROVE Goal
  BY <1>4 DEF Hits
<1>5. ASSUME NEW f \in Families, << "sid", f >> \in pending', f = sid PROVE Goal
  BY <1>5 DEF Hits
<1> HIDE DEF Goal
<1>6. ASSUME NEW f \in Families, Login(f) PROVE Goal
  BY <1>3, <1>6 DEF Login, Authority!Open
<1>7. ASSUME NEW f \in Families, Logout(f) PROVE Goal
  <2>1. sid = f
    BY <1>3, <1>7 DEF Logout, Authority!Close, sessionVars
  <2>2. << "sid", f >> \in pending'
    BY <1>7 DEF Logout
  <2>3. QED
    BY <2>1, <2>2, <1>5
<1>8. ASSUME NEW f \in Families, EndsSilently(f) PROVE Goal
  <2>1. sid = f
    BY <1>3, <1>8 DEF EndsSilently, Authority!Close
  <2>2. QED
    BY <1>8, <2>1 DEF EndsSilently, Goal
<1>9. ASSUME NEW p \in Owners, LogoutAll(p) PROVE Goal
  <2>1. owner = p
    BY <1>3, <1>9 DEF LogoutAll, Authority!Close, Authority!Of, sessionVars
  <2>2. << "principal", p >> \in pending'
    BY <1>9 DEF LogoutAll
  <2>3. QED
    BY <2>1, <2>2, <1>4
<1>10. ASSUME NEW p \in Owners, Suspend(p) PROVE Goal
  <2>1. owner = p
    BY <1>3, <1>10 DEF Suspend, Authority!Suspend, Authority!Of
  <2>2. << "principal", p >> \in pending'
    BY <1>10 DEF Suspend
  <2>3. QED
    BY <2>1, <2>2, <1>4
<1>11. ASSUME NEW p \in Owners, Reinstate(p) PROVE Goal
  BY <1>3, <1>11 DEF Reinstate, Authority!Reinstate
<1>12. Goal
  BY <1>6, <1>7, <1>8, <1>9, <1>10, <1>11 DEF Session
<1>13. QED
  BY <1>12 DEF Goal

LEMMA SessionInv ==
  ASSUME IInv, Session
  PROVE  IInv'
<1> USE DEF IInv
<1>1. /\ UNCHANGED << tickets, conns, mail, bridges, faults >>
      /\ pending \subseteq pending' /\ silent \subseteq silent'
  BY SessionType
<1>2. TypeOK'
  BY SessionType DEF TypeOK
<1>3. WellIssued' /\ TicketOnce'
  BY <1>1 DEF WellIssued, TicketOnce
<1>4. KickCovers'
  <2> SUFFICES ASSUME faults = 0, NEW c \in DOMAIN conns, conns[c].pc = "open",
                      ~Entitled(c)'
               PROVE  \/ conns[c].late \/ conns[c].sid \in silent'
                      \/ \E k \in pending' \cup mail[conns[c].at] : Hits(k, c)
    BY <1>1 DEF KickCovers, Hits
  <2>1. CASE Entitled(c)
    BY <2>1, SessionCovers
  <2>2. CASE ~Entitled(c)
    BY <1>1, <2>2 DEF KickCovers
  <2>3. QED
    BY <2>1, <2>2
<1>5. QED
  BY <1>2, <1>3, <1>4

-----------------------------------------------------------------------------
(* Tickets and handshakes *)

LEMMA TicketStep ==
  ASSUME IInv,
         \/ \E f \in Families : TicketAsked(f)
         \/ \E t \in DOMAIN tickets : TicketIssued(t) \/ TicketGone(t)
  PROVE  IInv'
<1> USE DEF IInv
<1>1. /\ UNCHANGED << sessions, spent, suspended, conns, pending, mail, bridges,
                      silent, faults >>
  BY DEF TicketAsked, TicketIssued, TicketGone, sessionVars, transport
\* Whichever it is: a ticket that is used stays used, the others are not.
<1>2. /\ tickets' \in Seq(Ticket) /\ Len(tickets') <= MaxTickets
      /\ DOMAIN tickets \subseteq DOMAIN tickets'
      /\ \A u \in DOMAIN tickets' :
           /\ tickets'[u].pc = "used" <=> u \in DOMAIN tickets /\ tickets[u].pc = "used"
           /\ tickets'[u].pc \in {"asked", "issued"} =>
                /\ tickets'[u].family \in Families
                /\ tickets'[u].sid \in {tickets'[u].family, Absent}
  <2> DEFINE Goal == /\ tickets' \in Seq(Ticket) /\ Len(tickets') <= MaxTickets
                     /\ DOMAIN tickets \subseteq DOMAIN tickets'
                     /\ \A u \in DOMAIN tickets' :
                          /\ tickets'[u].pc = "used" <=>
                               u \in DOMAIN tickets /\ tickets[u].pc = "used"
                          /\ tickets'[u].pc \in {"asked", "issued"} =>
                               /\ tickets'[u].family \in Families
                               /\ tickets'[u].sid \in {tickets'[u].family, Absent}
  <2>1. ASSUME NEW f \in Families, TicketAsked(f) PROVE Goal
    <3> DEFINE new == [pc |-> "asked", family |-> f, sid |-> Absent]
    <3>1. new \in Ticket /\ new.pc = "asked" /\ new.family = f /\ new.sid = Absent
      BY DEF Ticket
    <3> HIDE DEF new
    <3>2. tickets' = Append(tickets, new) /\ Len(tickets) < MaxTickets
      BY <2>1 DEF TicketAsked, new
    <3>3. /\ tickets' \in Seq(Ticket) /\ Len(tickets') = Len(tickets) + 1
          /\ \A u \in 1 .. Len(tickets) : tickets'[u] = tickets[u]
          /\ tickets'[Len(tickets) + 1] = new
      BY <3>1, <3>2, AppendProperties DEF TypeOK
    <3>4. DOMAIN tickets' = DOMAIN tickets \cup {Len(tickets) + 1}
      BY <3>3, Places, LenProperties
    <3>5. QED
      BY <3>1, <3>2, <3>3, <3>4, Places DEF WellIssued
  <2>2. ASSUME NEW t \in DOMAIN tickets, NEW x \in Ticket,
               tickets' = [tickets EXCEPT ![t] = x],
               tickets[t].pc # "used", x.pc # "used",
               x.pc = "issued" => x.family \in Families /\ x.sid \in {x.family, Absent},
               x.pc # "asked"
        PROVE  Goal
    <3>1. /\ tickets' \in Seq(Ticket) /\ Len(tickets') = Len(tickets)
          /\ DOMAIN tickets' = DOMAIN tickets
          /\ \A u \in DOMAIN tickets : tickets'[u] = IF u = t THEN x ELSE tickets[u]
      BY <2>2, Places, ExceptSeq, LenProperties DEF TypeOK
    <3>2. QED
      BY <2>2, <3>1 DEF WellIssued
  <2> HIDE DEF Goal
  <2>3. ASSUME NEW t \in DOMAIN tickets, TicketIssued(t) PROVE Goal
    <3>1. PICK sid \in {tickets[t].family, Absent} :
            tickets' = [tickets EXCEPT ![t].pc = "issued", ![t].sid = sid]
      BY <2>3 DEF TicketIssued
    <3> DEFINE x == [tickets[t] EXCEPT !.pc = "issued", !.sid = sid]
    <3>2. /\ tickets[t] \in Ticket /\ tickets[t].pc = "asked"
          /\ tickets[t].family \in Families
      BY <2>3, Places DEF TicketIssued, WellIssued
    <3>3. /\ x \in Ticket /\ x.pc = "issued" /\ x.sid = sid
          /\ x.family = tickets[t].family
      BY <3>2 DEF Ticket
    <3>4. tickets' = [tickets EXCEPT ![t] = x]
      BY <3>1
    <3> HIDE DEF x
    <3>5. QED
      BY <3>2, <3>3, <3>4, <2>2
  <2>4. ASSUME NEW t \in DOMAIN tickets, TicketGone(t) PROVE Goal
    <3>1. Spent("gone") \in Ticket /\ Spent("gone").pc = "gone"
      BY DEF Spent, Ticket
    <3>2. /\ tickets' = [tickets EXCEPT ![t] = Spent("gone")]
          /\ tickets[t].pc # "used"
      BY <2>4 DEF TicketGone
    <3>3. QED
      BY <3>1, <3>2, <2>2
  <2>5. QED
    BY <2>1, <2>3, <2>4 DEF Goal
<1>3. TypeOK'
  <2>1. ASSUME NEW u \in DOMAIN tickets'
        PROVE  tickets'[u].pc = "used" <=> \E c \in DOMAIN conns : conns[c].ticket = u
    BY <1>2, <2>1 DEF TypeOK, WellIssued
  <2>2. QED
    BY <1>1, <1>2, <2>1 DEF TypeOK
<1>4. WellIssued' /\ TicketOnce'
  BY <1>1, <1>2 DEF WellIssued, TicketOnce
<1>5. KickCovers'
  BY <1>1 DEF KickCovers, Entitled, Alive, Hits
<1>6. QED
  BY <1>3, <1>4, <1>5

LEMMA ConsumeStep ==
  ASSUME IInv, NEW t \in DOMAIN tickets, NEW i \in Instances, Consume(t, i)
  PROVE  IInv'
<1> USE DEF IInv
<1> DEFINE new == [pc |-> "consumed", ticket |-> t, at |-> i,
                   owner |-> OwnerOf[tickets[t].family], sid |-> tickets[t].sid,
                   recheck |-> FALSE, late |-> FALSE]
           n   == Len(conns) + 1
<1>1. /\ tickets[t].pc = "issued" /\ tickets[t].family \in Families
      /\ tickets[t].sid \in {tickets[t].family, Absent} /\ t \in 1 .. MaxTickets
  BY Places DEF Consume, WellIssued
<1>2. /\ new \in Conn /\ new.pc = "consumed" /\ new.ticket = t /\ new.at = i
      /\ new.owner = OwnerOf[tickets[t].family] /\ new.owner \in Owners
      /\ new.sid = tickets[t].sid
  BY <1>1 DEF Conn
<1>3. /\ conns' = Append(conns, new) /\ tickets' = [tickets EXCEPT ![t] = Spent("used")]
      /\ UNCHANGED << sessions, spent, suspended, pending, mail, bridges,
                      silent, faults >>
  BY DEF Consume, Handshake, sessionVars, transport
<1> HIDE DEF new
<1>4. /\ conns' \in Seq(Conn) /\ DOMAIN conns' = DOMAIN conns \cup {n}
      /\ n \notin DOMAIN conns
      /\ \A c \in DOMAIN conns : conns'[c] = conns[c]
      /\ conns'[n] = new
  <2>1. /\ conns' \in Seq(Conn) /\ Len(conns') = Len(conns) + 1
        /\ \A c \in 1 .. Len(conns) : conns'[c] = conns[c]
        /\ conns'[Len(conns) + 1] = new
    BY <1>2, <1>3, AppendProperties DEF TypeOK
  <2>2. /\ DOMAIN conns = 1 .. Len(conns) /\ Len(conns) \in Nat
        /\ DOMAIN conns' = 1 .. Len(conns')
    BY <2>1, LenProperties DEF TypeOK
  <2>3. QED
    BY <2>1, <2>2
<1>5. /\ tickets' \in Seq(Ticket) /\ Len(tickets') = Len(tickets)
      /\ DOMAIN tickets' = DOMAIN tickets
      /\ \A u \in DOMAIN tickets \ {t} : tickets'[u] = tickets[u]
      /\ tickets'[t].pc = "used"
  <2>1. Spent("used") \in Ticket /\ Spent("used").pc = "used"
    BY DEF Spent, Ticket
  <2>2. QED
    BY <1>3, <2>1, Places, ExceptSeq, LenProperties DEF TypeOK
\* No connection has the ticket yet.
<1>6. \A c \in DOMAIN conns : conns[c].ticket # t
  BY <1>1 DEF TypeOK
<1> HIDE DEF n
<1>7. TypeOK'
  <2>1. ASSUME NEW u \in DOMAIN tickets
        PROVE  tickets'[u].pc = "used" <=>
                 \E c \in DOMAIN conns' : conns'[c].ticket = u
    <3>1. CASE u = t
      BY <1>2, <1>4, <1>5, <3>1
    <3>2. CASE u # t
      BY <1>2, <1>4, <1>5, <3>2 DEF TypeOK
    <3>3. QED
      BY <3>1, <3>2
  <2>2. QED
    BY <1>3, <1>4, <1>5, <2>1 DEF TypeOK
<1>8. WellIssued'
  BY <1>1, <1>2, <1>4, <1>5 DEF WellIssued
<1>9. TicketOnce'
  BY <1>2, <1>4, <1>6 DEF TicketOnce
<1>10. KickCovers'
  <2> SUFFICES ASSUME faults = 0, NEW c \in DOMAIN conns', conns'[c].pc = "open",
                      ~Entitled(c)'
               PROVE  \/ conns'[c].late \/ conns'[c].sid \in silent
                      \/ \E k \in pending \cup mail[conns'[c].at] : Hits(k, c)'
    BY <1>3 DEF KickCovers
  <2>1. c \in DOMAIN conns /\ conns'[c] = conns[c]
    BY <1>2, <1>4
  <2>2. ~Entitled(c) /\ \A k : Hits(k, c)' <=> Hits(k, c)
    BY <1>3, <2>1 DEF Entitled, Alive, Hits
  <2>3. QED
    BY <2>1, <2>2 DEF KickCovers
<1>11. QED
  BY <1>7, <1>8, <1>9, <1>10

-----------------------------------------------------------------------------
(* Connections *)

\* What a step makes of connection c: nothing, a closed one, or one that has
\* come further, and is late if it is registered too late.
Proceeds(c) ==
  \/ conns'[c] = conns[c]
  \/ conns'[c] = Closed(conns[c])
  \/ /\ conns[c].pc # "closed" /\ conns'[c] \in Conn
     /\ conns'[c].ticket = conns[c].ticket /\ conns'[c].at = conns[c].at
     /\ conns'[c].owner = conns[c].owner /\ conns'[c].sid = conns[c].sid
     /\ conns'[c].pc = "open" =>
          \/ conns[c].pc = "open" /\ conns'[c].late = conns[c].late
          \/ conns'[c].late = ~Entitled(c)

LEMMA ProceedsInv ==
  ASSUME IInv, DOMAIN conns' = DOMAIN conns, conns' \in [DOMAIN conns -> Conn],
         \A c \in DOMAIN conns : Proceeds(c),
         UNCHANGED << sessions, spent, suspended, tickets, silent >>,
         pending' \subseteq Kicks, mail' \in [Instances -> SUBSET Kicks],
         bridges' \subseteq Instances, \A i \in Instances \ bridges' : mail'[i] = {},
         faults' \in 0 .. MaxFaults,
         \* while nothing has failed, a kick is lost only on what is not open
         faults' = 0 =>
           /\ faults = 0 /\ bridges' = bridges
           /\ \A c \in DOMAIN conns : conns'[c].pc = "open" /\ conns[c].pc = "open" =>
                \A k \in pending \cup mail[conns[c].at] :
                  Hits(k, c) => k \in pending' \cup mail'[conns[c].at]
  PROVE  IInv'
<1> USE DEF IInv
<1>1. conns' \in Seq(Conn)
  BY SameLength DEF TypeOK
<1>2. \A c \in DOMAIN conns :
        /\ conns'[c].ticket = conns[c].ticket
        /\ conns'[c].pc # "closed" =>
             /\ conns[c].pc # "closed" /\ conns'[c].at = conns[c].at
             /\ conns'[c].owner = conns[c].owner /\ conns'[c].sid = conns[c].sid
        /\ conns'[c].pc = "open" =>
             \/ conns[c].pc = "open" /\ conns'[c].late = conns[c].late
             \/ conns'[c].late = ~Entitled(c)
  BY Places, ClosedType DEF Proceeds
<1>3. TypeOK'
  BY <1>1, <1>2 DEF TypeOK
<1>4. WellIssued' /\ TicketOnce'
  BY <1>2 DEF WellIssued, TicketOnce
<1>5. KickCovers'
  <2> SUFFICES ASSUME faults' = 0, NEW c \in DOMAIN conns, conns'[c].pc = "open",
                      ~Entitled(c)'
               PROVE  \/ conns'[c].late \/ conns'[c].sid \in silent
                      \/ \E k \in pending' \cup mail'[conns'[c].at] : Hits(k, c)'
    BY DEF KickCovers
  <2>1. /\ conns'[c].at = conns[c].at /\ conns'[c].sid = conns[c].sid
        /\ conns'[c].owner = conns[c].owner
    BY <1>2
  <2>2. ~Entitled(c)
    BY <2>1 DEF Entitled, Alive
  <2>3. CASE conns'[c].late = ~Entitled(c)
    BY <2>2, <2>3
  <2>4. CASE conns[c].pc = "open" /\ conns'[c].late = conns[c].late
    <3>1. ASSUME NEW k \in pending \cup mail[conns[c].at], Hits(k, c)
          PROVE  k \in pending' \cup mail'[conns'[c].at] /\ Hits(k, c)'
      BY <2>1, <2>4, <3>1 DEF Hits
    <3>2. QED
      BY <2>1, <2>2, <2>4, <3>1 DEF KickCovers
  <2>5. QED
    BY <1>2, <2>3, <2>4
<1>6. QED
  BY <1>3, <1>4, <1>5


LEMMA ConnectionInv ==
  ASSUME IInv,
         NEW c \in DOMAIN conns,
         Load(c) \/ Register(c) \/ Leave(c) \/ Recheck(c) \/ RecheckDies(c)
  PROVE  IInv'
<1> USE DEF IInv
<1>1. PICK x \in Conn :
        /\ conns' = [conns EXCEPT ![c] = x]
        /\ x = Closed(conns[c])
           \/ /\ conns[c].pc # "closed"
              /\ x.ticket = conns[c].ticket /\ x.at = conns[c].at
              /\ x.owner = conns[c].owner /\ x.sid = conns[c].sid
              /\ x.pc = "open" => \/ conns[c].pc = "open" /\ x.late = conns[c].late
                                  \/ x.late = ~Entitled(c)
  <2> DEFINE Fits(x) ==
        /\ conns' = [conns EXCEPT ![c] = x]
        /\ x = Closed(conns[c])
           \/ /\ conns[c].pc # "closed"
              /\ x.ticket = conns[c].ticket /\ x.at = conns[c].at
              /\ x.owner = conns[c].owner /\ x.sid = conns[c].sid
              /\ x.pc = "open" => \/ conns[c].pc = "open" /\ x.late = conns[c].late
                                  \/ x.late = ~Entitled(c)
  <2>1. conns[c] \in Conn
    BY Places
  <2>2. CASE conns' = [conns EXCEPT ![c] = Closed(conns[c])]
    BY <2>1, <2>2, ClosedType
  <2>3. CASE /\ conns[c].pc = "consumed"
             /\ conns' = [conns EXCEPT ![c] = [conns[c] EXCEPT !.pc = "checked"]]
    <3> DEFINE x == [conns[c] EXCEPT !.pc = "checked"]
    <3>1. /\ x \in Conn /\ x.pc = "checked" /\ x.ticket = conns[c].ticket
          /\ x.at = conns[c].at /\ x.owner = conns[c].owner /\ x.sid = conns[c].sid
      BY <2>1 DEF Conn
    <3>2. conns' = [conns EXCEPT ![c] = x]
      BY <2>3
    <3> HIDE DEF x
    <3>3. QED
      BY <2>3, <3>1, <3>2
  <2>4. CASE /\ conns[c].pc = "checked"
             /\ conns' = [conns EXCEPT ![c].pc = "open", ![c].recheck = TRUE,
                                       ![c].late = ~Entitled(c)]
    <3> DEFINE x == [conns[c] EXCEPT !.pc = "open", !.recheck = TRUE,
                                     !.late = ~Entitled(c)]
    <3>1. (~Entitled(c)) \in BOOLEAN
      OBVIOUS
    <3>2. /\ x \in Conn /\ x.ticket = conns[c].ticket /\ x.late = ~Entitled(c)
          /\ x.at = conns[c].at /\ x.owner = conns[c].owner /\ x.sid = conns[c].sid
      BY <2>1, <3>1 DEF Conn
    <3>3. conns' = [conns EXCEPT ![c] = x]
      BY <2>4
    <3> HIDE DEF x
    <3>4. QED
      BY <2>4, <3>2, <3>3
  <2>5. CASE conns[c].pc = "open" /\ conns' = [conns EXCEPT ![c].recheck = FALSE]
    <3> DEFINE x == [conns[c] EXCEPT !.recheck = FALSE]
    <3>1. /\ x \in Conn /\ x.ticket = conns[c].ticket /\ x.late = conns[c].late
          /\ x.at = conns[c].at /\ x.owner = conns[c].owner /\ x.sid = conns[c].sid
      BY <2>1 DEF Conn
    <3>2. conns' = [conns EXCEPT ![c] = x]
      BY <2>5
    <3> HIDE DEF x
    <3>3. QED
      BY <2>5, <3>1, <3>2
  <2>6. QED
    BY <2>2, <2>3, <2>4, <2>5 DEF Load, Register, Leave, Recheck, RecheckDies
<1>2. /\ UNCHANGED << sessions, spent, suspended, tickets, silent, pending, mail,
                      bridges >>
      /\ \/ faults' = faults
         \/ faults < MaxFaults /\ faults' = faults + 1
  BY DEF Load, Register, Leave, Recheck, RecheckDies, sessionVars, transport, Fault
<1>3. faults' \in 0 .. MaxFaults /\ (faults' = 0 => faults = 0)
  BY <1>2 DEF TypeOK
<1>4. /\ DOMAIN conns' = DOMAIN conns
      /\ conns' \in [DOMAIN conns -> Conn]
      /\ \A d \in DOMAIN conns : conns'[d] = IF d = c THEN x ELSE conns[d]
  BY <1>1, Places
<1>5. \A d \in DOMAIN conns : Proceeds(d)
  BY <1>1, <1>4 DEF Proceeds
<1>6. QED
  BY <1>2, <1>3, <1>4, <1>5, ProceedsInv DEF TypeOK

-----------------------------------------------------------------------------
(* Kicks, faults and restarts *)

LEMMA KickInv ==
  ASSUME IInv,
         \/ \E k \in Kicks : \/ Publish(k) \/ PublishFails(k)
                             \/ \E i \in Instances : Deliver(i, k)
         \/ \E i \in Instances : BridgeDies(i) \/ Restart(i)
  PROVE  IInv'
<1> USE DEF IInv
<1>1. ASSUME UNCHANGED conns
      PROVE  /\ DOMAIN conns' = DOMAIN conns /\ conns' \in [DOMAIN conns -> Conn]
             /\ \A c \in DOMAIN conns : Proceeds(c)
  BY <1>1, Places DEF Proceeds
<1>2. ASSUME NEW Hit, conns' = [c \in DOMAIN conns |->
                                 IF c \in Hit THEN Closed(conns[c]) ELSE conns[c]]
      PROVE  /\ DOMAIN conns' = DOMAIN conns /\ conns' \in [DOMAIN conns -> Conn]
             /\ \A c \in DOMAIN conns : Proceeds(c)
  BY <1>2, Places, ClosedType DEF Proceeds
<1>3. ASSUME NEW k \in Kicks, Publish(k) PROVE IInv'
  <2>1. /\ UNCHANGED << sessions, spent, suspended, tickets, conns, bridges, silent,
                        faults >>
        /\ pending' = pending \ {k}
        /\ mail' = [i \in Instances |->
                      IF i \in bridges THEN mail[i] \cup {k} ELSE mail[i]]
    BY <1>3 DEF Publish, sessionVars
  <2>2. faults = 0 => \A c \in DOMAIN conns : conns[c].pc = "open" =>
          \A h \in pending \cup mail[conns[c].at] : h \in pending' \cup mail'[conns[c].at]
    BY <2>1 DEF KickCovers, WellIssued
  <2>3. /\ mail' \in [Instances -> SUBSET Kicks]
        /\ \A i \in Instances \ bridges : mail'[i] = {}
    BY <2>1 DEF TypeOK
  <2>4. QED
    BY <1>1, <2>1, <2>2, <2>3, ProceedsInv DEF TypeOK
<1>4. ASSUME NEW k \in Kicks, PublishFails(k) PROVE IInv'
  <2>1. /\ UNCHANGED << sessions, spent, suspended, tickets, conns, bridges, silent,
                        mail >>
        /\ pending' = pending \ {k}
        /\ faults < MaxFaults /\ faults' = faults + 1
    BY <1>4 DEF PublishFails, Fault, sessionVars
  <2>2. faults' \in 0 .. MaxFaults /\ faults' # 0
    BY <2>1 DEF TypeOK
  <2>3. QED
    BY <1>1, <2>1, <2>2, ProceedsInv DEF TypeOK
<1>5. ASSUME NEW k \in Kicks, NEW i \in Instances, Deliver(i, k) PROVE IInv'
  <2> DEFINE Hit == {c \in DOMAIN conns :
                       conns[c].pc = "open" /\ conns[c].at = i /\ Hits(k, c)}
  <2>1. /\ UNCHANGED << sessions, spent, suspended, tickets, bridges, silent, faults,
                        pending >>
        /\ mail' = [mail EXCEPT ![i] = @ \ {k}] /\ k \in mail[i]
        /\ conns' = [c \in DOMAIN conns |->
                       IF c \in Hit THEN Closed(conns[c]) ELSE conns[c]]
    BY <1>5 DEF Deliver, sessionVars
  <2>2. /\ mail' \in [Instances -> SUBSET Kicks]
        /\ \A j \in Instances \ bridges : mail'[j] = {}
    BY <2>1 DEF TypeOK
  \* Whoever the kick hits is closed by it, so nobody who stays has lost a kick.
  <2>3. ASSUME NEW c \in DOMAIN conns, conns'[c].pc = "open", conns[c].pc = "open",
               NEW h \in pending \cup mail[conns[c].at], Hits(h, c)
        PROVE  h \in pending' \cup mail'[conns[c].at]
    <3>1. c \notin Hit
      BY <2>1, <2>3, ClosedType, Places
    <3>2. conns[c].at \in Instances
      BY <2>3 DEF WellIssued
    <3>3. QED
      BY <2>1, <2>3, <3>1, <3>2 DEF TypeOK
  <2> HIDE DEF Hit
  <2>4. QED
    BY <1>2, <2>1, <2>2, <2>3, ProceedsInv DEF TypeOK
<1>6. ASSUME NEW i \in Instances, BridgeDies(i) PROVE IInv'
  <2>1. /\ UNCHANGED << sessions, spent, suspended, tickets, conns, silent, pending >>
        /\ bridges' = bridges \ {i} /\ mail' = [mail EXCEPT ![i] = {}]
        /\ faults < MaxFaults /\ faults' = faults + 1
    BY <1>6 DEF BridgeDies, Fault, sessionVars
  <2>2. faults' \in 0 .. MaxFaults /\ faults' # 0
    BY <2>1 DEF TypeOK
  <2>3. /\ mail' \in [Instances -> SUBSET Kicks] /\ bridges' \subseteq Instances
        /\ \A j \in Instances \ bridges' : mail'[j] = {}
    BY <2>1 DEF TypeOK
  <2>4. QED
    BY <1>1, <2>1, <2>2, <2>3, ProceedsInv DEF TypeOK
<1>7. ASSUME NEW i \in Instances, Restart(i) PROVE IInv'
  <2> DEFINE Hit == {c \in DOMAIN conns : conns[c].at = i}
  <2>1. /\ UNCHANGED << sessions, spent, suspended, tickets, silent, pending >>
        /\ bridges' = bridges \cup {i} /\ mail' = [mail EXCEPT ![i] = {}]
        /\ faults < MaxFaults /\ faults' = faults + 1
        /\ conns' = [c \in DOMAIN conns |->
                       IF c \in Hit THEN Closed(conns[c]) ELSE conns[c]]
    BY <1>7 DEF Restart, Fault, sessionVars
  <2>2. faults' \in 0 .. MaxFaults /\ faults' # 0
    BY <2>1 DEF TypeOK
  <2>3. /\ mail' \in [Instances -> SUBSET Kicks] /\ bridges' \subseteq Instances
        /\ \A j \in Instances \ bridges' : mail'[j] = {}
    BY <2>1 DEF TypeOK
  <2> HIDE DEF Hit
  <2>4. QED
    BY <1>2, <2>1, <2>2, <2>3, ProceedsInv DEF TypeOK
<1>8. QED
  BY <1>3, <1>4, <1>5, <1>6, <1>7

-----------------------------------------------------------------------------
LEMMA InvStep == IInv /\ [Next]_vars => IInv'
<1> SUFFICES ASSUME IInv, [Next]_vars PROVE IInv'
  OBVIOUS
<1>1. CASE UNCHANGED vars
  BY <1>1 DEF vars, sessionVars, IInv, TypeOK, WellIssued, TicketOnce, KickCovers,
              Entitled, Alive, Hits
<1>2. CASE Session
  BY <1>2, SessionInv
<1>3. CASE Opening
  BY <1>3, TicketStep, ConsumeStep, ConnectionInv DEF Opening
<1>4. CASE Closing
  BY <1>4, KickInv, ConnectionInv DEF Closing
<1>5. QED
  BY <1>1, <1>2, <1>3, <1>4 DEF Next

\* The inductive invariant: types, tickets and connections that carry what they
\* were issued for, and a kick under way for whoever has lost what he stands for.
THEOREM Invariant == Spec => []IInv
BY InvInit, InvStep, PTL DEF Spec

\* A ticket opens one connection, whoever presents it how often and where.
THEOREM TicketsOpenOnce == Spec => []TicketOnce
<1>1. IInv => TicketOnce
  BY DEF IInv
<1>2. QED
  BY <1>1, Invariant, PTL

\* Without a fault, when the last kick has arrived nobody is connected who had
\* been connected before the revocation.
THEOREM KicksReach == Spec => []KickComplete
<1>1. IInv => KickComplete
  <2> SUFFICES ASSUME IInv, faults = 0, pending = {},
                      \A i \in Instances : mail[i] = {},
                      NEW c \in DOMAIN conns, conns[c].pc = "open", ~Entitled(c)
               PROVE  conns[c].late \/ conns[c].sid \in silent
    BY DEF KickComplete
  <2>1. conns[c].at \in Instances
    BY DEF IInv, WellIssued
  <2>2. QED
    BY <2>1 DEF IInv, KickCovers
<1>2. QED
  BY <1>1, Invariant, PTL

=============================================================================
