------------------------ MODULE WsConnectionsProofs ------------------------
(***************************************************************************)
(* Proofs about WsConnections: for any number of connections, sessions,    *)
(* principals and topics, and for any limits.                              *)
(***************************************************************************)
EXTENDS WsConnections, SequenceTheorems, TLAPS

-----------------------------------------------------------------------------
(* Queues *)

Entries(q) == {q[i] : i \in DOMAIN q}

LEMMA AppendFacts ==
  ASSUME NEW S, NEW q \in Seq(S), NEW m \in S
  PROVE  /\ Len(q) \in Nat
         /\ Append(q, m) \in Seq(S) /\ Len(Append(q, m)) = Len(q) + 1
         /\ Entries(Append(q, m)) = Entries(q) \cup {m}
<1>1. Len(q) \in Nat /\ DOMAIN q = 1 .. Len(q)
  BY LenProperties
<1>2. /\ Append(q, m) \in Seq(S) /\ Len(Append(q, m)) = Len(q) + 1
      /\ DOMAIN Append(q, m) = 1 .. Len(q) + 1
      /\ \A i \in 1 .. Len(q) : Append(q, m)[i] = q[i]
      /\ Append(q, m)[Len(q) + 1] = m
  BY AppendProperties, LenProperties
<1>3. Entries(Append(q, m)) = Entries(q) \cup {m}
  <2>1. 1 .. Len(q) + 1 = (1 .. Len(q)) \cup {Len(q) + 1}
    BY <1>1
  <2>2. QED
    BY <1>1, <1>2, <2>1 DEF Entries
<1>4. QED
  BY <1>1, <1>2, <1>3

LEMMA TailFacts ==
  ASSUME NEW S, NEW q \in Seq(S), q # << >>
  PROVE  /\ Len(q) \in Nat /\ Tail(q) \in Seq(S) /\ Len(Tail(q)) <= Len(q)
         /\ Entries(Tail(q)) \subseteq Entries(q)
<1>1. Len(q) \in Nat /\ DOMAIN q = 1 .. Len(q)
  BY LenProperties
<1>2. /\ Tail(q) \in Seq(S) /\ Len(Tail(q)) = Len(q) - 1
      /\ \A i \in 1 .. Len(Tail(q)) : Tail(q)[i] = q[i + 1]
  BY HeadTailProperties
<1>3. DOMAIN Tail(q) = 1 .. Len(q) - 1
  BY <1>2, LenProperties
<1>4. \A i \in 1 .. Len(q) - 1 : i + 1 \in DOMAIN q
  BY <1>1
<1>5. QED
  BY <1>1, <1>2, <1>3, <1>4 DEF Entries

LEMMA ShortFacts ==
  ASSUME NEW S, NEW m \in S
  PROVE  /\ << >> \in Seq(S) /\ Len(<< >>) = 0 /\ Entries(<< >>) = {}
         /\ << m >> \in Seq(S) /\ Len(<< m >>) = 1 /\ Entries(<< m >>) = {m}
<1>1. << >> \in Seq(S) /\ Len(<< >>) = 0 /\ Entries(<< >>) = {}
  BY EmptySeq DEF Entries
<1>2. << m >> \in Seq(S) /\ Len(<< m >>) = 1 /\ Entries(<< m >>) = {m}
  BY DEF Entries
<1>3. QED
  BY <1>1, <1>2

-----------------------------------------------------------------------------
(* The indexes *)

USE WsConnectionsAssumption

IndexType == [principal : [Principals -> SUBSET Conns],
              sid : [Sids -> SUBSET Conns], topic : [Topics -> SUBSET Conns],
              tab : [Tabs -> Conns \cup {None}]]

\* RegistrationsAgree of any indexes, E being the connections that are enrolled.
Agree(idx, E, s, k) ==
  /\ \A c \in Conns, p \in Principals : c \in idx.principal[p] <=> c \in E /\ p = Owner[s[c]]
  /\ \A c \in Conns, q \in Sids :
       c \in idx.sid[q] <=> c \in E /\ q = s[c] /\ q \notin Sessionless
  /\ \A t \in Tabs : idx.tab[t] # None =>
       t = << s[idx.tab[t]], k[idx.tab[t]] >> /\ idx.tab[t] \in E

Enlisted(h, s, cl) == {c \in Conns : h[c] \notin {"new", "register"} /\ s[c] # None /\ ~cl[c]}

LEMMA AgreeForm ==
  ASSUME TypeOK
  PROVE  RegistrationsAgree <=> Agree(index, Enlisted(handler, sid, closed), sid, cid)
<1> DEFINE E == Enlisted(handler, sid, closed)
<1>1. /\ sid \in [Conns -> Sids \cup {None}] /\ index \in IndexType
      /\ E \in SUBSET Conns /\ \A c \in E : sid[c] # None
  BY DEF TypeOK, IndexType, Enlisted
<1>2. \A c \in Conns : c \in E <=> /\ handler[c] \notin {"new", "register"}
                                   /\ sid[c] # None /\ ~closed[c]
  BY DEF Enlisted
<1> HIDE DEF E
<1> DEFINE Half == \A c \in Conns : 
             /\ \A p \in Principals : c \in index.principal[p] <=> c \in E /\ p = Owner[sid[c]]
             /\ \A s \in Sids :
                  c \in index.sid[s] <=> c \in E /\ s = sid[c] /\ s \notin Sessionless
<1>3. Half => Registered = E
  <2>1. SUFFICES ASSUME Half PROVE Registered = E
    OBVIOUS
  <2>2. \A c \in Conns, p \in Principals :
          c \in index.principal[p] <=> c \in E /\ p = Owner[sid[c]]
    BY <2>1
  <2> HIDE DEF Half
  <2>3. \A c \in E : c \in Conns /\ Owner[sid[c]] \in Principals
    BY <1>1
  <2>4. \A p \in Principals : index.principal[p] \subseteq Conns
    BY <1>1 DEF IndexType
  <2>5. QED
    BY <2>2, <2>3, <2>4 DEF Registered
<1>4. RegistrationsAgree <=>
        /\ Half
        /\ \A t \in Tabs : index.tab[t] # None =>
             t = << sid[index.tab[t]], cid[index.tab[t]] >> /\ index.tab[t] \in Registered
  BY <1>2 DEF RegistrationsAgree, Principal
<1>5. Agree(index, E, sid, cid) <=>
        /\ Half
        /\ \A t \in Tabs : index.tab[t] # None =>
             t = << sid[index.tab[t]], cid[index.tab[t]] >> /\ index.tab[t] \in E
  BY DEF Agree
<1> HIDE DEF Half
<1>6. QED
  BY <1>3, <1>4, <1>5 DEF E

\* The same of the state after a step.
LEMMA AgreeFormNext ==
  (TypeOK => (RegistrationsAgree <=> Agree(index, Enlisted(handler, sid, closed), sid, cid)))'
<1>1. TypeOK => (RegistrationsAgree <=> Agree(index, Enlisted(handler, sid, closed), sid, cid))
  BY AgreeForm
<1>2. QED
  BY <1>1, PTL

LEMMA EnrollAgrees ==
  ASSUME NEW s \in [Conns -> Sids \cup {None}], NEW k \in [Conns -> Cids \cup {None}],
         NEW idx \in IndexType, NEW E \in SUBSET Conns, Agree(idx, E, s, k),
         NEW c \in Conns, c \notin E, s[c] # None
  PROVE  /\ Enrolled(idx, c, s[c], k[c]) \in IndexType
         /\ Agree(Enrolled(idx, c, s[c], k[c]), E \cup {c}, s, k)
<1> DEFINE new == Enrolled(idx, c, s[c], k[c])
<1>1. /\ s[c] \in Sids /\ Owner[s[c]] \in Principals /\ c # None
      /\ HasTab(s[c], k[c]) => << s[c], k[c] >> \in Tabs
  BY DEF Tabs, HasTab
<1>2. /\ idx.principal \in [Principals -> SUBSET Conns] /\ idx.sid \in [Sids -> SUBSET Conns]
      /\ idx.topic \in [Topics -> SUBSET Conns] /\ idx.tab \in [Tabs -> Conns \cup {None}]
  BY DEF IndexType
<1>3. /\ new.principal = [idx.principal EXCEPT ![Owner[s[c]]] = @ \cup {c}]
      /\ new.sid = [idx.sid EXCEPT ![s[c]] = IF s[c] \in Sessionless THEN @ ELSE @ \cup {c}]
      /\ new.topic = idx.topic
      /\ new.tab = IF HasTab(s[c], k[c]) THEN [idx.tab EXCEPT ![<< s[c], k[c] >>] = c]
                   ELSE idx.tab
  BY DEF Enrolled, IndexType
<1>4. new \in IndexType
  BY <1>1 DEF Enrolled, IndexType
<1> HIDE DEF new
<1>5. \A d \in Conns, p \in Principals :
        d \in new.principal[p] <=> d \in E \cup {c} /\ p = Owner[s[d]]
  BY <1>1, <1>2, <1>3 DEF Agree
<1>6. \A d \in Conns, q \in Sids :
        d \in new.sid[q] <=> d \in E \cup {c} /\ q = s[d] /\ q \notin Sessionless
  BY <1>1, <1>2, <1>3 DEF Agree
<1>7. \A t \in Tabs : \/ new.tab[t] = idx.tab[t]
                      \/ new.tab[t] = c /\ t = << s[c], k[c] >>
  BY <1>1, <1>2, <1>3
<1>8. Agree(new, E \cup {c}, s, k)
  BY <1>5, <1>6, <1>7 DEF Agree
<1>9. QED
  BY <1>4, <1>8 DEF new

LEMMA UnregisterAgrees ==
  ASSUME TypeOK, NEW c \in Conns, sid[c] # None,
         NEW E \in SUBSET Conns, Agree(index, E, sid, cid)
  PROVE  /\ Unregistered(index, c) \in IndexType
         /\ Agree(Unregistered(index, c), E \ {c}, sid, cid)
<1> DEFINE new == Unregistered(index, c)
<1>1. sid[c] \in Sids /\ Principal(c) \in Principals /\ Principal(c) = Owner[sid[c]]
  BY DEF TypeOK, Principal
<1>2. /\ index.principal \in [Principals -> SUBSET Conns] /\ index.sid \in [Sids -> SUBSET Conns]
      /\ index.topic \in [Topics -> SUBSET Conns] /\ index.tab \in [Tabs -> Conns \cup {None}]
      /\ index \in IndexType
  BY DEF TypeOK, IndexType
<1>3. /\ new.principal = [index.principal EXCEPT ![Principal(c)] = @ \ {c}]
      /\ new.sid = [index.sid EXCEPT ![sid[c]] = @ \ {c}]
      /\ new.topic = [t \in Topics |-> IF t \in subscriptions[c]
                                       THEN index.topic[t] \ {c} ELSE index.topic[t]]
      /\ new.tab = [t \in Tabs |-> IF t = << sid[c], cid[c] >> /\ index.tab[t] = c
                                   THEN None ELSE index.tab[t]]
  BY <1>2 DEF Unregistered, IndexType
<1>4. new \in IndexType
  BY <1>1, <1>2 DEF Unregistered, IndexType
<1> HIDE DEF new
<1>5. \A d \in Conns, p \in Principals :
        d \in new.principal[p] <=> d \in E \ {c} /\ p = Owner[sid[d]]
  BY <1>1, <1>2, <1>3 DEF Agree
<1>6. \A d \in Conns, q \in Sids :
        d \in new.sid[q] <=> d \in E \ {c} /\ q = sid[d] /\ q \notin Sessionless
  BY <1>1, <1>2, <1>3 DEF Agree
<1>7. \A t \in Tabs : new.tab[t] # None =>
        /\ t = << sid[new.tab[t]], cid[new.tab[t]] >>
        /\ new.tab[t] \in E \ {c}
  BY <1>2, <1>3 DEF Agree
<1>8. Agree(new, E \ {c}, sid, cid)
  BY <1>5, <1>6, <1>7 DEF Agree
<1>9. QED
  BY <1>4, <1>8 DEF new

-----------------------------------------------------------------------------
(* The invariant without types, in the form the proofs use *)

Place == [conn : Conns, at : {"teardown", "cancel"}]

LEMMA ActorFacts ==
  ASSUME TypeOK
  PROVE  /\ Bridge \in Actors
         /\ \A x \in Tasks \cup {"handler"}, c \in Conns :
              << x, c >> \in Actors /\ << x, c >> # Bridge
         /\ closing \in [Actors -> Place \cup {NotClosing}]
         /\ NotClosing \notin Place
         /\ \A a \in Actors : Closing(a) => /\ closing[a] \in Place
                                            /\ closing[a].conn \in Conns
                                            /\ closing[a].at \in {"teardown", "cancel"}
<1>1. Bridge \in Actors /\ \A x \in Tasks \cup {"handler"}, c \in Conns :
                             << x, c >> \in Actors /\ << x, c >> # Bridge
  BY DEF Actors, Bridge
<1>2. closing \in [Actors -> Place \cup {NotClosing}] /\ NotClosing \notin Place
  BY DEF TypeOK, Place, NotClosing
<1>3. QED
  BY <1>1, <1>2 DEF Closing, Place

\* The inductive invariant but for the topic index, which nothing else rests on.
Core == /\ TypeOK /\ ClosersKnow /\ RegistrationsAgree /\ TeardownLeavesNoTask
        /\ OverflowCut /\ NoHoleInStream

LEMMA InvInit == Init => Core
<1> SUFFICES ASSUME Init PROVE Core
  OBVIOUS
<1>1. /\ << >> \in Seq(Message) /\ Len(<< >>) = 0 /\ DOMAIN << >> = {}
  BY EmptySeq
<1>2. TypeOK
  BY <1>1 DEF Init, TypeOK, HandlerPc, Nothing
<1>3. ClosersKnow
  BY DEF Init, ClosersKnow, Closing, Actors
<1>4. RegistrationsAgree
  BY DEF Init, RegistrationsAgree
<1>5. TeardownLeavesNoTask
  BY DEF Init, TeardownLeavesNoTask
<1>6. OverflowCut /\ NoHoleInStream
  BY <1>1 DEF Init, OverflowCut, NoHoleInStream
<1>7. QED
  BY <1>2, <1>3, <1>4, <1>5, <1>6 DEF Core

-----------------------------------------------------------------------------
(* The steps of a connection's tasks and of its message loop: nothing that *)
(* Core relates changes but where the tasks are, and an actor that is not  *)
(* yet closing a connection may start to close its own.                    *)

Calm(c) ==
  /\ UNCHANGED << sid, cid, closed, kicks, events, lost >>
  /\ index'.principal = index.principal /\ index'.sid = index.sid /\ index'.tab = index.tab
  /\ \A t \in Topics : index'.topic[t] \subseteq index.topic[t] \cup {c}
  /\ \/ handler' = handler
     \/ \E pc \in {"loop", "last", "exit"} :
          handler[c] \in {"loop", "last"} /\ handler' = [handler EXCEPT ![c] = pc]
  /\ \A d \in Conns : tasks'[d] \subseteq tasks[d]
  /\ \/ closing' = closing
     \/ \E x \in Tasks \cup {"handler"} :
          /\ ~Closing(<< x, c >>)
          /\ closing' = [closing EXCEPT ![<< x, c >>] = [conn |-> c, at |-> "teardown"]]
  /\ \A d \in Conns : Entries(queue'[d]) \subseteq Entries(queue[d]) \cup {Notice}

LEMMA CalmInv ==
  ASSUME Core, NEW c \in Conns, Calm(c), Known(c), TypeOK'
  PROVE  Core'
<1> USE DEF Core
<1>1. /\ UNCHANGED << sid, cid, closed, kicks, events, lost >>
      /\ \A d \in Conns : tasks'[d] \subseteq tasks[d]
  BY DEF Calm
<1>2. \A d \in Conns :
        /\ Known(d)' <=> Known(d)
        /\ handler[d] = handler'[d] \/ (d = c /\ handler'[d] \in {"loop", "last", "exit"})
        /\ handler[d] \in {"new", "register"} <=> handler'[d] \in {"new", "register"}
  BY DEF Calm, TypeOK, Known
<1>3. \A a \in Actors :
        \/ closing'[a] = closing[a]
        \/ /\ ~Closing(a) /\ a[2] = c /\ a # Bridge
           /\ closing'[a] = [conn |-> c, at |-> "teardown"]
  <2>1. CASE closing' = closing
    BY <2>1
  <2>2. ASSUME NEW x \in Tasks \cup {"handler"}, ~Closing(<< x, c >>),
               closing' = [closing EXCEPT ![<< x, c >>] = [conn |-> c, at |-> "teardown"]],
               NEW a \in Actors
        PROVE  \/ closing'[a] = closing[a]
               \/ /\ ~Closing(a) /\ a[2] = c /\ a # Bridge
                  /\ closing'[a] = [conn |-> c, at |-> "teardown"]
    <3>1. << x, c >> \in Actors /\ << x, c >> # Bridge /\ << x, c >>[2] = c
      BY ActorFacts
    <3>2. CASE a = << x, c >>
      BY <2>2, <3>1, <3>2, ActorFacts
    <3>3. CASE a # << x, c >>
      BY <2>2, <3>3, ActorFacts
    <3>4. QED
      BY <3>2, <3>3
  <2>3. QED
    BY <2>1, <2>2 DEF Calm
<1>4. ClosersKnow'
  <2>1. \A d \in Conns :
          /\ closed'[d] \/ d \in kicks' \/ tasks'[d] # {} => Known(d)'
          /\ \A t \in Topics : d \in index'.topic[t] => Known(d)'
          /\ handler'[d] \in {"register", "loop", "last", "exit"} => sid'[d] # None
    <3>1. \A t \in Topics : index'.topic[t] \subseteq index.topic[t] \cup {c}
      BY DEF Calm
    <3>2. QED
      BY <1>1, <1>2, <3>1 DEF ClosersKnow, Known
  <2>2. \A d \in Conns : handler'[d] = "new" =>
                           sid'[d] = None /\ ~Closing(<< "handler", d >>)'
    BY <1>1, <1>2, <1>3, ActorFacts DEF ClosersKnow, Known, Closing
  <2>3. \A d \in Conns, task \in Tasks :
          Closing(<< task, d >>)' => closing'[<< task, d >>].conn = d
    <3>1. SUFFICES ASSUME NEW d \in Conns, NEW task \in Tasks, Closing(<< task, d >>)'
                   PROVE  closing'[<< task, d >>].conn = d
      OBVIOUS
    <3>2. << task, d >> \in Actors /\ << task, d >>[2] = d
      BY ActorFacts
    <3>3. CASE closing'[<< task, d >>] = closing[<< task, d >>]
      BY <3>1, <3>3 DEF ClosersKnow, Closing
    <3>4. CASE d = c /\ closing'[<< task, d >>] = [conn |-> c, at |-> "teardown"]
      BY <3>4
    <3>5. QED
      BY <1>3, <3>2, <3>3, <3>4
  <2>4. \A a \in Actors : Closing(a)' =>
          Known(closing[a].conn)' /\ (closing'[a].at = "cancel" => closed'[closing'[a].conn])
    BY <1>1, <1>2, <1>3, ActorFacts DEF ClosersKnow, Closing
  <2>5. QED
    BY <2>1, <2>2, <2>3, <2>4 DEF ClosersKnow
<1>5. RegistrationsAgree'
  <2>1. Registered' = Registered
    BY DEF Calm, Registered
  <2>2. QED
    BY <1>1, <1>2, <2>1 DEF Calm, RegistrationsAgree, Principal, Known
<1>6. TeardownLeavesNoTask'
  <2>1. SUFFICES ASSUME NEW d \in Conns, closed[d],
                        \A a \in Actors : closing'[a] # [conn |-> d, at |-> "cancel"]
                 PROVE  tasks'[d] = {}
    BY <1>1 DEF TeardownLeavesNoTask
  <2>2. \A a \in Actors : closing[a] # [conn |-> d, at |-> "cancel"]
    BY <1>3, <2>1 DEF Closing, NotClosing
  <2>3. QED
    BY <1>1, <2>1, <2>2 DEF TeardownLeavesNoTask
<1>7. \A d \in Conns : \A i \in DOMAIN queue'[d] :
        queue'[d][i] \in Event => \E j \in DOMAIN queue[d] : queue[d][j] = queue'[d][i]
  <2>1. Notice \notin Event
    BY DEF Notice, Event
  <2>2. QED
    BY <2>1 DEF Calm, Entries
<1>8. OverflowCut' /\ NoHoleInStream'
  <2>1. closing'[Bridge] = closing[Bridge]
    BY <1>3, ActorFacts
  <2>2. QED
    BY <1>1, <1>7, <2>1 DEF OverflowCut, NoHoleInStream, Closing
<1>9. QED
  BY <1>4, <1>5, <1>6, <1>8

\* What starts to close its own connection.
Starts(x, c) ==
  /\ ~Closing(<< x, c >>)
  /\ closing' = [closing EXCEPT ![<< x, c >>] = [conn |-> c, at |-> "teardown"]]

LEMMA StartsType ==
  ASSUME TypeOK, NEW c \in Conns, NEW x \in Tasks \cup {"handler"},
         closing' = [closing EXCEPT ![<< x, c >>] = [conn |-> c, at |-> "teardown"]]
  PROVE  closing' \in [Actors -> Place \cup {NotClosing}]
<1>1. [conn |-> c, at |-> "teardown"] \in Place
  BY DEF Place
<1>2. QED
  BY <1>1, ActorFacts

LEMMA SendToFacts ==
  ASSUME TypeOK, NEW c \in Conns, NEW x \in Tasks \cup {"handler"},
         SendTo(c, << x, c >>, Notice), ~Closing(<< x, c >>)
  PROVE  /\ queue' \in [Conns -> Seq(Message)]
         /\ \A d \in Conns : /\ Len(queue'[d]) <= QueueSize
                             /\ Entries(queue'[d]) \subseteq Entries(queue[d]) \cup {Notice}
         /\ socket' \in [Conns -> {"none", "open", "closed"}]
         /\ closing' \in [Actors -> Place \cup {NotClosing}]
         /\ closing' = closing \/ Starts(x, c)
<1>1. /\ queue \in [Conns -> Seq(Message)] /\ Notice \in Message
      /\ \A d \in Conns : Len(queue[d]) <= QueueSize
      /\ socket \in [Conns -> {"none", "open", "closed"}]
      /\ closing \in [Actors -> Place \cup {NotClosing}]
  BY DEF TypeOK, Place, Message
<1>2. CASE UNCHANGED << queue, socket, closing >>
  BY <1>1, <1>2
<1>3. CASE /\ Len(queue[c]) < QueueSize
           /\ queue' = [queue EXCEPT ![c] = Append(@, Notice)]
           /\ UNCHANGED << socket, closing >>
  <2>1. /\ Append(queue[c], Notice) \in Seq(Message) /\ Len(queue[c]) \in Nat
        /\ Len(Append(queue[c], Notice)) = Len(queue[c]) + 1
        /\ Entries(Append(queue[c], Notice)) = Entries(queue[c]) \cup {Notice}
    <3> DEFINE q == queue[c]
    <3>1. q \in Seq(Message) /\ Notice \in Message
      BY <1>1
    <3> HIDE DEF q
    <3>2. /\ Len(q) \in Nat
          /\ Append(q, Notice) \in Seq(Message) /\ Len(Append(q, Notice)) = Len(q) + 1
          /\ Entries(Append(q, Notice)) = Entries(q) \cup {Notice}
      BY <3>1, AppendFacts
    <3>3. QED
      BY <3>2 DEF q
  <2>2. Len(Append(queue[c], Notice)) <= QueueSize
    BY <1>3, <2>1
  <2>3. \A d \in Conns : queue'[d] = IF d = c THEN Append(queue[c], Notice) ELSE queue[d]
    BY <1>1, <1>3
  <2>4. queue' \in [Conns -> Seq(Message)]
    BY <1>1, <1>3, <2>1
  <2>5. QED
    BY <1>1, <1>3, <2>1, <2>2, <2>3, <2>4
<1>4. CASE StartClose(<< x, c >>, c) /\ UNCHANGED queue
  BY <1>1, <1>4, StartsType DEF StartClose, Starts
<1>5. QED
  BY <1>2, <1>3, <1>4 DEF SendTo

LEMMA BackgroundInv ==
  ASSUME Core, NEW c \in Conns, Background(c)
  PROVE  Core'
<1> USE DEF Core
<1> DEFINE Goal == TypeOK' /\ Calm(c) /\ Known(c)
<1>1. \A x : x \in tasks[c] => Known(c) /\ x \in Tasks
  BY DEF ClosersKnow, TypeOK
<1>2. ASSUME WriterSends(c) \/ WriterFails(c) PROVE Goal
  <2>1. /\ "writer" \in tasks[c] /\ ~Closing(<< "writer", c >>) /\ queue[c] # << >>
        /\ queue' = [queue EXCEPT ![c] = Tail(@)]
        /\ UNCHANGED << handler, sid, cid, socket, closed, subscriptions, missed_pongs,
                        tasks, index, kicks, events, lost >>
        /\ closing' = closing \/ Starts("writer", c)
    BY <1>2 DEF WriterSends, WriterFails, attributes, Starts
  <2>2. "writer" \in Tasks /\ Known(c) /\ Notice \in Message
    BY <1>1, <2>1 DEF Message
  <2>3. /\ Tail(queue[c]) \in Seq(Message) /\ Len(Tail(queue[c])) <= Len(queue[c])
        /\ Entries(Tail(queue[c])) \subseteq Entries(queue[c]) /\ Len(queue[c]) \in Nat
        /\ Len(queue[c]) <= QueueSize
    <3>1. queue[c] \in Seq(Message) /\ Len(queue[c]) <= QueueSize
      BY DEF TypeOK
    <3>2. QED
      BY <2>1, <3>1, TailFacts
  <2>4. /\ queue' \in [Conns -> Seq(Message)]
        /\ \A d \in Conns : /\ Len(queue'[d]) <= QueueSize
                            /\ Entries(queue'[d]) \subseteq Entries(queue[d]) \cup {Notice}
    <3>1. \A d \in Conns : queue'[d] = IF d = c THEN Tail(queue[c]) ELSE queue[d]
      BY <2>1 DEF TypeOK
    <3>2. Len(Tail(queue[c])) \in Nat /\ Len(Tail(queue[c])) <= QueueSize
      BY <2>3, LenProperties
    <3>3. queue' \in [Conns -> Seq(Message)]
      BY <2>1, <2>3 DEF TypeOK
    <3>4. QED
      BY <2>3, <3>1, <3>2, <3>3 DEF TypeOK
  <2>5. closing' \in [Actors -> Place \cup {NotClosing}]
    BY <2>1, <2>2, StartsType, ActorFacts DEF Starts
  <2>6. TypeOK'
    BY <2>1, <2>4, <2>5 DEF TypeOK, Place
  <2>7. Calm(c)
    BY <2>1, <2>2, <2>4 DEF Calm, Starts
  <2>8. QED
    BY <2>2, <2>6, <2>7
<1>3. ASSUME HeartbeatPing(c) PROVE Goal
  <2>1. /\ "heartbeat" \in tasks[c] /\ ~Closing(<< "heartbeat", c >>)
        /\ missed_pongs[c] < MissedPongLimit
        /\ missed_pongs' = [missed_pongs EXCEPT ![c] = @ + 1]
        /\ SendTo(c, << "heartbeat", c >>, Notice)
        /\ UNCHANGED << handler, sid, cid, closed, subscriptions, tasks, index,
                        kicks, events, lost >>
    BY <1>3 DEF HeartbeatPing, Sleeping, attributes
  <2>2. "heartbeat" \in Tasks /\ Known(c)
    BY <1>1, <2>1
  <2>3. missed_pongs' \in [Conns -> 0 .. MissedPongLimit]
    BY <2>1 DEF TypeOK
  <2>4. TypeOK'
    BY <2>1, <2>2, <2>3, SendToFacts DEF TypeOK, Place
  <2>5. Calm(c)
    BY <2>1, <2>2, SendToFacts DEF Calm, Starts
  <2>6. QED
    BY <2>2, <2>4, <2>5
<1>4. ASSUME HeartbeatTimeout(c) \/ ReauthInvalid(c) PROVE Goal
  <2>1. PICK x \in {"heartbeat", "reauth"} :
          /\ x \in tasks[c] /\ ~Closing(<< x, c >>) /\ StartClose(<< x, c >>, c)
    BY <1>4 DEF HeartbeatTimeout, ReauthInvalid, Sleeping
  <2>2. UNCHANGED << handler, sid, cid, closed, subscriptions, missed_pongs, tasks,
                     index, kicks, events, queue, lost >>
    BY <1>4 DEF HeartbeatTimeout, ReauthInvalid, attributes, delivery
  <2>3. x \in Tasks /\ Known(c) /\ Starts(x, c)
    BY <1>1, <2>1 DEF StartClose, Starts
  <2>4. /\ closing' \in [Actors -> Place \cup {NotClosing}]
        /\ socket' \in [Conns -> {"none", "open", "closed"}]
    BY <2>1, <2>3, StartsType DEF StartClose, Starts, TypeOK
  <2>5. TypeOK'
    BY <2>2, <2>4 DEF TypeOK, Place
  <2>6. Calm(c)
    BY <2>2, <2>3 DEF Calm, Starts
  <2>7. QED
    BY <2>3, <2>5, <2>6
<1>5. ASSUME NEW task \in Tasks, TaskEnds(c, task) PROVE Goal
  <2>1. /\ task \in tasks[c] /\ tasks' = [tasks EXCEPT ![c] = @ \ {task}]
        /\ UNCHANGED << handler, sid, cid, socket, closed, subscriptions, missed_pongs,
                        index, closing, kicks, events, queue, lost >>
    BY <1>5 DEF TaskEnds, attributes, delivery
  <2>2. TypeOK'
    BY <2>1 DEF TypeOK
  <2>3. Calm(c)
    BY <2>1 DEF Calm, TypeOK
  <2>4. QED
    BY <1>1, <2>1, <2>2, <2>3
<1>6. Goal
  BY <1>2, <1>3, <1>4, <1>5 DEF Background
<1>7. QED
  BY <1>6, CalmInv

LEMMA ReceiveInv ==
  ASSUME Core, NEW c \in Conns, Receive(c)
  PROVE  Core'
<1> USE DEF Core
<1> DEFINE Goal == TypeOK' /\ Calm(c) /\ Known(c)
<1>1. handler[c] \in {"loop", "last"} => Known(c)
  BY DEF ClosersKnow, Known
\* The topics it is subscribed to are all that a message changes.
<1>2. ASSUME Control(c), SendTo(c, << "handler", c >>, Notice),
             handler' = [handler EXCEPT ![c] = AfterMessage(c)],
             UNCHANGED << sid, cid, closed, missed_pongs, tasks, kicks, events, lost >>,
             subscriptions' \in [Conns -> SUBSET Topics],
             index' \in IndexType, index'.principal = index.principal,
             index'.sid = index.sid, index'.tab = index.tab,
             \A t \in Topics : index'.topic[t] \subseteq index.topic[t] \cup {c}
      PROVE  Goal
  <2>1. ~Closing(<< "handler", c >>) /\ handler[c] = "loop"
    BY <1>2 DEF Control
  <2>2. \E pc \in {"loop", "last"} : handler' = [handler EXCEPT ![c] = pc]
    BY <1>2 DEF AfterMessage
  <2>3. handler' \in [Conns -> HandlerPc]
    BY <2>2 DEF TypeOK, HandlerPc
  <2>4. TypeOK'
    BY <1>2, <2>1, <2>3, SendToFacts DEF TypeOK, IndexType, Place
  <2>5. Calm(c)
    BY <1>2, <2>1, <2>2, SendToFacts DEF Calm, Starts
  <2>6. QED
    BY <1>1, <2>1, <2>4, <2>5
<1>3. ASSUME NEW t \in Topics, Subscribe(c, t) \/ Unsubscribe(c, t) PROVE Goal
  <2>1. /\ Control(c) /\ SendTo(c, << "handler", c >>, Notice)
        /\ handler' = [handler EXCEPT ![c] = AfterMessage(c)]
        /\ UNCHANGED << sid, cid, closed, missed_pongs, tasks, kicks, events, lost >>
    BY <1>3 DEF Subscribe, Unsubscribe, attributes
  <2>2. subscriptions' \in [Conns -> SUBSET Topics]
    <3>1. \/ subscriptions' = [subscriptions EXCEPT ![c] = @ \cup {t}]
          \/ subscriptions' = [subscriptions EXCEPT ![c] = @ \ {t}]
      BY <1>3 DEF Subscribe, Unsubscribe
    <3>2. subscriptions \in [Conns -> SUBSET Topics]
      BY DEF TypeOK
    <3>3. CASE subscriptions' = [subscriptions EXCEPT ![c] = @ \cup {t}]
      BY <3>2, <3>3
    <3>4. CASE subscriptions' = [subscriptions EXCEPT ![c] = @ \ {t}]
      BY <3>2, <3>4
    <3>5. QED
      BY <3>1, <3>3, <3>4
  <2>3. /\ index' \in IndexType /\ index'.principal = index.principal
        /\ index'.sid = index.sid /\ index'.tab = index.tab
        /\ \A u \in Topics : index'.topic[u] \subseteq index.topic[u] \cup {c}
    <3>1. index \in IndexType
      BY DEF TypeOK, IndexType
    <3>2. CASE Subscribe(c, t)
      BY <3>1, <3>2 DEF Subscribe, IndexType
    <3>3. CASE Unsubscribe(c, t)
      BY <3>1, <3>3 DEF Unsubscribe, IndexType
    <3>4. QED
      BY <1>3, <3>2, <3>3
  <2>4. QED
    BY <1>2, <2>1, <2>2, <2>3
<1>4. ASSUME Rejected(c) PROVE Goal
  <2>1. index \in IndexType /\ subscriptions \in [Conns -> SUBSET Topics]
    BY DEF TypeOK, IndexType
  <2>2. QED
    BY <1>2, <1>4, <2>1 DEF Rejected, attributes
<1>5. ASSUME Pong(c) PROVE Goal
  <2>1. /\ handler[c] = "loop" /\ missed_pongs' = [missed_pongs EXCEPT ![c] = 0]
        /\ \E pc \in {"loop", "last"} : handler' = [handler EXCEPT ![c] = pc]
        /\ UNCHANGED << sid, cid, socket, closed, subscriptions, tasks, index, closing,
                        kicks, events, queue, lost >>
    BY <1>5 DEF Pong, Control, attributes, delivery
  <2>2. handler' \in [Conns -> HandlerPc] /\ missed_pongs' \in [Conns -> 0 .. MissedPongLimit]
    BY <2>1 DEF TypeOK, HandlerPc
  <2>3. TypeOK'
    BY <2>1, <2>2 DEF TypeOK
  <2>4. Calm(c)
    BY <2>1 DEF Calm
  <2>5. QED
    BY <1>1, <2>1, <2>3, <2>4
<1>6. ASSUME ProtocolError(c) \/ Disconnect(c) PROVE Goal
  <2>1. /\ handler[c] \in {"loop", "last"} /\ Starts("handler", c)
        /\ handler' = [handler EXCEPT ![c] = "exit"]
        /\ socket' = socket \/ socket' = [socket EXCEPT ![c] = "closed"]
        /\ UNCHANGED << sid, cid, closed, subscriptions, missed_pongs, tasks, index,
                        kicks, events, queue, lost >>
    BY <1>6 DEF ProtocolError, Disconnect, Control, StartClose, Starts, attributes, delivery
  <2>2. /\ handler' \in [Conns -> HandlerPc]
        /\ socket' \in [Conns -> {"none", "open", "closed"}]
        /\ closing' \in [Actors -> Place \cup {NotClosing}]
    BY <2>1, StartsType DEF TypeOK, HandlerPc, Starts
  <2>3. TypeOK'
    BY <2>1, <2>2 DEF TypeOK, Place
  <2>4. Calm(c)
    BY <2>1 DEF Calm, Starts
  <2>5. QED
    BY <1>1, <2>1, <2>3, <2>4
<1>7. Goal
  BY <1>3, <1>4, <1>5, <1>6 DEF Receive
<1>8. QED
  BY <1>7, CalmInv


-----------------------------------------------------------------------------
(* The steps of the bridge *)

\* Whoever is found in the registry has registered.
LEMMA FoundAreKnown ==
  ASSUME Core
  PROVE  /\ \A p \in Principals : \A c \in index.principal[p] : c \in Conns /\ Known(c)
         /\ \A q \in Sids : \A c \in index.sid[q] : c \in Conns /\ Known(c)
         /\ \A t \in Topics : \A c \in index.topic[t] : c \in Conns /\ Known(c)
         /\ \A c \in Registered : c \in Conns /\ Known(c)
         /\ \A k \in Tabs : index.tab[k] # None => index.tab[k] \in Conns /\ Known(index.tab[k])
<1> USE DEF Core
<1>1. /\ index.principal \in [Principals -> SUBSET Conns] /\ index.sid \in [Sids -> SUBSET Conns]
      /\ index.topic \in [Topics -> SUBSET Conns]
  BY DEF TypeOK
<1>2. \A p \in Principals : \A c \in index.principal[p] : c \in Conns /\ Known(c)
  BY <1>1 DEF RegistrationsAgree, Known
<1>3. \A q \in Sids : \A c \in index.sid[q] : c \in Conns /\ Known(c)
  BY <1>1 DEF RegistrationsAgree, Known
<1>4. \A t \in Topics : \A c \in index.topic[t] : c \in Conns /\ Known(c)
  BY <1>1 DEF ClosersKnow
<1>5. \A c \in Registered : c \in Conns /\ Known(c)
  BY <1>2 DEF Registered
<1>6. \A k \in Tabs : index.tab[k] # None => index.tab[k] \in Registered
  BY DEF RegistrationsAgree
<1>7. QED
  BY <1>2, <1>3, <1>4, <1>5, <1>6

LEMMA KickInv ==
  ASSUME Core, NEW S, \A c \in S : c \in Conns /\ Known(c), Kick(S)
  PROVE  Core'
<1> USE DEF Core
<1>1. /\ kicks = {} /\ ~Closing(Bridge) /\ kicks' = S
      /\ UNCHANGED << handler, sid, cid, socket, closed, subscriptions, missed_pongs, tasks,
                      index, closing, events, queue, lost >>
  BY DEF Kick, BridgeReady, attributes, delivery
<1>2. TypeOK'
  BY <1>1 DEF TypeOK
<1>3. ClosersKnow'
  BY <1>1 DEF ClosersKnow, Known, Closing
<1>4. RegistrationsAgree' /\ TeardownLeavesNoTask'
  BY <1>1 DEF RegistrationsAgree, TeardownLeavesNoTask, Registered, Principal
<1>5. OverflowCut' /\ NoHoleInStream'
  BY <1>1 DEF OverflowCut, NoHoleInStream, Closing
<1>6. QED
  BY <1>2, <1>3, <1>4, <1>5

LEMMA BridgeClosesInv ==
  ASSUME Core, NEW c \in Conns, BridgeCloses(c)
  PROVE  Core'
<1> USE DEF Core
<1>1. /\ c \in kicks /\ ~Closing(Bridge) /\ kicks' = kicks \ {c}
      /\ socket' = [socket EXCEPT ![c] = "closed"]
      /\ closing' = [closing EXCEPT ![Bridge] = [conn |-> c, at |-> "teardown"]]
      /\ UNCHANGED << handler, sid, cid, closed, subscriptions, missed_pongs, tasks,
                      index, events, queue, lost >>
  BY DEF BridgeCloses, StartClose, attributes, delivery
<1>2. [conn |-> c, at |-> "teardown"] \in Place /\ Known(c)
  BY <1>1 DEF Place, ClosersKnow
<1>3. \A a \in Actors : IF a = Bridge THEN closing'[a] = [conn |-> c, at |-> "teardown"]
                        ELSE closing'[a] = closing[a]
  BY <1>1, ActorFacts
<1>4. TypeOK'
  <2>1. closing' \in [Actors -> Place \cup {NotClosing}]
    BY <1>1, <1>2, ActorFacts
  <2>2. kicks' \in SUBSET Conns /\ socket' \in [Conns -> {"none", "open", "closed"}]
    BY <1>1 DEF TypeOK
  <2>3. QED
    BY <1>1, <2>1, <2>2 DEF TypeOK, Place
<1>5. ClosersKnow'
  <2>1. \A d \in Conns : Known(d)' <=> Known(d)
    BY <1>1 DEF Known
  <2>2. \A x \in Tasks \cup {"handler"}, d \in Conns : closing'[<< x, d >>] = closing[<< x, d >>]
    BY <1>3, ActorFacts
  <2>3. \A a \in Actors : Closing(a)' =>
          Known(closing[a].conn)' /\ (closing'[a].at = "cancel" => closed'[closing'[a].conn])
    <3>1. SUFFICES ASSUME NEW a \in Actors, Closing(a)'
                   PROVE  Known(closing[a].conn)' /\ (closing'[a].at = "cancel" => closed'[closing'[a].conn])
      OBVIOUS
    <3>2. CASE a = Bridge
      BY <1>2, <1>3, <2>1, <3>2
    <3>3. CASE a # Bridge
      BY <1>1, <1>3, <2>1, <3>1, <3>3, ActorFacts DEF ClosersKnow, Closing
    <3>4. QED
      BY <3>2, <3>3
  <2>4. QED
    BY <1>1, <2>1, <2>2, <2>3 DEF ClosersKnow, Closing
<1>6. RegistrationsAgree'
  BY <1>1 DEF RegistrationsAgree, Registered, Principal
<1>7. TeardownLeavesNoTask'
  <2>1. \A d \in Conns, a \in Actors :
          closing[a] = [conn |-> d, at |-> "cancel"] => closing'[a] = closing[a]
    BY <1>1, <1>3 DEF Closing, NotClosing
  <2>2. QED
    BY <1>1, <2>1 DEF TeardownLeavesNoTask
<1>8. OverflowCut' /\ NoHoleInStream'
  <2>1. Closing(Bridge)' /\ closing'[Bridge].conn = c
    BY <1>2, <1>3, ActorFacts DEF Closing
  <2>2. \A d \in Conns : lost[d] # Nothing => closed[d] \/ d \in kicks
    BY <1>1 DEF OverflowCut
  <2>3. QED
    BY <1>1, <2>1, <2>2 DEF OverflowCut, NoHoleInStream
<1>9. QED
  BY <1>4, <1>5, <1>6, <1>7, <1>8

LEMMA SendLocalInv ==
  ASSUME Core, NEW S, \A c \in S : c \in Conns /\ Known(c), SendLocal(S)
  PROVE  Core'
<1> USE DEF Core
<1> DEFINE open     == {c \in S : ~closed[c]}
           overflow == {c \in open : Len(queue[c]) = QueueSize}
<1>1. /\ kicks = {} /\ ~Closing(Bridge) /\ events < MaxEvents /\ events' = events + 1
      /\ queue' = [c \in Conns |-> IF c \in open \ overflow
                                   THEN Append(queue[c], events + 1) ELSE queue[c]]
      /\ lost' = [c \in Conns |-> IF c \in overflow /\ lost[c] = Nothing
                                  THEN events + 1 ELSE lost[c]]
      /\ kicks' = overflow
      /\ UNCHANGED << handler, sid, cid, socket, closed, subscriptions, missed_pongs, tasks,
                      index, closing >>
  BY DEF SendLocal, BridgeReady, attributes
<1>2. \A c \in open : c \in Conns /\ Known(c) /\ ~closed[c]
  OBVIOUS
<1>3. \A c \in open \ overflow : Len(queue[c]) # QueueSize
  OBVIOUS
<1>4. \A c \in overflow : c \in open
  OBVIOUS
<1> HIDE DEF open, overflow
<1>5. events \in Nat /\ events + 1 \in Event /\ Event \subseteq Message /\ Event \subseteq Nat \ {0}
  BY <1>1 DEF TypeOK, Event, Message
<1>6. \A c \in Conns : queue[c] \in Seq(Message) /\ Len(queue[c]) \in Nat /\ Len(queue[c]) <= QueueSize
  BY LenProperties DEF TypeOK
<1>7. ASSUME NEW c \in Conns, c \in open \ overflow
      PROVE  /\ queue'[c] \in Seq(Message) /\ Len(queue'[c]) <= QueueSize
             /\ Entries(queue'[c]) = Entries(queue[c]) \cup {events + 1}
  <2> DEFINE q == queue[c]
             m == events + 1
  <2>1. q \in Seq(Message) /\ m \in Message /\ Len(q) \in Nat /\ Len(q) < QueueSize
    BY <1>3, <1>5, <1>6, <1>7
  <2>2. queue'[c] = Append(q, m)
    BY <1>1, <1>7
  <2> HIDE DEF q, m
  <2>3. /\ Append(q, m) \in Seq(Message) /\ Len(Append(q, m)) = Len(q) + 1
        /\ Entries(Append(q, m)) = Entries(q) \cup {m}
    BY <2>1, AppendFacts
  <2>4. Len(q) + 1 <= QueueSize
    BY <2>1
  <2>5. QED
    BY <2>2, <2>3, <2>4 DEF q, m
<1>8. \A c \in Conns : c \notin open \ overflow => queue'[c] = queue[c]
  BY <1>1
<1>9. \A c \in Conns : /\ lost'[c] = IF c \in overflow /\ lost[c] = Nothing
                                     THEN events + 1 ELSE lost[c]
                       /\ lost[c] \in Event \cup {Nothing}
  BY <1>1 DEF TypeOK
<1>10. TypeOK'
  <2>1. queue' \in [Conns -> Seq(Message)] /\ \A c \in Conns : Len(queue'[c]) <= QueueSize
    <3>1. \A c \in Conns : queue'[c] \in Seq(Message) /\ Len(queue'[c]) <= QueueSize
      BY <1>6, <1>7, <1>8
    <3>2. QED
      BY <1>1, <3>1
  <2>2. lost' \in [Conns -> Event \cup {Nothing}]
    BY <1>1, <1>5, <1>9
  <2>3. kicks' \in SUBSET Conns /\ events' \in 0 .. MaxEvents
    BY <1>1, <1>2, <1>4, <1>5 DEF Event
  <2>4. QED
    BY <1>1, <2>1, <2>2, <2>3 DEF TypeOK
<1>11. ClosersKnow'
  BY <1>1, <1>2, <1>4 DEF ClosersKnow, Known, Closing
<1>12. RegistrationsAgree' /\ TeardownLeavesNoTask'
  BY <1>1 DEF RegistrationsAgree, TeardownLeavesNoTask, Registered, Principal
\* What is still open has lost nothing yet: the bridge has dealt with its kicks.
<1>13. \A c \in Conns : /\ lost[c] # Nothing => closed[c]
                        /\ \A m \in Entries(queue[c]) : m \in Event => m <= events
  BY <1>1 DEF OverflowCut, Entries
<1>14. \A c \in Conns : \A m \in Entries(queue'[c]) :
         m \in Event => m <= events \/ (m = events + 1 /\ c \in open \ overflow)
  <2>1. SUFFICES ASSUME NEW c \in Conns, NEW m \in Entries(queue'[c]), m \in Event
                 PROVE  m <= events \/ (m = events + 1 /\ c \in open \ overflow)
    OBVIOUS
  <2>2. CASE c \in open \ overflow
    BY <1>7, <1>13, <2>1, <2>2
  <2>3. CASE c \notin open \ overflow
    BY <1>8, <1>13, <2>1, <2>3
  <2>4. QED
    BY <2>2, <2>3
<1>15. \A c \in Conns : lost'[c] # Nothing => closed[c] \/ c \in overflow
  BY <1>9, <1>13
<1>16. OverflowCut'
  <2>1. \A c \in Conns : \A i \in DOMAIN queue'[c] :
          queue'[c][i] \in Event => queue'[c][i] <= events'
    <3>1. SUFFICES ASSUME NEW c \in Conns, NEW m \in Entries(queue'[c]), m \in Event
                   PROVE  m <= events'
      BY DEF Entries
    <3>2. m \in Nat /\ (m <= events \/ m = events + 1)
      BY <1>5, <1>14, <3>1
    <3>3. QED
      BY <1>1, <1>5, <3>2
  <2>2. QED
    BY <1>1, <1>15, <2>1 DEF OverflowCut
<1>17. NoHoleInStream'
  <2>1. SUFFICES ASSUME NEW c \in Conns, lost'[c] # Nothing, NEW i \in DOMAIN queue'[c],
                        queue'[c][i] \in Event
                 PROVE  queue'[c][i] < lost'[c]
    BY DEF NoHoleInStream
  <2>2. c \notin open \ overflow
    BY <1>2, <1>15, <2>1
  <2>3. queue'[c] = queue[c]
    BY <1>8, <2>2
  <2>4. CASE lost[c] # Nothing
    <3>1. lost'[c] = lost[c]
      BY <1>9, <2>4
    <3>2. QED
      BY <2>1, <2>3, <2>4, <3>1 DEF NoHoleInStream
  <2>5. CASE lost[c] = Nothing
    <3>1. lost'[c] = events + 1
      BY <1>9, <2>1, <2>5
    <3>2. queue'[c][i] <= events /\ queue'[c][i] \in Nat
      BY <1>5, <1>13, <2>1, <2>3 DEF Entries
    <3>3. QED
      BY <1>5, <3>1, <3>2
  <2>6. QED
    BY <2>4, <2>5
<1>18. QED
  BY <1>10, <1>11, <1>12, <1>16, <1>17

LEMMA DispatchInv ==
  ASSUME Core, Dispatch
  PROVE  Core'
<1>1. ASSUME NEW p \in Principals, Kick(index.principal[p]) \/ SendLocal(index.principal[p])
      PROVE  Core'
  BY <1>1, FoundAreKnown, KickInv, SendLocalInv
<1>2. ASSUME NEW s \in Sids, Kick(index.sid[s]) PROVE Core'
  BY <1>2, FoundAreKnown, KickInv
<1>3. ASSUME NEW t \in Topics, SendLocal(index.topic[t]) PROVE Core'
  BY <1>3, FoundAreKnown, SendLocalInv
<1>4. ASSUME SendLocal(Registered) PROVE Core'
  BY <1>4, FoundAreKnown, SendLocalInv
<1>5. QED
  BY <1>1, <1>2, <1>3, <1>4, BridgeClosesInv DEF Dispatch


-----------------------------------------------------------------------------
(* The handshake *)

\* A connection before its handshake: nobody knows it, and it closes nothing.
LEMMA NewFacts ==
  ASSUME Core, NEW c \in Conns, handler[c] = "new"
  PROVE  /\ ~Known(c) /\ sid[c] = None /\ ~closed[c] /\ c \notin kicks /\ tasks[c] = {}
         /\ ~Closing(<< "handler", c >>)
         /\ \A a \in Actors : Closing(a) => closing[a].conn \in Conns /\ closing[a].conn # c
         /\ Enlisted(handler, sid, closed) \in SUBSET Conns
         /\ c \notin Enlisted(handler, sid, closed)
         /\ Agree(index, Enlisted(handler, sid, closed), sid, cid)
<1> USE DEF Core
<1>1. ~Known(c)
  BY DEF Known
<1>2. sid[c] = None /\ ~closed[c] /\ c \notin kicks /\ tasks[c] = {} /\ ~Closing(<< "handler", c >>)
  BY <1>1 DEF ClosersKnow
<1>3. \A a \in Actors : Closing(a) => closing[a].conn \in Conns /\ closing[a].conn # c
  BY <1>1, ActorFacts DEF ClosersKnow
<1>4. /\ Enlisted(handler, sid, closed) \in SUBSET Conns
      /\ c \notin Enlisted(handler, sid, closed)
  BY <1>1 DEF Enlisted, Known
<1>5. QED
  BY <1>1, <1>2, <1>3, <1>4, AgreeForm

\* The indexes name enrolled connections only, so what another one was opened
\* with makes no difference.
LEMMA AgreeSame ==
  ASSUME NEW idx \in IndexType, NEW E \in SUBSET Conns, NEW s1, NEW k1, NEW s2, NEW k2,
         Agree(idx, E, s1, k1), \A c \in E : s1[c] = s2[c] /\ k1[c] = k2[c]
  PROVE  Agree(idx, E, s2, k2)
<1>1. \A c \in Conns, p \in Principals : c \in idx.principal[p] <=> c \in E /\ p = Owner[s2[c]]
  BY DEF Agree
<1>2. \A c \in Conns, q \in Sids :
        c \in idx.sid[q] <=> c \in E /\ q = s2[c] /\ q \notin Sessionless
  BY DEF Agree
<1>3. \A t \in Tabs : idx.tab[t] # None =>
        t = << s2[idx.tab[t]], k2[idx.tab[t]] >> /\ idx.tab[t] \in E
  BY DEF Agree
<1>4. QED
  BY <1>1, <1>2, <1>3 DEF Agree

\* One connection leaves its first state; it may start to replace another one.
Accepts(c) ==
  /\ UNCHANGED << closed, kicks, events, lost >>
  /\ \A d \in Conns \ {c} : /\ handler'[d] = handler[d] /\ sid'[d] = sid[d] /\ cid'[d] = cid[d]
                            /\ tasks'[d] = tasks[d] /\ queue'[d] = queue[d]
  /\ Entries(queue'[c]) \subseteq Entries(queue[c]) \cup {Notice}
  /\ handler'[c] # "new" /\ (tasks'[c] # {} => Known(c)')
  /\ handler'[c] \in {"register", "loop", "last", "exit"} => sid'[c] # None
  /\ index'.topic = index.topic
  /\ \A a \in Actors :
       \/ closing'[a] = closing[a]
       \/ /\ a = << "handler", c >>
          /\ \E x \in Conns : /\ Known(x) /\ closing'[a] = [conn |-> x, at |-> "teardown"]

LEMMA AcceptsInv ==
  ASSUME Core, TypeOK', RegistrationsAgree', NEW c \in Conns, handler[c] = "new", Accepts(c)
  PROVE  Core'
<1> USE DEF Core
<1>1. UNCHANGED << closed, kicks, events, lost >>
  BY DEF Accepts
<1>2. \A d \in Conns : Known(d) => d # c /\ Known(d)'
  BY NewFacts DEF Accepts, Known
<1>3. \A a \in Actors :
        \/ closing'[a] = closing[a]
        \/ /\ a = << "handler", c >> /\ ~Closing(a) /\ Closing(a)'
           /\ closing'[a].at = "teardown" /\ closing'[a].conn \in Conns /\ Known(closing'[a].conn)
  <2>1. SUFFICES ASSUME NEW a \in Actors, closing'[a] # closing[a]
                 PROVE  /\ a = << "handler", c >> /\ ~Closing(a) /\ Closing(a)'
                        /\ closing'[a].at = "teardown" /\ closing'[a].conn \in Conns
                        /\ Known(closing'[a].conn)
    OBVIOUS
  <2>2. PICK x \in Conns : /\ a = << "handler", c >> /\ Known(x)
                           /\ closing'[a] = [conn |-> x, at |-> "teardown"]
    BY <2>1 DEF Accepts
  <2>3. closing'[a].at = "teardown" /\ closing'[a].conn = x
    BY <2>2
  <2>4. Closing(a)'
    BY <2>3 DEF Closing, NotClosing
  <2>5. ~Closing(a)
    BY <2>2, NewFacts
  <2>6. QED
    BY <2>2, <2>3, <2>4, <2>5
<1>4. ClosersKnow'
  <2>1. \A d \in Conns :
          /\ closed'[d] \/ d \in kicks' \/ tasks'[d] # {} => Known(d)'
          /\ \A t \in Topics : d \in index'.topic[t] => Known(d)'
          /\ handler'[d] \in {"register", "loop", "last", "exit"} => sid'[d] # None
    <3>1. /\ index'.topic = index.topic /\ (tasks'[c] # {} => Known(c)')
          /\ handler'[c] \in {"register", "loop", "last", "exit"} => sid'[c] # None
          /\ \A d \in Conns \ {c} : /\ handler'[d] = handler[d] /\ sid'[d] = sid[d]
                                    /\ tasks'[d] = tasks[d]
      BY DEF Accepts
    <3>2. QED
      BY <1>1, <1>2, <3>1 DEF ClosersKnow
  <2>2. \A d \in Conns : handler'[d] = "new" =>
                           sid'[d] = None /\ ~Closing(<< "handler", d >>)'
    <3>1. SUFFICES ASSUME NEW d \in Conns, handler'[d] = "new"
                   PROVE  sid'[d] = None /\ ~Closing(<< "handler", d >>)'
      OBVIOUS
    <3>2. d # c /\ handler[d] = "new" /\ sid'[d] = sid[d]
      BY <3>1 DEF Accepts
    <3>3. << "handler", d >> \in Actors /\ << "handler", d >> # << "handler", c >>
      BY <3>2, ActorFacts
    <3>4. QED
      BY <1>3, <3>2, <3>3 DEF ClosersKnow, Closing
  <2>3. \A d \in Conns, task \in Tasks :
          Closing(<< task, d >>)' => closing'[<< task, d >>].conn = d
    <3>1. SUFFICES ASSUME NEW d \in Conns, NEW task \in Tasks, Closing(<< task, d >>)'
                   PROVE  closing'[<< task, d >>].conn = d
      OBVIOUS
    <3>2. << task, d >> \in Actors /\ << task, d >> # << "handler", c >>
      BY ActorFacts
    <3>3. closing'[<< task, d >>] = closing[<< task, d >>]
      BY <1>3, <3>2
    <3>4. Closing(<< task, d >>)
      BY <3>1, <3>3 DEF Closing
    <3>5. QED
      BY <3>3, <3>4 DEF ClosersKnow
  <2>4. \A a \in Actors : Closing(a)' =>
          Known(closing[a].conn)' /\ (closing'[a].at = "cancel" => closed'[closing'[a].conn])
    <3>1. SUFFICES ASSUME NEW a \in Actors, Closing(a)'
                   PROVE  /\ Known(closing[a].conn)'
                          /\ closing'[a].at = "cancel" => closed'[closing'[a].conn]
      OBVIOUS
    <3>2. CASE closing'[a] = closing[a]
      <4>1. Closing(a) /\ closing[a].conn \in Conns /\ Known(closing[a].conn)
        BY <3>1, <3>2, ActorFacts DEF ClosersKnow, Closing
      <4>2. Known(closing[a].conn)'
        BY <1>2, <3>2, <4>1 DEF Known
      <4>3. QED
        BY <1>1, <3>2, <4>1, <4>2 DEF ClosersKnow
    <3>3. CASE /\ closing'[a].at = "teardown" /\ closing'[a].conn \in Conns
               /\ Known(closing'[a].conn)
      BY <1>2, <3>3 DEF Known
    <3>4. QED
      BY <1>3, <3>2, <3>3
  <2>5. QED
    BY <2>1, <2>2, <2>3, <2>4 DEF ClosersKnow
<1>5. TeardownLeavesNoTask'
  <2>1. SUFFICES ASSUME NEW d \in Conns, closed[d],
                        \A a \in Actors : closing'[a] # [conn |-> d, at |-> "cancel"]
                 PROVE  tasks'[d] = {}
    BY <1>1 DEF TeardownLeavesNoTask
  <2>2. \A a \in Actors : closing[a] # [conn |-> d, at |-> "cancel"]
    BY <1>3, <2>1 DEF Closing, NotClosing
  <2>3. d # c
    BY <2>1, NewFacts
  <2>4. QED
    BY <2>1, <2>2, <2>3 DEF TeardownLeavesNoTask, Accepts
<1>6. \A d \in Conns : \A i \in DOMAIN queue'[d] :
        queue'[d][i] \in Event => \E j \in DOMAIN queue[d] : queue[d][j] = queue'[d][i]
  <2>1. Notice \notin Event
    BY DEF Notice, Event
  <2>2. \A d \in Conns : Entries(queue'[d]) \subseteq Entries(queue[d]) \cup {Notice}
    BY DEF Accepts
  <2>3. QED
    BY <2>1, <2>2 DEF Entries
<1>7. OverflowCut' /\ NoHoleInStream'
  <2>1. closing'[Bridge] = closing[Bridge]
    BY <1>3, ActorFacts
  <2>2. QED
    BY <1>1, <1>6, <2>1 DEF OverflowCut, NoHoleInStream, Closing
<1>8. QED
  BY <1>4, <1>5, <1>7

LEMMA HandshakeInv ==
  ASSUME Core, NEW c \in Conns, Handshake(c)
  PROVE  Core'
<1> USE DEF Core
<1> DEFINE E == Enlisted(handler, sid, closed)
<1>0. PICK s \in Sids, d \in Cids \cup {None} :
        AcceptRefused(c, s, d) \/ AcceptFresh(c, s, d) \/ AcceptReplacing(c, s, d)
  BY DEF Handshake
<1>1. handler[c] = "new" /\ s # None
  BY <1>0 DEF AcceptRefused, AcceptFresh, AcceptReplacing
<1>2. /\ E \in SUBSET Conns /\ c \notin E /\ Agree(index, E, sid, cid) /\ index \in IndexType
      /\ sid[c] = None /\ ~closed[c] /\ tasks[c] = {} /\ ~Closing(<< "handler", c >>)
  BY <1>1, NewFacts DEF TypeOK, IndexType
<1>3. \A e \in E : e # c /\ e \in Conns
  BY <1>2
\* The welcome is the first thing in the queue.
<1>4. ASSUME queue' = [queue EXCEPT ![c] = << Notice >>]
      PROVE  /\ queue' \in [Conns -> Seq(Message)]
             /\ \A e \in Conns : Len(queue'[e]) <= QueueSize
             /\ Entries(queue'[c]) \subseteq Entries(queue[c]) \cup {Notice}
  <2>1. /\ << Notice >> \in Seq(Message) /\ Len(<< Notice >>) = 1
        /\ Entries(<< Notice >>) = {Notice}
    BY ShortFacts DEF Message
  <2>2. \A e \in Conns : queue'[e] = IF e = c THEN << Notice >> ELSE queue[e]
    BY <1>4 DEF TypeOK
  <2>3. queue' \in [Conns -> Seq(Message)]
    BY <1>4, <2>1 DEF TypeOK
  <2>4. \A e \in Conns : Len(queue'[e]) <= QueueSize
    <3>1. 1 <= QueueSize
      OBVIOUS
    <3>2. QED
      BY <2>1, <2>2, <3>1 DEF TypeOK
  <2>5. Entries(queue'[c]) \subseteq Entries(queue[c]) \cup {Notice}
    BY <2>1, <2>2
  <2>6. QED
    BY <2>3, <2>4, <2>5
<1>5. ASSUME sid' = [sid EXCEPT ![c] = s] /\ cid' = [cid EXCEPT ![c] = d]
      PROVE  /\ sid' \in [Conns -> Sids \cup {None}] /\ cid' \in [Conns -> Cids \cup {None}]
             /\ sid'[c] = s /\ cid'[c] = d
             /\ \A e \in Conns \ {c} : sid'[e] = sid[e] /\ cid'[e] = cid[e]
             /\ Agree(index, E, sid', cid')
  <2>1. /\ sid' \in [Conns -> Sids \cup {None}] /\ cid' \in [Conns -> Cids \cup {None}]
        /\ sid'[c] = s /\ cid'[c] = d
        /\ \A e \in Conns \ {c} : sid'[e] = sid[e] /\ cid'[e] = cid[e]
    BY <1>5 DEF TypeOK
  <2>2. \A e \in E : sid[e] = sid'[e] /\ cid[e] = cid'[e]
    BY <1>3, <2>1
  <2> HIDE DEF E
  <2>3. Agree(index, E, sid', cid')
    BY <1>2, <2>2, AgreeSame
  <2>4. QED
    BY <2>1, <2>3
<1>6. ASSUME AcceptRefused(c, s, d) PROVE Core'
  <2>1. /\ handler' = [handler EXCEPT ![c] = "done"] /\ socket' = [socket EXCEPT ![c] = "closed"]
        /\ UNCHANGED << sid, cid, closed, subscriptions, missed_pongs, tasks, index, closing,
                        kicks, events, queue, lost >>
    BY <1>6 DEF AcceptRefused, attributes, delivery
  <2>2. TypeOK'
    BY <2>1 DEF TypeOK, HandlerPc
  <2>3. Accepts(c)
    BY <1>2, <2>1 DEF Accepts, TypeOK
  <2>4. RegistrationsAgree'
    <3>1. Enlisted(handler, sid, closed)' = E
      BY <1>2, <2>1 DEF Enlisted, TypeOK
    <3>2. Agree(index, E, sid, cid)'
      BY <1>2, <2>1, <3>1
    <3>3. QED
      BY <2>2, <3>1, <3>2, AgreeFormNext
  <2>5. QED
    BY <1>1, <2>2, <2>3, <2>4, AcceptsInv
<1>7. ASSUME AcceptFresh(c, s, d) PROVE Core'
  <2>1. /\ handler' = [handler EXCEPT ![c] = "loop"]
        /\ sid' = [sid EXCEPT ![c] = s] /\ cid' = [cid EXCEPT ![c] = d]
        /\ socket' = [socket EXCEPT ![c] = "open"]
        /\ queue' = [queue EXCEPT ![c] = << Notice >>]
        /\ tasks' = [tasks EXCEPT ![c] = Tasks]
        /\ index' = Enrolled(index, c, s, d)
        /\ UNCHANGED << closed, subscriptions, missed_pongs, closing, kicks, events, lost >>
    BY <1>7 DEF AcceptFresh
  <2>2. index' \in IndexType /\ Agree(index', E \cup {c}, sid', cid')
    <3>1. Enrolled(index, c, sid'[c], cid'[c]) = index' /\ sid'[c] # None
      BY <1>1, <1>5, <2>1
    <3>2. /\ sid' \in [Conns -> Sids \cup {None}] /\ cid' \in [Conns -> Cids \cup {None}]
          /\ Agree(index, E, sid', cid')
      BY <1>5, <2>1
    <3> HIDE DEF E
    <3>3. /\ Enrolled(index, c, sid'[c], cid'[c]) \in IndexType
          /\ Agree(Enrolled(index, c, sid'[c], cid'[c]), E \cup {c}, sid', cid')
      BY <1>2, <3>1, <3>2, EnrollAgrees
    <3>4. QED
      BY <3>1, <3>3
  <2>3. /\ handler' \in [Conns -> HandlerPc] /\ tasks' \in [Conns -> SUBSET Tasks]
        /\ socket' \in [Conns -> {"none", "open", "closed"}]
    BY <2>1 DEF TypeOK, HandlerPc
  <2>4. TypeOK'
    BY <1>4, <1>5, <2>1, <2>2, <2>3 DEF TypeOK, IndexType
  <2>5. Accepts(c)
    <3>1. \A e \in Conns \ {c} : /\ handler'[e] = handler[e] /\ tasks'[e] = tasks[e]
                                 /\ queue'[e] = queue[e]
      BY <2>1 DEF TypeOK
    <3>2. handler'[c] = "loop" /\ Known(c)'
      BY <1>1, <1>5, <2>1 DEF TypeOK, Known
    <3>3. index'.topic = index.topic
      BY <2>1 DEF Enrolled, TypeOK
    <3>4. QED
      BY <1>1, <1>4, <1>5, <2>1, <3>1, <3>2, <3>3 DEF Accepts
  <2>6. RegistrationsAgree'
    <3>1. Enlisted(handler', sid', closed') = E \cup {c}
      <4>1. c \in Enlisted(handler', sid', closed')
        BY <1>1, <1>2, <1>5, <2>1 DEF Enlisted, TypeOK
      <4>2. \A e \in Conns \ {c} : e \in Enlisted(handler', sid', closed') <=> e \in E
        BY <1>5, <2>1 DEF Enlisted, TypeOK
      <4>3. Enlisted(handler', sid', closed') \subseteq Conns
        BY DEF Enlisted
      <4> HIDE DEF E
      <4>4. QED
        BY <1>2, <4>1, <4>2, <4>3
    <3>2. QED
      BY <2>2, <2>4, <3>1, AgreeFormNext
  <2>7. QED
    BY <1>1, <2>4, <2>5, <2>6, AcceptsInv
<1>8. ASSUME AcceptReplacing(c, s, d) PROVE Core'
  <2> DEFINE old == Tab(s, d)
             place == [conn |-> old, at |-> "teardown"]
  <2>1. /\ old # None
        /\ handler' = [handler EXCEPT ![c] = "register"]
        /\ sid' = [sid EXCEPT ![c] = s] /\ cid' = [cid EXCEPT ![c] = d]
        /\ socket' = [socket EXCEPT ![c] = "open", ![old] = "closed"]
        /\ closing' = [closing EXCEPT ![<< "handler", c >>] = place]
        /\ queue' = [queue EXCEPT ![c] = << Notice >>]
        /\ UNCHANGED << closed, subscriptions, missed_pongs, tasks, index, kicks, events, lost >>
    BY <1>8 DEF AcceptReplacing
  <2>2. old \in Conns /\ Known(old) /\ place \in Place
    <3>1. d # None /\ << s, d >> \in Tabs /\ old = index.tab[<< s, d >>]
      BY <2>1 DEF Tab, HasTab, Tabs
    <3>2. QED
      BY <2>1, <3>1, FoundAreKnown DEF Place
  <2> HIDE DEF old
  <2>3. closing' \in [Actors -> Place \cup {NotClosing}]
    BY <2>1, <2>2, ActorFacts
  <2>4. /\ handler' \in [Conns -> HandlerPc]
        /\ socket' \in [Conns -> {"none", "open", "closed"}]
    BY <2>1, <2>2 DEF TypeOK, HandlerPc
  <2>5. TypeOK'
    BY <1>4, <1>5, <2>1, <2>3, <2>4 DEF TypeOK, Place
  <2>6. Accepts(c)
    <3>1. \A e \in Conns \ {c} : handler'[e] = handler[e] /\ queue'[e] = queue[e]
      BY <2>1 DEF TypeOK
    <3>2. handler'[c] = "register"
      BY <2>1 DEF TypeOK
    <3>3. \A a \in Actors :
            \/ closing'[a] = closing[a]
            \/ a = << "handler", c >> /\ closing'[a] = place
      BY <2>1, ActorFacts
    <3>4. QED
      BY <1>1, <1>2, <1>4, <1>5, <2>1, <2>2, <3>1, <3>2, <3>3 DEF Accepts
  <2>7. RegistrationsAgree'
    <3>1. Enlisted(handler', sid', closed') = E
      <4>1. c \notin Enlisted(handler', sid', closed')
        BY <2>1 DEF Enlisted, TypeOK
      <4>2. \A e \in Conns \ {c} : e \in Enlisted(handler', sid', closed') <=> e \in E
        BY <1>5, <2>1 DEF Enlisted, TypeOK
      <4>3. Enlisted(handler', sid', closed') \subseteq Conns
        BY DEF Enlisted
      <4> HIDE DEF E
      <4>4. QED
        BY <1>2, <4>1, <4>2, <4>3
    <3>2. Agree(index', E, sid', cid')
      BY <1>5, <2>1
    <3>3. QED
      BY <2>5, <3>1, <3>2, AgreeFormNext
  <2>8. QED
    BY <1>1, <2>5, <2>6, <2>7, AcceptsInv
<1>9. QED
  BY <1>0, <1>6, <1>7, <1>8

-----------------------------------------------------------------------------
(* The closing procedure *)

\* What going on after a close leaves: N is whom it has registered, the handler's
\* own connection or nobody.
Resumed(ts, E, N) ==
  /\ handler' \in [Conns -> HandlerPc] /\ tasks' \in [Conns -> SUBSET Tasks]
  /\ index' \in IndexType /\ Agree(index', E \cup N, sid, cid)
  /\ \A c \in N : handler[c] = "register" /\ handler'[c] = "loop"
  /\ \A c \in Conns \ N : /\ tasks'[c] \subseteq ts[c]
                          /\ handler'[c] = handler[c] \/ (handler[c] = "exit" /\ handler'[c] = "done")

LEMMA ResumeFacts ==
  ASSUME Core, NEW a \in Actors, NEW ts \in [Conns -> SUBSET Tasks], NEW idx \in IndexType,
         NEW E \in SUBSET Conns, Agree(idx, E, sid, cid), \A c \in E : Known(c),
         Resume(a, ts, idx)
  PROVE  index'.topic = idx.topic /\ \E N \in SUBSET Conns : Resumed(ts, E, N)
<1> USE DEF Core
<1>1. /\ handler \in [Conns -> HandlerPc] /\ sid \in [Conns -> Sids \cup {None}]
      /\ cid \in [Conns -> Cids \cup {None}]
  BY DEF TypeOK
<1>2. a[1] = "handler" \/ a[1] \in Tasks => a[2] \in Conns
  BY DEF Actors, Bridge
<1>3. ASSUME a[1] = "handler", handler[a[2]] = "register"
      PROVE  index'.topic = idx.topic /\ Resumed(ts, E, {a[2]})
  <2> DEFINE c == a[2]
  <2>1. c \in Conns /\ handler[c] = "register" /\ sid[c] # None
    BY <1>2, <1>3 DEF ClosersKnow
  <2>2. c \notin E
    BY <2>1 DEF Known
  <2>3. /\ handler' = [handler EXCEPT ![c] = "loop"]
        /\ tasks' = [ts EXCEPT ![c] = Tasks]
        /\ index' = Enrolled(idx, c, sid[c], cid[c])
    BY <1>3 DEF Resume
  <2> HIDE DEF c
  <2>4. /\ Enrolled(idx, c, sid[c], cid[c]) \in IndexType
        /\ Agree(Enrolled(idx, c, sid[c], cid[c]), E \cup {c}, sid, cid)
    BY <1>1, <2>1, <2>2, EnrollAgrees
  <2>5. /\ handler' \in [Conns -> HandlerPc] /\ tasks' \in [Conns -> SUBSET Tasks]
        /\ handler'[c] = "loop"
        /\ \A d \in Conns \ {c} : handler'[d] = handler[d] /\ tasks'[d] = ts[d]
    BY <1>1, <2>1, <2>3 DEF HandlerPc
  <2>6. index'.topic = idx.topic
    BY <2>3 DEF Enrolled, IndexType
  <2>7. QED
    BY <2>1, <2>3, <2>4, <2>5, <2>6 DEF Resumed, c
<1>4. ASSUME ~(a[1] = "handler" /\ handler[a[2]] = "register")
      PROVE  index'.topic = idx.topic /\ Resumed(ts, E, {})
  <2>1. index' = idx
    BY <1>4 DEF Resume
  <2>2. /\ handler' \in [Conns -> HandlerPc]
        /\ \A d \in Conns : handler'[d] = handler[d] \/ (handler[d] = "exit" /\ handler'[d] = "done")
    <3>1. CASE a[1] = "handler" /\ handler[a[2]] = "exit"
      <4>1. handler' = [handler EXCEPT ![a[2]] = "done"]
        BY <1>4, <3>1 DEF Resume
      <4>2. QED
        BY <1>1, <3>1, <4>1 DEF HandlerPc
    <3>2. CASE ~(a[1] = "handler" /\ handler[a[2]] = "exit")
      BY <1>1, <1>4, <3>2 DEF Resume
    <3>3. QED
      BY <3>1, <3>2
  <2>3. tasks' \in [Conns -> SUBSET Tasks] /\ \A d \in Conns : tasks'[d] \subseteq ts[d]
    <3>1. CASE a[1] \in Tasks
      <4>1. tasks' = [ts EXCEPT ![a[2]] = @ \ {a[1]}]
        BY <1>4, <3>1 DEF Resume
      <4>2. QED
        BY <1>2, <3>1, <4>1
    <3>2. CASE a[1] \notin Tasks
      BY <1>4, <3>2 DEF Resume
    <3>3. QED
      BY <3>1, <3>2
  <2>4. E \cup {} = E
    OBVIOUS
  <2>5. QED
    BY <2>1, <2>2, <2>3, <2>4 DEF Resumed
<1>5. QED
  BY <1>2, <1>3, <1>4

\* A step of the closing procedure of connection x.  Whoever is where it was no
\* longer was closing x, and by then x is torn down.
Closes(x, N) ==
  /\ UNCHANGED << sid, cid, kicks, events, lost >>
  /\ \A d \in Conns : closed'[d] <=> closed[d] \/ (d = x /\ closed'[x])
  /\ \A d \in Conns : queue'[d] = queue[d] \/ queue'[d] = << >>
  /\ \A t \in Topics : index'.topic[t] \subseteq index.topic[t]
  /\ \A c \in N : handler[c] = "register" /\ handler'[c] = "loop"
  /\ \A c \in Conns \ N : /\ tasks'[c] \subseteq tasks[c]
                          /\ handler'[c] = handler[c] \/ (handler[c] = "exit" /\ handler'[c] = "done")
  /\ \A b \in Actors : closing'[b] # closing[b] =>
       /\ Closing(b) /\ closing[b].conn = x /\ closed'[x]
       /\ closing'[b] \in {NotClosing, [conn |-> x, at |-> "cancel"]}
  /\ \/ tasks'[x] = {}
     \/ \E b \in Actors : closing'[b] = [conn |-> x, at |-> "cancel"]
     \/ closed[x] /\ \A b \in Actors : closing[b].at = "cancel" => closing'[b] = closing[b]

LEMMA ClosesInv ==
  ASSUME Core, TypeOK', NEW a \in Actors, Closing(a), NEW N \in SUBSET Conns,
         Closes(closing[a].conn, N),
         Agree(index', Enlisted(handler, sid, closed') \cup N, sid, cid)
  PROVE  Core'
<1> USE DEF Core
<1> DEFINE x == closing[a].conn
<1>1. x \in Conns /\ Known(x)
  BY ActorFacts DEF ClosersKnow
<1>0. Closes(x, N)
  OBVIOUS
<1> HIDE DEF x
<1>2. /\ UNCHANGED << sid, cid, kicks, events, lost >>
      /\ \A d \in Conns : closed'[d] <=> closed[d] \/ (d = x /\ closed'[x])
      /\ \A d \in Conns : queue'[d] = queue[d] \/ queue'[d] = << >>
      /\ \A t \in Topics : index'.topic[t] \subseteq index.topic[t]
      /\ \A c \in N : handler[c] = "register" /\ handler'[c] = "loop"
      /\ \A c \in Conns \ N :
           /\ tasks'[c] \subseteq tasks[c]
           /\ handler'[c] = handler[c] \/ (handler[c] = "exit" /\ handler'[c] = "done")
      /\ \A b \in Actors : closing'[b] # closing[b] =>
           /\ Closing(b) /\ closing[b].conn = x /\ closed'[x]
           /\ closing'[b] \in {NotClosing, [conn |-> x, at |-> "cancel"]}
      /\ \/ tasks'[x] = {}
         \/ \E b \in Actors : closing'[b] = [conn |-> x, at |-> "cancel"]
         \/ closed[x] /\ \A b \in Actors : closing[b].at = "cancel" => closing'[b] = closing[b]
  BY <1>0 DEF Closes
\* Who is registered now was not known before, and is not x.
<1>3. \A c \in N : c \in Conns /\ ~Known(c) /\ c # x /\ ~closed[c] /\ ~closed'[c] /\ sid[c] # None
  <2>1. \A c \in N : c \in Conns /\ ~Known(c) /\ sid[c] # None
    BY <1>2 DEF Known, ClosersKnow
  <2>2. \A c \in N : c # x /\ ~closed[c]
    BY <1>1, <2>1 DEF ClosersKnow
  <2>3. \A c \in N : ~closed'[c]
    BY <1>2, <2>1, <2>2
  <2>4. QED
    BY <2>1, <2>2, <2>3
<1>4. \A d \in Conns : Known(d)' <=> Known(d) \/ d \in N
  BY <1>2, <1>3 DEF Known
<1>5. ClosersKnow'
  <2>1. \A d \in Conns :
          /\ closed'[d] \/ d \in kicks' \/ tasks'[d] # {} => Known(d)'
          /\ \A t \in Topics : d \in index'.topic[t] => Known(d)'
          /\ handler'[d] \in {"register", "loop", "last", "exit"} => sid'[d] # None
    <3>1. \A d \in Conns : closed[d] \/ d \in kicks \/ tasks[d] # {} => Known(d)
      BY DEF ClosersKnow
    <3>2. \A d \in Conns : closed'[d] \/ d \in kicks' \/ tasks'[d] # {} => Known(d)'
      BY <1>1, <1>2, <1>4, <3>1
    <3>3. \A d \in Conns, t \in Topics : d \in index'.topic[t] => Known(d)'
      BY <1>2, <1>4 DEF ClosersKnow
    <3>4. \A d \in Conns : handler'[d] \in {"register", "loop", "last", "exit"} => sid'[d] # None
      BY <1>2, <1>3 DEF ClosersKnow
    <3>5. QED
      BY <3>2, <3>3, <3>4
  <2>2. \A d \in Conns : handler'[d] = "new" =>
                           sid'[d] = None /\ ~Closing(<< "handler", d >>)'
    <3>1. SUFFICES ASSUME NEW d \in Conns, handler'[d] = "new"
                   PROVE  sid'[d] = None /\ ~Closing(<< "handler", d >>)'
      OBVIOUS
    <3>2. handler[d] = "new" /\ << "handler", d >> \in Actors
      BY <1>2, <3>1, ActorFacts
    <3>3. ~Closing(<< "handler", d >>) /\ sid[d] = None
      BY <3>2 DEF ClosersKnow
    <3>4. closing'[<< "handler", d >>] = closing[<< "handler", d >>]
      BY <1>2, <3>2, <3>3
    <3>5. QED
      BY <1>2, <3>3, <3>4 DEF Closing
  <2>3. \A d \in Conns, task \in Tasks :
          Closing(<< task, d >>)' => closing'[<< task, d >>].conn = d
    <3>1. SUFFICES ASSUME NEW d \in Conns, NEW task \in Tasks, Closing(<< task, d >>)'
                   PROVE  closing'[<< task, d >>].conn = d
      OBVIOUS
    <3> DEFINE b == << task, d >>
    <3>2. b \in Actors
      BY ActorFacts
    <3>3. CASE closing'[b] = closing[b]
      BY <3>1, <3>3 DEF ClosersKnow, Closing
    <3>4. CASE closing'[b] # closing[b]
      <4>1. Closing(b) /\ closing[b].conn = x /\ closing'[b] = [conn |-> x, at |-> "cancel"]
        BY <1>2, <3>1, <3>2, <3>4 DEF Closing
      <4>2. closing[b].conn = d
        BY <4>1 DEF ClosersKnow
      <4>3. QED
        BY <4>1, <4>2
    <3>5. QED
      BY <3>3, <3>4
  <2>4. \A b \in Actors : Closing(b)' =>
          Known(closing[b].conn)' /\ (closing'[b].at = "cancel" => closed'[closing'[b].conn])
    <3>1. SUFFICES ASSUME NEW b \in Actors, Closing(b)'
                   PROVE  /\ Known(closing[b].conn)'
                          /\ closing'[b].at = "cancel" => closed'[closing'[b].conn]
      OBVIOUS
    <3>2. CASE closing'[b] = closing[b]
      <4>1. Closing(b) /\ closing[b].conn \in Conns /\ Known(closing[b].conn)
        BY <3>1, <3>2, ActorFacts DEF ClosersKnow, Closing
      <4>2. Known(closing[b].conn)'
        BY <1>4, <3>2, <4>1 DEF Known
      <4>3. closing[b].at = "cancel" => closed[closing[b].conn]
        BY <4>1 DEF ClosersKnow
      <4>4. QED
        BY <1>2, <3>2, <4>1, <4>2, <4>3
    <3>3. CASE closing'[b] # closing[b]
      <4>1. closed'[x] /\ closing'[b] = [conn |-> x, at |-> "cancel"]
        BY <1>2, <3>1, <3>3 DEF Closing
      <4>2. closing'[b].conn = x
        BY <4>1
      <4>3. QED
        BY <1>1, <1>4, <4>1, <4>2 DEF Known
    <3>4. QED
      BY <3>2, <3>3
  <2>5. QED
    BY <2>1, <2>2, <2>3, <2>4 DEF ClosersKnow
<1>6. RegistrationsAgree'
  <2>1. Enlisted(handler', sid', closed') = Enlisted(handler, sid, closed') \cup N
    <3>1. \A d \in Conns : d \in Enlisted(handler', sid', closed')
                             <=> d \in Enlisted(handler, sid, closed') \/ d \in N
      BY <1>2, <1>3, <1>4 DEF Enlisted, Known
    <3>2. QED
      BY <3>1 DEF Enlisted
  <2>2. Agree(index', Enlisted(handler', sid', closed'), sid', cid')
    BY <1>2, <2>1
  <2>3. QED
    BY <2>2, AgreeFormNext
<1>7. TeardownLeavesNoTask'
  <2>1. SUFFICES ASSUME NEW d \in Conns, closed'[d],
                        \A b \in Actors : closing'[b] # [conn |-> d, at |-> "cancel"]
                 PROVE  tasks'[d] = {}
    BY DEF TeardownLeavesNoTask
  <2>2. d \notin N
    BY <1>3, <2>1
  <2>3. ASSUME closed[d], \A b \in Actors : closing[b] # [conn |-> d, at |-> "cancel"]
        PROVE  tasks'[d] = {}
    BY <1>2, <2>2, <2>3 DEF TeardownLeavesNoTask
  <2>4. CASE d # x
    <3>1. closed[d]
      BY <1>2, <2>1, <2>4
    <3>2. \A b \in Actors : closing[b] # [conn |-> d, at |-> "cancel"]
      BY <1>2, <2>1, <2>4
    <3>3. QED
      BY <2>3, <3>1, <3>2
  <2>5. CASE d = x
    <3>1. CASE tasks'[x] = {}
      BY <2>5, <3>1
    <3>2. CASE closed[x] /\ \A b \in Actors : closing[b].at = "cancel" => closing'[b] = closing[b]
      <4>1. \A b \in Actors : closing[b] # [conn |-> d, at |-> "cancel"]
        BY <2>1, <3>2
      <4>2. QED
        BY <2>3, <2>5, <3>2, <4>1
    <3>3. QED
      BY <1>2, <2>1, <2>5, <3>1, <3>2
  <2>6. QED
    BY <2>4, <2>5
<1>8. OverflowCut' /\ NoHoleInStream'
  <2>1. \A d \in Conns : \A i \in DOMAIN queue'[d] : i \in DOMAIN queue[d] /\ queue'[d][i] = queue[d][i]
    <3>1. DOMAIN << >> = {}
      BY EmptySeq
    <3>2. QED
      BY <1>2, <3>1
  <2>2. \A d \in Conns : lost[d] # Nothing =>
          closed'[d] \/ d \in kicks' \/ (Closing(Bridge)' /\ closing'[Bridge].conn = d)
    <3>1. SUFFICES ASSUME NEW d \in Conns, lost[d] # Nothing, ~closed'[d], d \notin kicks'
                   PROVE  Closing(Bridge)' /\ closing'[Bridge].conn = d
      OBVIOUS
    <3>2. Closing(Bridge) /\ closing[Bridge].conn = d
      BY <1>2, <3>1 DEF OverflowCut
    <3>3. closing'[Bridge] = closing[Bridge]
      BY <1>2, <3>1, <3>2, ActorFacts
    <3>4. QED
      BY <3>2, <3>3 DEF Closing
  <2>3. QED
    BY <1>2, <2>1, <2>2 DEF OverflowCut, NoHoleInStream
<1>9. QED
  BY <1>5, <1>6, <1>7, <1>8

LEMMA CancelInv ==
  ASSUME Core, NEW a \in Actors, Closing(a),
         closed' \in [Conns -> BOOLEAN], closed'[closing[a].conn],
         \A d \in Conns : d # closing[a].conn => closed'[d] = closed[d],
         NEW idx \in IndexType, Cancel(a, closing[a].conn, idx),
         Agree(idx, Enlisted(handler, sid, closed'), sid, cid),
         \A t \in Topics : idx.topic[t] \subseteq index.topic[t],
         UNCHANGED << sid, cid, socket, subscriptions, kicks, events, lost >>
  PROVE  Core'
<1> USE DEF Core
<1> DEFINE x == closing[a].conn
           ts == [tasks EXCEPT ![x] = {}]
           E  == Enlisted(handler, sid, closed')
<1>1. x \in Conns /\ Known(x)
  BY ActorFacts DEF ClosersKnow
<1>2. /\ closing' = [b \in Actors |-> IF b = a \/ b \in Tasks \X {x}
                                     THEN NotClosing ELSE closing[b]]
      /\ Resume(a, ts, idx)
      /\ queue' = [queue EXCEPT ![x] = << >>]
      /\ missed_pongs' = [missed_pongs EXCEPT ![x] = 0]
  BY DEF Cancel
<1>3. /\ closed' \in [Conns -> BOOLEAN] /\ closed'[x]
      /\ \A d \in Conns : closed'[d] <=> closed[d] \/ (d = x /\ closed'[x])
      /\ a \in Actors /\ Closing(a) /\ closing[a].conn = x
  BY DEF TypeOK
<1> HIDE DEF x
<1>4. ts \in [Conns -> SUBSET Tasks] /\ ts[x] = {} /\ \A d \in Conns : ts[d] \subseteq tasks[d]
  BY <1>1 DEF TypeOK
<1>5. E \in SUBSET Conns /\ (\A d \in E : Known(d)) /\ Agree(idx, E, sid, cid)
  BY DEF Enlisted, Known
<1> HIDE DEF ts, E
<1>6. index'.topic = idx.topic /\ \E N \in SUBSET Conns : Resumed(ts, E, N)
  BY <1>2, <1>4, <1>5, ResumeFacts
<1>7. PICK N \in SUBSET Conns : Resumed(ts, E, N)
  BY <1>6
<1>8. x \notin N /\ tasks'[x] = {}
  <2>1. /\ \A c \in N : handler[c] = "register"
        /\ \A c \in Conns \ N : tasks'[c] \subseteq ts[c]
    BY <1>7 DEF Resumed
  <2>2. x \notin N
    BY <1>1, <2>1 DEF Known
  <2>3. QED
    BY <1>1, <1>4, <2>1, <2>2
<1>9. closing' \in [Actors -> Place \cup {NotClosing}]
  BY <1>2, ActorFacts
<1>10. \A b \in Actors : closing'[b] # closing[b] =>
         Closing(b) /\ closing[b].conn = x /\ closing'[b] = NotClosing
  <2>1. SUFFICES ASSUME NEW b \in Actors, closing'[b] # closing[b]
                 PROVE  Closing(b) /\ closing[b].conn = x /\ closing'[b] = NotClosing
    OBVIOUS
  <2>2. /\ closing'[b] = NotClosing /\ Closing(b) /\ (b = a \/ b \in Tasks \X {x})
    BY <1>2, <2>1 DEF Closing
  <2>3. ASSUME b \in Tasks \X {x} PROVE closing[b].conn = x
    <3>1. b = << b[1], x >> /\ b[1] \in Tasks
      BY <2>3
    <3>2. Closing(<< b[1], x >>)
      BY <2>2, <3>1
    <3>3. closing[<< b[1], x >>].conn = x
      BY <1>1, <3>1, <3>2 DEF ClosersKnow
    <3>4. QED
      BY <3>1, <3>3
  <2>4. QED
    BY <1>3, <2>2, <2>3
<1>11. /\ queue' \in [Conns -> Seq(Message)]
       /\ \A d \in Conns : Len(queue'[d]) <= QueueSize
       /\ \A d \in Conns : queue'[d] = queue[d] \/ queue'[d] = << >>
  <2> DEFINE none == << >>
  <2>1. none \in Seq(Message) /\ Len(none) = 0
    BY EmptySeq
  <2>2. queue' = [queue EXCEPT ![x] = none]
    BY <1>2
  <2>3. queue'[x] = << >>
    BY <1>1, <1>2 DEF TypeOK
  <2> HIDE DEF none
  <2>4. queue' \in [Conns -> Seq(Message)]
    BY <2>1, <2>2 DEF TypeOK
  <2>5. \A d \in Conns : queue'[d] = IF d = x THEN none ELSE queue[d]
    BY <2>2 DEF TypeOK
  <2>6. 0 <= QueueSize
    OBVIOUS
  <2>7. QED
    BY <2>1, <2>3, <2>4, <2>5, <2>6 DEF TypeOK
<1>12. TypeOK'
  <2>1. missed_pongs' \in [Conns -> 0 .. MissedPongLimit]
    <3>1. 0 \in 0 .. MissedPongLimit
      OBVIOUS
    <3>2. QED
      BY <1>2, <3>1 DEF TypeOK
  <2>2. QED
    BY <1>3, <1>7, <1>9, <1>11, <2>1 DEF TypeOK, Resumed, Place, IndexType
<1>13. Closes(x, N)
  BY <1>3, <1>4, <1>6, <1>7, <1>8, <1>10, <1>11 DEF Closes, Resumed
<1>14. Agree(index', Enlisted(handler, sid, closed') \cup N, sid, cid)
  BY <1>7 DEF Resumed, E
<1>15. QED
  BY <1>3, <1>12, <1>13, <1>14, ClosesInv

LEMMA CloseStepInv ==
  ASSUME Core, NEW a \in Actors, CloseStep(a)
  PROVE  Core'
<1> USE DEF Core
<1> DEFINE x == closing[a].conn
           E == Enlisted(handler, sid, closed)
<1>1. Closing(a)
  BY DEF CloseStep, TeardownAgain, Teardown, TeardownBegin, TeardownEnd, Closing, NotClosing
<1>2. x \in Conns /\ Known(x) /\ sid[x] # None
  BY <1>1, ActorFacts DEF ClosersKnow, Known
<1>3. /\ E \in SUBSET Conns /\ (\A d \in E : Known(d)) /\ Agree(index, E, sid, cid)
      /\ index \in IndexType /\ tasks \in [Conns -> SUBSET Tasks]
  BY AgreeForm DEF Enlisted, Known, TypeOK, IndexType
\* What _teardown takes out of the indexes.
<1>4. ASSUME ~closed[x], closed' = [closed EXCEPT ![x] = TRUE]
      PROVE  /\ closed' \in [Conns -> BOOLEAN] /\ closed'[x]
             /\ \A d \in Conns : d # x => closed'[d] = closed[d]
             /\ Unregistered(index, x) \in IndexType
             /\ Agree(Unregistered(index, x), Enlisted(handler, sid, closed'), sid, cid)
             /\ \A t \in Topics : Unregistered(index, x).topic[t] \subseteq index.topic[t]
  <2>1. /\ closed' \in [Conns -> BOOLEAN] /\ closed'[x]
        /\ \A d \in Conns : d # x => closed'[d] = closed[d]
    BY <1>2, <1>4 DEF TypeOK
  <2>2. Enlisted(handler, sid, closed') = E \ {x}
    BY <2>1 DEF Enlisted
  <2> HIDE DEF x, E
  <2>3. /\ Unregistered(index, x) \in IndexType
        /\ Agree(Unregistered(index, x), E \ {x}, sid, cid)
    BY <1>2, <1>3, UnregisterAgrees
  <2>4. \A t \in Topics : Unregistered(index, x).topic[t] \subseteq index.topic[t]
    BY DEF Unregistered, TypeOK
  <2>5. QED
    BY <2>1, <2>2, <2>3, <2>4
<1>5. ASSUME TeardownAgain(a) PROVE Core'
  <2>1. /\ closing[a].at = "teardown" /\ closed[x]
        /\ closing' = [closing EXCEPT ![a] = NotClosing]
        /\ Resume(a, tasks, index)
        /\ UNCHANGED << sid, cid, socket, closed, subscriptions, missed_pongs,
                        kicks, events, queue, lost >>
    BY <1>5 DEF TeardownAgain, attributes, delivery
  <2> HIDE DEF E
  <2>2. index'.topic = index.topic /\ \E N \in SUBSET Conns : Resumed(tasks, E, N)
    BY <1>3, <2>1, ResumeFacts
  <2>3. PICK N \in SUBSET Conns : Resumed(tasks, E, N)
    BY <2>2
  <2>4. closing' \in [Actors -> Place \cup {NotClosing}]
    BY <2>1, ActorFacts
  <2>5. TypeOK'
    BY <2>1, <2>3, <2>4 DEF TypeOK, Resumed, Place, IndexType
  <2>6. \A b \in Actors : closing'[b] # closing[b] => b = a /\ closing'[b] = NotClosing
    BY <2>1, ActorFacts
  <2>7. Closes(x, N)
    <3>1. \A b \in Actors : closing[b].at = "cancel" => closing'[b] = closing[b]
      BY <2>1, <2>6
    <3> HIDE DEF x
    <3>2. closed'[x] /\ closing[a].conn = x
      BY <2>1 DEF x
    <3>3. QED
      BY <1>1, <2>1, <2>2, <2>3, <2>6, <3>1, <3>2 DEF Closes, Resumed
  <2>8. Agree(index', Enlisted(handler, sid, closed') \cup N, sid, cid)
    BY <2>1, <2>3 DEF Resumed, E
  <2>9. QED
    BY <1>1, <2>5, <2>7, <2>8, ClosesInv
<1>6. ASSUME Teardown(a) PROVE Core'
  <2>1. /\ ~closed[x] /\ closed' = [closed EXCEPT ![x] = TRUE]
        /\ Cancel(a, x, Unregistered(index, x))
        /\ UNCHANGED << sid, cid, socket, subscriptions, kicks, events, lost >>
    BY <1>6 DEF Teardown, attributes
  <2>2. QED
    BY <1>1, <1>4, <2>1, CancelInv
<1>7. ASSUME TeardownBegin(a) PROVE Core'
  <2>1. /\ closing[a].at = "teardown" /\ ~closed[x]
        /\ closed' = [closed EXCEPT ![x] = TRUE]
        /\ index' = Unregistered(index, x)
        /\ socket' = [socket EXCEPT ![x] = "closed"]
        /\ closing' = [closing EXCEPT ![a].at = "cancel"]
        /\ UNCHANGED << handler, sid, cid, subscriptions, missed_pongs, tasks,
                        kicks, events, queue, lost >>
    BY <1>7 DEF TeardownBegin, attributes, delivery
  <2>2. /\ closing'[a] = [conn |-> x, at |-> "cancel"]
        /\ [conn |-> x, at |-> "cancel"] \in Place
        /\ \A b \in Actors \ {a} : closing'[b] = closing[b]
        /\ closing' \in [Actors -> Place \cup {NotClosing}]
    <3>1. closing[a] \in Place
      BY <1>1, ActorFacts
    <3>2. [closing[a] EXCEPT !.at = "cancel"] = [conn |-> x, at |-> "cancel"]
      BY <3>1 DEF Place
    <3>3. [conn |-> x, at |-> "cancel"] \in Place
      BY <1>2 DEF Place
    <3>4. QED
      BY <2>1, <3>2, <3>3, ActorFacts
  <2>3. TypeOK'
    <3>1. socket' \in [Conns -> {"none", "open", "closed"}]
      BY <2>1 DEF TypeOK
    <3>2. QED
      BY <1>4, <2>1, <2>2, <3>1 DEF TypeOK, Place, IndexType
  <2>4. Closes(x, {})
    <3> HIDE DEF x
    <3>1. closing[a].conn = x /\ closed'[x]
      BY <1>4, <2>1 DEF x
    <3>2. \A d \in Conns : closed'[d] <=> closed[d] \/ (d = x /\ closed'[x])
      BY <1>4, <2>1 DEF TypeOK, x
    <3>3. \A t \in Topics : index'.topic[t] \subseteq index.topic[t]
      BY <1>4, <2>1 DEF x
    <3>4. QED
      BY <1>1, <2>1, <2>2, <3>1, <3>2, <3>3 DEF Closes
  <2>5. Agree(index', Enlisted(handler, sid, closed') \cup {}, sid, cid)
    <3>1. Enlisted(handler, sid, closed') \cup {} = Enlisted(handler, sid, closed')
      OBVIOUS
    <3>2. QED
      BY <1>4, <2>1, <3>1
  <2>6. QED
    BY <1>1, <2>3, <2>4, <2>5, ClosesInv
<1>8. ASSUME TeardownEnd(a) PROVE Core'
  <2>1. /\ closing[a].at = "cancel" /\ Cancel(a, x, index)
        /\ UNCHANGED << sid, cid, socket, closed, subscriptions, kicks, events, lost >>
    BY <1>8 DEF TeardownEnd, attributes
  <2>2. closed[x] /\ closed \in [Conns -> BOOLEAN]
    BY <1>1, <2>1 DEF ClosersKnow, TypeOK
  <2>3. QED
    BY <1>1, <1>3, <2>1, <2>2, CancelInv
<1>9. QED
  BY <1>5, <1>6, <1>7, <1>8 DEF CloseStep

-----------------------------------------------------------------------------

LEMMA StutterInv == Core /\ UNCHANGED vars => Core'
<1> SUFFICES ASSUME Core, UNCHANGED vars PROVE Core'
  OBVIOUS
<1>1. UNCHANGED << handler, sid, cid, socket, closed, subscriptions, missed_pongs, tasks,
                   index, closing, kicks, events, queue, lost >>
  BY DEF vars, attributes, delivery
<1>2. TypeOK' /\ ClosersKnow'
  BY <1>1 DEF Core, TypeOK, ClosersKnow, Known, Closing
<1>3. RegistrationsAgree' /\ TeardownLeavesNoTask'
  BY <1>1 DEF Core, RegistrationsAgree, TeardownLeavesNoTask, Registered, Principal
<1>4. OverflowCut' /\ NoHoleInStream'
  BY <1>1 DEF Core, OverflowCut, NoHoleInStream, Closing
<1>5. QED
  BY <1>2, <1>3, <1>4 DEF Core

-----------------------------------------------------------------------------
(* The topic index *)

\* Nothing but a subscribe, an unsubscribe or a teardown touches the topics.
LEMMA TopicsKept ==
  ASSUME SubscriptionsAgree, TypeOK, NEW D \in SUBSET Conns, subscriptions' = subscriptions,
         \A d \in Conns : closed[d] \/ d \in D => closed'[d],
         \A t \in Topics : /\ index'.topic[t] \subseteq index.topic[t]
                           /\ index.topic[t] \subseteq index'.topic[t] \cup D
  PROVE  SubscriptionsAgree'
  BY DEF SubscriptionsAgree

\* What a connection that registers, and an actor that goes on, leave of them.
LEMMA EnrolledTopics ==
  ASSUME NEW idx \in IndexType, NEW c, NEW s, NEW d
  PROVE  Enrolled(idx, c, s, d).topic = idx.topic
  BY DEF Enrolled, IndexType

LEMMA ResumeTopics ==
  ASSUME NEW a, NEW ts, NEW idx \in IndexType, Resume(a, ts, idx)
  PROVE  index'.topic = idx.topic
  BY EnrolledTopics DEF Resume

LEMMA SubscribeKeeps ==
  ASSUME SubscriptionsAgree, TypeOK, NEW c \in Conns, NEW t \in Topics,
         Subscribe(c, t) \/ Unsubscribe(c, t)
  PROVE  SubscriptionsAgree'
<1>1. /\ subscriptions \in [Conns -> SUBSET Topics] /\ index.topic \in [Topics -> SUBSET Conns]
      /\ closed' = closed
  BY DEF TypeOK, Subscribe, Unsubscribe
<1>2. CASE Subscribe(c, t)
  <2>1. /\ subscriptions' = [subscriptions EXCEPT ![c] = @ \cup {t}]
        /\ index'.topic = [index.topic EXCEPT ![t] = @ \cup {c}]
    BY <1>2 DEF Subscribe, TypeOK
  <2>2. QED
    BY <1>1, <2>1 DEF SubscriptionsAgree
<1>3. CASE Unsubscribe(c, t)
  <2>1. /\ subscriptions' = [subscriptions EXCEPT ![c] = @ \ {t}]
        /\ index'.topic = [index.topic EXCEPT ![t] = @ \ {c}]
    BY <1>3 DEF Unsubscribe, TypeOK
  <2>2. QED
    BY <1>1, <2>1 DEF SubscriptionsAgree
<1>4. QED
  BY <1>2, <1>3

LEMMA CloseKeepsTopics ==
  ASSUME Core, SubscriptionsAgree, NEW a \in Actors, CloseStep(a)
  PROVE  SubscriptionsAgree'
<1> DEFINE x == closing[a].conn
<1>1. /\ TypeOK /\ index \in IndexType /\ index.topic \in [Topics -> SUBSET Conns]
      /\ closed \in [Conns -> BOOLEAN]
  BY DEF Core, TypeOK, IndexType
<1>2. subscriptions' = subscriptions /\ Closing(a)
  <2>1. NotClosing.at = "none"
    BY DEF NotClosing
  <2>2. QED
    BY <2>1 DEF CloseStep, TeardownAgain, Teardown, TeardownBegin, TeardownEnd, Closing
<1>3. x \in Conns /\ Known(x)
  BY <1>1, <1>2, ActorFacts DEF Core, ClosersKnow
<1>4. /\ Unregistered(index, x) \in IndexType
      /\ Unregistered(index, x).topic = [t \in Topics |-> IF t \in subscriptions[x]
                                          THEN index.topic[t] \ {x} ELSE index.topic[t]]
  <2>1. sid[x] \in Sids /\ Principal(x) \in Principals
    BY <1>1, <1>3 DEF Known, Principal, TypeOK
  <2>2. QED
    BY <1>1, <2>1 DEF Unregistered, IndexType
<1> HIDE DEF x
<1>5. CASE TeardownAgain(a) \/ TeardownEnd(a)
  <2>1. index'.topic = index.topic /\ closed' = closed
    BY <1>1, <1>5, ResumeTopics DEF TeardownAgain, TeardownEnd, Cancel
  <2>2. QED
    BY <1>1, <1>2, <2>1 DEF SubscriptionsAgree
<1>6. CASE Teardown(a) \/ TeardownBegin(a)
  <2>1. /\ index'.topic = Unregistered(index, x).topic
        /\ closed' = [closed EXCEPT ![x] = TRUE]
    <3>1. CASE Teardown(a)
      BY <1>4, <3>1, ResumeTopics DEF Teardown, Cancel, x
    <3>2. CASE TeardownBegin(a)
      BY <3>2 DEF TeardownBegin, x
    <3>3. QED
      BY <1>6, <3>1, <3>2
  <2>2. /\ {x} \in SUBSET Conns
        /\ \A d \in Conns : closed[d] \/ d \in {x} => closed'[d]
    BY <1>1, <1>3, <2>1
  <2>3. \A t \in Topics : /\ index'.topic[t] \subseteq index.topic[t]
                          /\ index.topic[t] \subseteq index'.topic[t] \cup {x}
    BY <1>4, <2>1
  <2>4. QED
    BY <1>1, <1>2, <2>2, <2>3, TopicsKept
<1>7. QED
  BY <1>5, <1>6 DEF CloseStep

LEMMA NextTopics == Core /\ SubscriptionsAgree /\ [Next]_vars => SubscriptionsAgree'
<1> SUFFICES ASSUME Core, SubscriptionsAgree, [Next]_vars PROVE SubscriptionsAgree'
  OBVIOUS
<1>1. TypeOK /\ index \in IndexType
  BY DEF Core, TypeOK, IndexType
<1>2. ASSUME UNCHANGED << closed, subscriptions >>, index'.topic = index.topic
      PROVE  SubscriptionsAgree'
  BY <1>2 DEF SubscriptionsAgree
<1>3. ASSUME NEW c \in Conns, Handshake(c) PROVE SubscriptionsAgree'
  BY <1>1, <1>2, <1>3, EnrolledTopics
  DEF Handshake, AcceptRefused, AcceptFresh, AcceptReplacing
<1>4. ASSUME NEW c \in Conns, Receive(c) PROVE SubscriptionsAgree'
  <2>1. ASSUME NEW t \in Topics, Subscribe(c, t) \/ Unsubscribe(c, t) PROVE SubscriptionsAgree'
    BY <1>1, <2>1, SubscribeKeeps
  <2>2. CASE Pong(c) \/ Rejected(c) \/ ProtocolError(c) \/ Disconnect(c)
    BY <1>2, <2>2 DEF Pong, Rejected, ProtocolError, Disconnect
  <2>3. QED
    BY <1>4, <2>1, <2>2 DEF Receive
<1>5. ASSUME NEW c \in Conns, Background(c) PROVE SubscriptionsAgree'
  BY <1>2, <1>5 DEF Background, WriterSends, WriterFails, HeartbeatPing, HeartbeatTimeout,
     ReauthInvalid, TaskEnds
<1>6. ASSUME NEW a \in Actors, CloseStep(a) PROVE SubscriptionsAgree'
  BY <1>6, CloseKeepsTopics
<1>7. CASE Dispatch
  BY <1>2, <1>7 DEF Dispatch, Kick, SendLocal, BridgeCloses
<1>8. CASE UNCHANGED vars
  BY <1>2, <1>8 DEF vars
<1>9. QED
  BY <1>3, <1>4, <1>5, <1>6, <1>7, <1>8 DEF Next

-----------------------------------------------------------------------------
(* The theorems *)

\* The inductive invariant of the registry, the queues and the closing procedure
\* (manager.py, router.py, bridge.py): any number of tasks may be closing the
\* same connection, for any number of connections and any limits.
THEOREM Invariant == Spec => []IInv
<1>1. Core /\ [Next]_vars => Core'
  <2> SUFFICES ASSUME Core, [Next]_vars PROVE Core'
    OBVIOUS
  <2>1. CASE UNCHANGED vars
    BY <2>1, StutterInv
  <2>2. ASSUME NEW c \in Conns, Handshake(c) \/ Receive(c) \/ Background(c) PROVE Core'
    BY <2>2, HandshakeInv, ReceiveInv, BackgroundInv
  <2>3. ASSUME NEW a \in Actors, CloseStep(a) PROVE Core'
    BY <2>3, CloseStepInv
  <2>4. CASE Dispatch
    BY <2>4, DispatchInv
  <2>5. QED
    BY <2>1, <2>2, <2>3, <2>4 DEF Next
<1>2. Init => SubscriptionsAgree
  BY DEF Init, SubscriptionsAgree
<1>3. Core /\ SubscriptionsAgree => IInv
  BY DEF Core, IndexesAgree, IInv
<1>4. QED
  BY <1>1, <1>2, <1>3, InvInit, NextTopics, PTL DEF Spec

\* A connection is found under its principal and its session from register to
\* _teardown and under what it subscribes to until _teardown, and what the tab
\* index names is such a connection of that tab, whichever replacements and
\* teardowns overlap (manager.py:97, 114, 132, 145).
THEOREM RegistryAgrees == Spec => []IndexesAgree
<1>1. IInv => IndexesAgree
  BY DEF IInv
<1>2. QED
  BY <1>1, Invariant, PTL

\* Whoever tears a connection down, none of its tasks outlives the teardown
\* (manager.py:132).
THEOREM NoTaskOutlivesTeardown == Spec => []TeardownLeavesNoTask
<1>1. IInv => TeardownLeavesNoTask
  BY DEF IInv
<1>2. QED
  BY <1>1, Invariant, PTL

\* A client whose queue an event found full gets no later event
\* (manager.py:156, 206).
THEOREM SlowClientsAreCut == Spec => []NoHoleInStream
<1>1. IInv => NoHoleInStream
  BY DEF IInv
<1>2. QED
  BY <1>1, Invariant, PTL

=============================================================================
