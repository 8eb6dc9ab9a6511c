-------------------------- MODULE MCWsConnections --------------------------
EXTENDS WsConnections, TLC

\* All sessions are logins of one admin.
OneOwner == [s \in Sids |-> CHOOSE p \in Principals : TRUE]

\* Connections are opened with or without a session, and every tab id or none.
AnyOpening == Sids \X (Cids \cup {None})

\* One tab of one session, and connections that have a tab id but no session.
TabsOnly == Sids \X Cids

\* Connections are interchangeable (safety runs only).
Interchange == Permutations(Conns)

=============================================================================
