---------------------------- MODULE MCWsRevocation ----------------------------
(* One admin with one session at a time, two instances, and tickets and     *)
(* connections enough for one that replaces another.                        *)
EXTENDS WsRevocation

CONSTANTS a1

OneOwner == [f \in Families |-> a1]

=============================================================================
