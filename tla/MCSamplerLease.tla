---------------------------- MODULE MCSamplerLease ----------------------------
(* Two instances, a lease of twice the interval and one second.             *)
EXTENDS SamplerLease, TLC

=============================================================================
