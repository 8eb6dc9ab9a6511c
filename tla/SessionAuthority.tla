-------------------------- MODULE SessionAuthority --------------------------
(***************************************************************************)
(* What the session store promises its callers, whatever rows, statements  *)
(* and transactions it is made of.  A session (one login, one family_id)   *)
(* belongs to one owner; it is opened at most once and, once closed, never *)
(* opens again.  Rotation is not visible here: it leaves the session open. *)
(* Archiving or deleting an account closes all its sessions in the same    *)
(* instant; reinstating it opens none.                                     *)
(***************************************************************************)
CONSTANTS Families, Owners

VARIABLES
  sessions,    \* the open sessions, pairs of family and owner
  spent,       \* families that can no longer be opened
  suspended    \* owners whose account is archived or deleted

vars == << sessions, spent, suspended >>

Init == sessions = {} /\ spent = {} /\ suspended = {}

Of(p) == {s \in sessions : s[2] = p}

\* A login.
Open(f, p) ==
  /\ f \notin spent
  /\ sessions' = sessions \cup {<< f, p >>}
  /\ spent' = spent \cup {f}
  /\ UNCHANGED suspended

\* A family identifier that never becomes a session.
Waste(f) ==
  /\ f \notin spent
  /\ spent' = spent \cup {f}
  /\ UNCHANGED << sessions, suspended >>

\* Logout, reuse detection, logout of all devices, a password change, the
\* deletion of a user, the purge of expired tokens.
Close(S) ==
  /\ S # {}
  /\ sessions' = sessions \ S
  /\ UNCHANGED << spent, suspended >>

Suspend(p) ==
  /\ p \notin suspended
  /\ sessions' = sessions \ Of(p)
  /\ suspended' = suspended \cup {p}
  /\ UNCHANGED spent

Reinstate(p) ==
  /\ p \in suspended
  /\ suspended' = suspended \ {p}
  /\ UNCHANGED << sessions, spent >>

Next ==
  \/ \E f \in Families : Waste(f) \/ \E p \in Owners : Open(f, p)
  \/ \E S \in SUBSET sessions : Close(S)
  \/ \E p \in Owners : Suspend(p) \/ Reinstate(p)

Spec == Init /\ [][Next]_vars

=============================================================================
