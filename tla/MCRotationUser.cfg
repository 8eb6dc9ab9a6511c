CONSTANTS
  Requests = {r1, r2}
  Admins = {}
  Users = {u1, u2}
  None = None
  MaxTokens = 3
  MaxTime = 2
  TTL = 1
  Grace = 0
SPECIFICATION Spec
SYMMETRY Interchange
INVARIANTS OneLivePerFamily
PROPERTIES TokensSingleUse DeadFamilyStaysDead AuthoritySpec
