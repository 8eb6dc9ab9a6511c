CONSTANTS
  Requests = {r1, r2}
  Admins = {a1}
  Users = {}
  None = None
  MaxTokens = 1
  MaxTime = 1
  TTL = 1
  Grace = 0
SPECIFICATION Spec
SYMMETRY Interchange
INVARIANTS InactiveAdminHasNoLiveToken
