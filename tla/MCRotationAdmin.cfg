CONSTANTS
  Requests = {r1, r2}
  Admins = {a1}
  Users = {}
  None = None
  MaxTokens = 3
  MaxTime = 3
  TTL = 2
  Grace = 1
SPECIFICATION Spec
SYMMETRY Interchange
INVARIANTS IInv RefreshServesActiveAdmin
PROPERTIES RevocationComplete AuthoritySpec
