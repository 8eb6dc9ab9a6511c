CONSTANTS
  Ids = {a1, a2, a3}
  Requests = {r1, r2}
  Workers = {w1, w2}
  Usernames = {root, u1, u2}
  RootName = root
  LegacyNames = {u1, u2}
  Names = {n1, n2}
  Roles = {0, 100, 999}
  None = None
SPECIFICATION Spec
SYMMETRY Interchange
INVARIANTS TypeOK Reserved RootFloor AuditPaired
PROPERTIES RootChangesItself NoResurrection
