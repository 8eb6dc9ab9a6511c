CONSTANTS
  Conns = {c1, c2, c3}
  Sids = {s1, none}
  Sessionless = {none}
  Cids = {tab}
  Principals = {p1}
  Owner <- OneOwner
  Openings <- TabsOnly
  Topics = {t1}
  Tasks = {"reauth"}
  None = None
  QueueSize = 1
  MissedPongLimit = 1
  MaxTotal = 2
  MaxPerPrincipal = 2
  MaxEvents = 1
SPECIFICATION Spec
SYMMETRY Interchange
CHECK_DEADLOCK FALSE
INVARIANTS IInv IndexesAgree TeardownLeavesNoTask
