CONSTANTS
  Conns = {c1, c2, c3}
  Sids = {s1}
  Sessionless = {}
  Cids = {tab}
  Principals = {p1}
  Owner <- OneOwner
  Openings <- AnyOpening
  Topics = {}
  Tasks = {"writer", "heartbeat", "reauth"}
  None = None
  QueueSize = 1
  MissedPongLimit = 1
  MaxTotal = 1
  MaxPerPrincipal = 2
  MaxEvents = 0
SPECIFICATION Spec
SYMMETRY Interchange
CHECK_DEADLOCK FALSE
INVARIANTS OneConnectionPerTab
