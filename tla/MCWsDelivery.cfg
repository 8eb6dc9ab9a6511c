CONSTANTS
  Conns = {c1}
  Sids = {s1, none}
  Sessionless = {none}
  Cids = {}
  Principals = {p1}
  Owner <- OneOwner
  Openings <- AnyOpening
  Topics = {t1}
  Tasks = {"writer", "heartbeat", "reauth"}
  None = None
  QueueSize = 2
  MissedPongLimit = 2
  MaxTotal = 2
  MaxPerPrincipal = 2
  MaxEvents = 3
SPECIFICATION Spec
CHECK_DEADLOCK FALSE
INVARIANTS NoHoleInStream
PROPERTIES ClosedIsTornDown
