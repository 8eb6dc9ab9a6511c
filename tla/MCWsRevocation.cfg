CONSTANTS
  a1 = a1
  Families = {f1}
  Owners = {a1}
  OwnerOf <- OneOwner
  Instances = {i1, i2}
  Absent = Absent
  MaxTickets = 2
  MaxConns = 2
  MaxFaults = 1
SPECIFICATION Spec
CHECK_DEADLOCK FALSE
INVARIANTS IInv TicketOnce KickComplete
PROPERTIES CutInTheEnd
