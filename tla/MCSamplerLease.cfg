CONSTANTS
  Instances = {i1, i2}
  Nobody = Nobody
  Lease = 5
  Interval = 2
  MaxFaults = 2
SPECIFICATION Spec
INVARIANTS IInv OneWriter
PROPERTIES LapsesForCause TakenOver
