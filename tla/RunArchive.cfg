SPECIFICATION Spec
CONSTANTS
  Resumers = {p1, p2}
  Repairers = {q1}
  MaxRuns = 3
  MaxFaults = 2
  MaxPowerLoss = 2
  None = None
PROPERTY
  LeaseImplemented
  EvidenceKept
  OnlyTheDeadRepaired
SYMMETRY Interchangeable
CHECK_DEADLOCK FALSE
