SPECIFICATION Spec
CONSTANTS
  d1 = d1
  d2 = d2
  a1 = a1
  a2 = a2
  m1 = m1
  m2 = m2
  Msgs = {m1, m2}
  Daemons <- MCDaemons1
  Agents <- MCAgents2
  Workers <- MCWorkers
  Nobody = Nobody
  MaxAttempts = 2
  SlowDrives = FALSE
  InFlightUpserts = FALSE
  MaxUpserts = 1
  MaxFaults = 1
SYMMETRY Symm
CHECK_DEADLOCK FALSE
INVARIANTS
  TypeOK
  AckedWasTyped
  DeadSpentItsBudget
PROPERTIES
  
  AtLeastOnce
