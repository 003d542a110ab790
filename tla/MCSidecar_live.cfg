SPECIFICATION FairSpec
CONSTANTS
  d1 = d1
  d2 = d2
  a1 = a1
  a2 = a2
  m1 = m1
  m2 = m2
  Msgs = {m1, m2}
  Daemons <- MCDaemons1
  Agents <- MCAgents1
  Workers <- MCWorkers
  Nobody = Nobody
  MaxAttempts = 2
  SlowDrives = TRUE
  InFlightUpserts = TRUE
  MaxUpserts = 1
  MaxFaults = 2
CHECK_DEADLOCK FALSE
PROPERTIES
  EventuallySettled
