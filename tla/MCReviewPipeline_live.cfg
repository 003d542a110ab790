SPECIFICATION FairSpec
CONSTANTS
  MaxIds = 4
  MaxReviewRounds = 2
  RespawnCap = 1
  MaxRounds = 2
  MaxSetbacks = 1
  MaxFaults = 1
  MaxHuman = 0
CHECK_DEADLOCK FALSE
INVARIANTS
  TypeOK
PROPERTIES
  EventuallyDecided
