SPECIFICATION FairSpec
CONSTANTS
  MaxIds = 3
  MaxReviewRounds = 2
  RespawnCap = 1
  MaxRounds = 2
  MaxSetbacks = 0
  MaxFaults = 0
  MaxHuman = 1
CHECK_DEADLOCK FALSE
PROPERTY
  ChangesGetAFixer
