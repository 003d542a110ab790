SPECIFICATION Spec
CONSTANTS
  MaxIds = 4
  MaxReviewRounds = 2
  RespawnCap = 1
  MaxRounds = 3
  MaxSetbacks = 3
  MaxFaults = 0
  MaxHuman = 1
CHECK_DEADLOCK FALSE
INVARIANTS
  NobodyWaitsUnprompted
  DoneWillCount
  EpisodeHasFixer
  ParkedIsQuiet
  BudgetKept
PROPERTIES
  FixerRetireRearms
