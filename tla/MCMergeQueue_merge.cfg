SPECIFICATION MergeFairSpec
CONSTANTS
  MaxEntries = 6
  MaxMergeAttempts = 2
  MaxTrouble = 2
  MaxCrashes = 1
  MaxPeople = 2
CHECK_DEADLOCK FALSE

  
PROPERTIES
  EndedRowsStay
  
