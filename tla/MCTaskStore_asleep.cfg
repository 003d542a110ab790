SPECIFICATION TaskSpec
INVARIANT PendingWakes
CONSTANTS
 Tasks = {1, 2, 3}
 Deps <- ThirdNeedsBoth
 Gated = {3}
 Ticketed = {2}
 Workers = {wa, wb}
 MaxTries = 1
 MaxSetbacks = 1
CHECK_DEADLOCK FALSE
