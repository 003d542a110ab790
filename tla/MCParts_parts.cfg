SPECIFICATION SafeSpec
INVARIANTS SpawnedNeverSpawn ActsAtMostOnce FailedAreReread    
  
SYMMETRY SameWorkers
CONSTANTS
 Panes = {p1, p2}
 MaxFiles = 2
 BindTime = 3
 Slack = 1
 Roots = {ag1, ag2}
 MaxSubs = 3
 MaxConvos = 3
 MaxAsks = 1
 PRs = {pr1, pr2}
 MaxComments = 2
 MaxClock = 2
 Catchup = 1
 MaxHitches = 2
 Rounds = {w1}
 MaxContext = 2
 Notes = {n1}
 Replies = {rp1, rp2}
 MaxStops = 1
 Tasks = {1, 2, 3}
 Deps <- ThirdNeedsBoth
 Gated = {3}
 Ticketed = {2}
 Workers = {wa, wb}
 MaxTries = 2
 MaxSetbacks = 1
 MaxHead = 2
 DeployTrouble = 2
 ListenPort = 8900
 MaxRestarts = 2
 RestartWindow = 2
 MaxSpawns = 3
 MaxSecond = 3
 MaxRuns = 2
 MaxTunnels = 3
CHECK_DEADLOCK FALSE
