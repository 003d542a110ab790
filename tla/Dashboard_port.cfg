SPECIFICATION DashSpec
PROPERTY PortIsFreed
CONSTANTS
 ListenPort = 8900
 MaxRestarts = 2
 RestartWindow = 2
 MaxSpawns = 3
 MaxSecond = 3
 MaxRuns = 2
CHECK_DEADLOCK FALSE
