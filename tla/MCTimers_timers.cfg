SPECIFICATION Spec
INVARIANTS WindowsApart 
PROPERTIES AgentsComeUp OrphansAreFreed 
CONSTANTS
 Threads = {th1, th2}
 UserThreads = {th1}
 Guests = {g1}
 SessionCap = 1
 MaxWindows = 5
 TopicTrouble = 1
 Jobs = {j1, j2}
 OnDisk = {j1}
 SpawnJobs = {j2}
 Deliveries = {d1}
 Rate = 1
 Period = 2
 MaxNow = 4
 JobTrouble = 2
CHECK_DEADLOCK FALSE
