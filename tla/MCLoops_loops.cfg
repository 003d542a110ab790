SPECIFICATION Spec
INVARIANTS PostedOnce AnswersInOrder PiNeverSkips OneTaskOneVerb
PROPERTIES  EntriesRelayed MirrorSettles
CONSTANTS
 Chats = {t1}
 Agents = {a1, a2}
 MaxItems = 2
 MaxAttempts = 2
 OutTrouble = 1
 MaxCrashes = 1
 MaxLines = 2
 MonRows = 1
 MonTime = 2
 MonTrouble = 1
 Text = text
 Tool = tool
 Bridges = {b1, b2}
 Approvals = {c1}
 MaxURLs = 1
 MaxBoardTrouble = 1
CHECK_DEADLOCK FALSE
