------------------------------- MODULE MCParts --------------------------------
(* Components with safety properties, one at a time: part says which one runs, *)
(* and the others stay at an initial state.                                    *)
EXTENDS PiBinding, Conversations, Comments, Notices, MCTaskStore, Deploy, Dashboard, Tunnel

VARIABLE part
vars == <<bindVars, convoVars, commentVars, noticeVars, taskVars, deployVars, dashVars, tunnelVars, part>>

Init ==
    /\ part \in {"binding", "convo", "comments", "notices", "tasks", "deploy", "dashboard", "tunnel"}
    /\ BindInit
    /\ ConvoInit /\ (part # "convo" => soul = [a \in Everybody |-> "none"])
    /\ CommentInit /\ status[CHOOSE p \in PRs : TRUE] = "pending_approval"   \* which one makes no difference
    /\ NoticeInit /\ (part # "notices" => prOpen /\ noteOf = [r \in Replies |-> CHOOSE n \in Notes : TRUE])
    /\ TaskInit /\ DeployInit /\ DashInit /\ TunnelInit

Next ==
    /\ part' = part
    /\ \/ part = "binding" /\ BindNext /\ UNCHANGED <<convoVars, commentVars, noticeVars, taskVars, deployVars, dashVars, tunnelVars>>
       \/ part = "convo" /\ ConvoNext /\ UNCHANGED <<bindVars, commentVars, noticeVars, taskVars, deployVars, dashVars, tunnelVars>>
       \/ part = "comments" /\ CommentNext /\ UNCHANGED <<bindVars, convoVars, noticeVars, taskVars, deployVars, dashVars, tunnelVars>>
       \/ part = "notices" /\ NoticeNext /\ UNCHANGED <<bindVars, convoVars, commentVars, taskVars, deployVars, dashVars, tunnelVars>>
       \/ part = "tasks" /\ TaskNext /\ UNCHANGED <<bindVars, convoVars, commentVars, noticeVars, deployVars, dashVars, tunnelVars>>
       \/ part = "deploy" /\ DeployNext /\ UNCHANGED <<bindVars, convoVars, commentVars, noticeVars, taskVars, dashVars, tunnelVars>>
       \/ part = "dashboard" /\ DashNext /\ UNCHANGED <<bindVars, convoVars, commentVars, noticeVars, taskVars, deployVars, tunnelVars>>
       \/ part = "tunnel" /\ TunnelNext /\ UNCHANGED <<bindVars, convoVars, commentVars, noticeVars, taskVars, deployVars, dashVars>>

\* The two workers of the task store are interchangeable.
SameWorkers == Permutations(Workers)

SafeSpec == Init /\ [][Next]_vars
===============================================================================
