------------------------------- MODULE MCTimers -------------------------------
(* Topics and their agents, or scheduled jobs: part says which one runs, and   *)
(* the other stays at its initial state.                                       *)
EXTENDS Topics, Jobs

VARIABLE part
vars == <<topicVars, jobVars, part>>

Init ==
    /\ part \in {"topics", "jobs"} /\ JobInit
    /\ TopicInit /\ \A a \in Guests : (part = "topics") = Known(a)

Next ==
    /\ part' = part
    /\ \/ part = "topics" /\ TopicNext /\ UNCHANGED jobVars
       \/ part = "jobs" /\ JobNext /\ UNCHANGED topicVars

\* Each component's own fairness, when it is the one that runs.
Fairness ==
    /\ WF_jobVars(part = "jobs" /\ Reconcile) /\ WF_jobVars(part = "jobs" /\ FireOne)
    /\ WF_jobVars(part = "jobs" /\ SpawnFunc) /\ WF_jobVars(part = "jobs" /\ DispatchJobSpawn)
    /\ WF_topicVars(part = "topics" /\ SweepStaleWindowBindings) /\ WF_topicVars(part = "topics" /\ Handles)
    /\ WF_topicVars(part = "topics" /\ Reconciles) /\ WF_topicVars(part = "topics" /\ Provisions)
    /\ SF_topicVars(part = "topics" /\ CloseOrphanedTopics)
    /\ \A a \in TopicAgents : WF_topicVars(part = "topics" /\ SpawningGoesStale(a))

Spec == Init /\ [][Next]_vars /\ Fairness
===============================================================================
