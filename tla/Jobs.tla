--------------------------------- MODULE Jobs ---------------------------------
(***************************************************************************)
(* Scheduled jobs and webhooks: the registry and its reconciliation with   *)
(* the YAML on disk at boot (internal/jobreg), the cron scheduler          *)
(* (internal/scheduler), the spawn of a fresh agent for a job              *)
(* (cmd_job_dispatch.go) and the webhook server (internal/webhooks).  Cron *)
(* expressions are "every Period ticks"; signature, filter and template of *)
(* a webhook come down to whether the request is accepted.                 *)
(***************************************************************************)
EXTENDS Naturals, FiniteSets, FiniteSetsExt

CONSTANTS Jobs, OnDisk,       \* scheduled_jobs names; those with a YAML file
          SpawnJobs,          \* those with a soul_template_id
          Deliveries,         \* webhook deliveries, by X-Delivery-Id
          Rate,               \* rate_limit_per_min
          Period, MaxNow,     \* cron period, bound on time
          JobTrouble          \* bound on failures, restarts and edits

ASSUME JobAssumption ==
    /\ OnDisk \subseteq Jobs /\ OnDisk # {} /\ SpawnJobs \subseteq Jobs
    /\ Rate \in Nat /\ Period \in Nat \ {0} /\ MaxNow \in Nat /\ JobTrouble \in Nat

VARIABLES
    jobNow,
    up,          \* the daemon runs
    job,         \* scheduled_jobs: [known, enabled, next]
    agentRow,    \* the agents the YAML names: "absent", "hook" placeholder or "real"
    spawning,    \* SpawnFunc of a claimed job: the agent exists, its prompt not yet
    fires,       \* inbox rows <<job, slot>>: external_msg_id makes them a set
    spawned,     \* agents minted for a job, job_executions that committed
    inserted,    \* how often an insert of each key took effect
    hookRow,     \* the webhook_handlers row: "enabled", "disabled" or "none"
    tokens,      \* its bucket, in Period-ths of a token
    troublesSeen

jobVars == <<jobNow, up, job, agentRow, spawning, fires, spawned, inserted, hookRow, tokens, troublesSeen>>
hook == <<hookRow, tokens>>

HookJob == CHOOSE j \in OnDisk : TRUE   \* the hook names the same agent
NotSpawning == [j |-> "none", slot |-> 0]
NextAfter(t) == (t \div Period + 1) * Period
Slots == {t \in 1..(MaxNow + Period) : t % Period = 0}

JobInit ==
    /\ jobNow = 1 /\ up = TRUE
    /\ job = [j \in Jobs |-> [known |-> TRUE, enabled |-> TRUE, next |-> NextAfter(1)]]
    /\ agentRow = [j \in Jobs |-> "real"]
    /\ spawning = NotSpawning /\ fires = {}
    /\ spawned = [j \in Jobs |-> [minted |-> 0, recorded |-> 0]]
    /\ inserted = [k \in (Jobs \X Slots) \cup Deliveries |-> 0]
    /\ hookRow = "enabled" /\ tokens = Rate * Period /\ troublesSeen = 0

JobGoesWrong == troublesSeen < JobTrouble /\ troublesSeen' = troublesSeen + 1

\* EnqueueInbox: ON CONFLICT on the external message id inserts nothing.
SlipNoConflict(k) == TRUE
NewKey(k) == k \notin fires
EnqueueOnce(k) ==
    /\ fires' = fires \cup {k}
    /\ inserted' = IF NewKey(k) THEN [inserted EXCEPT ![k] = @ + 1] ELSE inserted

-----------------------------------------------------------------------------
(* The registry                                                              *)

EnsureAgentRow(j, known) ==   \* inert placeholder, in the upsert's transaction
    IF known[j] = "absent" THEN [known EXCEPT ![j] = "hook"] ELSE known

AddSchedule(j) ==
    [job EXCEPT ![j] = [known |-> TRUE, enabled |-> TRUE, next |-> NextAfter(jobNow)]]

OperatorAdds(j) ==
    /\ JobGoesWrong /\ spawning.j # j
    /\ job' = AddSchedule(j) /\ agentRow' = EnsureAgentRow(j, agentRow)
    /\ UNCHANGED <<jobNow, up, spawning, fires, spawned, inserted, hook>>

RmOrDisable(j) ==
    /\ JobGoesWrong /\ spawning.j # j
    /\ job' \in {[job EXCEPT ![j].enabled = FALSE],
                 [job EXCEPT ![j] = [known |-> FALSE, enabled |-> FALSE, next |-> 0]]}
    /\ UNCHANGED <<jobNow, up, agentRow, spawning, fires, spawned, inserted, hook>>

AddHook(known) == hookRow' = "enabled" /\ agentRow' = EnsureAgentRow(HookJob, known)

OperatorEditsHook ==
    /\ JobGoesWrong
    /\ AddHook(agentRow) \/ (hookRow' \in {"disabled", "none"} /\ UNCHANGED agentRow)
    /\ UNCHANGED <<jobNow, up, job, spawning, fires, spawned, inserted, tokens>>

\* The rows go with the agent that is deleted: ON DELETE CASCADE.
AgentSwept(j) ==
    /\ JobGoesWrong /\ agentRow[j] # "absent" /\ spawning.j # j
    /\ agentRow' = [agentRow EXCEPT ![j] = "absent"]
    /\ job' = [job EXCEPT ![j] = [known |-> FALSE, enabled |-> FALSE, next |-> 0]]
    /\ hookRow' = IF j = HookJob THEN "none" ELSE hookRow
    /\ UNCHANGED <<jobNow, up, spawning, fires, spawned, inserted, tokens>>

\* Boot: every file is upserted, which computes next_run_at anew, and every
\* other enabled row is disabled.  The hook's file is there.
Reconcile ==
    /\ ~up /\ up' = TRUE
    /\ job' = [j \in Jobs |-> IF j \in OnDisk THEN [known |-> TRUE, enabled |-> TRUE, next |-> NextAfter(jobNow)]
                              ELSE [job[j] EXCEPT !.enabled = FALSE]]
    /\ AddHook([j \in Jobs |-> IF j \in OnDisk THEN EnsureAgentRow(j, agentRow)[j] ELSE agentRow[j]])
    /\ tokens' = Rate * Period    \* the buckets are in memory
    /\ UNCHANGED <<jobNow, spawning, fires, spawned, inserted, troublesSeen>>

DaemonDies ==
    /\ up /\ JobGoesWrong /\ up' = FALSE /\ spawning' = NotSpawning
    /\ UNCHANGED <<jobNow, job, agentRow, fires, spawned, inserted, hook>>

-----------------------------------------------------------------------------
(* The scheduler: one due job at a time, oldest first, its row locked        *)

DueJob(j) == job[j].enabled /\ job[j].next <= jobNow
OldestDue == {j \in Jobs : DueJob(j) /\ \A i \in Jobs : DueJob(i) => job[j].next <= job[i].next}

SlipAdvancesBySlot(j) == [job EXCEPT ![j].next = NextAfter(@ - 1)]
Advance(j) == [job EXCEPT ![j].next = NextAfter(jobNow)]

FireOne ==
    /\ up /\ spawning = NotSpawning
    /\ \E j \in OldestDue \ SpawnJobs :
        /\ EnqueueOnce(<<j, job[j].next>>) /\ job' = Advance(j)
    /\ UNCHANGED <<jobNow, up, agentRow, spawning, spawned, hook, troublesSeen>>

\* SpawnFresh commits on its own; the job's row is advanced much later.
SpawnFunc ==
    /\ up /\ spawning = NotSpawning
    /\ \E j \in OldestDue \cap SpawnJobs :
        \/ /\ spawned' = [spawned EXCEPT ![j].minted = @ + 1]
           /\ spawning' = [j |-> j, slot |-> job[j].next] /\ UNCHANGED troublesSeen
        \/ JobGoesWrong /\ UNCHANGED <<spawned, spawning>>
    /\ UNCHANGED <<jobNow, up, job, agentRow, fires, inserted, hook>>

DispatchJobSpawn ==
    /\ up /\ spawning # NotSpawning /\ spawning' = NotSpawning
    /\ \/ /\ spawned' = [spawned EXCEPT ![spawning.j].recorded = @ + 1]
          /\ job' = Advance(spawning.j) /\ UNCHANGED troublesSeen
       \/ JobGoesWrong /\ UNCHANGED <<spawned, job>>   \* the next drain mints another agent
    /\ UNCHANGED <<jobNow, up, agentRow, fires, inserted, hook>>

-----------------------------------------------------------------------------
(* Webhooks                                                                  *)

Handle(d) ==   \* a sender may deliver the same event again
    /\ up /\ hookRow = "enabled" /\ tokens >= Period /\ tokens' = tokens - Period
    /\ EnqueueOnce(d) \/ UNCHANGED <<fires, inserted>>   \* refused after the bucket was charged
    /\ UNCHANGED <<jobNow, up, job, agentRow, spawning, spawned, hookRow, troublesSeen>>

JobTick ==
    /\ jobNow < MaxNow /\ jobNow' = jobNow + 1
    /\ tokens' = Min({tokens + Rate, Rate * Period})
    /\ UNCHANGED <<up, job, agentRow, spawning, fires, spawned, inserted, hookRow, troublesSeen>>

JobNext ==
    \/ \E j \in Jobs : OperatorAdds(j) \/ RmOrDisable(j) \/ AgentSwept(j)
    \/ OperatorEditsHook \/ Reconcile \/ DaemonDies \/ FireOne \/ SpawnFunc \/ DispatchJobSpawn
    \/ (\E d \in Deliveries : Handle(d)) \/ JobTick

\* The daemon is restarted; the scheduler polls for ever.
JobSpec ==
    /\ JobInit /\ [][JobNext]_jobVars
    /\ WF_jobVars(Reconcile) /\ WF_jobVars(FireOne) /\ WF_jobVars(SpawnFunc) /\ WF_jobVars(DispatchJobSpawn)

-----------------------------------------------------------------------------
\* One inbox row for each fire time of a job and for each delivery of a hook,
\* whatever is redelivered, reset by a reconcile or fired again.
FiresOnce == \A k \in DOMAIN inserted : inserted[k] <= 1

\* A due job does not stay due: behind a job whose spawn fails it waits, but
\* only as long as that one fails.
DueJobsFire == \A j \in Jobs : []<>~DueJob(j)
=============================================================================
