--------------------------- MODULE ReviewPipeline ---------------------------
(***************************************************************************)
(* The life of one pipeline task: the task scheduler (internal/            *)
(* taskscheduler) gives it an implementor, the dispatch loop (internal/    *)
(* pipeline/dispatch.go, freeze.go, orphansweep.go) gives it reviewers and *)
(* fixers until a verdict or a park ends the loop, and the comment pass    *)
(* (reround.go) lets a human re-open it.  The agents themselves are LLM    *)
(* panes: they answer through scripts/maquinista-done, the tasks tool and  *)
(* a VERDICT line, or they do not answer at all.                           *)
(*                                                                         *)
(* Every statement of this code is keyed by one task id, so one task is    *)
(* enough; what interacts are the three goroutines and the agents.  A      *)
(* goroutine handles a task in several committed steps; "doing" is where   *)
(* it is between two of them, and a crash forgets it.                      *)
(*                                                                         *)
(* The passes of a dispatch tick and of a scheduler wake are independent   *)
(* queries, so any of them may run whenever its goroutine is between two   *)
(* operations.  What the order of a tick guarantees is that an agent's     *)
(* answer is read long before its silence is held against it (ticks of     *)
(* 10 s, silence of 30 min): the guard of FallsSilent.                     *)
(***************************************************************************)
EXTENDS Naturals, FiniteSets

CONSTANTS MaxIds,           \* bound on minted agent ids
          MaxReviewRounds,  \* MAQUINISTA_REVIEW_ROUNDS_MAX
          RespawnCap,       \* MAQUINISTA_WATCHDOG_RESPAWN_CAP
          MaxRounds,        \* bound on review_rounds
          MaxSetbacks,      \* bound on silences, red test runs and closed panes
          MaxFaults,        \* bound on daemon crashes and failed window opens
          MaxHuman          \* bound on human comments, requeues and gate failures

ASSUME PipelineAssumption ==
    /\ MaxIds \in Nat \ {0} /\ MaxReviewRounds \in Nat \ {0} /\ RespawnCap \in Nat \ {0}
    /\ MaxRounds \in Nat /\ MaxSetbacks \in Nat /\ MaxFaults \in Nat /\ MaxHuman \in Nat

Ids == 1..MaxIds    \* <role>-<task>[-rN]: minted in order, never reused
Nobody == 0         \* NULL in claimed_by, and the addressee of no prompt
Rounds == 0..MaxRounds
Loops == {"scheduler", "dispatcher", "comments"}
Verdicts == {"approve", "request_changes", "needs_human"}
Keys == {<<"task", 0>>} \cup ({"review", "fix"} \X Rounds)   \* external_msg_id

VARIABLES
    task,      \* the tasks row
    agents,    \* the agents rows, and what their panes have done
    ctx,       \* the task_context rows the guards read
    prompts,   \* agent_inbox rows with origin_channel 'task': key -> addressee
    doing,     \* where each goroutine is inside a multi-commit operation
    cohort,    \* agents that were live at the last restart, until they are swept
    setbacks, faults, human   \* how much of the bounds is used

vars == <<task, agents, ctx, prompts, doing, cohort, setbacks, faults, human>>
rows == <<task, agents, ctx, prompts>>
bounds == <<setbacks, faults, human>>

TaskRow == [status     : {"ready", "claimed", "review", "changes_requested",
                          "ready_to_merge", "pending_approval", "done"},
            rounds     : Rounds,
            claimed_by : Ids \cup {Nobody},
            claim_old  : BOOLEAN,      \* claimed_at past the stale-claim bound
            pr_open    : BOOLEAN]

\* bound: task_id is this task, not NULL.  silent: past the freeze bounds, with
\* or without a turn end observed last (FreezeCauseOf).
AgentRow == [role    : {"none", "implementor", "reviewer", "fixer"},
             status  : {"absent", "stopped", "running", "idle", "dead"},
             bound   : BOOLEAN,
             pane    : BOOLEAN,
             briefed : BOOLEAN,
             said    : Verdicts \cup {"nothing"},
             silent  : {"no", "hung", "turn_ended"}]

\* verdict: the newest 'verdict' row, of a reviewer or of a park; rc: some row
\* says request_changes; fix: rounds with a 'fix' row; frozen: true-freeze
\* observations per arm and round (the implementor arm has one budget).
Ctx == [verdict : {"none", "request_changes", "other"}, rc : BOOLEAN,
        fix : SUBSET Rounds,
        frozen : [{"implementor", "reviewer", "fixer"} \X Rounds -> Nat]]

NoAgent == [role |-> "none", status |-> "absent", bound |-> FALSE, pane |-> FALSE,
            briefed |-> FALSE, said |-> "nothing", silent |-> "no"]
\* parked: the task was pending_approval when the comment pass read it.
Idle == [at |-> "idle", agent |-> Nobody, parked |-> FALSE]
Doing == [at : {"idle", "wants_reviewer", "wants_fixer", "claimed", "inserted",
                "running", "prompted", "bumped", "recorded", "fix_claimed",
                "swept", "dropped"},
          agent : Ids \cup {Nobody}, parked : BOOLEAN]

Init ==
    /\ task = [status |-> "ready", rounds |-> 0, claimed_by |-> Nobody,
               claim_old |-> FALSE, pr_open |-> FALSE]
    /\ agents = [a \in Ids |-> NoAgent]
    /\ ctx = [verdict |-> "none", rc |-> FALSE, fix |-> {},
              frozen |-> [arm \in {"implementor", "reviewer", "fixer"} \X Rounds |-> 0]]
    /\ prompts = [k \in Keys |-> Nobody]
    /\ doing = [p \in Loops |-> Idle]
    /\ cohort = {}
    /\ setbacks = 0 /\ faults = 0 /\ human = 0

-----------------------------------------------------------------------------
(* Rows.  A definition named Slip... is a plausible slip in the code of the *)
(* definition after it, which a property must catch; nothing else uses it.  *)

\* The row counts for uq_agents_task_live.
Holds(a) == agents[a].bound /\ agents[a].status # "dead"
SlotFree == \A a \in Ids : ~Holds(a)

\* liveAgentStatusSQL: a stopped row does not hold up a claim.
Live(a) == agents[a].bound /\ agents[a].status \in {"running", "idle"}

LiveAs(a, role) == Holds(a) /\ agents[a].role = role

\* A dead row whose pane was closed can do nothing more.
Dead(rec, pane) ==
    IF pane THEN [rec EXCEPT !.status = "dead"]
    ELSE [NoAgent EXCEPT !.role = rec.role, !.status = "dead", !.bound = rec.bound]

\* retireFrozenAgentTx and the pane kill after it.
SlipRetireForgotten(a) == agents' = agents
Retire(a) == agents' = [agents EXCEPT ![a] = Dead(agents[a], FALSE)]
SlipPromptsKept(a) == prompts
DropPrompts(a) == [k \in Keys |-> IF prompts[k] = a THEN Nobody ELSE prompts[k]]

\* EnqueueInbox deduplicates on the key, whoever the row is addressed to.
Enqueue(k, a) == [prompts EXCEPT ![k] = IF prompts[k] = Nobody THEN a ELSE prompts[k]]

\* CountFreezeRetires counts by arm and round; the implementor has no rounds.
Arm(role) == <<role, IF role = "implementor" THEN 0 ELSE task.rounds>>
SlipNothingSpent(role) == 0
Spent(role) == ctx.frozen[Arm(role)]
Froze(c, role) == [c EXCEPT !.frozen[Arm(role)] = ctx.frozen[Arm(role)] + 1]

WithVerdict(c, v) == [c EXCEPT !.verdict = v,
                               !.rc = c.rc \/ v = "request_changes"]
SlipFixKept(c) == c
NoFix(c) == [c EXCEPT !.fix = c.fix \ {task.rounds}]

Fresh(a) == agents[a].status = "absent" /\ \A b \in 1..(a - 1) : agents[b].status # "absent"

AtIt(a) == \E p \in Loops : doing[p].agent = a
At(p, place) == doing[p].at = place
Go(p, place) == doing' = [doing EXCEPT ![p].at = place]
Rest(p) == doing' = [doing EXCEPT ![p] = Idle]

-----------------------------------------------------------------------------
(* SpawnFresh, shared by the three goroutines: the row is inserted as       *)
(* 'stopped', and flipped to 'running' once the window is open.             *)

Insert(p, role) ==
    /\ SlotFree
    /\ \E a \in Ids :
           /\ Fresh(a)
           /\ agents' = [agents EXCEPT ![a] =
                  [NoAgent EXCEPT !.role = role, !.status = "stopped", !.bound = TRUE]]
           /\ doing' = [doing EXCEPT ![p].at = "inserted", ![p].agent = a]

\* Only the scheduler takes its claim back when the spawn fails.
Unclaim(p) ==
    task' = IF p = "scheduler" /\ task.status = "claimed"
            THEN [task EXCEPT !.status = "ready"] ELSE task

\* The final UPDATE asks nothing of the row, but the unique index does.
WindowOpens(p) ==
    /\ At(p, "inserted")
    /\ LET a == doing[p].agent IN
       IF \A b \in Ids \ {a} : ~Holds(b)
       THEN /\ agents' = [agents EXCEPT ![a].status = "running", ![a].pane = TRUE]
            /\ Go(p, "running")
            /\ UNCHANGED task
       ELSE /\ agents' = [agents EXCEPT ![a].pane = TRUE]
            /\ Rest(p)
            /\ Unclaim(p)
    /\ UNCHANGED <<ctx, prompts, cohort, bounds>>

\* The stopped row stays.
WindowFails(p) ==
    /\ At(p, "inserted") /\ faults < MaxFaults
    /\ Unclaim(p)
    /\ Rest(p)
    /\ faults' = faults + 1
    /\ UNCHANGED <<agents, ctx, prompts, cohort, setbacks, human>>

-----------------------------------------------------------------------------
(* The task scheduler.                                                     *)

\* DispatchOne, first transaction.
ClaimReady ==
    /\ At("scheduler", "idle")
    /\ task.status = "ready" /\ \A a \in Ids : ~Live(a)
    /\ agents' = [a \in Ids |-> IF Holds(a) THEN Dead(agents[a], agents[a].pane)
                                            ELSE agents[a]]
    /\ task' = [task EXCEPT !.status = "claimed", !.claim_old = FALSE]
    /\ Go("scheduler", "claimed")
    /\ UNCHANGED <<ctx, prompts, cohort, bounds>>

SpawnWorker ==
    /\ At("scheduler", "claimed")
    /\ Insert("scheduler", "implementor")
    /\ UNCHANGED <<task, ctx, prompts, cohort, bounds>>

\* EnsureAgent bounces off the unique index: the claim is taken back.
SpawnWorkerBlocked ==
    /\ At("scheduler", "claimed") /\ ~SlotFree
    /\ Unclaim("scheduler")
    /\ Rest("scheduler")
    /\ UNCHANGED <<agents, ctx, prompts, cohort, bounds>>

EnqueueWork ==
    /\ At("scheduler", "running")
    /\ prompts' = [prompts EXCEPT ![<<"task", 0>>] = doing["scheduler"].agent]
    /\ Go("scheduler", "prompted")
    /\ UNCHANGED <<task, agents, ctx, cohort, bounds>>

SetClaimedBy ==
    /\ At("scheduler", "prompted")
    /\ task' = [task EXCEPT !.claimed_by = doing["scheduler"].agent]
    /\ Rest("scheduler")
    /\ UNCHANGED <<agents, ctx, prompts, cohort, bounds>>

HealMissingInbox(a) ==
    /\ At("scheduler", "idle")
    /\ task.status = "claimed" /\ Holds(a) /\ prompts[<<"task", 0>>] # a
    /\ prompts' = [prompts EXCEPT ![<<"task", 0>>] = a]
    /\ UNCHANGED <<task, agents, ctx, doing, cohort, bounds>>

\* The silent worker is retired; a turn that ended on finished artifacts (PR
\* open, branch current) goes to review, a spent budget parks the task.
RetireFrozenClaim(a) ==
    /\ At("scheduler", "idle")
    /\ task.status = "claimed" /\ Live(a) /\ agents[a].silent # "no"
    /\ Retire(a)
    /\ prompts' = DropPrompts(a)
    /\ \/ /\ agents[a].silent = "turn_ended" /\ task.pr_open
          /\ task' = [task EXCEPT !.status = "review", !.claimed_by = Nobody]
          /\ ctx' = WithVerdict(ctx, "other")
       \/ /\ agents[a].silent = "turn_ended"
          /\ UNCHANGED <<task, ctx>>
       \/ /\ agents[a].silent = "hung" /\ Spent("implementor") < RespawnCap
          /\ ctx' = Froze(ctx, "implementor")
          /\ UNCHANGED task
       \/ /\ agents[a].silent = "hung" /\ Spent("implementor") >= RespawnCap
          /\ ctx' = WithVerdict(Froze(ctx, "implementor"), "other")
          /\ task' = [task EXCEPT !.status = "pending_approval"]
    /\ UNCHANGED <<doing, cohort, bounds>>

SlipStoppedHolds ==
    /\ At("scheduler", "idle")
    /\ task.status = "claimed" /\ task.claim_old /\ SlotFree
    /\ task' = [task EXCEPT !.status = "ready", !.claimed_by = Nobody]
    /\ UNCHANGED <<agents, ctx, prompts, doing, cohort, bounds>>
ReapStaleClaim ==
    /\ At("scheduler", "idle")
    /\ task.status = "claimed" /\ task.claim_old /\ \A a \in Ids : ~Live(a)
    /\ task' = [task EXCEPT !.status = "ready", !.claimed_by = Nobody]
    /\ UNCHANGED <<agents, ctx, prompts, doing, cohort, bounds>>

\* Once per start: a row of the previous process that never produced output
\* and whose transcript has not grown in the seconds since.
HealRestartCohort ==
    /\ At("scheduler", "idle") /\ cohort # {}
    /\ cohort' = {}
    /\ \E ghosts \in SUBSET {a \in cohort : Live(a) /\ agents[a].said = "nothing"} :
           /\ agents' = [a \in Ids |-> IF a \in ghosts THEN Dead(agents[a], FALSE)
                                                       ELSE agents[a]]
           /\ prompts' = [k \in Keys |-> IF prompts[k] \in ghosts THEN Nobody
                                                                 ELSE prompts[k]]
           /\ ctx' = IF ghosts # {} THEN NoFix(ctx) ELSE ctx
    /\ UNCHANGED <<task, doing, bounds>>

-----------------------------------------------------------------------------
(* The dispatch loop: reviewers.                                           *)

NoLive(role) == \A a \in Ids : ~LiveAs(a, role)
WantsReviewer == task.status = "review" /\ NoLive("reviewer")
WantsFixer == /\ task.status = "changes_requested" /\ ctx.rc
              /\ NoLive("fixer") /\ task.rounds \notin ctx.fix

\* The candidate list of a pass is acted on later: an earlier task's spawn may
\* take 15 s.
ListReviewer ==
    /\ At("dispatcher", "idle") /\ WantsReviewer /\ task.rounds < MaxRounds
    /\ Go("dispatcher", "wants_reviewer")
    /\ UNCHANGED <<rows, cohort, bounds>>

SpawnReviewer ==
    /\ At("dispatcher", "wants_reviewer")
    /\ Insert("dispatcher", "reviewer")
    /\ UNCHANGED <<task, ctx, prompts, cohort, bounds>>

SpawnBlocked ==
    /\ At("dispatcher", "wants_reviewer") \/ At("dispatcher", "wants_fixer")
    /\ ~SlotFree
    /\ Rest("dispatcher")
    /\ UNCHANGED <<rows, cohort, bounds>>

\* handleUniqueLiveBlocker: an implementor whose outbox has been quiet for 10
\* minutes is retired; its transcript is not consulted, its pane is left open.
RetireStuckImplementor(a) ==
    /\ At("dispatcher", "wants_reviewer") \/ At("dispatcher", "wants_fixer")
    /\ LiveAs(a, "implementor") /\ ~AtIt(a)
    /\ agents' = [agents EXCEPT ![a] = Dead(agents[a], agents[a].pane)]
    /\ Rest("dispatcher")
    /\ UNCHANGED <<task, ctx, prompts, cohort, bounds>>

\* recordReviewRound, first commit: not guarded on the task's status.
BumpRound ==
    /\ At("dispatcher", "running") /\ agents[doing["dispatcher"].agent].role = "reviewer"
    /\ task' = [task EXCEPT !.rounds = task.rounds + 1]
    /\ Go("dispatcher", "bumped")
    /\ UNCHANGED <<agents, ctx, prompts, cohort, bounds>>

EnqueueReview ==
    /\ At("dispatcher", "bumped")
    /\ prompts' = Enqueue(<<"review", task.rounds>>, doing["dispatcher"].agent)
    /\ Rest("dispatcher")
    /\ UNCHANGED <<task, agents, ctx, cohort, bounds>>

\* promptPass.
HealReviewPrompt(a) ==
    /\ At("dispatcher", "idle")
    /\ task.status = "review" /\ LiveAs(a, "reviewer")
    /\ prompts[<<"review", task.rounds>>] # a
    /\ prompts' = Enqueue(<<"review", task.rounds>>, a)
    /\ UNCHANGED <<task, agents, ctx, doing, cohort, bounds>>

\* statusForVerdict, and the round cap that turns a request_changes into a park.
SlipUnmapped(v) == IF v = "approve" THEN "ready_to_merge" ELSE v
Landing(v) ==
    CASE v = "approve" -> "ready_to_merge"
      [] v = "request_changes" /\ task.rounds < MaxReviewRounds -> "changes_requested"
      [] OTHER -> "pending_approval"

ApplyVerdict(a) ==
    /\ At("dispatcher", "idle")
    /\ task.status = "review" /\ LiveAs(a, "reviewer") /\ agents[a].said # "nothing"
    /\ LET v == agents[a].said IN
       /\ task' = [task EXCEPT !.status = Landing(v)]
       /\ ctx' = WithVerdict(ctx, IF v = "request_changes" THEN v ELSE "other")
    /\ Retire(a)
    /\ UNCHANGED <<prompts, doing, cohort, bounds>>

WatchdogReviewer(a) ==
    /\ At("dispatcher", "idle")
    /\ task.status = "review" /\ LiveAs(a, "reviewer") /\ agents[a].silent # "no"
    /\ Retire(a)
    /\ prompts' = DropPrompts(a)
    /\ \/ /\ agents[a].silent = "turn_ended"
          /\ UNCHANGED <<task, ctx>>
       \/ /\ agents[a].silent = "hung" /\ Spent("reviewer") < RespawnCap
          /\ ctx' = Froze(ctx, "reviewer")
          /\ UNCHANGED task
       \/ /\ agents[a].silent = "hung" /\ Spent("reviewer") >= RespawnCap
          /\ ctx' = WithVerdict(Froze(ctx, "reviewer"), "other")
          /\ task' = [task EXCEPT !.status = "pending_approval"]
    /\ UNCHANGED <<doing, cohort, bounds>>

-----------------------------------------------------------------------------
(* The dispatch loop: fixers.                                              *)

ListFixer ==
    /\ At("dispatcher", "idle") /\ WantsFixer
    /\ Go("dispatcher", "wants_fixer")
    /\ UNCHANGED <<rows, cohort, bounds>>

SpawnFixer ==
    /\ At("dispatcher", "wants_fixer")
    /\ Insert("dispatcher", "fixer")
    /\ UNCHANGED <<task, ctx, prompts, cohort, bounds>>

\* recordFixEpisode, three commits.
RecordFix ==
    /\ At("dispatcher", "running") /\ agents[doing["dispatcher"].agent].role = "fixer"
    /\ ctx' = [ctx EXCEPT !.fix = ctx.fix \cup {task.rounds}]
    /\ Go("dispatcher", "recorded")
    /\ UNCHANGED <<task, agents, prompts, cohort, bounds>>

SlipNotClaimed ==
    /\ At("dispatcher", "recorded")
    /\ Go("dispatcher", "fix_claimed")
    /\ UNCHANGED <<rows, cohort, bounds>>
ClaimForFixer ==
    /\ At("dispatcher", "recorded")
    /\ task' = IF task.status = "changes_requested"
               THEN [task EXCEPT !.claimed_by = doing["dispatcher"].agent] ELSE task
    /\ Go("dispatcher", "fix_claimed")
    /\ UNCHANGED <<agents, ctx, prompts, cohort, bounds>>

EnqueueFix ==
    /\ At("dispatcher", "fix_claimed")
    /\ prompts' = Enqueue(<<"fix", task.rounds>>, doing["dispatcher"].agent)
    /\ Rest("dispatcher")
    /\ UNCHANGED <<task, agents, ctx, cohort, bounds>>

\* fixerPromptPass.
HealFixPrompt(a) ==
    /\ At("dispatcher", "idle")
    /\ task.status = "changes_requested" /\ ctx.rc /\ LiveAs(a, "fixer")
    /\ prompts[<<"fix", task.rounds>>] # a
    /\ prompts' = Enqueue(<<"fix", task.rounds>>, a)
    /\ UNCHANGED <<task, agents, ctx, doing, cohort, bounds>>

\* Every retire releases the episode; one the fixer pass could not take up
\* again (fixerEpisodeSuperseded) sends the task back to ready instead.
SlipNeverSuperseded == FALSE
Superseded == ctx.verdict \notin {"none", "request_changes"}

WatchdogFixer(a) ==
    /\ At("dispatcher", "idle")
    /\ task.status = "changes_requested" /\ LiveAs(a, "fixer") /\ agents[a].silent # "no"
    /\ Retire(a)
    /\ prompts' = DropPrompts(a)
    /\ LET burnt == IF agents[a].silent = "hung" THEN Froze(ctx, "fixer") ELSE ctx
           capped == agents[a].silent = "hung" /\ Spent("fixer") >= RespawnCap
       IN IF capped \/ Superseded
          THEN /\ task' = IF capped
                          THEN [task EXCEPT !.status = "pending_approval"]
                          ELSE [task EXCEPT !.status = "ready", !.claimed_by = Nobody]
               /\ ctx' = WithVerdict(NoFix(burnt), "other")
          ELSE /\ ctx' = NoFix(burnt)
               /\ UNCHANGED task
    /\ UNCHANGED <<doing, cohort, bounds>>

-----------------------------------------------------------------------------
(* The dispatch loop: the orphan sweep, three commits.                     *)

SweepRetires(a) ==
    /\ At("dispatcher", "idle")
    /\ agents[a].status \in {"idle", "stopped"} /\ ~agents[a].bound
    /\ agents' = [agents EXCEPT ![a] = Dead([agents[a] EXCEPT !.bound = TRUE], agents[a].pane)]
    /\ doing' = [doing EXCEPT !["dispatcher"].at = "swept", !["dispatcher"].agent = a]
    /\ UNCHANGED <<task, ctx, prompts, cohort, bounds>>

SweepDropsPrompts ==
    /\ At("dispatcher", "swept")
    /\ prompts' = DropPrompts(doing["dispatcher"].agent)
    /\ Go("dispatcher", "dropped")
    /\ UNCHANGED <<task, agents, ctx, cohort, bounds>>

\* fixerEpisodeStuckSQL: the fixer ended and its episode is still open.
SweepRearms ==
    /\ At("dispatcher", "dropped")
    /\ ctx' = IF /\ agents[doing["dispatcher"].agent].role = "fixer"
                 /\ task.status = "changes_requested"
              THEN NoFix(ctx) ELSE ctx
    /\ Rest("dispatcher")
    /\ UNCHANGED <<task, agents, prompts, cohort, bounds>>

-----------------------------------------------------------------------------
(* The comment pass: an allowed human wrote a plain comment on the PR.      *)

ReopenReview ==
    /\ At("comments", "idle") /\ human < MaxHuman
    /\ task.status = "ready_to_merge"
    /\ task' = [task EXCEPT !.status = "review"]
    /\ human' = human + 1
    /\ UNCHANGED <<agents, ctx, prompts, doing, cohort, setbacks, faults>>

\* The status is read here; the transaction that uses it runs after the spawn.
ReadComment ==
    /\ At("comments", "idle") /\ human < MaxHuman
    /\ task.pr_open
    /\ task.status \in {"pending_approval", "changes_requested"}
    /\ NoLive("fixer") /\ task.rounds \notin ctx.fix
    /\ SlotFree
    /\ \E a \in Ids :
           /\ Fresh(a)
           /\ agents' = [agents EXCEPT ![a] =
                  [NoAgent EXCEPT !.role = "fixer", !.status = "stopped", !.bound = TRUE]]
           /\ doing' = [doing EXCEPT !["comments"] =
                  [at |-> "inserted", agent |-> a, parked |-> task.status = "pending_approval"]]
    /\ human' = human + 1
    /\ UNCHANGED <<task, ctx, prompts, cohort, setbacks, faults>>

\* One transaction: unpark, fix row, claim.
CommentEpisode ==
    /\ At("comments", "running")
    /\ LET status == IF doing["comments"].parked /\ task.status = "pending_approval"
                     THEN "changes_requested" ELSE task.status
       IN task' = [task EXCEPT !.status = status,
                       !.claimed_by = IF status = "changes_requested"
                                      THEN doing["comments"].agent ELSE task.claimed_by]
    /\ ctx' = [ctx EXCEPT !.fix = ctx.fix \cup {task.rounds}]
    /\ Go("comments", "recorded")
    /\ UNCHANGED <<agents, prompts, cohort, bounds>>

EnqueueCommentFix ==
    /\ At("comments", "recorded")
    /\ prompts' = Enqueue(<<"fix", task.rounds>>, doing["comments"].agent)
    /\ Rest("comments")
    /\ UNCHANGED <<task, agents, ctx, cohort, bounds>>

-----------------------------------------------------------------------------
(* The agents.  An answer takes minutes, the rest of a spawn milliseconds:  *)
(* nobody answers while the goroutine that prompted it is still at it, and  *)
(* no goroutine is inside an operation for the half hour a silence takes.   *)

AllIdle == \A p \in Loops : At(p, "idle")

CanAct(a) == /\ agents[a].pane /\ agents[a].briefed
             /\ ~AtIt(a)

\* The sidecar types a prompt addressed to the agent.
Brief(a) ==
    /\ agents[a].status = "running" /\ agents[a].pane /\ ~agents[a].briefed
    /\ \E k \in Keys : prompts[k] = a
    /\ agents' = [agents EXCEPT ![a].briefed = TRUE]
    /\ UNCHANGED <<task, ctx, prompts, doing, cohort, bounds>>

\* maquinista tasks set-pr: no guard on the status, and the claim stays.
SetPR(a) ==
    /\ CanAct(a) /\ LiveAs(a, "implementor")
    /\ ~task.pr_open \/ task.status # "review"
    /\ task' = [task EXCEPT !.status = "review", !.pr_open = TRUE]
    /\ UNCHANGED <<agents, ctx, prompts, doing, cohort, bounds>>

\* maquinista tasks release: the pane stays open.
Release(a) ==
    /\ CanAct(a) /\ LiveAs(a, "implementor") /\ task.status = "review"
    /\ agents' = [agents EXCEPT ![a] = Dead(agents[a], TRUE)]
    /\ UNCHANGED <<task, ctx, prompts, doing, cohort, bounds>>

\* maquinista-done, after its test run: the task moves only for its claimant,
\* the agents row is released whatever its status was.
Finish(a, to) ==
    /\ CanAct(a) /\ agents[a].role \in {"implementor", "fixer"}
    /\ task' = IF task.claimed_by = a
               THEN [task EXCEPT !.status = to, !.claimed_by = Nobody] ELSE task
    /\ agents' = [agents EXCEPT ![a].bound = FALSE, ![a].status = "idle",
                                ![a].briefed = FALSE]
Done(a) == Finish(a, "review") /\ UNCHANGED <<ctx, prompts, doing, cohort, bounds>>
DoneRed(a) ==
    /\ setbacks < MaxSetbacks /\ setbacks' = setbacks + 1
    /\ Finish(a, "ready")
    /\ UNCHANGED <<ctx, prompts, doing, cohort, faults, human>>

SayVerdict(a, v) ==
    /\ CanAct(a) /\ LiveAs(a, "reviewer") /\ agents[a].said = "nothing"
    /\ agents' = [agents EXCEPT ![a].said = v]
    /\ UNCHANGED <<task, ctx, prompts, doing, cohort, bounds>>

\* No output for the freeze bounds.  An agent that cannot answer needs only time.
Mute(a) == ~agents[a].pane \/ (~agents[a].briefed /\ \A k \in Keys : prompts[k] # a)
FallsSilent(a, how) ==
    /\ Holds(a) /\ agents[a].silent = "no"
    /\ AllIdle
    /\ ~(agents[a].said # "nothing" /\ task.status = "review")
    /\ IF Mute(a) THEN how = "hung" /\ UNCHANGED setbacks
       ELSE agents[a].briefed /\ setbacks < MaxSetbacks /\ setbacks' = setbacks + 1
    /\ agents' = [agents EXCEPT ![a].silent = how]
    /\ UNCHANGED <<task, ctx, prompts, doing, cohort, faults, human>>

\* The window closes; if a sidecar was driving, it parks the row at 'stopped'.
PaneDies(a) ==
    /\ Holds(a) /\ agents[a].pane /\ setbacks < MaxSetbacks
    /\ ~AtIt(a)
    /\ \E s \in {agents[a].status, "stopped"} :
           agents' = [agents EXCEPT ![a].pane = FALSE, ![a].status = s]
    /\ setbacks' = setbacks + 1
    /\ UNCHANGED <<task, ctx, prompts, doing, cohort, faults, human>>

-----------------------------------------------------------------------------
(* Time, the daemon, humans and the merge gate.                            *)

ClaimAges ==
    /\ task.status = "claimed" /\ ~task.claim_old /\ AllIdle
    /\ task' = [task EXCEPT !.claim_old = TRUE]
    /\ UNCHANGED <<agents, ctx, prompts, doing, cohort, bounds>>

\* The daemon restarts; the tmux server and its panes survive.
Crash ==
    /\ faults < MaxFaults
    /\ doing' = [p \in Loops |-> Idle]
    /\ cohort' = {a \in Ids : Live(a)}
    /\ faults' = faults + 1
    /\ UNCHANGED <<rows, setbacks, human>>

RequeueTask ==
    /\ task.status = "pending_approval" /\ human < MaxHuman
    /\ task' = [task EXCEPT !.status = "ready", !.claimed_by = Nobody]
    /\ human' = human + 1
    /\ UNCHANGED <<agents, ctx, prompts, doing, cohort, setbacks, faults>>

\* parkGateFailure: the branch does not build; too many failures park the task.
GateFails ==
    /\ task.status = "ready_to_merge" /\ human < MaxHuman
    /\ \E s \in {"changes_requested", "pending_approval"} :
           task' = [task EXCEPT !.status = s]
    /\ human' = human + 1
    /\ UNCHANGED <<agents, ctx, prompts, doing, cohort, setbacks, faults>>

Merge ==
    /\ task.status = "ready_to_merge"
    /\ task' = [task EXCEPT !.status = "done"]
    /\ UNCHANGED <<agents, ctx, prompts, doing, cohort, bounds>>

-----------------------------------------------------------------------------
Scheduler ==
    \/ ClaimReady \/ SpawnWorker \/ SpawnWorkerBlocked \/ EnqueueWork \/ SetClaimedBy
    \/ \E a \in Ids : HealMissingInbox(a) \/ RetireFrozenClaim(a)
    \/ ReapStaleClaim \/ HealRestartCohort

Dispatcher ==
    \/ ListReviewer \/ SpawnReviewer \/ BumpRound \/ EnqueueReview \/ SpawnBlocked
    \/ ListFixer \/ SpawnFixer \/ RecordFix \/ ClaimForFixer \/ EnqueueFix
    \/ \E a \in Ids : \/ HealReviewPrompt(a) \/ ApplyVerdict(a) \/ WatchdogReviewer(a)
                      \/ HealFixPrompt(a) \/ WatchdogFixer(a) \/ SweepRetires(a)
                      \/ RetireStuckImplementor(a)
    \/ SweepDropsPrompts \/ SweepRearms

CommentPass == CommentEpisode \/ EnqueueCommentFix
Human == ReopenReview \/ ReadComment \/ RequeueTask \/ GateFails

Answers(a) == \/ SetPR(a) \/ Release(a) \/ Done(a) \/ DoneRed(a)
              \/ \E v \in Verdicts : SayVerdict(a, v)
Agent(a) == \/ Brief(a) \/ Answers(a) \/ PaneDies(a)
            \/ \E how \in {"hung", "turn_ended"} : FallsSilent(a, how)

Next ==
    \/ Scheduler \/ Dispatcher \/ CommentPass \/ Human
    \/ \E p \in Loops : WindowOpens(p) \/ WindowFails(p)
    \/ \E a \in Ids : Agent(a)
    \/ ClaimAges \/ Crash \/ Merge

Spec == Init /\ [][Next]_vars

\* The rest of an operation a goroutine has begun.
Continue(p) ==
    \/ WindowOpens(p) \/ WindowFails(p)
    \/ /\ p = "scheduler"
       /\ SpawnWorker \/ SpawnWorkerBlocked \/ EnqueueWork \/ SetClaimedBy
    \/ /\ p = "dispatcher"
       /\ \/ SpawnReviewer \/ SpawnFixer \/ SpawnBlocked \/ BumpRound \/ EnqueueReview
          \/ RecordFix \/ ClaimForFixer \/ EnqueueFix \/ SweepDropsPrompts \/ SweepRearms
    \/ p = "comments" /\ CommentPass

\* The loops tick for ever, every tick runs every pass, and an operation that
\* has begun goes on.  Some prompted agent answers or falls silent, in the gaps
\* between ticks (SF); panes, humans and faults owe nothing.
Fairness ==
    /\ \A p \in Loops : WF_vars(Continue(p))
    /\ WF_vars(ClaimReady) /\ WF_vars(ReapStaleClaim) /\ WF_vars(ClaimAges)
    /\ WF_vars(\E a \in Ids : HealMissingInbox(a))
    /\ WF_vars(\E a \in Ids : RetireFrozenClaim(a))
    /\ WF_vars(ListReviewer) /\ WF_vars(ListFixer)
    /\ WF_vars(\E a \in Ids : HealReviewPrompt(a)) /\ WF_vars(\E a \in Ids : ApplyVerdict(a))
    /\ WF_vars(\E a \in Ids : WatchdogReviewer(a)) /\ WF_vars(\E a \in Ids : WatchdogFixer(a))
    /\ WF_vars(\E a \in Ids : HealFixPrompt(a)) /\ WF_vars(\E a \in Ids : SweepRetires(a))
    /\ SF_vars(\E a \in Ids : RetireStuckImplementor(a))
    /\ WF_vars(\E a \in Ids : Brief(a))
    /\ SF_vars(\E a \in Ids : Answers(a) \/ FallsSilent(a, "hung") \/ FallsSilent(a, "turn_ended"))

FairSpec == Spec /\ Fairness

-----------------------------------------------------------------------------
\* Rows keep the shape of their tables and every id, key and round stays in range.
TypeOK ==
    /\ task \in TaskRow
    /\ agents \in [Ids -> AgentRow]
    /\ ctx \in Ctx
    /\ prompts \in [Keys -> Ids \cup {Nobody}]
    /\ doing \in [Loops -> Doing]
    /\ cohort \in SUBSET Ids
    /\ setbacks \in 0..MaxSetbacks /\ faults \in 0..MaxFaults /\ human \in 0..MaxHuman

\* The status a task has while an agent of the role works on it.
Phase == [none |-> "done", implementor |-> "claimed", reviewer |-> "review",
          fixer |-> "changes_requested"]
OnDuty(a) ==
    /\ LiveAs(a, agents[a].role) /\ agents[a].status = "running" /\ agents[a].pane
    /\ task.status = Phase[agents[a].role]
    /\ ~AtIt(a)

\* Without faults no agent is left at an empty prompt: whoever is on duty has
\* been sent something.  (The prompt keys are shared by all agents of a round
\* and deduplicated, so one retire that leaves a row behind starves the next.)
NobodyWaitsUnprompted ==
    faults = 0 => \A a \in Ids : OnDuty(a) => \E k \in Keys : prompts[k] = a

\* Without faults a worker on duty holds the claim, so that its maquinista-done
\* advances the task instead of only freeing the worker.  (A second human act,
\* here and below, lets the comment pass's 15 s spawn outlast a requeue and a
\* whole review, which nothing in this model forbids.)
DoneWillCount ==
    (faults = 0 /\ human <= 1) => \A a \in Ids :
        (OnDuty(a) /\ agents[a].briefed /\ agents[a].role # "reviewer")
            => task.claimed_by = a

\* Without faults an episode marked as being fixed has a fixer: one that holds
\* the task, one that the sweep has still to process, or one being spawned.
EpisodeHasFixer ==
    (faults = 0 /\ human <= 1 /\ task.status = "changes_requested" /\ task.rounds \in ctx.fix)
        => \E a \in Ids : /\ agents[a].role = "fixer"
                          /\ Holds(a) \/ ~agents[a].bound \/ AtIt(a)

\* Left alone, the loop gives no fixer a round at or past the round cap.
FixersCapped == human = 0 => \A r \in ctx.fix : r < MaxReviewRounds

\* Each arm's freezes stop one past the respawn cap, and only a human who requeues
\* or re-opens a parked task buys another.  A reviewer has a round of its own:
\* a second one freezes in the same round only after a spawn that a crash cut off
\* before the bump.  (With it comes a late done that takes the task out of its
\* park, so that such a fault buys the fixer one as well.)  Nor does the loop go
\* round more often than it may.
BudgetKept ==
    /\ FixersCapped
    /\ ctx.frozen[<<"implementor", 0>>] <= RespawnCap + 1 + human
    /\ \A r \in Rounds : /\ ctx.frozen[<<"reviewer", r>>] <= 1 + faults
                          /\ ctx.frozen[<<"fixer", r>>] <= RespawnCap + 1 + human + faults

\* Without faults and humans, a task that waits for a human or for its merge
\* has no agent left on it.
ParkedIsQuiet ==
    (faults = 0 /\ human = 0 /\ task.status \in {"pending_approval", "ready_to_merge"})
        => SlotFree

\* Whoever retires a fixer of a task in changes_requested leaves the task where
\* some pass finds it: out of that status, or fit for the fixer pass.
Rearms ==
    \A a \in Ids : (LiveAs(a, "fixer") /\ agents'[a].status = "dead"
                       /\ task'.status = "changes_requested")
                   => ctx'.rc /\ task'.rounds \notin ctx'.fix
FixerRetireRearms == [][faults = 0 => Rearms]_vars

\* A task left alone always gets to a human or to its merge again, whatever the
\* agents do and whenever the daemon stops; unless a reviewer or fixer was
\* spawned from a stale list and holds a task it cannot work on.
OutOfBounds == task.rounds = MaxRounds \/ \A a \in Ids : agents[a].status # "absent"
Undecided == task.status \in {"ready", "claimed", "review", "changes_requested"}
Misplaced(a) == /\ Holds(a) /\ agents[a].role \in {"reviewer", "fixer"}
                /\ task.status # Phase[agents[a].role]
EventuallyDecided ==
    []<>(~Undecided \/ OutOfBounds \/ \E a \in Ids : Misplaced(a))

-----------------------------------------------------------------------------
(* A statement of the repository that the code does not keep.                *)

\* mergegate.go: a branch that fails the gate goes back to a fixer.
ChangesGetAFixer ==
    task.status = "changes_requested"
        ~> (task.status # "changes_requested" \/ \E a \in Ids : LiveAs(a, "fixer"))

=============================================================================
