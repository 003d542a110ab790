------------------------- MODULE ReviewAnswers_proofs -------------------------
(***************************************************************************)
(* More proofs about ReviewPipeline, on the invariant of                   *)
(* ReviewPipeline_proofs.  Whoever retires a fixer leaves the task where a *)
(* pass finds it; and while nobody interferes and nothing fails, every     *)
(* agent on duty was prompted, every worker's done will count, and every   *)
(* episode has its fixer.                                                  *)
(*                                                                         *)
(* A review round is the unit: its prompt keys and its fix row are unused  *)
(* until a reviewer is spawned for it, and one fixer at a time uses them,  *)
(* whose every retirement gives them back.                                 *)
(***************************************************************************)
EXTENDS ReviewPipeline_proofs

\* Once a verdict or a park was recorded there is a newest one, and one that asks
\* for changes is among all of them.  The cohort is a restart's.
Concluded == {"changes_requested", "pending_approval", "ready_to_merge", "done"}
VerdictKnown ==
    /\ ctx.verdict = "request_changes" => ctx.rc
    /\ task.status \in Concluded => ctx.verdict # "none"
    /\ faults = 0 => cohort = {}

-----------------------------------------------------------------------------
Running(a) == agents[a].bound /\ agents[a].status = "running"
Scheduling == doing["scheduler"].at \in {"inserted", "running", "prompted"}
Dispatching == doing["dispatcher"].at \in {"inserted", "running", "bumped", "recorded", "fix_claimed"}

\* Some goroutine is still spawning it.
Busy(a) == \/ Scheduling /\ doing["scheduler"].agent = a
           \/ Dispatching /\ doing["dispatcher"].agent = a

\* Nothing of the current round was used for a fix.
Unfixed == prompts[<<"fix", task.rounds>>] = Nobody /\ task.rounds \notin ctx.fix

\* What the last commit of a spawn leaves an agent with.
Duty(a) ==
    /\ agents[a].role = "implementor" =>
           /\ prompts[<<"task", 0>>] = a
           /\ task.status = "claimed" => task.claimed_by = a
    /\ agents[a].role = "reviewer" => prompts[<<"review", task.rounds>>] = a /\ Unfixed
    /\ (agents[a].role = "fixer" /\ task.status = "changes_requested") =>
           task.claimed_by = a /\ prompts[<<"fix", task.rounds>>] = a
OnTheirDuty == \A a \in Ids : Holds(a) => /\ agents[a].role # "none"
                                          /\ ~Busy(a) => Duty(a)

\* What each commit of a spawn leaves for the next.
Employed(a, place) ==
    /\ agents[a].role = "implementor" /\ agents[a].bound
    /\ place # "inserted" => Running(a)
    /\ place = "prompted" => prompts[<<"task", 0>>] = a
Summoned(a, place) ==
    /\ agents[a].bound
    /\ place # "inserted" => Running(a)
    /\ place = "bumped" =>
           agents[a].role = "reviewer" /\ Unfixed /\ prompts[<<"review", task.rounds>>] = Nobody
    /\ place \in {"recorded", "fix_claimed"} => agents[a].role = "fixer"
    /\ (place = "fix_claimed" /\ task.status = "changes_requested") => task.claimed_by = a
AtWork ==
    /\ Scheduling => Employed(doing["scheduler"].agent, doing["scheduler"].at)
    /\ Dispatching => Summoned(doing["dispatcher"].agent, doing["dispatcher"].at)
    /\ doing["dispatcher"].at = "swept" =>
           /\ agents[doing["dispatcher"].agent].status = "dead"
           /\ Scheduling => doing["dispatcher"].agent # doing["scheduler"].agent

\* The rounds to come are unused.
RoundsFresh ==
    /\ \A r \in Rounds : r > task.rounds =>
           prompts[<<"review", r>>] = Nobody /\ prompts[<<"fix", r>>] = Nobody
    /\ \A r \in ctx.fix : r <= task.rounds

\* While changes are requested, what the round has used belongs to a live fixer.
EpisodeOpen ==
    task.status = "changes_requested" =>
        /\ \A a \in Ids : prompts[<<"fix", task.rounds>>] = a => LiveAs(a, "fixer")
        /\ task.rounds \in ctx.fix => \E a \in Ids : LiveAs(a, "fixer")

Attended == OnTheirDuty /\ AtWork /\ RoundsFresh /\ EpisodeOpen
AnswerIInv == PipeIInv /\ VerdictKnown /\ (Quiet => Attended)

-----------------------------------------------------------------------------
(* Verdicts, and the fixers whose retire must give the episode back.        *)

LEMMA KnownStays ==
    ASSUME VerdictKnown, BoundsGrow,
           faults' = 0 => cohort' \subseteq cohort,
           \/ ctx'.verdict = ctx.verdict /\ ctx'.rc = ctx.rc
           \/ ctx'.verdict # "none" /\ (ctx'.verdict = "request_changes" => ctx'.rc),
           task'.status \in Concluded => task.status \in Concluded \/ ctx'.verdict # "none"
    PROVE  VerdictKnown'
  BY DEF VerdictKnown, BoundsGrow

\* Most steps record nothing.
Unrecorded ==
    /\ UNCHANGED <<ctx, cohort>>
    /\ task'.status \in Concluded => task.status \in Concluded
LEMMA KnownSame == ASSUME VerdictKnown, BoundsGrow, Unrecorded PROVE VerdictKnown'
  BY KnownStays DEF Unrecorded

\* Nobody's fixer is killed.
Spared == \A a \in Ids : LiveAs(a, "fixer") => agents'[a].status # "dead"
LEMMA SparedRearms == ASSUME Spared PROVE Rearms
  BY DEF Spared, Rearms

LEMMA SparedSame == ASSUME UNCHANGED agents PROVE Spared
  BY DEF Spared, LiveAs, Holds

LEMMA SparedRow ==
    ASSUME agents \in [Ids -> AgentRow], NEW a \in Ids, NEW r,
           agents' = [agents EXCEPT ![a] = r], LiveAs(a, "fixer") => r.status # "dead"
    PROVE  Spared
  BY DEF Spared, LiveAs, Holds

LEMMA SchedulerKnown ==
    ASSUME PipeIInv, VerdictKnown, Scheduler
    PROVE  VerdictKnown' /\ (faults = 0 => Rearms)
  <1>t. /\ PipeTyped /\ TypeOK /\ task \in TaskRow /\ agents \in [Ids -> AgentRow] /\ ctx \in Ctx
    BY Rows
  <1>1. CASE ClaimReady
    <2>1. /\ task' = [task EXCEPT !.status = "claimed", !.claim_old = FALSE]
          /\ UNCHANGED <<ctx, prompts, cohort>> /\ UNCHANGED bounds
      BY <1>1 DEF ClaimReady
    <2>2. task'.status = "claimed"  BY <1>t, <2>1 DEF TaskRow
    <2>3. Unrecorded /\ Rearms  BY <2>1, <2>2 DEF Unrecorded, Rearms, Concluded
    <2> QED BY <1>t, <2>1, <2>3, BoundsSame, KnownSame
  <1>2. CASE SpawnWorker
    <2>1. PICK a \in Ids : Inserts(a, "implementor")
      BY <1>2 DEF SpawnWorker, Insert, Inserts
    <2>2. UNCHANGED <<task, ctx, prompts, cohort>> /\ UNCHANGED bounds  BY <1>2 DEF SpawnWorker
    <2>3. Spared  BY <1>t, <2>1, Inserted DEF Spared, LiveAs, Inserts, SlotFree
    <2>4. Unrecorded  BY <2>2 DEF Unrecorded
    <2> QED BY <1>t, <2>2, <2>3, <2>4, BoundsSame, KnownSame, SparedRearms
  <1>3. CASE SpawnWorkerBlocked
    <2>1. /\ Unclaim("scheduler") /\ UNCHANGED <<agents, ctx, prompts, cohort>> /\ UNCHANGED bounds
      BY <1>3 DEF SpawnWorkerBlocked
    <2>2. task' = task \/ task'.status = "ready"  BY <1>t, <2>1, Unclaimed DEF Loops
    <2>3. Unrecorded  BY <2>1, <2>2 DEF Unrecorded, Concluded
    <2> QED BY <1>t, <2>1, <2>3, BoundsSame, KnownSame, SparedSame, SparedRearms
  <1>4. CASE EnqueueWork
    BY <1>4, <1>t, BoundsSame, KnownSame, SparedSame, SparedRearms DEF EnqueueWork, Unrecorded
  <1>5. CASE SetClaimedBy
    <2>1. task' = [task EXCEPT !.claimed_by = doing["scheduler"].agent]
          /\ UNCHANGED <<agents, ctx, prompts, cohort>> /\ UNCHANGED bounds
      BY <1>5 DEF SetClaimedBy
    <2>2. task'.status = task.status  BY <1>t, <2>1 DEF TaskRow
    <2>3. Unrecorded  BY <2>1, <2>2 DEF Unrecorded
    <2> QED BY <1>t, <2>1, <2>3, BoundsSame, KnownSame, SparedSame, SparedRearms
  <1>6. ASSUME NEW a \in Ids, HealMissingInbox(a) PROVE VerdictKnown' /\ (faults = 0 => Rearms)
    BY <1>6, <1>t, BoundsSame, KnownSame, SparedSame, SparedRearms DEF HealMissingInbox, Unrecorded
  <1>7. ASSUME NEW a \in Ids, RetireFrozenClaim(a) PROVE VerdictKnown' /\ (faults = 0 => Rearms)
    <2>1. /\ task.status = "claimed" /\ Retire(a)
          /\ UNCHANGED <<doing, cohort>> /\ UNCHANGED bounds
      BY <1>7 DEF RetireFrozenClaim
    <2>2. \/ task' = [task EXCEPT !.status = "review", !.claimed_by = Nobody]
          \/ task' = task /\ ctx' \in {ctx, Froze(ctx, "implementor")}
          \/ /\ task' = [task EXCEPT !.status = "pending_approval"]
             /\ ctx' = WithVerdict(Froze(ctx, "implementor"), "other")
      BY <1>7 DEF RetireFrozenClaim
    <2>3. ctx' \in {WithVerdict(ctx, "other"), ctx, Froze(ctx, "implementor"),
                    WithVerdict(Froze(ctx, "implementor"), "other")}
      BY <1>7 DEF RetireFrozenClaim
    <2>4. \/ ctx'.verdict = ctx.verdict /\ ctx'.rc = ctx.rc
          \/ ctx'.verdict = "other"
      BY <1>t, <2>3, FrozeTyped, VerdictTyped
    <2>5. /\ task'.status # "changes_requested"
          /\ task'.status \in Concluded => ctx'.verdict # "none"
      <3>1. CASE task' = [task EXCEPT !.status = "review", !.claimed_by = Nobody]
        BY <1>t, <3>1, TaskFreed DEF Concluded, Statuses
      <3>2. CASE task' = task  BY <2>1, <3>2 DEF Concluded
      <3>3. CASE /\ task' = [task EXCEPT !.status = "pending_approval"]
                 /\ ctx' = WithVerdict(Froze(ctx, "implementor"), "other")
        BY <1>t, <3>3, TaskSet, FrozeTyped, VerdictTyped DEF Statuses
      <3> QED BY <2>2, <3>1, <3>2, <3>3
    <2>6. Rearms  BY <2>5 DEF Rearms
    <2> QED BY <1>t, <2>1, <2>4, <2>5, <2>6, BoundsSame, KnownStays
  <1>8. CASE ReapStaleClaim
    <2>1. /\ task' = [task EXCEPT !.status = "ready", !.claimed_by = Nobody]
          /\ UNCHANGED <<agents, ctx, prompts, doing, cohort>> /\ UNCHANGED bounds
      BY <1>8 DEF ReapStaleClaim
    <2>2. task'.status = "ready"  BY <1>t, <2>1, TaskFreed DEF Statuses
    <2>3. Unrecorded  BY <2>1, <2>2 DEF Unrecorded, Concluded
    <2> QED BY <1>t, <2>1, <2>3, BoundsSame, KnownSame, SparedSame, SparedRearms
  <1>9. CASE HealRestartCohort
    <2>1. PICK ghosts \in SUBSET {a \in cohort : Live(a) /\ agents[a].said = "nothing"} :
             ctx' = IF ghosts # {} THEN NoFix(ctx) ELSE ctx
      BY <1>9 DEF HealRestartCohort
    <2>2. cohort # {} /\ cohort' = {} /\ UNCHANGED <<task, doing>> /\ UNCHANGED bounds
      BY <1>9 DEF HealRestartCohort
    <2>3. ctx'.verdict = ctx.verdict /\ ctx'.rc = ctx.rc  BY <1>t, <2>1, NoFixTyped
    <2>4. faults # 0  BY <2>2 DEF VerdictKnown
    <2> QED BY <1>t, <2>2, <2>3, <2>4, BoundsSame, KnownStays
  <1> QED BY <1>1, <1>2, <1>3, <1>4, <1>5, <1>6, <1>7, <1>8, <1>9 DEF Scheduler
LEMMA DispatcherKnown ==
    ASSUME PipeIInv, VerdictKnown, Dispatcher
    PROVE  VerdictKnown' /\ (faults = 0 => Rearms)
  <1>t. /\ PipeTyped /\ TypeOK /\ task \in TaskRow /\ agents \in [Ids -> AgentRow] /\ ctx \in Ctx
    BY Rows
  <1>1. ASSUME \/ ListReviewer \/ ListFixer \/ SpawnBlocked \/ EnqueueReview \/ EnqueueFix
               \/ SweepDropsPrompts \/ \E a \in Ids : HealReviewPrompt(a) \/ HealFixPrompt(a)
        PROVE  VerdictKnown' /\ (faults = 0 => Rearms)
    <2>1. UNCHANGED <<task, agents, ctx, cohort>> /\ UNCHANGED bounds
      BY <1>1 DEF ListReviewer, ListFixer, SpawnBlocked, EnqueueReview, EnqueueFix, rows,
                  SweepDropsPrompts, HealReviewPrompt, HealFixPrompt
    <2>2. Unrecorded  BY <2>1 DEF Unrecorded
    <2> QED BY <1>t, <2>1, <2>2, BoundsSame, KnownSame, SparedSame, SparedRearms
  <1>2. CASE SpawnReviewer \/ SpawnFixer
    <2>1. PICK role \in {"reviewer", "fixer"}, a \in Ids : Inserts(a, role)
      BY <1>2 DEF SpawnReviewer, SpawnFixer, Insert, Inserts
    <2>2. UNCHANGED <<task, ctx, prompts, cohort>> /\ UNCHANGED bounds
      BY <1>2 DEF SpawnReviewer, SpawnFixer
    <2>3. Spared  BY <1>t, <2>1, Inserted DEF Spared, LiveAs, Inserts, SlotFree
    <2>4. Unrecorded  BY <2>2 DEF Unrecorded
    <2> QED BY <1>t, <2>2, <2>3, <2>4, BoundsSame, KnownSame, SparedRearms
  <1>3. CASE BumpRound
    <2>1. task' = [task EXCEPT !.rounds = task.rounds + 1]
          /\ UNCHANGED <<agents, ctx, prompts, cohort>> /\ UNCHANGED bounds
      BY <1>3 DEF BumpRound
    <2>2. task'.status = task.status  BY <1>t, <2>1 DEF TaskRow
    <2>3. Unrecorded  BY <2>1, <2>2 DEF Unrecorded
    <2> QED BY <1>t, <2>1, <2>3, BoundsSame, KnownSame, SparedSame, SparedRearms
  <1>4. CASE RecordFix
    <2>1. ctx' = [ctx EXCEPT !.fix = ctx.fix \cup {task.rounds}]
          /\ UNCHANGED <<task, agents, prompts, cohort>> /\ UNCHANGED bounds
      BY <1>4 DEF RecordFix
    <2>2. ctx'.verdict = ctx.verdict /\ ctx'.rc = ctx.rc  BY <1>t, <2>1, FixRecorded
    <2> QED BY <1>t, <2>1, <2>2, BoundsSame, KnownStays, SparedSame, SparedRearms
  <1>5. CASE ClaimForFixer
    <2>1. task' = (IF task.status = "changes_requested"
                   THEN [task EXCEPT !.claimed_by = doing["dispatcher"].agent] ELSE task)
          /\ UNCHANGED <<agents, ctx, prompts, cohort>> /\ UNCHANGED bounds
      BY <1>5 DEF ClaimForFixer
    <2>2. task'.status = task.status  BY <1>t, <2>1 DEF TaskRow
    <2>3. Unrecorded  BY <2>1, <2>2 DEF Unrecorded
    <2> QED BY <1>t, <2>1, <2>3, BoundsSame, KnownSame, SparedSame, SparedRearms
  <1>6. ASSUME NEW a \in Ids, ApplyVerdict(a) PROVE VerdictKnown' /\ (faults = 0 => Rearms)
    <2> DEFINE v == agents[a].said
               w == IF v = "request_changes" THEN v ELSE "other"
    <2>1. /\ LiveAs(a, "reviewer") /\ v # "nothing"
          /\ ctx' = WithVerdict(ctx, w) /\ Retire(a)
          /\ UNCHANGED <<prompts, doing, cohort>> /\ UNCHANGED bounds
      BY <1>6 DEF ApplyVerdict
    <2>2. w \in {"request_changes", "other"}  OBVIOUS
    <2>3. ctx'.verdict # "none" /\ (ctx'.verdict = "request_changes" => ctx'.rc)
      <3> HIDE DEF w
      <3> QED BY <1>t, <2>1, <2>2, VerdictTyped
    <2>4. Spared  BY <1>t, <2>1, SparedRow DEF Retire, LiveAs
    <2> QED BY <1>t, <2>1, <2>3, <2>4, BoundsSame, KnownStays, SparedRearms
  <1>7. ASSUME NEW a \in Ids, WatchdogReviewer(a) PROVE VerdictKnown' /\ (faults = 0 => Rearms)
    <2>1. /\ LiveAs(a, "reviewer") /\ Retire(a) /\ task.status = "review"
          /\ UNCHANGED <<doing, cohort>> /\ UNCHANGED bounds
      BY <1>7 DEF WatchdogReviewer
    <2>2. \/ task' = task /\ ctx' \in {ctx, Froze(ctx, "reviewer")}
          \/ ctx' = WithVerdict(Froze(ctx, "reviewer"), "other")
      BY <1>7 DEF WatchdogReviewer
    <2>3. \/ task' = task /\ ctx'.verdict = ctx.verdict /\ ctx'.rc = ctx.rc
          \/ ctx'.verdict = "other"
      BY <1>t, <2>2, FrozeTyped, VerdictTyped
    <2>4. Spared  BY <1>t, <2>1, SparedRow DEF Retire, LiveAs
    <2> QED BY <1>t, <2>1, <2>3, <2>4, BoundsSame, KnownStays, SparedRearms
  <1>8. ASSUME NEW a \in Ids, WatchdogFixer(a) PROVE VerdictKnown' /\ (faults = 0 => Rearms)
    <2> DEFINE burnt == IF agents[a].silent = "hung" THEN Froze(ctx, "fixer") ELSE ctx
               capped == agents[a].silent = "hung" /\ Spent("fixer") >= RespawnCap
    <2>1. /\ task.status = "changes_requested" /\ Holds(a)
          /\ UNCHANGED <<doing, cohort>> /\ UNCHANGED bounds
          /\ IF capped \/ Superseded
             THEN /\ task' = IF capped
                             THEN [task EXCEPT !.status = "pending_approval"]
                             ELSE [task EXCEPT !.status = "ready", !.claimed_by = Nobody]
                  /\ ctx' = WithVerdict(NoFix(burnt), "other")
             ELSE ctx' = NoFix(burnt) /\ UNCHANGED task
      BY <1>8 DEF WatchdogFixer, LiveAs
    <2>2. burnt \in Ctx /\ burnt.verdict = ctx.verdict /\ burnt.rc = ctx.rc
      BY <1>t, FrozeTyped
    <2> HIDE DEF burnt, capped
    <2>3. CASE capped \/ Superseded
      <3>1. ctx'.verdict = "other"  BY <2>1, <2>2, <2>3, NoFixTyped, VerdictTyped
      <3>2. task'.status # "changes_requested"
        BY <1>t, <2>1, <2>3, TaskSet, TaskFreed DEF Statuses
      <3> QED BY <1>t, <2>1, <3>1, <3>2, BoundsSame, KnownStays DEF Rearms
    <2>4. CASE ~(capped \/ Superseded)
      <3>1. /\ ctx'.verdict = ctx.verdict /\ ctx'.rc = ctx.rc /\ task.rounds \notin ctx'.fix
        BY <2>1, <2>2, <2>4, NoFixTyped
      <3>2. ctx.rc  BY <2>1, <2>4 DEF Superseded, VerdictKnown, Concluded
      <3>3. Rearms  BY <2>1, <2>4, <3>1, <3>2 DEF Rearms
      <3> QED BY <1>t, <2>1, <2>4, <3>1, <3>3, BoundsSame, KnownStays
    <2> QED BY <2>3, <2>4
  <1>9. CASE SweepRearms
    <2>1. ctx' \in {ctx, NoFix(ctx)} /\ UNCHANGED <<task, agents, prompts, cohort>> /\ UNCHANGED bounds
      BY <1>9 DEF SweepRearms
    <2>2. ctx'.verdict = ctx.verdict /\ ctx'.rc = ctx.rc  BY <1>t, <2>1, NoFixTyped
    <2> QED BY <1>t, <2>1, <2>2, BoundsSame, KnownStays, SparedSame, SparedRearms
  <1>10. ASSUME NEW a \in Ids, SweepRetires(a) \/ RetireStuckImplementor(a)
         PROVE  VerdictKnown' /\ (faults = 0 => Rearms)
    <2>1. /\ ~LiveAs(a, "fixer") /\ UNCHANGED <<task, ctx, prompts, cohort>> /\ UNCHANGED bounds
          /\ \E r : agents' = [agents EXCEPT ![a] = r]
      BY <1>10 DEF SweepRetires, RetireStuckImplementor, LiveAs, Holds
    <2>2. Spared  BY <1>t, <2>1, SparedRow
    <2>3. Unrecorded  BY <2>1 DEF Unrecorded
    <2> QED BY <1>t, <2>1, <2>2, <2>3, BoundsSame, KnownSame, SparedRearms
  <1> QED BY <1>1, <1>2, <1>3, <1>4, <1>5, <1>6, <1>7, <1>8, <1>9, <1>10 DEF Dispatcher

LEMMA OthersKnown ==
    ASSUME PipeIInv, VerdictKnown,
           \/ CommentPass \/ Human \/ ClaimAges \/ Crash \/ Merge
           \/ \E p \in Loops : WindowOpens(p) \/ WindowFails(p)
    PROVE  VerdictKnown' /\ (faults = 0 => Rearms)
  <1>t. /\ PipeTyped /\ TypeOK /\ task \in TaskRow /\ agents \in [Ids -> AgentRow] /\ ctx \in Ctx
    BY Rows
  <1>1. CASE CommentEpisode
    <2> DEFINE status == IF doing["comments"].parked /\ task.status = "pending_approval"
                         THEN "changes_requested" ELSE task.status
               by == IF status = "changes_requested" THEN doing["comments"].agent ELSE task.claimed_by
    <2>1. /\ task' = [task EXCEPT !.status = status, !.claimed_by = by]
          /\ ctx' = [ctx EXCEPT !.fix = ctx.fix \cup {task.rounds}]
          /\ UNCHANGED <<agents, prompts, cohort>> /\ UNCHANGED bounds
      BY <1>1 DEF CommentEpisode
    <2>2. task'.status = status  BY <1>t, <2>1 DEF TaskRow
    <2>3. status \in Concluded => task.status \in Concluded  BY DEF Concluded
    <2>4. ctx'.verdict = ctx.verdict /\ ctx'.rc = ctx.rc  BY <1>t, <2>1, FixRecorded
    <2> QED BY <1>t, <2>1, <2>2, <2>3, <2>4, BoundsSame, KnownStays, SparedSame, SparedRearms
  <1>2. CASE EnqueueCommentFix
    BY <1>2, <1>t, BoundsSame, KnownSame, SparedSame, SparedRearms DEF EnqueueCommentFix, Unrecorded
  <1>3. ASSUME ReopenReview \/ RequeueTask \/ GateFails
        PROVE  VerdictKnown' /\ (faults = 0 => Rearms)
    <2>1. /\ \/ task' = [task EXCEPT !.status = "review"]
             \/ /\ task.status \in Concluded
                /\ \E s \in {"changes_requested", "pending_approval"} : task' = [task EXCEPT !.status = s]
             \/ task' = [task EXCEPT !.status = "ready", !.claimed_by = Nobody]
          /\ human < MaxHuman /\ human' = human + 1
          /\ UNCHANGED <<agents, ctx, prompts, doing, cohort>> /\ UNCHANGED <<setbacks, faults>>
      BY <1>3 DEF ReopenReview, RequeueTask, GateFails, Concluded
    <2>2. task.status \in Concluded \/ task'.status \in {"review", "ready"}
      BY <1>t, <2>1, TaskSet, TaskFreed DEF Statuses
    <2>3. Unrecorded  BY <2>1, <2>2 DEF Unrecorded, Concluded
    <2> QED BY <1>t, <2>1, <2>3, BoundsUp, KnownSame, SparedSame, SparedRearms
  <1>4. CASE ReadComment
    <2>1. PICK a \in Ids : Inserts(a, "fixer")
      BY <1>4 DEF ReadComment, Inserts
    <2>2. /\ human < MaxHuman /\ human' = human + 1
          /\ UNCHANGED <<task, ctx, prompts, cohort>> /\ UNCHANGED <<setbacks, faults>>
      BY <1>4 DEF ReadComment
    <2>3. Spared  BY <1>t, <2>1, Inserted DEF Spared, LiveAs, Inserts, SlotFree
    <2>4. Unrecorded  BY <2>2 DEF Unrecorded
    <2> QED BY <1>t, <2>2, <2>3, <2>4, BoundsUp, KnownSame, SparedRearms
  <1>5. CASE ClaimAges
    <2>1. /\ task' = [task EXCEPT !.claim_old = TRUE]
          /\ UNCHANGED <<agents, ctx, prompts, doing, cohort>> /\ UNCHANGED bounds
      BY <1>5 DEF ClaimAges
    <2>2. task'.status = task.status  BY <1>t, <2>1 DEF TaskRow
    <2>3. Unrecorded  BY <2>1, <2>2 DEF Unrecorded
    <2> QED BY <1>t, <2>1, <2>3, BoundsSame, KnownSame, SparedSame, SparedRearms
  <1>6. CASE Crash
    <2>1. /\ faults < MaxFaults /\ faults' = faults + 1
          /\ UNCHANGED <<task, agents, ctx, prompts>> /\ UNCHANGED <<setbacks, human>>
      BY <1>6 DEF Crash, rows
    <2>2. BoundsGrow /\ faults' # 0  BY <1>t, <2>1, BoundsUp DEF TypeOK
    <2> QED BY <1>t, <2>1, <2>2, KnownStays, SparedSame, SparedRearms
  <1>7. CASE Merge
    <2>1. /\ task' = [task EXCEPT !.status = "done"] /\ task.status = "ready_to_merge"
          /\ UNCHANGED <<agents, ctx, prompts, doing, cohort>> /\ UNCHANGED bounds
      BY <1>7 DEF Merge
    <2>2. Unrecorded  BY <2>1 DEF Unrecorded, Concluded
    <2> QED BY <1>t, <2>1, <2>2, BoundsSame, KnownSame, SparedSame, SparedRearms
  <1>8. ASSUME NEW p \in Loops, WindowOpens(p) PROVE VerdictKnown' /\ (faults = 0 => Rearms)
    <2> DEFINE a == doing[p].agent
    <2>1. /\ \/ agents' = [agents EXCEPT ![a].status = "running", ![a].pane = TRUE] /\ task' = task
             \/ agents' = [agents EXCEPT ![a].pane = TRUE] /\ Unclaim(p)
          /\ UNCHANGED <<ctx, prompts, cohort>> /\ UNCHANGED bounds
      BY <1>8 DEF WindowOpens
    <2>2. task' = task \/ task'.status = "ready"  BY <1>t, <2>1, Unclaimed
    <2>3. Unrecorded  BY <2>1, <2>2 DEF Unrecorded, Concluded
    <2>4. a \in Ids  BY <1>8, Rows DEF WindowOpens, At, Unplaced
    <2> HIDE DEF a
    <2>5. Spared
      <3>1. agents[a] \in AgentRow  BY <1>t, <2>4
      <3>2. PICK r : /\ agents' = [agents EXCEPT ![a] = r]
                     /\ r \in {[agents[a] EXCEPT !.status = "running", !.pane = TRUE],
                               [agents[a] EXCEPT !.pane = TRUE]}
        BY <1>t, <2>1, <2>4
      <3>3. r.status \in {"running", agents[a].status}  BY <3>1, <3>2 DEF AgentRow
      <3> QED BY <1>t, <2>4, <3>2, <3>3, SparedRow DEF LiveAs, Holds
    <2> QED BY <1>t, <2>1, <2>3, <2>5, BoundsSame, KnownSame, SparedRearms
  <1>9. ASSUME NEW p \in Loops, WindowFails(p) PROVE VerdictKnown' /\ (faults = 0 => Rearms)
    <2>1. /\ Unclaim(p) /\ UNCHANGED <<agents, ctx, prompts, cohort>>
          /\ faults < MaxFaults /\ faults' = faults + 1 /\ UNCHANGED <<setbacks, human>>
      BY <1>9 DEF WindowFails
    <2>2. task' = task \/ task'.status = "ready"  BY <1>t, <2>1, Unclaimed
    <2>3. Unrecorded  BY <2>1, <2>2 DEF Unrecorded, Concluded
    <2> QED BY <1>t, <2>1, <2>3, BoundsUp, KnownSame, SparedSame, SparedRearms
  <1> QED BY <1>1, <1>2, <1>3, <1>4, <1>5, <1>6, <1>7, <1>8, <1>9 DEF CommentPass, Human

LEMMA AgentKnown ==
    ASSUME PipeIInv, VerdictKnown, NEW a \in Ids, Agent(a)
    PROVE  VerdictKnown' /\ Rearms
  <1>t. /\ PipeTyped /\ TypeOK /\ task \in TaskRow /\ agents \in [Ids -> AgentRow] /\ ctx \in Ctx
        /\ agents[a] \in AgentRow
    BY Rows
  <1>1. /\ UNCHANGED <<ctx, prompts, doing, cohort>> /\ BoundsGrow
    <2>1. /\ UNCHANGED <<ctx, prompts, doing, cohort>>
          /\ \/ UNCHANGED bounds
             \/ setbacks < MaxSetbacks /\ setbacks' = setbacks + 1 /\ UNCHANGED <<faults, human>>
      BY <1>t DEF Agent, Answers, Brief, SetPR, Release, Done, DoneRed, SayVerdict, FallsSilent,
                  PaneDies, bounds
    <2> QED BY <1>t, <2>1, BoundsSame, BoundsUp
  <1>2. task' = task \/ task'.status \in {"review", "ready"}
    <2>1. \/ task' = task
          \/ task' = [task EXCEPT !.status = "review", !.pr_open = TRUE]
          \/ \E to \in {"review", "ready"} : task' = [task EXCEPT !.status = to, !.claimed_by = Nobody]
      BY DEF Agent, Answers, Brief, SetPR, Release, Done, DoneRed, Finish, SayVerdict, FallsSilent,
             PaneDies
    <2> QED BY <1>t, <2>1 DEF TaskRow
  <1>3. Spared
    <2>1. CASE UNCHANGED agents  BY <2>1, SparedSame
    <2>2. CASE Release(a)  BY <1>t, <2>2, SparedRow DEF Release, LiveAs
    <2>3. CASE PaneDies(a)
      <3>1. PICK s \in {agents[a].status, "stopped"} :
               agents' = [agents EXCEPT ![a].pane = FALSE, ![a].status = s]
        BY <2>3 DEF PaneDies
      <3> DEFINE r == [agents[a] EXCEPT !.pane = FALSE, !.status = s]
      <3>2. r.status = s  BY <1>t DEF AgentRow
      <3>3. agents' = [agents EXCEPT ![a] = r]  BY <1>t, <3>1
      <3> HIDE DEF r
      <3> QED BY <1>t, <3>2, <3>3, SparedRow DEF LiveAs, Holds
    <2>4. CASE Done(a) \/ DoneRed(a)
      <3>1. agents' = [agents EXCEPT ![a].bound = FALSE, ![a].status = "idle", ![a].briefed = FALSE]
        BY <2>4 DEF Done, DoneRed, Finish
      <3> DEFINE r == [agents[a] EXCEPT !.bound = FALSE, !.status = "idle", !.briefed = FALSE]
      <3>2. r.status = "idle"  BY <1>t DEF AgentRow
      <3>3. agents' = [agents EXCEPT ![a] = r]  BY <1>t, <3>1
      <3> HIDE DEF r
      <3> QED BY <1>t, <3>2, <3>3, SparedRow
    <2>5. ASSUME NEW v, \/ agents' = [agents EXCEPT ![a].briefed = v]
                        \/ agents' = [agents EXCEPT ![a].said = v]
                        \/ agents' = [agents EXCEPT ![a].silent = v]
          PROVE  Spared
      <3>1. PICK r : /\ agents' = [agents EXCEPT ![a] = r]
                     /\ r \in {[agents[a] EXCEPT !.briefed = v], [agents[a] EXCEPT !.said = v],
                               [agents[a] EXCEPT !.silent = v]}
        BY <1>t, <2>5
      <3>2. r.status = agents[a].status  BY <1>t, <3>1 DEF AgentRow
      <3> QED BY <1>t, <3>1, <3>2, SparedRow DEF LiveAs, Holds
    <2> QED BY <2>1, <2>2, <2>3, <2>4, <2>5
            DEF Agent, Answers, Brief, SetPR, SayVerdict, FallsSilent
  <1>4. Unrecorded  BY <1>1, <1>2 DEF Unrecorded, Concluded
  <1> QED BY <1>1, <1>3, <1>4, KnownSame, SparedRearms

LEMMA KnownStep == PipeIInv /\ VerdictKnown /\ [Next]_vars => VerdictKnown' /\ (faults = 0 => Rearms)
  <1> SUFFICES ASSUME PipeIInv, VerdictKnown, [Next]_vars
               PROVE  VerdictKnown' /\ (faults = 0 => Rearms)
    OBVIOUS
  <1>1. CASE UNCHANGED vars
    <2>1. UNCHANGED <<task, agents, ctx, prompts, doing, cohort>> /\ UNCHANGED bounds
      BY <1>1 DEF vars, bounds
    <2> QED BY <2>1, Rows, BoundsSame, KnownSame, SparedSame, SparedRearms DEF Unrecorded
  <1> QED BY <1>1, SchedulerKnown, DispatcherKnown, OthersKnown, AgentKnown DEF Next

LEMMA KnownInitial == Init => VerdictKnown
  BY DEF Init, VerdictKnown, Concluded

\* The watchdog that retires a fixer leaves the task where a pass finds it, with
\* or without humans: a request for changes is on record unless a newer verdict
\* superseded it, and then the task leaves changes_requested.
THEOREM RetiredFixersRearm == Spec => FixerRetireRearms
  <1>1. PipeIInv /\ VerdictKnown /\ [Next]_vars => [faults = 0 => Rearms]_vars
    BY KnownStep
  <1> QED BY PipeInitial, PipeStep, KnownInitial, KnownStep, <1>1, PTL DEF Spec, FixerRetireRearms
-----------------------------------------------------------------------------
(* Left alone: what a step that begins and ends no spawn keeps.             *)

Spawners == {"scheduler", "dispatcher"}
Leaves(p) == \/ doing'[p] = doing[p]
             \/ doing'[p].at \in Unplaced \cup {"dropped"}

\* Rows of holders stay, but for their death; those at hand stay alive.
HoldersOnly ==
    /\ agents' \in [Ids -> AgentRow]
    /\ \A a \in Ids : agents'[a].role = agents[a].role /\ (Holds(a)' => Holds(a))
AtHand(p) == doing[p].at \notin Unplaced \cup {"dropped"}
AtHandKept ==
    \A p \in Spawners : (doing'[p] = doing[p] /\ AtHand(p)) =>
        LET a == doing[p].agent IN
        /\ agents'[a].bound = agents[a].bound
        /\ agents'[a].status = agents[a].status \/ doing[p].at = "inserted"

\* No holder loses a prompt, and the round's keys are given to nobody new.
PromptsKept ==
    /\ \A k \in Keys, a \in Ids : (prompts[k] = a /\ Holds(a)') => prompts'[k] = a
    /\ \A r \in Rounds : /\ prompts'[<<"review", r>>] \in {prompts[<<"review", r>>], Nobody}
                         /\ prompts'[<<"fix", r>>] \in {prompts[<<"fix", r>>], Nobody}

\* Whoever works keeps its claim.
ClaimKept ==
    /\ task'.rounds = task.rounds /\ ctx'.fix \subseteq ctx.fix
    /\ task'.status \in {"claimed", "changes_requested"} =>
           \/ SlotFree'
           \/ task'.status = task.status /\ task'.claimed_by = task.claimed_by

\* An agent whose goroutine leaves it is on duty.
Handed == \A a \in Ids : (Holds(a)' /\ ~Busy(a)') => ~Busy(a) \/ Duty(a)'

LEMMA KeysOfRounds ==
    ASSUME TypeOK
    PROVE  /\ task.rounds \in Rounds /\ <<"task", 0>> \in Keys
           /\ \A r \in Rounds : <<"review", r>> \in Keys /\ <<"fix", r>> \in Keys
  BY DEF TypeOK, TaskRow, Keys

LEMMA AttendedStays ==
    ASSUME PipeTyped, Attended, HoldersOnly, AtHandKept, PromptsKept, ClaimKept, Handed, EpisodeOpen',
           \A p \in Spawners : Leaves(p)
    PROVE  Attended'
  <1>t. /\ task.rounds \in Rounds /\ <<"task", 0>> \in Keys
        /\ \A r \in Rounds : <<"review", r>> \in Keys /\ <<"fix", r>> \in Keys
    BY KeysOfRounds DEF PipeTyped
  <1>u. Unfixed => Unfixed'  BY <1>t DEF Unfixed, PromptsKept, ClaimKept
  <1>1. RoundsFresh'
    BY <1>t DEF Attended, RoundsFresh, PromptsKept, ClaimKept
  <1>2. \A a \in Ids : (Duty(a) /\ Holds(a)') => Duty(a)'
    <2> SUFFICES ASSUME NEW a \in Ids, Duty(a), Holds(a)' PROVE Duty(a)'
      OBVIOUS
    <2>1. agents'[a].role = agents[a].role /\ ~SlotFree'  BY DEF HoldersOnly, SlotFree
    <2>2. \A k \in Keys : prompts[k] = a => prompts'[k] = a  BY DEF PromptsKept
    <2> QED BY <1>t, <1>u, <2>1, <2>2 DEF Duty, ClaimKept
  <1>3. OnTheirDuty'
    <2> SUFFICES ASSUME NEW a \in Ids, Holds(a)'
                 PROVE  agents'[a].role # "none" /\ (~Busy(a)' => Duty(a)')
      BY DEF OnTheirDuty
    <2>1. Holds(a) /\ agents'[a].role = agents[a].role  BY DEF HoldersOnly
    <2> QED BY <1>2, <2>1 DEF Attended, OnTheirDuty, Handed
  <1>4. AtWork'
    <2>1. /\ Scheduling' => Scheduling /\ doing'["scheduler"] = doing["scheduler"]
          /\ Dispatching' => Dispatching /\ doing'["dispatcher"] = doing["dispatcher"]
          /\ doing'["dispatcher"].at = "swept" => doing'["dispatcher"] = doing["dispatcher"]
      BY DEF Spawners, Leaves, Unplaced, Scheduling, Dispatching
    <2>2. \A p \in Spawners : doing[p].at \notin Unplaced => doing[p].agent \in Ids
      BY DEF PipeTyped, Placed, Spawners, Loops
    <2>3. AtWork  BY DEF Attended
    <2>4. ASSUME NEW a \in Ids, NEW place, Employed(a, place), agents'[a].bound = agents[a].bound,
                 agents'[a].status = agents[a].status \/ place = "inserted"
          PROVE  Employed(a, place)'
      <3>1. agents'[a].role = agents[a].role  BY DEF HoldersOnly
      <3>2. place # "inserted" => Running(a)' /\ Holds(a)'
        BY <2>4 DEF Employed, Running, Holds
      <3>3. place = "prompted" => prompts'[<<"task", 0>>] = a
        BY <1>t, <2>4, <3>2 DEF Employed, PromptsKept
      <3> QED BY <2>4, <3>1, <3>2, <3>3 DEF Employed
    <2>5. ASSUME NEW a \in Ids, NEW place, Summoned(a, place), agents'[a].bound = agents[a].bound,
                 agents'[a].status = agents[a].status \/ place = "inserted"
          PROVE  Summoned(a, place)'
      <3>1. agents'[a].role = agents[a].role  BY DEF HoldersOnly
      <3>2. place # "inserted" => Running(a)' /\ Holds(a)'
        BY <2>5 DEF Summoned, Running, Holds
      <3>3. place = "bumped" => prompts'[<<"review", task'.rounds>>] = Nobody
        BY <1>t, <2>5 DEF Summoned, PromptsKept, ClaimKept
      <3>4. place = "fix_claimed" /\ task'.status = "changes_requested" => task'.claimed_by = a
        BY <2>5, <3>2 DEF Summoned, ClaimKept, SlotFree
      <3> QED BY <1>u, <2>5, <3>1, <3>2, <3>3, <3>4 DEF Summoned
    <2>6. ASSUME Scheduling' PROVE Employed(doing["scheduler"].agent, doing["scheduler"].at)'
      <3>1. PICK a \in Ids, place \in {doing["scheduler"].at} :
               a = doing["scheduler"].agent /\ AtHand("scheduler")
        BY <2>1, <2>2, <2>6 DEF Spawners, Scheduling, Unplaced, AtHand
      <3>2. Employed(a, place)  BY <2>1, <2>3, <2>6, <3>1 DEF AtWork
      <3>3. Employed(a, place)'
        BY <2>1, <2>4, <2>6, <3>1, <3>2 DEF AtHandKept, Spawners
      <3> QED BY <2>1, <2>6, <3>1, <3>3 DEF Employed, Running
    <2>7. ASSUME Dispatching' PROVE Summoned(doing["dispatcher"].agent, doing["dispatcher"].at)'
      <3>1. PICK a \in Ids, place \in {doing["dispatcher"].at} :
               a = doing["dispatcher"].agent /\ AtHand("dispatcher")
        BY <2>1, <2>2, <2>7 DEF Spawners, Dispatching, Unplaced, AtHand
      <3>2. Summoned(a, place)  BY <2>1, <2>3, <2>7, <3>1 DEF AtWork
      <3>3. Summoned(a, place)'
        BY <2>1, <2>5, <2>7, <3>1, <3>2 DEF AtHandKept, Spawners
      <3> QED BY <2>1, <2>7, <3>1, <3>3 DEF Summoned, Running, Unfixed
    <2>8. ASSUME doing'["dispatcher"].at = "swept"
          PROVE  /\ agents'[doing'["dispatcher"].agent].status = "dead"
                 /\ Scheduling' => doing'["dispatcher"].agent # doing'["scheduler"].agent
      <3>1. doing["dispatcher"].at = "swept"  BY <2>1, <2>8
      <3>2. agents[doing["dispatcher"].agent].status = "dead"  BY <2>3, <3>1 DEF AtWork
      <3>3. agents'[doing["dispatcher"].agent].status = "dead"
        BY <2>1, <2>8, <3>1, <3>2 DEF AtHandKept, AtHand, Spawners, Unplaced
      <3> QED BY <2>1, <2>3, <2>8, <3>1, <3>3 DEF AtWork
    <2> QED BY <2>6, <2>7, <2>8 DEF AtWork
  <1> QED BY <1>1, <1>3, <1>4 DEF Attended

\* The episode of a task that stays in changes_requested, with its holders.
LEMMA EpisodeKept ==
    ASSUME PipeTyped, Attended, PromptsKept, task'.rounds = task.rounds, ctx'.fix \subseteq ctx.fix,
           task'.status = "changes_requested" => task.status = "changes_requested",
           \A a \in Ids : LiveAs(a, "fixer") => LiveAs(a, "fixer")'
    PROVE  EpisodeOpen'
  <1>t. task.rounds \in Rounds /\ <<"fix", task.rounds>> \in Keys
    BY KeysOfRounds DEF PipeTyped
  <1>1. \A a \in Ids : prompts'[<<"fix", task.rounds>>] = a => prompts[<<"fix", task.rounds>>] = a
    <2>1. prompts'[<<"fix", task.rounds>>] \in {prompts[<<"fix", task.rounds>>], Nobody}
      BY <1>t DEF PromptsKept
    <2>2. \A a \in Ids : a # Nobody  BY DEF Ids, Nobody
    <2> QED BY <2>1, <2>2
  <1> QED BY <1>1 DEF Attended, EpisodeOpen

LEMMA EpisodeNone ==
    ASSUME task'.status = "changes_requested" =>
               prompts'[<<"fix", task'.rounds>>] \notin Ids /\ task'.rounds \notin ctx'.fix
    PROVE  EpisodeOpen'
  BY DEF EpisodeOpen
LEMMA KeptSame ==
    ASSUME agents \in [Ids -> AgentRow], UNCHANGED agents
    PROVE  HoldersOnly /\ AtHandKept
  BY DEF HoldersOnly, AtHandKept, Holds

LEMMA TameHolders == ASSUME Tame PROVE HoldersOnly
  BY DEF Tame, RowsKept, HoldersOnly, Holds

\* One row changes, and whoever is at work on it leaves it, or cares for its binding only.
LEMMA AtHandRow ==
    ASSUME PipeTyped, NEW a \in Ids, NEW r, agents' = [agents EXCEPT ![a] = r],
           \A p \in Spawners : (doing'[p] = doing[p] /\ AtHand(p) /\ doing[p].agent = a) =>
               /\ r.bound = agents[a].bound
               /\ r.status = agents[a].status \/ doing[p].at = "inserted"
    PROVE  AtHandKept
  <1>1. \A p \in Spawners : AtHand(p) => doing[p].agent \in Ids
    BY DEF PipeTyped, Placed, Spawners, Loops, AtHand
  <1> QED BY <1>1 DEF AtHandKept, PipeTyped, TypeOK

LEMMA PromptsSame ==
    ASSUME TypeOK, UNCHANGED prompts
    PROVE  PromptsKept
  BY DEF PromptsKept

LEMMA PromptsDropped ==
    ASSUME TypeOK, NEW a \in Ids, ~Holds(a)', prompts' = DropPrompts(a)
    PROVE  PromptsKept
  <1>1. \A k \in Keys : prompts'[k] = IF prompts[k] = a THEN Nobody ELSE prompts[k]
    BY DEF DropPrompts
  <1>2. \A r \in Rounds : <<"review", r>> \in Keys /\ <<"fix", r>> \in Keys
    BY KeysOfRounds
  <1> QED BY <1>1, <1>2 DEF PromptsKept

LEMMA HandedSame ==
    ASSUME \A a \in Ids : (Busy(a) /\ Holds(a)') => Busy(a)'
    PROVE  Handed
  BY DEF Handed

\* The holder dies, and nobody at work was at work on it.
LEMMA AttendedRetired ==
    ASSUME PipeTyped, Attended, NEW a \in Ids, Holds(a), NEW pane \in BOOLEAN,
           agents' = [agents EXCEPT ![a] = Dead(agents[a], pane)],
           UNCHANGED prompts \/ prompts' = DropPrompts(a),
           task'.rounds = task.rounds, ctx'.fix \subseteq ctx.fix, EpisodeOpen',
           \A p \in Spawners : /\ Leaves(p)
                               /\ (doing'[p] = doing[p] /\ AtHand(p)) => doing[p].agent # a
    PROVE  Attended'
  <1>1. Tame /\ ~Holds(a)'  BY TameDead DEF PipeTyped, TypeOK
  <1>2. SlotFree'  BY <1>1 DEF PipeTyped, OneHolder, SlotFree, Tame, Holds
  <1>3. HoldersOnly  BY <1>1, TameHolders
  <1>4. AtHandKept
    <2> DEFINE r == Dead(agents[a], pane)
    <2>1. agents' = [agents EXCEPT ![a] = r]  OBVIOUS
    <2>2. \A p \in Spawners : (doing'[p] = doing[p] /\ AtHand(p) /\ doing[p].agent = a) => FALSE
      OBVIOUS
    <2> HIDE DEF r
    <2> QED BY <2>1, <2>2, AtHandRow
  <1>5. PromptsKept  BY <1>1, PromptsSame, PromptsDropped DEF PipeTyped
  <1>6. ClaimKept  BY <1>2 DEF ClaimKept
  <1>7. Handed  BY <1>2 DEF Handed, SlotFree
  <1> QED BY <1>3, <1>4, <1>5, <1>6, <1>7, AttendedStays

\* Only the task changes.
LEMMA AttendedTask ==
    ASSUME PipeTyped, Attended, UNCHANGED <<agents, prompts, doing>>, ctx'.fix \subseteq ctx.fix,
           task'.rounds = task.rounds,
           task'.status \in {"claimed", "changes_requested"} =>
               task'.status = task.status /\ task'.claimed_by = task.claimed_by
    PROVE  Attended'
  <1>1. HoldersOnly /\ AtHandKept  BY KeptSame DEF PipeTyped, TypeOK
  <1>2. PromptsKept  BY PromptsSame DEF PipeTyped
  <1>3. Handed  BY DEF Handed, Busy, Scheduling, Dispatching
  <1>4. ClaimKept  BY DEF ClaimKept
  <1>5. EpisodeOpen'  BY <1>2, EpisodeKept DEF LiveAs, Holds
  <1> QED BY <1>1, <1>2, <1>3, <1>4, <1>5, AttendedStays DEF Leaves

\* A goroutine leaves an operation in which it holds nobody.
LEMMA AttendedLeft ==
    ASSUME PipeTyped, Attended, UNCHANGED <<agents, prompts>>, ctx'.fix \subseteq ctx.fix,
           \A p \in Spawners : \/ doing'[p] = doing[p]
                               \/ ~AtHand(p) /\ doing'[p].at \in Unplaced,
           task' = task \/ (task'.rounds = task.rounds /\ task'.status = "ready")
    PROVE  Attended'
  <1>1. HoldersOnly /\ AtHandKept  BY KeptSame DEF PipeTyped, TypeOK
  <1>2. PromptsKept  BY PromptsSame DEF PipeTyped
  <1>3. Handed
    BY DEF Handed, Busy, Scheduling, Dispatching, AtHand, Spawners, Unplaced
  <1>4. ClaimKept  BY DEF ClaimKept
  <1>5. EpisodeOpen'  BY <1>2, EpisodeKept DEF LiveAs, Holds
  <1> QED BY <1>1, <1>2, <1>3, <1>4, <1>5, AttendedStays DEF Leaves

\* A spawn begins.
LEMMA InsertAttends ==
    ASSUME PipeIInv, Attended, NEW p \in Spawners, NEW role \in {"implementor", "reviewer", "fixer"},
           NEW a \in Ids, Inserts(a, role), doing'[p].at = "inserted", doing'[p].agent = a,
           \A q \in Spawners : q # p => doing'[q] = doing[q],
           p = "scheduler" => role = "implementor", UNCHANGED <<task, ctx, prompts>>
    PROVE  Attended'
  <1>t. PipeTyped /\ TypeOK  BY Rows
  <1>1. /\ agents'[a].role = role /\ agents'[a].status = "stopped" /\ agents'[a].bound
        /\ agents[a].status = "absent"
        /\ \A b \in Ids : b # a => agents'[b] = agents[b] /\ ~Holds(b)'
    BY <1>t, Inserted
  <1>2. \A q \in Spawners : q # p /\ AtHand(q) =>
           /\ doing'[q] = doing[q] /\ doing[q].agent \in Ids /\ doing[q].agent # a
           /\ agents'[doing[q].agent] = agents[doing[q].agent]
    BY <1>t, <1>1 DEF PipeTyped, Placed, Spawners, Loops, AtHand
  <1>3. RoundsFresh'  BY DEF Attended, RoundsFresh
  <1>4. EpisodeOpen'  BY EpisodeNone DEF Attended, EpisodeOpen, LiveAs, Inserts, SlotFree
  <1>5. CASE p = "scheduler"
    <2>1. OnTheirDuty'
      BY <1>1, <1>5 DEF OnTheirDuty, Busy, Scheduling
    <2>2. Employed(doing["scheduler"].agent, doing["scheduler"].at)'
      BY <1>1, <1>5 DEF Employed
    <2>3. ASSUME Dispatching'
          PROVE  Summoned(doing["dispatcher"].agent, doing["dispatcher"].at)'
      <3>1. doing'["dispatcher"] = doing["dispatcher"]  BY <1>5 DEF Spawners
      <3>2. AtHand("dispatcher") /\ Dispatching  BY <2>3, <3>1 DEF AtHand, Dispatching, Unplaced
      <3>3. Summoned(doing["dispatcher"].agent, doing["dispatcher"].at)
        BY <3>2 DEF Attended, AtWork
      <3> QED BY <1>2, <1>5, <3>1, <3>2, <3>3 DEF Summoned, Running, Unfixed, Spawners
    <2>4. ASSUME doing'["dispatcher"].at = "swept"
          PROVE  /\ agents'[doing'["dispatcher"].agent].status = "dead"
                 /\ doing'["dispatcher"].agent # a
      <3>1. doing'["dispatcher"] = doing["dispatcher"]  BY <1>5 DEF Spawners
      <3>2. AtHand("dispatcher")  BY <2>4, <3>1 DEF AtHand, Unplaced
      <3> QED BY <1>2, <1>5, <2>4, <3>1, <3>2 DEF Spawners, Attended, AtWork
    <2> QED BY <1>3, <1>4, <1>5, <2>1, <2>2, <2>3, <2>4 DEF Attended, AtWork
  <1>6. CASE p = "dispatcher"
    <2>1. OnTheirDuty'
      BY <1>1, <1>6 DEF OnTheirDuty, Busy, Dispatching
    <2>2. Summoned(doing["dispatcher"].agent, doing["dispatcher"].at)'
      BY <1>1, <1>6 DEF Summoned
    <2>3. ASSUME Scheduling'
          PROVE  Employed(doing["scheduler"].agent, doing["scheduler"].at)'
      <3>1. doing'["scheduler"] = doing["scheduler"]  BY <1>6 DEF Spawners
      <3>2. AtHand("scheduler") /\ Scheduling  BY <2>3, <3>1 DEF AtHand, Scheduling, Unplaced
      <3>3. Employed(doing["scheduler"].agent, doing["scheduler"].at)
        BY <3>2 DEF Attended, AtWork
      <3> QED BY <1>2, <1>6, <3>1, <3>2, <3>3 DEF Employed, Running, Spawners
    <2> QED BY <1>3, <1>4, <1>6, <2>1, <2>2, <2>3 DEF Attended, AtWork
  <1> QED BY <1>5, <1>6 DEF Spawners

\* Whoever the goroutines have at work holds the task, so that nobody else does.
LEMMA AloneAtWork ==
    ASSUME PipeTyped, Attended
    PROVE  /\ (Scheduling /\ doing["scheduler"].at # "inserted") =>
                  /\ doing["scheduler"].agent \in Ids /\ Holds(doing["scheduler"].agent)
                  /\ \A b \in Ids : Holds(b) => b = doing["scheduler"].agent
           /\ (Dispatching /\ doing["dispatcher"].at # "inserted") =>
                  /\ doing["dispatcher"].agent \in Ids /\ Holds(doing["dispatcher"].agent)
                  /\ \A b \in Ids : Holds(b) => b = doing["dispatcher"].agent
  <1>1. \A p \in Spawners : AtHand(p) => doing[p].agent \in Ids
    BY DEF PipeTyped, Placed, Spawners, Loops, AtHand
  <1>2. \A a \in Ids : Running(a) => Holds(a) /\ \A b \in Ids : Holds(b) => b = a
    BY DEF Running, Holds, PipeTyped, OneHolder
  <1>3. AtWork  BY DEF Attended
  <1>4. (Scheduling /\ doing["scheduler"].at # "inserted") =>
           doing["scheduler"].agent \in Ids /\ Running(doing["scheduler"].agent)
    BY <1>1, <1>3 DEF Scheduling, AtHand, Spawners, Unplaced, AtWork, Employed
  <1>5. (Dispatching /\ doing["dispatcher"].at # "inserted") =>
           doing["dispatcher"].agent \in Ids /\ Running(doing["dispatcher"].agent)
    BY <1>1, <1>3 DEF Dispatching, AtHand, Spawners, Unplaced, AtWork, Summoned
  <1> QED BY <1>2, <1>4, <1>5
LEMMA SchedulerAttends ==
    ASSUME PipeIInv, VerdictKnown, Quiet, Attended, Scheduler
    PROVE  Attended'
  <1> USE DEF At
  <1>t. /\ PipeTyped /\ TypeOK /\ task \in TaskRow /\ agents \in [Ids -> AgentRow] /\ ctx \in Ctx
        /\ ClaimIsOurs /\ SpawnIsOurs
    BY Rows
  <1>a. \A p \in Spawners : AtHand(p) => doing[p].agent \in Ids
    BY <1>t DEF PipeTyped, Placed, Spawners, Loops, AtHand
  <1>1. CASE ClaimReady
    <2>1. /\ doing["scheduler"].at = "idle" /\ task.status = "ready" /\ \A a \in Ids : ~Live(a)
          /\ agents' = [a \in Ids |-> IF Holds(a) THEN Dead(agents[a], agents[a].pane) ELSE agents[a]]
          /\ task' = [task EXCEPT !.status = "claimed", !.claim_old = FALSE]
          /\ Go("scheduler", "claimed") /\ UNCHANGED <<ctx, prompts, cohort>>
      BY <1>1 DEF ClaimReady
    <2>2. \A a \in Ids : /\ agents'[a] \in AgentRow
                         /\ agents'[a].role = agents[a].role /\ agents'[a].bound = agents[a].bound
                         /\ agents'[a].status = "dead" \/ agents'[a] = agents[a]
                         /\ Holds(a) => agents'[a].status = "dead"
      <3> SUFFICES ASSUME NEW a \in Ids
                   PROVE  /\ agents'[a] \in AgentRow
                          /\ agents'[a].role = agents[a].role /\ agents'[a].bound = agents[a].bound
                          /\ agents'[a].status = "dead" \/ agents'[a] = agents[a]
                          /\ Holds(a) => agents'[a].status = "dead"
        OBVIOUS
      <3>1. agents[a] \in AgentRow /\ agents[a].pane \in BOOLEAN  BY <1>t DEF AgentRow
      <3>2. LET d == Dead(agents[a], agents[a].pane)
            IN  /\ d \in AgentRow /\ d.role = agents[a].role /\ d.bound = agents[a].bound
                /\ d.status = "dead"
        BY <3>1, DeadRow
      <3> QED BY <2>1, <3>1, <3>2
    <2>3. SlotFree'  BY <2>2 DEF SlotFree, Holds
    <2>4. HoldersOnly  BY <2>1, <2>2, <2>3 DEF HoldersOnly, SlotFree
    <2>5. /\ doing'["scheduler"].at = "claimed" /\ doing'["dispatcher"] = doing["dispatcher"]
      BY <1>t, <2>1, Went DEF Loops
    <2>6. AtHandKept
      <3> SUFFICES ASSUME NEW p \in Spawners, doing'[p] = doing[p], AtHand(p)
                   PROVE  /\ agents'[doing[p].agent].bound = agents[doing[p].agent].bound
                          /\ \/ agents'[doing[p].agent].status = agents[doing[p].agent].status
                             \/ doing[p].at = "inserted"
        BY DEF AtHandKept
      <3>1. p = "dispatcher" /\ doing[p].agent \in Ids  BY <1>a, <2>1 DEF Spawners, AtHand, Unplaced
      <3>2. doing[p].at = "inserted" \/ doing[p].at = "swept"
        <4>1. Dispatching /\ doing[p].at # "inserted" => Running(doing[p].agent)
          BY <3>1 DEF Attended, AtWork, Summoned
        <4>2. doing[p].at \in Places["dispatcher"]  BY <1>t, <3>1 DEF PipeTyped, Placed, Loops
        <4> QED BY <2>1, <3>1, <4>1, <4>2 DEF Running, Live, Dispatching, AtHand, Unplaced, Places
      <3>3. doing[p].at = "swept" => agents[doing[p].agent].status = "dead"
        BY <3>1 DEF Attended, AtWork
      <3> QED BY <2>2, <3>1, <3>2, <3>3
    <2>7. task'.rounds = task.rounds /\ task'.status = "claimed"  BY <1>t, <2>1 DEF TaskRow
    <2>8. PromptsKept  BY <1>t, <2>1, PromptsSame
    <2>9. ClaimKept  BY <2>1, <2>3, <2>7 DEF ClaimKept
    <2>10. EpisodeOpen'  BY <2>7, EpisodeNone
    <2>11. Handed  BY <2>3 DEF Handed, SlotFree
    <2>12. \A p \in Spawners : Leaves(p)  BY <2>5 DEF Spawners, Leaves, Unplaced
    <2> QED BY <1>t, <2>4, <2>6, <2>8, <2>9, <2>10, <2>11, <2>12, AttendedStays
  <1>2. CASE SpawnWorker
    <2>1. PICK a \in Ids : /\ Inserts(a, "implementor")
                           /\ doing' = [doing EXCEPT !["scheduler"].at = "inserted", !["scheduler"].agent = a]
      BY <1>2 DEF SpawnWorker, Insert, Inserts
    <2>2. UNCHANGED <<task, ctx, prompts>>  BY <1>2 DEF SpawnWorker
    <2>3. /\ doing'["scheduler"].at = "inserted" /\ doing'["scheduler"].agent = a
          /\ doing'["dispatcher"] = doing["dispatcher"]
      BY <1>t, <2>1, WentWith DEF Loops
    <2> QED BY <2>1, <2>2, <2>3, InsertAttends DEF Spawners
  <1>3. CASE SpawnWorkerBlocked
    <2>1. /\ Unclaim("scheduler") /\ Rest("scheduler") /\ UNCHANGED <<agents, ctx, prompts>>
          /\ doing["scheduler"].at = "claimed"
      BY <1>3 DEF SpawnWorkerBlocked
    <2>2. task' = task \/ (task'.rounds = task.rounds /\ task'.status = "ready")
      BY <1>t, <2>1, Unclaimed DEF Loops
    <2>3. doing'["scheduler"].at = "idle" /\ doing'["dispatcher"] = doing["dispatcher"]
      BY <1>t, <2>1, SteadyRest DEF Loops, Idle
    <2> QED BY <1>t, <2>1, <2>2, <2>3, AttendedLeft DEF Spawners, AtHand, Unplaced
  <1>4. CASE EnqueueWork
    <2>1. /\ prompts' = [prompts EXCEPT ![<<"task", 0>>] = doing["scheduler"].agent]
          /\ Go("scheduler", "prompted") /\ doing["scheduler"].at = "running"
          /\ UNCHANGED <<task, agents, ctx>>
      BY <1>4 DEF EnqueueWork
    <2>2. PICK a \in Ids : /\ a = doing["scheduler"].agent /\ Holds(a)
                           /\ \A b \in Ids : Holds(b) => b = a
      BY <1>t, <2>1, AloneAtWork DEF Scheduling
    <2>3. /\ doing'["scheduler"].at = "prompted" /\ doing'["scheduler"].agent = a
          /\ doing'["dispatcher"] = doing["dispatcher"]
      BY <1>t, <2>1, <2>2, Went DEF Loops
    <2>4. /\ prompts'[<<"task", 0>>] = a
          /\ \A r \in Rounds : /\ prompts'[<<"review", r>>] = prompts[<<"review", r>>]
                               /\ prompts'[<<"fix", r>>] = prompts[<<"fix", r>>]
      BY <1>t, <2>1, <2>2, KeysOfRounds DEF TypeOK
    <2>5. task.rounds \in Rounds  BY <1>t, KeysOfRounds
    <2>6. RoundsFresh'  BY <2>1, <2>4 DEF Attended, RoundsFresh
    <2>7. EpisodeOpen'  BY <2>1, <2>4, <2>5 DEF Attended, EpisodeOpen, LiveAs, Holds
    <2>8. OnTheirDuty'
      <3>1. Busy(a)'  BY <2>3 DEF Busy, Scheduling
      <3>2. \A b \in Ids : Holds(b)' => b = a /\ agents'[b].role # "none"
        BY <2>1, <2>2 DEF Holds, Attended, OnTheirDuty
      <3> QED BY <3>1, <3>2 DEF OnTheirDuty
    <2>9. Employed(a, "running")  BY <2>1, <2>2 DEF Attended, AtWork, Scheduling
    <2>10. Employed(doing["scheduler"].agent, doing["scheduler"].at)'
      BY <2>1, <2>3, <2>4, <2>9 DEF Employed, Running
    <2>11. Dispatching' => Summoned(doing["dispatcher"].agent, doing["dispatcher"].at)'
      BY <2>1, <2>3, <2>4, <2>5 DEF Attended, AtWork, Dispatching, Summoned, Running, Unfixed
    <2>12. doing'["dispatcher"].at = "swept" =>
              agents'[doing'["dispatcher"].agent].status = "dead" /\ doing'["dispatcher"].agent # a
      BY <2>1, <2>2, <2>3 DEF Attended, AtWork, Scheduling
    <2> QED BY <2>3, <2>6, <2>7, <2>8, <2>10, <2>11, <2>12 DEF Attended, AtWork
  <1>5. CASE SetClaimedBy
    <2>1. /\ task' = [task EXCEPT !.claimed_by = doing["scheduler"].agent] /\ Rest("scheduler")
          /\ doing["scheduler"].at = "prompted" /\ UNCHANGED <<agents, ctx, prompts>>
      BY <1>5 DEF SetClaimedBy
    <2>2. PICK a \in Ids : /\ a = doing["scheduler"].agent /\ Holds(a)
                           /\ \A b \in Ids : Holds(b) => b = a
      BY <1>t, <2>1, AloneAtWork DEF Scheduling
    <2>3. /\ task'.status = task.status /\ task'.rounds = task.rounds /\ task'.claimed_by = a
      BY <1>t, <2>1, <2>2 DEF TaskRow
    <2>4. task.status = "claimed"  BY <1>t, <2>1 DEF ClaimIsOurs, SchedulerAt
    <2>5. doing'["scheduler"].at = "idle" /\ doing'["dispatcher"] = doing["dispatcher"]
      BY <1>t, <2>1, SteadyRest DEF Loops, Idle
    <2>6. RoundsFresh' /\ EpisodeOpen'
      BY <2>1, <2>3, <2>4 DEF Attended, RoundsFresh, EpisodeOpen
    <2>7. Employed(a, "prompted")  BY <2>1, <2>2 DEF Attended, AtWork, Scheduling
    <2>8. OnTheirDuty'
      BY <2>1, <2>2, <2>3, <2>7 DEF OnTheirDuty, Duty, Holds, Employed
    <2>9. Dispatching' => Summoned(doing["dispatcher"].agent, doing["dispatcher"].at)'
      BY <2>1, <2>3, <2>4, <2>5 DEF Attended, AtWork, Dispatching, Summoned, Running, Unfixed
    <2>10. ~Scheduling'  BY <2>5 DEF Scheduling
    <2>11. doing'["dispatcher"].at = "swept" => agents'[doing'["dispatcher"].agent].status = "dead"
      BY <2>1, <2>5 DEF Attended, AtWork
    <2> QED BY <2>6, <2>8, <2>9, <2>10, <2>11 DEF Attended, AtWork
  <1>6. ASSUME NEW a \in Ids, HealMissingInbox(a) PROVE Attended'
    <2>1. /\ Holds(a) /\ prompts[<<"task", 0>>] # a
          /\ prompts' = [prompts EXCEPT ![<<"task", 0>>] = a] /\ UNCHANGED <<task, agents, ctx, doing>>
      BY <1>6 DEF HealMissingInbox
    <2>2. \A b \in Ids : Holds(b) => b = a  BY <1>t, <2>1 DEF PipeTyped, OneHolder
    <2>3. PromptsKept
      <3>1. \A k \in Keys : k # <<"task", 0>> => prompts'[k] = prompts[k]  BY <1>t, <2>1 DEF TypeOK
      <3>2. \A b \in Ids : Holds(b)' => b = a  BY <2>1, <2>2 DEF Holds
      <3>3. \A r \in Rounds : /\ <<"review", r>> \in Keys /\ <<"review", r>> # <<"task", 0>>
                              /\ <<"fix", r>> \in Keys /\ <<"fix", r>> # <<"task", 0>>
        BY <1>t, KeysOfRounds
      <3> QED BY <2>1, <3>1, <3>2, <3>3 DEF PromptsKept
    <2>4. HoldersOnly /\ AtHandKept  BY <1>t, <2>1, KeptSame
    <2>5. ClaimKept  BY <2>1 DEF ClaimKept
    <2>6. Handed  BY <2>1 DEF Handed, Busy, Scheduling, Dispatching
    <2>7. EpisodeOpen'  BY <1>t, <2>1, <2>3, EpisodeKept DEF LiveAs, Holds
    <2> QED BY <1>t, <2>1, <2>3, <2>4, <2>5, <2>6, <2>7, AttendedStays DEF Leaves
  <1>7. ASSUME NEW a \in Ids, RetireFrozenClaim(a) PROVE Attended'
    <2>1. /\ doing["scheduler"].at = "idle" /\ task.status = "claimed" /\ Holds(a)
          /\ agents[a].silent # "no" /\ Retire(a) /\ prompts' = DropPrompts(a) /\ UNCHANGED doing
      BY <1>7 DEF RetireFrozenClaim, Live, Holds
    <2>2. ctx'.fix = ctx.fix
      <3>1. ctx' \in {WithVerdict(ctx, "other"), ctx, Froze(ctx, "implementor"),
                      WithVerdict(Froze(ctx, "implementor"), "other")}
        BY <1>7 DEF RetireFrozenClaim
      <3> QED BY <1>t, <3>1, VerdictTyped, FrozeTyped
    <2>3. \/ task' = [task EXCEPT !.status = "review", !.claimed_by = Nobody]
          \/ task' = task
          \/ task' = [task EXCEPT !.status = "pending_approval"]
      BY <1>7 DEF RetireFrozenClaim
    <2>4. task'.rounds = task.rounds /\ task'.status # "changes_requested"
      BY <1>t, <2>1, <2>3, TaskSet, TaskFreed DEF Statuses
    <2>5. EpisodeOpen'  BY <2>4, EpisodeNone
    <2>6. \A p \in Spawners : AtHand(p) => doing[p].agent # a
      <3>1. ~Spawning  BY <1>t, <2>1 DEF SpawnIsOurs
      <3>2. doing["dispatcher"].at = "swept" => agents[doing["dispatcher"].agent].status = "dead"
        BY DEF Attended, AtWork
      <3> QED BY <2>1, <3>1, <3>2 DEF Spawners, AtHand, Unplaced, Spawning, Holds
    <2> QED BY <1>t, <2>1, <2>2, <2>4, <2>5, <2>6, AttendedRetired DEF Retire, Leaves
  <1>8. CASE ReapStaleClaim
    <2>1. /\ task' = [task EXCEPT !.status = "ready", !.claimed_by = Nobody]
          /\ UNCHANGED <<agents, ctx, prompts, doing>>
      BY <1>8 DEF ReapStaleClaim
    <2>2. task'.status = "ready" /\ task'.rounds = task.rounds
      BY <1>t, <2>1, TaskFreed DEF Statuses
    <2> QED BY <1>t, <2>1, <2>2, AttendedTask
  <1>9. CASE HealRestartCohort
    BY <1>9 DEF HealRestartCohort, VerdictKnown, Quiet
  <1> QED BY <1>1, <1>2, <1>3, <1>4, <1>5, <1>6, <1>7, <1>8, <1>9 DEF Scheduler
LEMMA DispatcherSpawnsAttend ==
    ASSUME PipeIInv, Quiet, Attended,
           \/ ListReviewer \/ ListFixer \/ SpawnReviewer \/ SpawnFixer \/ SpawnBlocked
           \/ BumpRound \/ EnqueueReview \/ RecordFix \/ ClaimForFixer \/ EnqueueFix
    PROVE  Attended'
  <1> USE DEF At
  <1>t. /\ PipeTyped /\ TypeOK /\ task \in TaskRow /\ agents \in [Ids -> AgentRow] /\ ctx \in Ctx
        /\ ClaimIsOurs /\ SpawnIsOurs
    BY Rows
  <1>r. task.rounds \in Rounds /\ task.rounds \in Nat /\ MaxRounds \in Nat
    BY <1>t, PipelineAssumption DEF TaskRow, Rounds
  <1>1. CASE ListReviewer \/ ListFixer
    <2>1. /\ doing["dispatcher"].at = "idle" /\ UNCHANGED <<task, agents, ctx, prompts>>
          /\ Go("dispatcher", "wants_reviewer") \/ Go("dispatcher", "wants_fixer")
      BY <1>1 DEF ListReviewer, ListFixer, rows
    <2>2. /\ doing'["dispatcher"].at \in {"wants_reviewer", "wants_fixer"}
          /\ doing'["scheduler"] = doing["scheduler"]
      BY <1>t, <2>1, Went DEF Loops
    <2> QED BY <1>t, <2>1, <2>2, AttendedLeft DEF Spawners, AtHand, Unplaced
  <1>2. CASE SpawnReviewer \/ SpawnFixer
    <2>1. PICK role \in {"reviewer", "fixer"}, a \in Ids :
             /\ Inserts(a, role)
             /\ doing' = [doing EXCEPT !["dispatcher"].at = "inserted", !["dispatcher"].agent = a]
      BY <1>2 DEF SpawnReviewer, SpawnFixer, Insert, Inserts
    <2>2. UNCHANGED <<task, ctx, prompts>>  BY <1>2 DEF SpawnReviewer, SpawnFixer
    <2>3. /\ doing'["dispatcher"].at = "inserted" /\ doing'["dispatcher"].agent = a
          /\ doing'["scheduler"] = doing["scheduler"]
      BY <1>t, <2>1, WentWith DEF Loops
    <2> QED BY <2>1, <2>2, <2>3, InsertAttends DEF Spawners
  <1>3. CASE SpawnBlocked
    <2>1. /\ doing["dispatcher"].at \in {"wants_reviewer", "wants_fixer"} /\ Rest("dispatcher")
          /\ UNCHANGED <<task, agents, ctx, prompts>>
      BY <1>3 DEF SpawnBlocked, rows
    <2>2. doing'["dispatcher"].at = "idle" /\ doing'["scheduler"] = doing["scheduler"]
      BY <1>t, <2>1, SteadyRest DEF Loops, Idle
    <2> QED BY <1>t, <2>1, <2>2, AttendedLeft DEF Spawners, AtHand, Unplaced
  <1>4. ASSUME NEW a \in Ids, a = doing["dispatcher"].agent, Dispatching,
               doing["dispatcher"].at # "inserted", UNCHANGED agents,
               doing'["scheduler"] = doing["scheduler"],
               Scheduling => prompts'[<<"task", 0>>] = prompts[<<"task", 0>>],
               RoundsFresh', EpisodeOpen',
               \/ Busy(a)' /\ Dispatching' /\ Summoned(doing["dispatcher"].agent, doing["dispatcher"].at)'
               \/ doing'["dispatcher"].at = "idle" /\ Duty(a)'
        PROVE  Attended'
    <2>1. \A b \in Ids : Holds(b) => b = a  BY <1>t, <1>4, AloneAtWork
    <2>2. \A b \in Ids : Holds(b)' => b = a /\ agents'[b].role # "none"
      BY <1>4, <2>1 DEF Holds, Attended, OnTheirDuty
    <2>3. OnTheirDuty'  BY <1>4, <2>2 DEF OnTheirDuty
    <2>4. Scheduling' => Employed(doing["scheduler"].agent, doing["scheduler"].at)'
      BY <1>4 DEF Attended, AtWork, Scheduling, Employed, Running
    <2>5. AtWork'  BY <1>4, <2>4 DEF AtWork, Dispatching
    <2> QED BY <1>4, <2>3, <2>5 DEF Attended
  <1>5. CASE BumpRound
    <2>1. /\ doing["dispatcher"].at = "running" /\ agents[doing["dispatcher"].agent].role = "reviewer"
          /\ task' = [task EXCEPT !.rounds = task.rounds + 1] /\ Go("dispatcher", "bumped")
          /\ UNCHANGED <<agents, ctx, prompts>>
      BY <1>5 DEF BumpRound
    <2>2. PICK a \in Ids : a = doing["dispatcher"].agent /\ Holds(a)
      BY <1>t, <2>1, AloneAtWork DEF Dispatching
    <2>3. task.rounds < MaxRounds  BY <1>t, <2>1 DEF PipeTyped, ToReviewer, Towards
    <2>4. task'.rounds = task.rounds + 1 /\ task'.rounds \in Rounds
      BY <1>t, <1>r, <2>1, <2>3 DEF TaskRow, Rounds
    <2>5. /\ doing'["dispatcher"].at = "bumped" /\ doing'["dispatcher"].agent = a
          /\ doing'["scheduler"] = doing["scheduler"]
      BY <1>t, <2>1, <2>2, Went DEF Loops
    <2>6. ctx.fix \subseteq Nat  BY <1>t DEF Ctx, Rounds
    <2>7. RoundsFresh /\ Summoned(a, "running")
      BY <2>1, <2>2 DEF Attended, AtWork, Dispatching
    <2>8. /\ prompts'[<<"review", task'.rounds>>] = Nobody /\ Unfixed'
      BY <1>r, <2>1, <2>4, <2>6, <2>7 DEF RoundsFresh, Unfixed
    <2>9. RoundsFresh'  BY <1>r, <2>1, <2>4, <2>6, <2>7 DEF RoundsFresh, Rounds
    <2>10. EpisodeOpen'  BY <2>8, EpisodeNone DEF Unfixed, Ids, Nobody
    <2>11. Summoned(doing["dispatcher"].agent, doing["dispatcher"].at)'
      BY <2>1, <2>2, <2>5, <2>7, <2>8 DEF Summoned, Running
    <2>12. Busy(a)' /\ Dispatching'  BY <2>5 DEF Busy, Dispatching
    <2>13. Dispatching /\ doing["dispatcher"].at # "inserted"  BY <2>1 DEF Dispatching
    <2> QED BY <1>4, <2>1, <2>2, <2>5, <2>9, <2>10, <2>11, <2>12, <2>13
  <1>6. CASE EnqueueReview
    <2>1. /\ doing["dispatcher"].at = "bumped" /\ Rest("dispatcher")
          /\ prompts' = Enqueue(<<"review", task.rounds>>, doing["dispatcher"].agent)
          /\ UNCHANGED <<task, agents, ctx>>
      BY <1>6 DEF EnqueueReview
    <2>2. PICK a \in Ids : a = doing["dispatcher"].agent /\ Holds(a)
      BY <1>t, <2>1, AloneAtWork DEF Dispatching
    <2>3. doing'["dispatcher"].at = "idle" /\ doing'["scheduler"] = doing["scheduler"]
      BY <1>t, <2>1, SteadyRest DEF Loops, Idle
    <2>4. Summoned(a, "bumped")  BY <2>1, <2>2 DEF Attended, AtWork, Dispatching
    <2>5. /\ prompts'[<<"review", task.rounds>>] = a
          /\ \A k \in Keys : k # <<"review", task.rounds>> => prompts'[k] = prompts[k]
      BY <1>t, <2>1, <2>2, <2>4, KeysAreKeys DEF Summoned, Enqueue, TypeOK
    <2>6. /\ prompts'[<<"task", 0>>] = prompts[<<"task", 0>>]
          /\ \A r \in Rounds : /\ prompts'[<<"fix", r>>] = prompts[<<"fix", r>>]
                               /\ r > task.rounds => prompts'[<<"review", r>>] = prompts[<<"review", r>>]
      BY <1>t, <1>r, <2>5, KeysOfRounds DEF Rounds
    <2>7. RoundsFresh'  BY <2>1, <2>6 DEF Attended, RoundsFresh
    <2>8. EpisodeOpen'  BY <1>r, <2>1, <2>6 DEF Attended, EpisodeOpen, LiveAs, Holds
    <2>9. Duty(a)'  BY <1>r, <2>1, <2>4, <2>5, <2>6 DEF Duty, Summoned, Unfixed
    <2>10. Dispatching /\ doing["dispatcher"].at # "inserted"  BY <2>1 DEF Dispatching
    <2> QED BY <1>4, <2>1, <2>2, <2>3, <2>6, <2>7, <2>8, <2>9, <2>10
  <1>7. CASE RecordFix
    <2>1. /\ doing["dispatcher"].at = "running" /\ agents[doing["dispatcher"].agent].role = "fixer"
          /\ ctx' = [ctx EXCEPT !.fix = ctx.fix \cup {task.rounds}] /\ Go("dispatcher", "recorded")
          /\ UNCHANGED <<task, agents, prompts>>
      BY <1>7 DEF RecordFix
    <2>2. PICK a \in Ids : a = doing["dispatcher"].agent /\ Holds(a)
      BY <1>t, <2>1, AloneAtWork DEF Dispatching
    <2>3. /\ doing'["dispatcher"].at = "recorded" /\ doing'["dispatcher"].agent = a
          /\ doing'["scheduler"] = doing["scheduler"]
      BY <1>t, <2>1, <2>2, Went DEF Loops
    <2>4. ctx'.fix = ctx.fix \cup {task.rounds}  BY <1>t, <2>1, FixRecorded
    <2>5. Summoned(a, "running")  BY <2>1, <2>2 DEF Attended, AtWork, Dispatching
    <2>6. RoundsFresh'  BY <1>r, <2>1, <2>4 DEF Attended, RoundsFresh
    <2>7. LiveAs(a, "fixer")'  BY <2>1, <2>2 DEF LiveAs, Holds
    <2>8. EpisodeOpen'  BY <2>1, <2>2, <2>7 DEF Attended, EpisodeOpen, LiveAs, Holds
    <2>9. Summoned(doing["dispatcher"].agent, doing["dispatcher"].at)'
      BY <2>1, <2>2, <2>3, <2>5 DEF Summoned, Running
    <2>10. Busy(a)' /\ Dispatching'  BY <2>3 DEF Busy, Dispatching
    <2>11. Dispatching /\ doing["dispatcher"].at # "inserted"  BY <2>1 DEF Dispatching
    <2> QED BY <1>4, <2>1, <2>2, <2>3, <2>6, <2>8, <2>9, <2>10, <2>11
  <1>8. CASE ClaimForFixer
    <2>1. /\ doing["dispatcher"].at = "recorded" /\ Go("dispatcher", "fix_claimed")
          /\ task' = IF task.status = "changes_requested"
                     THEN [task EXCEPT !.claimed_by = doing["dispatcher"].agent] ELSE task
          /\ UNCHANGED <<agents, ctx, prompts>>
      BY <1>8 DEF ClaimForFixer
    <2>2. PICK a \in Ids : a = doing["dispatcher"].agent /\ Holds(a)
      BY <1>t, <2>1, AloneAtWork DEF Dispatching
    <2>3. /\ doing'["dispatcher"].at = "fix_claimed" /\ doing'["dispatcher"].agent = a
          /\ doing'["scheduler"] = doing["scheduler"]
      BY <1>t, <2>1, <2>2, Went DEF Loops
    <2>4. /\ task'.status = task.status /\ task'.rounds = task.rounds
          /\ task.status = "changes_requested" => task'.claimed_by = a
      BY <1>t, <2>1, <2>2 DEF TaskRow
    <2>5. Summoned(a, "recorded")  BY <2>1, <2>2 DEF Attended, AtWork, Dispatching
    <2>6. RoundsFresh' /\ EpisodeOpen'
      BY <2>1, <2>4 DEF Attended, RoundsFresh, EpisodeOpen, LiveAs, Holds
    <2>7. Summoned(doing["dispatcher"].agent, doing["dispatcher"].at)'
      BY <2>1, <2>2, <2>3, <2>4, <2>5 DEF Summoned, Running
    <2>8. Busy(a)' /\ Dispatching'  BY <2>3 DEF Busy, Dispatching
    <2>9. Dispatching /\ doing["dispatcher"].at # "inserted"  BY <2>1 DEF Dispatching
    <2> QED BY <1>4, <2>1, <2>2, <2>3, <2>6, <2>7, <2>8, <2>9
  <1>9. CASE EnqueueFix
    <2>1. /\ doing["dispatcher"].at = "fix_claimed" /\ Rest("dispatcher")
          /\ prompts' = Enqueue(<<"fix", task.rounds>>, doing["dispatcher"].agent)
          /\ UNCHANGED <<task, agents, ctx>>
      BY <1>9 DEF EnqueueFix
    <2>2. PICK a \in Ids : /\ a = doing["dispatcher"].agent /\ Holds(a)
                           /\ \A b \in Ids : Holds(b) => b = a
      BY <1>t, <2>1, AloneAtWork DEF Dispatching
    <2>3. doing'["dispatcher"].at = "idle" /\ doing'["scheduler"] = doing["scheduler"]
      BY <1>t, <2>1, SteadyRest DEF Loops, Idle
    <2>4. Summoned(a, "fix_claimed")  BY <2>1, <2>2 DEF Attended, AtWork, Dispatching
    <2>5. /\ prompts'[<<"fix", task.rounds>>] \in {a, prompts[<<"fix", task.rounds>>]}
          /\ prompts[<<"fix", task.rounds>>] = Nobody => prompts'[<<"fix", task.rounds>>] = a
          /\ \A k \in Keys : k # <<"fix", task.rounds>> => prompts'[k] = prompts[k]
      BY <1>t, <2>1, <2>2, KeysAreKeys DEF Enqueue, TypeOK
    <2>6. /\ prompts'[<<"task", 0>>] = prompts[<<"task", 0>>]
          /\ \A r \in Rounds : r > task.rounds =>
                /\ prompts'[<<"review", r>>] = prompts[<<"review", r>>]
                /\ prompts'[<<"fix", r>>] = prompts[<<"fix", r>>]
      BY <1>t, <1>r, <2>5, KeysOfRounds DEF Rounds
    <2>7. RoundsFresh'  BY <2>1, <2>6 DEF Attended, RoundsFresh
    <2>8. LiveAs(a, "fixer")  BY <2>2, <2>4 DEF LiveAs, Summoned
    <2>9. EpisodeOpen'  BY <2>1, <2>5, <2>8 DEF Attended, EpisodeOpen, LiveAs, Holds
    <2>10. task.status = "changes_requested" => prompts'[<<"fix", task.rounds>>] = a
      <3>1. prompts[<<"fix", task.rounds>>] \in Ids \cup {Nobody}
        BY <1>t, KeysAreKeys DEF TypeOK
      <3>2. task.status = "changes_requested" /\ prompts[<<"fix", task.rounds>>] \in Ids
               => prompts[<<"fix", task.rounds>>] = a
        BY <2>2 DEF Attended, EpisodeOpen, LiveAs
      <3> QED BY <2>5, <3>1, <3>2
    <2>11. Duty(a)'  BY <2>1, <2>4, <2>10 DEF Duty, Summoned
    <2>12. Dispatching /\ doing["dispatcher"].at # "inserted"  BY <2>1 DEF Dispatching
    <2> QED BY <1>4, <2>1, <2>2, <2>3, <2>6, <2>7, <2>9, <2>11, <2>12
  <1> QED BY <1>1, <1>2, <1>3, <1>5, <1>6, <1>7, <1>8, <1>9
LEMMA DispatcherWatchesAttend ==
    ASSUME PipeIInv, VerdictKnown, Quiet, Attended,
           \/ \E a \in Ids : \/ HealReviewPrompt(a) \/ ApplyVerdict(a) \/ WatchdogReviewer(a)
                             \/ HealFixPrompt(a) \/ WatchdogFixer(a) \/ SweepRetires(a)
                             \/ RetireStuckImplementor(a)
           \/ SweepDropsPrompts \/ SweepRearms
    PROVE  Attended'
  <1> USE DEF At
  <1>t. /\ PipeTyped /\ TypeOK /\ task \in TaskRow /\ agents \in [Ids -> AgentRow] /\ ctx \in Ctx
        /\ ClaimIsOurs /\ SpawnIsOurs
    BY Rows
  <1>r. task.rounds \in Rounds /\ <<"fix", task.rounds>> \in Keys  BY <1>t, KeysOfRounds
  <1>a. \A p \in Spawners : AtHand(p) => doing[p].agent \in Ids
    BY <1>t DEF PipeTyped, Placed, Spawners, Loops, AtHand
  \* With the dispatcher between two operations, who holds a task that is not
  \* being claimed is on duty.
  <1>d. ASSUME NEW a \in Ids, Holds(a), doing["dispatcher"].at = "idle", task.status # "claimed"
        PROVE  Duty(a)
    <2>1. ~Busy(a)
      BY <1>t, <1>d DEF Busy, Scheduling, Dispatching, ClaimIsOurs, SchedulerAt
    <2> QED BY <1>d, <2>1 DEF Attended, OnTheirDuty
  <1>h. ASSUME NEW a \in Ids, Holds(a), doing["dispatcher"].at = "idle", task.status # "claimed"
        PROVE  \A p \in Spawners : ~AtHand(p)
    BY <1>t, <1>h DEF AtHand, Spawners, Unplaced, ClaimIsOurs, SchedulerAt
  <1>1. ASSUME NEW a \in Ids, HealReviewPrompt(a) \/ HealFixPrompt(a) PROVE FALSE
    BY <1>1, <1>d DEF HealReviewPrompt, HealFixPrompt, LiveAs, Duty
  <1>2. ASSUME NEW a \in Ids, ApplyVerdict(a) PROVE Attended'
    <2> DEFINE v == agents[a].said
               w == IF v = "request_changes" THEN v ELSE "other"
               s == Landing(v)
    <2>1. /\ doing["dispatcher"].at = "idle" /\ task.status = "review"
          /\ Holds(a) /\ agents[a].role = "reviewer"
          /\ task' = [task EXCEPT !.status = s] /\ ctx' = WithVerdict(ctx, w)
          /\ Retire(a) /\ UNCHANGED <<prompts, doing>>
      BY <1>2 DEF ApplyVerdict, LiveAs
    <2>2. s \in Statuses  BY DEF Landing, Statuses
    <2>3. w \in {"request_changes", "other"}  OBVIOUS
    <2> HIDE DEF s, w
    <2>4. task'.rounds = task.rounds /\ ctx'.fix = ctx.fix
      BY <1>t, <2>1, <2>2, <2>3, TaskSet, VerdictTyped
    <2>5. Unfixed  BY <1>d, <2>1 DEF Duty
    <2>6. EpisodeOpen'
      BY <1>r, <2>1, <2>4, <2>5, EpisodeNone DEF Unfixed, Ids, Nobody
    <2> QED BY <1>t, <1>h, <2>1, <2>4, <2>6, AttendedRetired DEF Retire, Leaves
  <1>3. ASSUME NEW a \in Ids, WatchdogReviewer(a) PROVE Attended'
    <2>1. /\ doing["dispatcher"].at = "idle" /\ task.status = "review" /\ Holds(a)
          /\ Retire(a) /\ prompts' = DropPrompts(a) /\ UNCHANGED doing
      BY <1>3 DEF WatchdogReviewer, LiveAs
    <2>2. \/ task' = task /\ ctx' \in {ctx, Froze(ctx, "reviewer")}
          \/ /\ task' = [task EXCEPT !.status = "pending_approval"]
             /\ ctx' = WithVerdict(Froze(ctx, "reviewer"), "other")
      BY <1>3 DEF WatchdogReviewer
    <2>3. ctx'.fix = ctx.fix  BY <1>t, <2>2, FrozeTyped, VerdictTyped
    <2>4. task'.rounds = task.rounds /\ task'.status # "changes_requested"
      BY <1>t, <2>1, <2>2, TaskSet DEF Statuses
    <2>5. EpisodeOpen'  BY <2>4, EpisodeNone
    <2> QED BY <1>t, <1>h, <2>1, <2>3, <2>4, <2>5, AttendedRetired DEF Retire, Leaves
  <1>4. ASSUME NEW a \in Ids, WatchdogFixer(a) PROVE Attended'
    <2> DEFINE burnt == IF agents[a].silent = "hung" THEN Froze(ctx, "fixer") ELSE ctx
               capped == agents[a].silent = "hung" /\ Spent("fixer") >= RespawnCap
    <2>1. /\ doing["dispatcher"].at = "idle" /\ task.status = "changes_requested" /\ Holds(a)
          /\ Retire(a) /\ prompts' = DropPrompts(a) /\ UNCHANGED doing
          /\ IF capped \/ Superseded
             THEN /\ task' = IF capped
                             THEN [task EXCEPT !.status = "pending_approval"]
                             ELSE [task EXCEPT !.status = "ready", !.claimed_by = Nobody]
                  /\ ctx' = WithVerdict(NoFix(burnt), "other")
             ELSE ctx' = NoFix(burnt) /\ UNCHANGED task
      BY <1>4 DEF WatchdogFixer, LiveAs
    <2>2. burnt \in Ctx /\ burnt.fix = ctx.fix  BY <1>t, FrozeTyped
    <2> HIDE DEF burnt, capped
    <2>3. ctx'.fix = ctx.fix \ {task.rounds}  BY <2>1, <2>2, NoFixTyped, VerdictTyped
    <2>4. task'.rounds = task.rounds  BY <1>t, <2>1, TaskSet, TaskFreed DEF Statuses
    <2>5. prompts'[<<"fix", task.rounds>>] \notin Ids
      <3>1. prompts'[<<"fix", task.rounds>>] = IF prompts[<<"fix", task.rounds>>] = a THEN Nobody
                                               ELSE prompts[<<"fix", task.rounds>>]
        BY <1>r, <2>1 DEF DropPrompts
      <3>2. prompts[<<"fix", task.rounds>>] \in Ids => prompts[<<"fix", task.rounds>>] = a
        BY <1>t, <2>1 DEF Attended, EpisodeOpen, LiveAs, PipeTyped, OneHolder
      <3>3. Nobody \notin Ids  BY DEF Nobody, Ids
      <3> QED BY <3>1, <3>2, <3>3
    <2>6. EpisodeOpen'  BY <2>3, <2>4, <2>5, EpisodeNone
    <2> QED BY <1>t, <1>h, <2>1, <2>3, <2>4, <2>6, AttendedRetired DEF Retire, Leaves
  <1>5. ASSUME NEW a \in Ids, RetireStuckImplementor(a) PROVE Attended'
    <2>1. /\ doing["dispatcher"].at \in {"wants_reviewer", "wants_fixer"}
          /\ Holds(a) /\ agents[a].role = "implementor" /\ \A p \in Loops : doing[p].agent # a
          /\ agents' = [agents EXCEPT ![a] = Dead(agents[a], agents[a].pane)] /\ Rest("dispatcher")
          /\ UNCHANGED <<task, ctx, prompts>>
      BY <1>5 DEF RetireStuckImplementor, LiveAs, AtIt
    <2>2. doing'["dispatcher"].at = "idle" /\ doing'["scheduler"] = doing["scheduler"]
      BY <1>t, <2>1, SteadyRest DEF Loops, Idle
    <2>3. agents[a].pane \in BOOLEAN  BY <1>t DEF AgentRow
    <2>4. EpisodeOpen'
      BY <1>t, <2>1, EpisodeNone DEF Attended, EpisodeOpen, LiveAs, PipeTyped, OneHolder
    <2>5. \A p \in Spawners : Leaves(p)  BY <2>2 DEF Spawners, Leaves, Unplaced
    <2> QED BY <1>t, <2>1, <2>3, <2>4, <2>5, AttendedRetired DEF Spawners, Loops
  <1>6. ASSUME NEW a \in Ids, SweepRetires(a) PROVE Attended'
    <2> DEFINE e == [agents[a] EXCEPT !.bound = TRUE]
               r == Dead(e, agents[a].pane)
    <2>1. /\ doing["dispatcher"].at = "idle" /\ ~agents[a].bound
          /\ agents' = [agents EXCEPT ![a] = r]
          /\ doing' = [doing EXCEPT !["dispatcher"].at = "swept", !["dispatcher"].agent = a]
          /\ UNCHANGED <<task, ctx, prompts>>
      BY <1>6 DEF SweepRetires
    <2>2. r \in AgentRow /\ r.status = "dead" /\ r.role = agents[a].role
      <3>1. e \in AgentRow /\ e.role = agents[a].role /\ agents[a].pane \in BOOLEAN
        BY <1>t DEF AgentRow
      <3> HIDE DEF e
      <3> QED BY <3>1, DeadRow
    <2> HIDE DEF r
    <2>3. /\ doing'["dispatcher"].at = "swept" /\ doing'["dispatcher"].agent = a
          /\ doing'["scheduler"] = doing["scheduler"]
      BY <1>t, <2>1, WentWith DEF Loops
    <2>4. /\ agents'[a].status = "dead" /\ \A b \in Ids : agents'[b].role = agents[b].role
          /\ \A b \in Ids : b # a => agents'[b] = agents[b]
      BY <1>t, <2>1, <2>2
    <2>5. \A b \in Ids : Holds(b)' <=> Holds(b)  BY <2>1, <2>4 DEF Holds
    <2>6. RoundsFresh'  BY <2>1 DEF Attended, RoundsFresh
    <2>7. EpisodeOpen'  BY <2>1, <2>4, <2>5 DEF Attended, EpisodeOpen, LiveAs, Holds
    <2>8. OnTheirDuty'
      <3> SUFFICES ASSUME NEW b \in Ids, Holds(b)'
                   PROVE  agents'[b].role # "none" /\ (~Busy(b)' => Duty(b)')
        BY DEF OnTheirDuty
      <3>1. Holds(b) /\ agents'[b].role = agents[b].role  BY <2>4, <2>5
      <3>2. Busy(b) => Busy(b)'  BY <2>1, <2>3 DEF Busy, Scheduling, Dispatching
      <3>3. Duty(b) => Duty(b)'  BY <2>1, <3>1 DEF Duty, Unfixed
      <3> QED BY <3>1, <3>2, <3>3 DEF Attended, OnTheirDuty
    <2>9. Scheduling' => /\ Employed(doing["scheduler"].agent, doing["scheduler"].at)'
                         /\ doing'["dispatcher"].agent # doing'["scheduler"].agent
      <3> SUFFICES ASSUME Scheduling'
                   PROVE  /\ Employed(doing["scheduler"].agent, doing["scheduler"].at)'
                          /\ a # doing["scheduler"].agent
        BY <2>3
      <3>1. Scheduling /\ doing["scheduler"].agent \in Ids
        BY <1>a, <2>3 DEF Scheduling, AtHand, Spawners, Unplaced
      <3>2. Employed(doing["scheduler"].agent, doing["scheduler"].at)
        BY <3>1 DEF Attended, AtWork
      <3>3. a # doing["scheduler"].agent  BY <2>1, <3>2 DEF Employed
      <3> QED BY <2>1, <2>3, <2>4, <3>1, <3>2, <3>3 DEF Employed, Running
    <2> QED BY <2>3, <2>4, <2>6, <2>7, <2>8, <2>9 DEF Attended, AtWork, Dispatching
  <1>7. CASE SweepDropsPrompts
    <2>1. /\ doing["dispatcher"].at = "swept" /\ prompts' = DropPrompts(doing["dispatcher"].agent)
          /\ Go("dispatcher", "dropped") /\ UNCHANGED <<task, agents, ctx>>
      BY <1>7 DEF SweepDropsPrompts
    <2>2. PICK a \in Ids : a = doing["dispatcher"].agent
      BY <1>a, <2>1 DEF Spawners, AtHand, Unplaced
    <2>3. ~Holds(a)'  BY <2>1, <2>2 DEF Attended, AtWork, Holds
    <2>4. doing'["dispatcher"].at = "dropped" /\ doing'["scheduler"] = doing["scheduler"]
      BY <1>t, <2>1, Went DEF Loops
    <2>5. PromptsKept  BY <1>t, <2>1, <2>2, <2>3, PromptsDropped
    <2>6. HoldersOnly /\ AtHandKept  BY <1>t, <2>1, KeptSame
    <2>7. ClaimKept  BY <2>1 DEF ClaimKept
    <2>8. Handed  BY <2>1, <2>4 DEF Handed, Busy, Scheduling, Dispatching
    <2>9. EpisodeOpen'  BY <1>t, <2>1, <2>5, EpisodeKept DEF LiveAs, Holds
    <2>10. \A p \in Spawners : Leaves(p)  BY <2>4 DEF Spawners, Leaves
    <2> QED BY <1>t, <2>5, <2>6, <2>7, <2>8, <2>9, <2>10, AttendedStays
  <1>8. CASE SweepRearms
    <2>1. /\ doing["dispatcher"].at = "dropped" /\ ctx' \in {ctx, NoFix(ctx)} /\ Rest("dispatcher")
          /\ UNCHANGED <<task, agents, prompts>>
      BY <1>8 DEF SweepRearms
    <2>2. ctx'.fix \subseteq ctx.fix  BY <1>t, <2>1, NoFixTyped
    <2>3. doing'["dispatcher"].at = "idle" /\ doing'["scheduler"] = doing["scheduler"]
      BY <1>t, <2>1, SteadyRest DEF Loops, Idle
    <2> QED BY <1>t, <2>1, <2>2, <2>3, AttendedLeft DEF Spawners, AtHand, Unplaced
  <1> QED BY <1>1, <1>2, <1>3, <1>4, <1>5, <1>6, <1>7, <1>8

LEMMA WindowAttends ==
    ASSUME PipeIInv, Quiet, Attended, NEW p \in Loops, WindowOpens(p)
    PROVE  Attended'
  <1> USE DEF At
  <1>t. /\ PipeTyped /\ TypeOK /\ task \in TaskRow /\ agents \in [Ids -> AgentRow] /\ ctx \in Ctx
        /\ ClaimIsOurs /\ SpawnIsOurs /\ doing["comments"].at = "idle"
    BY Rows
  <1>p. p \in Spawners  BY <1>t DEF WindowOpens, Spawners, Loops
  <1>1. PICK a \in Ids : /\ doing[p].at = "inserted" /\ doing[p].agent = a
    BY <1>p, Rows DEF WindowOpens, Unplaced
  <1>a. \A q \in Spawners : AtHand(q) => doing[q].agent \in Ids
    BY <1>t DEF PipeTyped, Placed, Spawners, Loops, AtHand
  <1>2. CASE \A b \in Ids \ {a} : ~Holds(b)
    <2> DEFINE r == [agents[a] EXCEPT !.status = "running", !.pane = TRUE]
    <2>1. /\ agents' = [agents EXCEPT ![a].status = "running", ![a].pane = TRUE]
          /\ Go(p, "running") /\ UNCHANGED <<task, ctx, prompts>>
      BY <1>1, <1>2 DEF WindowOpens
    <2>2. r.status = "running" /\ r.role = agents[a].role /\ r.bound = agents[a].bound
      BY <1>t DEF AgentRow
    <2>3. agents' = [agents EXCEPT ![a] = r]  BY <1>t, <2>1
    <2> HIDE DEF r
    <2>4. /\ agents'[a].status = "running"
          /\ \A b \in Ids : /\ agents'[b].role = agents[b].role /\ agents'[b].bound = agents[b].bound
                            /\ b # a => agents'[b] = agents[b]
      BY <1>t, <2>2, <2>3
    <2>5. /\ doing'[p].at = "running" /\ doing'[p].agent = a
          /\ \A q \in Spawners : q # p => doing'[q] = doing[q]
      BY <1>t, <1>1, <2>1, Went DEF Spawners, Loops
    <2>6. /\ \A b \in Ids : Holds(b)' => b = a
          /\ \A b \in Ids : Holds(b) => Holds(b)'
      BY <1>2, <2>4 DEF Holds
    <2>7. RoundsFresh'  BY <2>1 DEF Attended, RoundsFresh
    <2>8. EpisodeOpen'  BY <2>1, <2>4, <2>6 DEF Attended, EpisodeOpen, LiveAs
    <2>9. Busy(a)'  BY <1>p, <2>5 DEF Busy, Scheduling, Dispatching, Spawners
    <2>10. agents[a].role # "none" /\ agents[a].bound
      <3>1. CASE p = "scheduler"
        BY <1>1, <3>1 DEF Attended, AtWork, Employed, Scheduling
      <3>2. CASE p = "dispatcher"
        <4>1. agents[a].bound  BY <1>1, <3>2 DEF Attended, AtWork, Summoned, Dispatching
        <4> QED BY <1>t, <1>1, <3>2, <4>1 DEF SpawnIsOurs
      <3> QED BY <1>p, <3>1, <3>2 DEF Spawners
    <2>11. OnTheirDuty'  BY <2>4, <2>6, <2>9, <2>10 DEF OnTheirDuty
    <2>12. ASSUME Scheduling' PROVE Employed(doing["scheduler"].agent, doing["scheduler"].at)'
      <3>1. /\ Scheduling /\ doing'["scheduler"].agent = doing["scheduler"].agent
            /\ doing["scheduler"].agent \in Ids
            /\ p = "scheduler" \/ doing'["scheduler"] = doing["scheduler"]
        BY <1>p, <1>a, <1>1, <2>5, <2>12 DEF Scheduling, Spawners, AtHand, Unplaced
      <3>2. Employed(doing["scheduler"].agent, doing["scheduler"].at)
        BY <3>1 DEF Attended, AtWork
      <3>3. CASE p = "scheduler"  BY <1>1, <2>4, <2>5, <2>10, <3>1, <3>2, <3>3 DEF Employed, Running
      <3>4. CASE doing'["scheduler"] = doing["scheduler"]
        BY <2>1, <2>4, <3>1, <3>2, <3>4 DEF Employed, Running
      <3> QED BY <3>1, <3>3, <3>4
    <2>13. ASSUME Dispatching' PROVE Summoned(doing["dispatcher"].agent, doing["dispatcher"].at)'
      <3>1. /\ Dispatching /\ doing'["dispatcher"].agent = doing["dispatcher"].agent
            /\ doing["dispatcher"].agent \in Ids
            /\ p = "dispatcher" \/ doing'["dispatcher"] = doing["dispatcher"]
        BY <1>p, <1>a, <1>1, <2>5, <2>13 DEF Dispatching, Spawners, AtHand, Unplaced
      <3>2. Summoned(doing["dispatcher"].agent, doing["dispatcher"].at)
        BY <3>1 DEF Attended, AtWork
      <3>3. CASE p = "dispatcher"  BY <1>1, <2>4, <2>5, <2>10, <3>1, <3>2, <3>3 DEF Summoned, Running
      <3>4. CASE doing'["dispatcher"] = doing["dispatcher"]
        BY <2>1, <2>4, <3>1, <3>2, <3>4 DEF Summoned, Running, Unfixed
      <3> QED BY <3>1, <3>3, <3>4
    <2>14. ASSUME doing'["dispatcher"].at = "swept"
           PROVE  /\ agents'[doing'["dispatcher"].agent].status = "dead"
                  /\ doing'["dispatcher"].agent # doing'["scheduler"].agent
      <3>1. p = "scheduler" /\ doing'["dispatcher"] = doing["dispatcher"]
        BY <1>p, <2>5, <2>14 DEF Spawners
      <3>2. /\ doing["dispatcher"].at = "swept" /\ doing["dispatcher"].agent \in Ids
            /\ doing["dispatcher"].agent # a /\ agents[doing["dispatcher"].agent].status = "dead"
        BY <1>a, <1>1, <2>14, <3>1 DEF Attended, AtWork, Scheduling, Spawners, AtHand, Unplaced
      <3> QED BY <2>4, <2>5, <3>1, <3>2
    <2> QED BY <2>7, <2>8, <2>11, <2>12, <2>13, <2>14 DEF Attended, AtWork
  <1>3. CASE ~\A b \in Ids \ {a} : ~Holds(b)
    <2> DEFINE r == [agents[a] EXCEPT !.pane = TRUE]
    <2>1. /\ agents' = [agents EXCEPT ![a].pane = TRUE]
          /\ Rest(p) /\ Unclaim(p) /\ UNCHANGED <<ctx, prompts>>
      BY <1>1, <1>3 DEF WindowOpens
    <2>2. /\ r \in AgentRow /\ r.status = agents[a].status /\ r.role = agents[a].role
          /\ r.bound = agents[a].bound
      BY <1>t DEF AgentRow
    <2>3. agents' = [agents EXCEPT ![a] = r]  BY <2>1
    <2> HIDE DEF r
    <2>4. /\ agents' \in [Ids -> AgentRow]
          /\ \A b \in Ids : /\ agents'[b].role = agents[b].role /\ agents'[b].bound = agents[b].bound
                            /\ agents'[b].status = agents[b].status
      BY <1>t, <2>2, <2>3
    <2>5. /\ doing'[p].at = "idle" /\ \A q \in Spawners : q # p => doing'[q] = doing[q]
      BY <1>t, <2>1, SteadyRest DEF Loops, Spawners, Idle
    <2>6. \A b \in Ids : Holds(b)' <=> Holds(b)  BY <2>4 DEF Holds
    <2>7. ~Holds(a)  BY <1>t, <1>3 DEF PipeTyped, OneHolder
    <2>8. HoldersOnly  BY <2>4, <2>6 DEF HoldersOnly
    <2>9. AtHandKept  BY <1>t, <2>2, <2>3, AtHandRow
    <2>10. PromptsKept  BY <1>t, <2>1, PromptsSame
    <2>11. /\ task' = task \/ (task'.rounds = task.rounds /\ task'.status = "ready")
      BY <1>t, <2>1, Unclaimed
    <2>12. ClaimKept  BY <2>1, <2>11 DEF ClaimKept
    <2>13. EpisodeOpen'  BY <1>t, <2>1, <2>4, <2>6, <2>10, <2>11, EpisodeKept DEF LiveAs
    <2>14. Handed
      <3> SUFFICES ASSUME NEW b \in Ids, Holds(b)', Busy(b) PROVE Busy(b)'
        BY HandedSame
      <3>1. b # a  BY <2>6, <2>7
      <3> QED BY <1>1, <2>5, <3>1 DEF Busy, Scheduling, Dispatching, Spawners
    <2>15. \A q \in Spawners : Leaves(q)  BY <2>5 DEF Leaves, Unplaced
    <2> QED BY <1>t, <2>8, <2>9, <2>10, <2>12, <2>13, <2>14, <2>15, AttendedStays
  <1> QED BY <1>2, <1>3
\* An agent's row changes while the goroutines stand still.
LEMMA AttendedRow ==
    ASSUME PipeTyped, Attended, UNCHANGED <<task, ctx, prompts, doing>>,
           NEW a \in Ids, NEW r \in AgentRow, agents' = [agents EXCEPT ![a] = r],
           r.role = agents[a].role, r.bound = agents[a].bound,
           r.status = "dead" <=> agents[a].status = "dead",
           r.status = agents[a].status \/ \A p \in Loops : doing[p].agent # a
    PROVE  Attended'
  <1>t. TypeOK /\ agents \in [Ids -> AgentRow]  BY DEF PipeTyped, TypeOK
  <1>1. /\ agents' \in [Ids -> AgentRow] /\ agents'[a] = r
        /\ \A b \in Ids : b # a => agents'[b] = agents[b]
    BY <1>t
  <1>2. \A b \in Ids : (Holds(b)' <=> Holds(b)) /\ agents'[b].role = agents[b].role
    BY <1>1 DEF Holds
  <1>3. HoldersOnly  BY <1>1, <1>2 DEF HoldersOnly
  <1>4. AtHandKept  BY AtHandRow DEF Spawners, Loops
  <1>5. PromptsKept  BY <1>t, PromptsSame
  <1>6. ClaimKept  BY DEF ClaimKept
  <1>7. Handed  BY DEF Handed, Busy, Scheduling, Dispatching
  <1>8. EpisodeOpen'  BY <1>2, <1>5, EpisodeKept DEF LiveAs
  <1> QED BY <1>3, <1>4, <1>5, <1>6, <1>7, <1>8, AttendedStays DEF Leaves

LEMMA AgentAttends ==
    ASSUME PipeIInv, Quiet, Attended, NEW a \in Ids, Agent(a)
    PROVE  Attended'
  <1>t. /\ PipeTyped /\ TypeOK /\ task \in TaskRow /\ agents \in [Ids -> AgentRow] /\ ctx \in Ctx
        /\ agents[a] \in AgentRow
    BY Rows
  <1>1. CASE Brief(a)
    <2> DEFINE r == [agents[a] EXCEPT !.briefed = TRUE]
    <2>1. /\ r \in AgentRow /\ r.role = agents[a].role /\ r.bound = agents[a].bound
          /\ r.status = agents[a].status
      BY <1>t DEF AgentRow
    <2>2. agents' = [agents EXCEPT ![a] = r] /\ UNCHANGED <<task, ctx, prompts, doing>>
      BY <1>1 DEF Brief
    <2> HIDE DEF r
    <2> QED BY <1>t, <2>1, <2>2, AttendedRow
  <1>2. ASSUME NEW v \in Verdicts, SayVerdict(a, v) PROVE Attended'
    <2> DEFINE r == [agents[a] EXCEPT !.said = v]
    <2>1. /\ r \in AgentRow /\ r.role = agents[a].role /\ r.bound = agents[a].bound
          /\ r.status = agents[a].status
      BY <1>t DEF AgentRow
    <2>2. agents' = [agents EXCEPT ![a] = r] /\ UNCHANGED <<task, ctx, prompts, doing>>
      BY <1>2 DEF SayVerdict
    <2> HIDE DEF r
    <2> QED BY <1>t, <2>1, <2>2, AttendedRow
  <1>3. ASSUME NEW how \in {"hung", "turn_ended"}, FallsSilent(a, how) PROVE Attended'
    <2> DEFINE r == [agents[a] EXCEPT !.silent = how]
    <2>1. /\ r \in AgentRow /\ r.role = agents[a].role /\ r.bound = agents[a].bound
          /\ r.status = agents[a].status
      BY <1>t DEF AgentRow
    <2>2. agents' = [agents EXCEPT ![a] = r] /\ UNCHANGED <<task, ctx, prompts, doing>>
      BY <1>3 DEF FallsSilent
    <2> HIDE DEF r
    <2> QED BY <1>t, <2>1, <2>2, AttendedRow
  <1>4. CASE PaneDies(a)
    <2>1. PICK s \in {agents[a].status, "stopped"} :
             agents' = [agents EXCEPT ![a].pane = FALSE, ![a].status = s]
      BY <1>4 DEF PaneDies
    <2>2. Holds(a) /\ ~AtIt(a) /\ UNCHANGED <<task, ctx, prompts, doing>>
      BY <1>4 DEF PaneDies
    <2> DEFINE r == [agents[a] EXCEPT !.pane = FALSE, !.status = s]
    <2>3. s \in {"absent", "stopped", "running", "idle", "dead"}  BY <1>t DEF AgentRow
    <2>4. /\ r \in AgentRow /\ r.role = agents[a].role /\ r.bound = agents[a].bound /\ r.status = s
      BY <1>t, <2>3 DEF AgentRow
    <2>5. agents' = [agents EXCEPT ![a] = r]  BY <1>t, <2>1
    <2>6. s # "dead" /\ agents[a].status # "dead"  BY <2>2 DEF Holds
    <2> HIDE DEF r
    <2> QED BY <1>t, <2>2, <2>4, <2>5, <2>6, AttendedRow DEF AtIt
  <1>5. CASE SetPR(a)
    <2>1. task' = [task EXCEPT !.status = "review", !.pr_open = TRUE]
          /\ UNCHANGED <<agents, ctx, prompts, doing>>
      BY <1>5 DEF SetPR
    <2>2. task'.rounds = task.rounds /\ task'.status = "review"  BY <1>t, <2>1 DEF TaskRow
    <2> QED BY <1>t, <2>1, <2>2, AttendedTask
  <1>6. CASE Release(a)
    <2>1. /\ task.status = "review" /\ Holds(a) /\ ~AtIt(a)
          /\ agents' = [agents EXCEPT ![a] = Dead(agents[a], TRUE)]
          /\ UNCHANGED <<task, ctx, prompts, doing>>
      BY <1>6 DEF Release, CanAct, LiveAs
    <2>2. EpisodeOpen'  BY <2>1, EpisodeNone
    <2> QED BY <1>t, <2>1, <2>2, AttendedRetired DEF Leaves, AtIt, Spawners, Loops
  <1>7. ASSUME NEW to \in {"review", "ready"}, Finish(a, to), UNCHANGED <<ctx, prompts, doing>>
        PROVE  Attended'
    <2>1. /\ ~AtIt(a)
          /\ agents' = [agents EXCEPT ![a].bound = FALSE, ![a].status = "idle", ![a].briefed = FALSE]
          /\ task' = IF task.claimed_by = a
                     THEN [task EXCEPT !.status = to, !.claimed_by = Nobody] ELSE task
      BY <1>7 DEF Finish, CanAct
    <2> DEFINE r == [agents[a] EXCEPT !.bound = FALSE, !.status = "idle", !.briefed = FALSE]
    <2>2. r \in AgentRow /\ r.role = agents[a].role /\ ~r.bound  BY <1>t DEF AgentRow
    <2>3. agents' = [agents EXCEPT ![a] = r]  BY <1>t, <2>1
    <2> HIDE DEF r
    <2>4. /\ agents' \in [Ids -> AgentRow] /\ agents'[a] = r
          /\ \A b \in Ids : b # a => agents'[b] = agents[b]
      BY <1>t, <2>2, <2>3
    <2>5. /\ ~Holds(a)' /\ \A b \in Ids : b # a => (Holds(b)' <=> Holds(b))
          /\ \A b \in Ids : agents'[b].role = agents[b].role
      BY <2>2, <2>4 DEF Holds
    <2>6. HoldersOnly  BY <2>4, <2>5 DEF HoldersOnly
    <2>7. AtHandKept
      <3>1. \A p \in Spawners : doing[p].agent # a  BY <2>1 DEF AtIt, Spawners, Loops
      <3> QED BY <1>t, <2>3, <3>1, AtHandRow
    <2>8. PromptsKept  BY <1>t, <1>7, PromptsSame
    <2>9. task' = task \/ (task'.rounds = task.rounds /\ task'.status \in {"review", "ready"})
      BY <1>t, <2>1, TaskFreed DEF Statuses
    <2>10. ClaimKept  BY <1>7, <2>9 DEF ClaimKept
    <2>11. Handed  BY <1>7 DEF Handed, Busy, Scheduling, Dispatching
    <2>12. EpisodeOpen'
      <3>1. CASE task'.status # "changes_requested"  BY <3>1, EpisodeNone
      <3>2. CASE task'.status = "changes_requested"
        <4>1. task' = task  BY <2>9, <3>2
        <4>2. CASE LiveAs(a, "fixer")
          <5>1. ~Busy(a)  BY <2>1 DEF Busy, AtIt, Loops
          <5>2. Duty(a)  BY <4>2, <5>1 DEF Attended, OnTheirDuty, LiveAs
          <5>3. task.claimed_by = a  BY <3>2, <4>1, <4>2, <5>2 DEF Duty, LiveAs
          <5>4. task'.claimed_by = Nobody
            <6>1. task' = [task EXCEPT !.status = to, !.claimed_by = Nobody]  BY <2>1, <5>3
            <6>2. to \in Statuses  BY DEF Statuses
            <6> QED BY <1>t, <6>1, <6>2, TaskFreed
          <5>5. a # Nobody  BY DEF Ids, Nobody
          <5> QED BY <4>1, <5>3, <5>4, <5>5
        <4>3. CASE ~LiveAs(a, "fixer")
          BY <1>t, <1>7, <2>5, <2>8, <4>1, <4>3, EpisodeKept DEF LiveAs
        <4> QED BY <4>2, <4>3
      <3> QED BY <3>1, <3>2
    <2> QED BY <1>t, <1>7, <2>6, <2>7, <2>8, <2>10, <2>11, <2>12, AttendedStays DEF Leaves
  <1>8. CASE Done(a) \/ DoneRed(a)  BY <1>7, <1>8 DEF Done, DoneRed
  <1> QED BY <1>1, <1>2, <1>3, <1>4, <1>5, <1>6, <1>8 DEF Agent, Answers

-----------------------------------------------------------------------------
\* Quiet is lost for good, and while it lasts nobody but the scheduler, the
\* dispatcher and the agents moves.
LEMMA WhoMoves ==
    ASSUME PipeIInv, [Next]_vars, Quiet'
    PROVE  /\ Quiet
           /\ \/ Scheduler \/ Dispatcher \/ \E p \in Loops : WindowOpens(p)
              \/ \E a \in Ids : Agent(a)
              \/ ClaimAges \/ Merge \/ UNCHANGED vars
  <1>t. faults \in Nat /\ human \in Nat
    BY PipelineAssumption DEF PipeIInv, PipeTyped, TypeOK
  <1>1. ~Human
    BY <1>t DEF Human, ReopenReview, ReadComment, RequeueTask, GateFails, Quiet
  <1>2. ~Crash /\ \A p \in Loops : ~WindowFails(p)  BY <1>t DEF Crash, WindowFails, Quiet
  <1>3. ASSUME CommentPass PROVE FALSE
    <2>1. Quiet /\ doing["comments"].at # "idle"
      BY <1>3 DEF CommentPass, CommentEpisode, EnqueueCommentFix, At, Quiet, bounds
    <2> QED BY <2>1, Rows
  <1>4. /\ Scheduler \/ Dispatcher \/ (\E p \in Loops : WindowOpens(p)) \/ (\E a \in Ids : Agent(a))
           \/ ClaimAges \/ Merge \/ UNCHANGED vars
    BY <1>1, <1>2, <1>3 DEF Next
  <1>5. UNCHANGED <<faults, human>>
    <2>1. CASE Scheduler
      BY <2>1 DEF Scheduler, ClaimReady, SpawnWorker, SpawnWorkerBlocked, EnqueueWork, SetClaimedBy,
                  HealMissingInbox, RetireFrozenClaim, ReapStaleClaim, HealRestartCohort, bounds
    <2>2. CASE Dispatcher
      BY <2>2 DEF Dispatcher, ListReviewer, SpawnReviewer, BumpRound, EnqueueReview, SpawnBlocked,
                  ListFixer, SpawnFixer, RecordFix, ClaimForFixer, EnqueueFix, HealReviewPrompt,
                  ApplyVerdict, WatchdogReviewer, HealFixPrompt, WatchdogFixer, SweepRetires,
                  RetireStuckImplementor, SweepDropsPrompts, SweepRearms, bounds
    <2>3. CASE (\E p \in Loops : WindowOpens(p)) \/ ClaimAges \/ Merge \/ UNCHANGED vars
      BY <2>3 DEF WindowOpens, ClaimAges, Merge, vars, bounds
    <2>4. CASE \E a \in Ids : Agent(a)
      BY <2>4 DEF Agent, Answers, Brief, SetPR, Release, Done, DoneRed, SayVerdict, FallsSilent,
                  PaneDies, bounds
    <2> QED BY <1>4, <2>1, <2>2, <2>3, <2>4
  <1> QED BY <1>4, <1>5 DEF Quiet

LEMMA AttendedStep ==
    ASSUME PipeIInv, VerdictKnown, Quiet => Attended, [Next]_vars
    PROVE  Quiet' => Attended'
  <1> SUFFICES ASSUME Quiet' PROVE Attended'
    OBVIOUS
  <1>1. Quiet /\ Attended  BY WhoMoves
  <1>t. PipeTyped /\ TypeOK /\ task \in TaskRow  BY Rows
  <1>2. CASE Scheduler  BY <1>1, <1>2, SchedulerAttends
  <1>3. CASE Dispatcher
    BY <1>1, <1>3, DispatcherSpawnsAttend, DispatcherWatchesAttend DEF Dispatcher
  <1>4. CASE \E p \in Loops : WindowOpens(p)  BY <1>1, <1>4, WindowAttends
  <1>5. CASE \E a \in Ids : Agent(a)  BY <1>1, <1>5, AgentAttends
  <1>6. CASE ClaimAges
    <2>1. task' = [task EXCEPT !.claim_old = TRUE] /\ UNCHANGED <<agents, ctx, prompts, doing>>
      BY <1>6 DEF ClaimAges
    <2>2. /\ task'.rounds = task.rounds /\ task'.status = task.status
          /\ task'.claimed_by = task.claimed_by
      BY <1>t, <2>1 DEF TaskRow
    <2> QED BY <1>1, <1>t, <2>1, <2>2, AttendedTask
  <1>7. CASE Merge
    <2>1. task' = [task EXCEPT !.status = "done"] /\ UNCHANGED <<agents, ctx, prompts, doing>>
      BY <1>7 DEF Merge
    <2>2. task'.rounds = task.rounds /\ task'.status = "done"
      BY <1>t, <2>1, TaskSet DEF Statuses
    <2> QED BY <1>1, <1>t, <2>1, <2>2, AttendedTask
  <1>8. CASE UNCHANGED vars
    BY <1>1, <1>t, <1>8, AttendedTask DEF vars
  <1> QED BY <1>2, <1>3, <1>4, <1>5, <1>6, <1>7, <1>8, WhoMoves

LEMMA AnswersInitial == Init => AnswerIInv
  <1> SUFFICES ASSUME Init PROVE AnswerIInv
    OBVIOUS
  <1>1. PipeIInv /\ VerdictKnown  BY PipeInitial, KnownInitial
  <1>2. /\ \A a \in Ids : ~Holds(a)
        /\ \A k \in Keys : prompts[k] = Nobody
        /\ ctx.fix = {} /\ task.status = "ready"
        /\ doing["scheduler"].at = "idle" /\ doing["dispatcher"].at = "idle"
    BY DEF Init, NoAgent, Holds, Idle, Loops
  <1>3. \A r \in Rounds : <<"review", r>> \in Keys /\ <<"fix", r>> \in Keys
    BY <1>1, KeysOfRounds DEF PipeIInv, PipeTyped
  <1> QED BY <1>1, <1>2, <1>3 DEF AnswerIInv, Attended, OnTheirDuty, AtWork, RoundsFresh, EpisodeOpen,
                                  Scheduling, Dispatching

LEMMA AnswersStep == AnswerIInv /\ [Next]_vars => AnswerIInv'
  BY PipeStep, KnownStep, AttendedStep DEF AnswerIInv

\* Left alone, no agent sits at an empty prompt: each key of a round was unused
\* when its reviewer or fixer came, and goes back to unused with it.
THEOREM NobodyLeftUnprompted == Spec => [](human = 0 => NobodyWaitsUnprompted)
  <1>1. ASSUME AnswerIInv PROVE human = 0 => NobodyWaitsUnprompted
    <2> SUFFICES ASSUME Quiet, NEW a \in Ids, OnDuty(a)
                 PROVE  \E k \in Keys : prompts[k] = a
      BY DEF NobodyWaitsUnprompted, Quiet
    <2>1. Attended /\ PipeTyped  BY <1>1 DEF AnswerIInv, PipeIInv
    <2>2. Holds(a) /\ ~Busy(a)  BY DEF OnDuty, LiveAs, AtIt, Busy, Loops
    <2>3. agents[a].role \in {"implementor", "reviewer", "fixer"} /\ Duty(a)
      BY <2>1, <2>2 DEF Attended, OnTheirDuty, PipeTyped, TypeOK, AgentRow
    <2>4. agents[a].role = "fixer" => task.status = "changes_requested"
      BY DEF OnDuty, Phase
    <2>5. /\ <<"task", 0>> \in Keys /\ <<"review", task.rounds>> \in Keys
          /\ <<"fix", task.rounds>> \in Keys
      BY <2>1, KeysAreKeys DEF PipeTyped
    <2> QED BY <2>3, <2>4, <2>5 DEF Duty
  <1> QED BY AnswersInitial, AnswersStep, <1>1, PTL DEF Spec

\* Left alone, a worker that was prompted holds the claim: its maquinista-done
\* moves the task and does not only free the worker.
THEOREM EveryDoneCounts == Spec => [](human = 0 => DoneWillCount)
  <1>1. ASSUME AnswerIInv PROVE human = 0 => DoneWillCount
    <2> SUFFICES ASSUME Quiet, NEW a \in Ids, OnDuty(a), agents[a].role # "reviewer"
                 PROVE  task.claimed_by = a
      BY DEF DoneWillCount, Quiet
    <2>1. Attended /\ PipeTyped  BY <1>1 DEF AnswerIInv, PipeIInv
    <2>2. Holds(a) /\ ~Busy(a)  BY DEF OnDuty, LiveAs, AtIt, Busy, Loops
    <2>3. agents[a].role \in {"implementor", "fixer"} /\ Duty(a)
      BY <2>1, <2>2 DEF Attended, OnTheirDuty, PipeTyped, TypeOK, AgentRow
    <2>4. /\ agents[a].role = "fixer" => task.status = "changes_requested"
          /\ agents[a].role = "implementor" => task.status = "claimed"
      BY DEF OnDuty, Phase
    <2> QED BY <2>3, <2>4 DEF Duty
  <1> QED BY AnswersInitial, AnswersStep, <1>1, PTL DEF Spec

\* Left alone, an episode that is marked as being fixed has a live fixer: no
\* crash-free order of the three commits of recordFixEpisode, the watchdogs and
\* the sweep leaves the mark behind.
THEOREM MarkedEpisodesHaveFixers == Spec => [](human = 0 => EpisodeHasFixer)
  <1>1. AnswerIInv => (human = 0 => EpisodeHasFixer)
    BY DEF AnswerIInv, Quiet, Attended, EpisodeOpen, EpisodeHasFixer, LiveAs
  <1> QED BY AnswersInitial, AnswersStep, <1>1, PTL DEF Spec
=============================================================================
