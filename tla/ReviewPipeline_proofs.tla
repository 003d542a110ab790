------------------------ MODULE ReviewPipeline_proofs ------------------------
(***************************************************************************)
(* Proofs about ReviewPipeline for any number of agents, rounds, faults    *)
(* and humans: rows keep their types, the loop left alone gives no fixer a *)
(* round past the cap, and a task parked by a pass has no agent left.      *)
(*                                                                         *)
(* All three follow one goroutine through its operation.  What the         *)
(* dispatcher listed was true when it was listed; the invariants say what  *)
(* is left of it until the last commit, whoever moved in between.          *)
(***************************************************************************)
EXTENDS ReviewPipeline, TLAPS

\* An operation past its spawn holds on to the agent it inserted or swept.
Unplaced == {"idle", "wants_reviewer", "wants_fixer", "claimed"}
Places == [scheduler  |-> {"idle", "claimed", "inserted", "running", "prompted"},
           dispatcher |-> {"idle", "wants_reviewer", "wants_fixer", "inserted", "running", "bumped",
                           "recorded", "fix_claimed", "swept", "dropped"},
           comments   |-> {"idle", "inserted", "running", "recorded"}]
Placed ==
    \A p \in Loops :
        /\ doing[p].at \in Places[p]
        /\ doing[p].at \notin Unplaced =>
               /\ doing[p].agent \in Ids
               /\ agents[doing[p].agent].status # "absent"

\* The dispatcher is on its way to a reviewer's bump, or to a fixer's row.
Towards(wish, role) ==
    \/ doing["dispatcher"].at = wish
    \/ /\ doing["dispatcher"].at \in {"inserted", "running"}
       /\ agents[doing["dispatcher"].agent].role = role
ToReviewer == Towards("wants_reviewer", "reviewer")
ToFixer == Towards("wants_fixer", "fixer")

\* uq_agents_task_live.
OneHolder == \A a, b \in Ids : Holds(a) /\ Holds(b) => a = b

PipeTyped == TypeOK /\ Placed /\ OneHolder /\ (ToReviewer => task.rounds < MaxRounds)

\* Left alone, a task in changes_requested is below the cap and stays so: the
\* dispatcher does not raise its round before it has left that status.
BelowCap ==
    human = 0 =>
        /\ \A r \in ctx.fix : r < MaxReviewRounds
        /\ doing["comments"].at = "idle"
        /\ task.status = "changes_requested" => task.rounds < MaxReviewRounds /\ ~ToReviewer
        /\ ToFixer => task.rounds < MaxReviewRounds

\* Without faults and humans the scheduler is alone with the task it claimed,
\* and the dispatcher with the one it is spawning for.
SchedulerAt == doing["scheduler"].at # "idle"
Spawning == doing["dispatcher"].at \notin {"idle", "swept", "dropped"}
Parked == {"pending_approval", "ready_to_merge"}
Quiet == faults = 0 /\ human = 0
ClaimIsOurs ==
    /\ task.status = "ready" => task.claimed_by = Nobody
    /\ SchedulerAt =>
           /\ task.status = "claimed" /\ task.claimed_by = Nobody
           /\ \A a \in Ids : (Holds(a) /\ agents[a].role = "implementor")
                                 => doing["scheduler"].at # "claimed" /\ a = doing["scheduler"].agent
SpawnIsOurs ==
    /\ Spawning =>
           /\ task.status \notin Parked
           /\ task.status = "claimed" => \A a \in Ids : Holds(a) => agents[a].silent = "no"
    /\ doing["dispatcher"].at = "inserted" =>
           /\ agents[doing["dispatcher"].agent].role \in {"reviewer", "fixer"}
           /\ agents[doing["dispatcher"].agent].silent = "no"
    /\ doing["scheduler"].at = "inserted" => agents[doing["scheduler"].agent].silent = "no"
Undisturbed ==
    Quiet => /\ ClaimIsOurs /\ SpawnIsOurs
             /\ doing["comments"].at = "idle"
             /\ task.status \in Parked => SlotFree

PipeIInv == PipeTyped /\ BelowCap /\ Undisturbed

-----------------------------------------------------------------------------
(* Rows.                                                                    *)

\* A step on the agents' rows keeps what was inserted; a tame one also makes
\* nobody a holder and nobody silent.
RowsKept ==
    /\ agents' \in [Ids -> AgentRow]
    /\ \A a \in Ids : /\ agents'[a].role = agents[a].role
                      /\ agents[a].status # "absent" => agents'[a].status # "absent"
Tame ==
    /\ RowsKept
    /\ \A a \in Ids : /\ agents'[a].bound /\ agents'[a].status # "dead" => Holds(a)
                      /\ agents'[a].silent \in {agents[a].silent, "no"}

LEMMA DeadRow ==
    ASSUME NEW rec \in AgentRow, NEW pane \in BOOLEAN
    PROVE  /\ Dead(rec, pane) \in AgentRow /\ Dead(rec, pane).status = "dead"
           /\ Dead(rec, pane).role = rec.role /\ Dead(rec, pane).silent \in {rec.silent, "no"}
           /\ Dead(rec, pane).bound = rec.bound
  <1>1. CASE pane
    <2> DEFINE r == [rec EXCEPT !.status = "dead"]
    <2>1. /\ r \in AgentRow /\ r.status = "dead" /\ r.role = rec.role /\ r.silent = rec.silent
          /\ r.bound = rec.bound
      BY DEF AgentRow
    <2> QED BY <1>1, <2>1 DEF Dead
  <1>2. CASE ~pane
    <2> DEFINE r == [NoAgent EXCEPT !.role = rec.role, !.status = "dead", !.bound = rec.bound]
    <2>1. rec.role \in {"none", "implementor", "reviewer", "fixer"} /\ rec.bound \in BOOLEAN
      BY DEF AgentRow
    <2>2. NoAgent \in AgentRow /\ NoAgent.silent = "no"  BY DEF NoAgent, AgentRow
    <2>3. /\ r \in AgentRow /\ r.status = "dead" /\ r.role = rec.role /\ r.silent = "no"
          /\ r.bound = rec.bound
      BY <2>1, <2>2 DEF AgentRow
    <2> QED BY <1>2, <2>3 DEF Dead
  <1> QED BY <1>1, <1>2

\* One row is changed.
LEMMA TameRow ==
    ASSUME agents \in [Ids -> AgentRow], NEW a \in Ids, NEW r \in AgentRow,
           agents' = [agents EXCEPT ![a] = r],
           r.role = agents[a].role, r.silent \in {agents[a].silent, "no"},
           agents[a].status # "absent" => r.status # "absent",
           r.bound /\ r.status # "dead" => Holds(a)
    PROVE  Tame
  BY DEF Tame, RowsKept, Holds

LEMMA TameSame ==
    ASSUME agents \in [Ids -> AgentRow], UNCHANGED agents
    PROVE  Tame
  BY DEF Tame, RowsKept, Holds

LEMMA TameDead ==
    ASSUME agents \in [Ids -> AgentRow], NEW a \in Ids, NEW pane \in BOOLEAN,
           agents' = [agents EXCEPT ![a] = Dead(agents[a], pane)]
    PROVE  Tame /\ ~Holds(a)'
  <1> DEFINE r == Dead(agents[a], pane)
  <1>1. /\ r \in AgentRow /\ r.status = "dead" /\ r.role = agents[a].role
        /\ r.silent \in {agents[a].silent, "no"}
    BY DeadRow
  <1>2. agents' = [agents EXCEPT ![a] = r]  OBVIOUS
  <1> HIDE DEF r
  <1> QED BY <1>1, <1>2, TameRow DEF Holds

\* Some rows die, the others stay.
LEMMA TameDeaths ==
    ASSUME agents \in [Ids -> AgentRow], NEW pane \in [Ids -> BOOLEAN], NEW D \in SUBSET Ids,
           agents' = [a \in Ids |-> IF a \in D THEN Dead(agents[a], pane[a]) ELSE agents[a]]
    PROVE  Tame /\ \A a \in D : ~Holds(a)'
  <1>1. \A a \in Ids : LET r == Dead(agents[a], pane[a]) IN
                          /\ r \in AgentRow /\ r.status = "dead" /\ r.role = agents[a].role
                          /\ r.silent \in {agents[a].silent, "no"}
    BY DeadRow
  <1>2. \A a \in Ids : agents'[a] = IF a \in D THEN Dead(agents[a], pane[a]) ELSE agents[a]
    OBVIOUS
  <1>3. agents' \in [Ids -> AgentRow]  BY <1>1
  <1> QED BY <1>1, <1>2, <1>3 DEF Tame, RowsKept, Holds

-----------------------------------------------------------------------------
(* Steps that begin nothing that matters.                                   *)

\* Every goroutine stays where it is, gives up, goes on with its own agent or
\* begins to sweep.
Onward(p) ==
    /\ doing[p].at \notin Unplaced /\ doing'[p].at \notin Unplaced \cup {"inserted"}
    /\ doing'[p].agent = doing[p].agent /\ doing'[p].at \in Places[p]
    /\ doing'[p].at = "running" => doing[p].at = "inserted"
    /\ doing'[p].at \in {"swept", "dropped"} <=> doing[p].at \in {"swept", "dropped"}
Sweeps(p) ==
    /\ p = "dispatcher" /\ doing'[p].at = "swept"
    /\ doing'[p].agent \in Ids /\ agents[doing'[p].agent].status # "absent"
Steady ==
    /\ doing' \in [Loops -> Doing]
    /\ \A p \in Loops : doing'[p] = doing[p] \/ doing'[p] = Idle \/ Onward(p) \/ Sweeps(p)

LEMMA SteadyPlaces ==
    ASSUME Placed, RowsKept, Steady, doing \in [Loops -> Doing]
    PROVE  /\ Placed'
           /\ (ToReviewer' => ToReviewer) /\ (ToFixer' => ToFixer)
           /\ SchedulerAt' => /\ SchedulerAt /\ doing'["scheduler"].agent = doing["scheduler"].agent
                              /\ doing'["scheduler"].at = "claimed" => doing["scheduler"].at = "claimed"
           /\ Spawning' => Spawning
           /\ \A p \in Loops : doing'[p].at = "inserted" => doing'[p] = doing[p]
           /\ doing["comments"].at = "idle" => doing'["comments"].at = "idle"
  <1>1. Placed'
    <2> SUFFICES ASSUME NEW p \in Loops
                 PROVE  /\ doing'[p].at \in Places[p]
                        /\ doing'[p].at \notin Unplaced =>
                               /\ doing'[p].agent \in Ids
                               /\ agents'[doing'[p].agent].status # "absent"
      BY DEF Placed
    <2>1. CASE doing'[p] = doing[p]  BY <2>1 DEF Placed, RowsKept
    <2>2. CASE doing'[p] = Idle
      <3>1. "idle" \in Places[p]
        <4>1. "idle" \in Places["scheduler"]  BY DEF Places
        <4>2. "idle" \in Places["dispatcher"]  BY DEF Places
        <4>3. "idle" \in Places["comments"]  BY DEF Places
        <4> QED BY <4>1, <4>2, <4>3 DEF Loops
      <3> QED BY <2>2, <3>1 DEF Idle, Unplaced
    <2>3. CASE Onward(p)  BY <2>3 DEF Placed, RowsKept, Onward
    <2>4. CASE Sweeps(p)
      <3>1. "swept" \in Places["dispatcher"]  BY DEF Places
      <3> QED BY <2>4, <3>1 DEF Sweeps, RowsKept
    <2> QED BY <2>1, <2>2, <2>3, <2>4 DEF Steady
  <1>2. (ToReviewer' => ToReviewer) /\ (ToFixer' => ToFixer)
    <2> DEFINE d == "dispatcher"
    <2>1. \A wish \in {"wants_reviewer", "wants_fixer"} : doing'[d].at = wish => doing[d].at = wish
      BY DEF Steady, Onward, Sweeps, Idle, Unplaced, Loops
    <2>2. doing'[d].at \in {"inserted", "running"} =>
             /\ doing[d].at \in {"inserted", "running"} /\ doing'[d].agent = doing[d].agent
             /\ doing[d].agent \in Ids
      BY DEF Steady, Onward, Sweeps, Idle, Unplaced, Loops, Placed
    <2>3. \A a \in Ids : agents'[a].role = agents[a].role  BY DEF RowsKept
    <2> QED BY <2>1, <2>2, <2>3 DEF ToReviewer, ToFixer, Towards
  <1>3. SchedulerAt' => /\ SchedulerAt /\ doing'["scheduler"].agent = doing["scheduler"].agent
                        /\ doing'["scheduler"].at = "claimed" => doing["scheduler"].at = "claimed"
    BY DEF SchedulerAt, Steady, Onward, Sweeps, Idle, Unplaced, Loops
  <1>4. Spawning' => Spawning
    BY DEF Spawning, Steady, Onward, Sweeps, Idle, Unplaced, Loops
  <1>5. /\ \A p \in Loops : doing'[p].at = "inserted" => doing'[p] = doing[p]
        /\ doing["comments"].at = "idle" => doing'["comments"].at = "idle"
    BY DEF Steady, Onward, Sweeps, Idle, Unplaced, Loops
  <1> QED BY <1>1, <1>2, <1>3, <1>4, <1>5

BoundsTyped == setbacks \in 0..MaxSetbacks /\ faults \in 0..MaxFaults /\ human \in 0..MaxHuman
BoundsGrow == BoundsTyped' /\ (human' = 0 => human = 0) /\ (faults' = 0 => faults = 0)
LEMMA TypedStays ==
    ASSUME PipeTyped, RowsKept, OneHolder', Steady, task' \in TaskRow,
           task'.rounds = task.rounds, ctx' \in Ctx, prompts' \in [Keys -> Ids \cup {Nobody}], cohort' \in SUBSET Ids, BoundsTyped'
    PROVE  PipeTyped'
  <1>1. TypeOK'  BY DEF PipeTyped, TypeOK, RowsKept, Steady, BoundsTyped
  <1>2. Placed' /\ (ToReviewer' => ToReviewer)
    BY SteadyPlaces DEF PipeTyped, TypeOK
  <1>3. OneHolder'  BY DEF PipeTyped, OneHolder, Tame, Holds
  <1> QED BY <1>1, <1>2 DEF PipeTyped

LEMMA CapStays ==
    ASSUME PipeTyped, BelowCap, RowsKept, Steady, task'.rounds = task.rounds, ctx'.fix \subseteq ctx.fix,
           human' = 0 => human = 0,
           human' = 0 /\ task'.status = "changes_requested"
               => \/ task.status = "changes_requested"
                  \/ task.rounds < MaxReviewRounds /\ ~ToReviewer
    PROVE  BelowCap'
  <1>1. /\ (ToReviewer' => ToReviewer) /\ (ToFixer' => ToFixer)
        /\ doing["comments"].at = "idle" => doing'["comments"].at = "idle"
    BY SteadyPlaces DEF PipeTyped, TypeOK
  <1> QED BY <1>1 DEF BelowCap

LEMMA QuietStays ==
    ASSUME PipeTyped, Undisturbed, Tame, Steady, Quiet' => Quiet,
           Quiet' /\ task'.status = "ready" => task'.claimed_by = Nobody,
           Quiet' /\ SchedulerAt' => task'.status = "claimed" /\ task'.claimed_by = Nobody,
           Quiet' /\ task'.status = "claimed" => task.status = "claimed" \/ SlotFree',
           Quiet' /\ task'.status \in Parked
               => SlotFree' \/ task.status \in Parked,
           Quiet' /\ task'.status \in Parked /\ Spawning' => task.status \in Parked
    PROVE  Undisturbed'
  <1> SUFFICES ASSUME Quiet', Quiet
               PROVE  /\ ClaimIsOurs' /\ SpawnIsOurs' /\ doing'["comments"].at = "idle"
                      /\ task'.status \in Parked => SlotFree'
    BY DEF Undisturbed
  <1>0. ClaimIsOurs /\ SpawnIsOurs /\ doing["comments"].at = "idle"
        /\ (task.status \in Parked => SlotFree)
    BY DEF Undisturbed
  <1>1. /\ SchedulerAt' => /\ SchedulerAt /\ doing'["scheduler"].agent = doing["scheduler"].agent
                           /\ doing'["scheduler"].at = "claimed" => doing["scheduler"].at = "claimed"
        /\ Spawning' => Spawning
        /\ \A p \in Loops : doing'[p].at = "inserted" => doing'[p] = doing[p]
        /\ doing'["comments"].at = "idle"
    BY <1>0, SteadyPlaces DEF PipeTyped, TypeOK, Tame
  <1>2. \A a \in Ids : /\ Holds(a)' => Holds(a)
                       /\ agents'[a].role = agents[a].role
                       /\ agents'[a].silent \in {agents[a].silent, "no"}
    BY DEF Tame, RowsKept, Holds
  <1>3. ClaimIsOurs'  BY <1>0, <1>1, <1>2 DEF ClaimIsOurs
  <1>4. task'.status \in Parked => SlotFree'  BY <1>0, <1>2 DEF SlotFree
  <1>5. Spawning' => /\ task'.status \notin Parked
                     /\ task'.status = "claimed" => \A a \in Ids : Holds(a)' => agents'[a].silent = "no"
    BY <1>0, <1>1, <1>2 DEF SpawnIsOurs, SlotFree
  <1>6. /\ doing'["dispatcher"].at = "inserted" =>
               /\ agents'[doing'["dispatcher"].agent].role \in {"reviewer", "fixer"}
               /\ agents'[doing'["dispatcher"].agent].silent = "no"
        /\ doing'["scheduler"].at = "inserted" => agents'[doing'["scheduler"].agent].silent = "no"
    <2>1. \A p \in Loops : doing'[p].at = "inserted" => doing'[p] = doing[p] /\ doing[p].agent \in Ids
      BY <1>1 DEF PipeTyped, Placed, Unplaced
    <2> QED BY <1>0, <1>2, <2>1 DEF SpawnIsOurs, Loops
  <1> QED BY <1>1, <1>3, <1>4, <1>5, <1>6 DEF SpawnIsOurs

LEMMA Calm ==
    ASSUME PipeIInv, Tame, Steady, task' \in TaskRow, task'.rounds = task.rounds, ctx' \in Ctx,
           ctx'.fix \subseteq ctx.fix, prompts' \in [Keys -> Ids \cup {Nobody}],
           cohort' \in SUBSET Ids, BoundsGrow,
           human' = 0 /\ task'.status = "changes_requested"
               => \/ task.status = "changes_requested"
                  \/ task.rounds < MaxReviewRounds /\ ~ToReviewer,
           Quiet' =>
             /\ task'.status = "ready" => task'.claimed_by = Nobody
             /\ SchedulerAt' => task'.status = "claimed" /\ task'.claimed_by = Nobody
             /\ task'.status = "claimed" => task.status = "claimed" \/ SlotFree'
             /\ task'.status \in Parked =>
                    \/ task.status \in Parked
                    \/ SlotFree' /\ ~Spawning'
    PROVE  PipeIInv'
  <1>1. Quiet' => Quiet  BY DEF Quiet, BoundsGrow
  <1>2. OneHolder'  BY DEF PipeIInv, PipeTyped, OneHolder, Tame, Holds
  <1>3. PipeTyped'  BY <1>2, TypedStays DEF PipeIInv, BoundsGrow, Tame
  <1>4. BelowCap'  BY CapStays DEF PipeIInv, BoundsGrow, Tame
  <1>5. Undisturbed'  BY <1>1, QuietStays DEF PipeIInv
  <1> QED BY <1>3, <1>4, <1>5 DEF PipeIInv

\* Most steps leave the task alone.
LEMMA CalmTaskSame ==
    ASSUME PipeIInv, Tame, Steady, UNCHANGED task, ctx' \in Ctx, ctx'.fix \subseteq ctx.fix,
           prompts' \in [Keys -> Ids \cup {Nobody}], cohort' \in SUBSET Ids, BoundsGrow
    PROVE  PipeIInv'
  <1>1. task' \in TaskRow  BY DEF PipeIInv, PipeTyped, TypeOK
  <1>2. SchedulerAt' => SchedulerAt  BY SteadyPlaces DEF PipeIInv, PipeTyped, TypeOK, Tame
  <1>3. Quiet' => ClaimIsOurs  BY DEF PipeIInv, Undisturbed, Quiet, BoundsGrow
  <1> QED BY <1>1, <1>2, <1>3, Calm DEF ClaimIsOurs

-----------------------------------------------------------------------------
(* What the passes write.                                                   *)

LEMMA VerdictTyped ==
    ASSUME NEW c \in Ctx, NEW v \in {"none", "request_changes", "other"}
    PROVE  /\ WithVerdict(c, v) \in Ctx /\ WithVerdict(c, v).fix = c.fix
           /\ WithVerdict(c, v).verdict = v
           /\ c.rc \/ v = "request_changes" => WithVerdict(c, v).rc
  <1> DEFINE r == c.rc \/ v = "request_changes"
  <1>1. c.rc \in BOOLEAN  BY DEF Ctx
  <1>2. r \in BOOLEAN  BY <1>1
  <1>3. WithVerdict(c, v) = [c EXCEPT !.verdict = v, !.rc = r]  BY DEF WithVerdict
  <1> HIDE DEF r
  <1>4. /\ WithVerdict(c, v) \in Ctx /\ WithVerdict(c, v).fix = c.fix
        /\ WithVerdict(c, v).verdict = v /\ WithVerdict(c, v).rc = r
    BY <1>2, <1>3 DEF Ctx
  <1> QED BY <1>4 DEF r

LEMMA FrozeTyped ==
    ASSUME TypeOK, NEW c \in Ctx, NEW role \in {"implementor", "reviewer", "fixer"}
    PROVE  /\ Froze(c, role) \in Ctx /\ Froze(c, role).fix = c.fix
           /\ Froze(c, role).verdict = c.verdict /\ Froze(c, role).rc = c.rc
  <1>1. Arm(role) \in {"implementor", "reviewer", "fixer"} \X Rounds
    BY PipelineAssumption DEF TypeOK, TaskRow, Rounds, Arm
  <1> DEFINE n == ctx.frozen[Arm(role)] + 1
             g == [c.frozen EXCEPT ![Arm(role)] = n]
  <1>2. n \in Nat  BY <1>1 DEF TypeOK, Ctx
  <1> HIDE DEF n
  <1>3. g \in [{"implementor", "reviewer", "fixer"} \X Rounds -> Nat]  BY <1>1, <1>2 DEF Ctx
  <1>4. Froze(c, role) = [c EXCEPT !.frozen = g]  BY DEF Froze, n
  <1> HIDE DEF g
  <1> QED BY <1>3, <1>4 DEF Ctx

LEMMA NoFixTyped ==
    ASSUME NEW c \in Ctx
    PROVE  /\ NoFix(c) \in Ctx /\ NoFix(c).fix = c.fix \ {task.rounds}
           /\ NoFix(c).verdict = c.verdict /\ NoFix(c).rc = c.rc
  <1> DEFINE x == c.fix \ {task.rounds}
  <1>1. x \in SUBSET Rounds  BY DEF Ctx
  <1>2. NoFix(c) = [c EXCEPT !.fix = x]  BY DEF NoFix
  <1> HIDE DEF x
  <1>3. NoFix(c) \in Ctx /\ NoFix(c).fix = x /\ NoFix(c).verdict = c.verdict /\ NoFix(c).rc = c.rc
    BY <1>1, <1>2 DEF Ctx
  <1> QED BY <1>3 DEF x

LEMMA FixRecorded ==
    ASSUME TypeOK, ctx' = [ctx EXCEPT !.fix = ctx.fix \cup {task.rounds}]
    PROVE  /\ ctx' \in Ctx /\ ctx'.fix = ctx.fix \cup {task.rounds}
           /\ ctx'.verdict = ctx.verdict /\ ctx'.rc = ctx.rc
  <1> DEFINE x == ctx.fix \cup {task.rounds}
  <1>1. x \in SUBSET Rounds /\ ctx \in Ctx  BY DEF TypeOK, Ctx, TaskRow
  <1> HIDE DEF x
  <1>2. ctx' = [ctx EXCEPT !.fix = x]  BY DEF x
  <1>3. ctx' \in Ctx /\ ctx'.fix = x /\ ctx'.verdict = ctx.verdict /\ ctx'.rc = ctx.rc
    BY <1>1, <1>2 DEF Ctx
  <1> QED BY <1>3 DEF x

LEMMA PromptTyped ==
    ASSUME TypeOK, NEW k \in Keys, NEW a \in Ids
    PROVE  /\ Enqueue(k, a) \in [Keys -> Ids \cup {Nobody}]
           /\ DropPrompts(a) \in [Keys -> Ids \cup {Nobody}]
           /\ [prompts EXCEPT ![k] = a] \in [Keys -> Ids \cup {Nobody}]
  BY DEF TypeOK, Enqueue, DropPrompts

LEMMA KeysAreKeys ==
    ASSUME TypeOK
    PROVE  <<"task", 0>> \in Keys /\ <<"review", task.rounds>> \in Keys /\ <<"fix", task.rounds>> \in Keys
  BY DEF TypeOK, TaskRow, Keys

\* Where a goroutine goes.
LEMMA SteadySame ==
    ASSUME TypeOK, UNCHANGED doing
    PROVE  Steady
  BY DEF TypeOK, Steady

LEMMA SteadyRest ==
    ASSUME TypeOK, NEW p \in Loops, Rest(p)
    PROVE  Steady /\ doing'[p] = Idle /\ \A q \in Loops : q # p => doing'[q] = doing[q]
  BY DEF TypeOK, Steady, Rest, Idle, Doing

LEMMA Went ==
    ASSUME TypeOK, NEW p \in Loops,
           NEW place \in {"wants_reviewer", "wants_fixer", "claimed", "running", "prompted", "bumped",
                           "recorded", "fix_claimed", "dropped"},
           Go(p, place)
    PROVE  /\ doing' \in [Loops -> Doing]
           /\ doing'[p].at = place /\ doing'[p].agent = doing[p].agent
           /\ \A q \in Loops : q # p => doing'[q] = doing[q]
  <1> DEFINE d == [doing[p] EXCEPT !.at = place]
  <1>1. d \in Doing /\ d.at = place /\ d.agent = doing[p].agent  BY DEF TypeOK, Doing
  <1>2. doing' = [doing EXCEPT ![p] = d]  BY DEF Go
  <1> HIDE DEF d
  <1> QED BY <1>1, <1>2 DEF TypeOK

LEMMA SteadyGo ==
    ASSUME TypeOK, NEW p \in Loops,
           NEW place \in {"running", "prompted", "bumped", "recorded", "fix_claimed", "dropped"},
           Go(p, place), doing[p].at \notin Unplaced, place \in Places[p],
           place = "running" => doing[p].at = "inserted",
           place = "dropped" <=> doing[p].at \in {"swept", "dropped"}
    PROVE  /\ Steady /\ doing'[p].at = place /\ doing'[p].agent = doing[p].agent
           /\ \A q \in Loops : q # p => doing'[q] = doing[q]
  <1>1. /\ doing' \in [Loops -> Doing]
        /\ doing'[p].at = place /\ doing'[p].agent = doing[p].agent
        /\ \A q \in Loops : q # p => doing'[q] = doing[q]
    BY Went
  <1>2. Onward(p)  BY <1>1 DEF Onward, Unplaced
  <1> QED BY <1>1, <1>2 DEF Steady

\* SpawnFresh inserts a row for nobody else, and nobody else holds the task.
Inserts(a, role) ==
    /\ SlotFree /\ Fresh(a)
    /\ agents' = [agents EXCEPT ![a] =
           [NoAgent EXCEPT !.role = role, !.status = "stopped", !.bound = TRUE]]
LEMMA Inserted ==
    ASSUME PipeTyped, NEW role \in {"implementor", "reviewer", "fixer"}, NEW a \in Ids, Inserts(a, role)
    PROVE  /\ agents' \in [Ids -> AgentRow]
           /\ agents'[a].role = role /\ agents'[a].status = "stopped" /\ agents'[a].silent = "no"
           /\ agents'[a].bound /\ agents[a].status = "absent"
           /\ \A b \in Ids : b # a => agents'[b] = agents[b] /\ ~Holds(b)'
           /\ OneHolder'
  <1> DEFINE r == [NoAgent EXCEPT !.role = role, !.status = "stopped", !.bound = TRUE]
  <1>1. NoAgent \in AgentRow /\ NoAgent.silent = "no"  BY DEF NoAgent, AgentRow
  <1>2. /\ r \in AgentRow /\ r.role = role /\ r.status = "stopped" /\ r.silent = "no"
        /\ r.bound = TRUE
    BY <1>1 DEF AgentRow
  <1>3. agents' = [agents EXCEPT ![a] = r]  BY DEF Inserts
  <1> HIDE DEF r
  <1>4. agents' \in [Ids -> AgentRow] /\ agents'[a] = r /\ \A b \in Ids : b # a => agents'[b] = agents[b]
    BY <1>2, <1>3 DEF PipeTyped, TypeOK
  <1>5. \A b \in Ids : b # a => ~Holds(b)'  BY <1>4 DEF Inserts, SlotFree, Holds
  <1> QED BY <1>2, <1>4, <1>5 DEF OneHolder, Inserts, Fresh

\* What an insert leaves to show: where the goroutine came from.
LEMMA InsertKeeps ==
    ASSUME PipeIInv, NEW p \in Loops, NEW role \in {"implementor", "reviewer", "fixer"},
           NEW a \in Ids, Inserts(a, role),
           doing' \in [Loops -> Doing], doing'[p].at = "inserted", doing'[p].agent = a,
           \A q \in Loops : q # p => doing'[q] = doing[q],
           doing[p].at \in Unplaced, BoundsGrow, UNCHANGED <<task, ctx, prompts, cohort>>,
           p = "scheduler" => role = "implementor" /\ doing[p].at = "claimed",
           p = "dispatcher" => \/ role = "reviewer" /\ doing[p].at = "wants_reviewer"
                               \/ role = "fixer" /\ doing[p].at = "wants_fixer",
           p = "comments" => human' # 0
    PROVE  PipeIInv'
  <1>1. /\ agents' \in [Ids -> AgentRow]
        /\ agents'[a].role = role /\ agents'[a].status = "stopped" /\ agents'[a].silent = "no"
        /\ agents[a].status = "absent"
        /\ \A b \in Ids : b # a => agents'[b] = agents[b] /\ ~Holds(b)'
        /\ OneHolder'
    <2>1. PipeTyped  BY DEF PipeIInv
    <2> QED BY <2>1, Inserted
  <1>2. \A q \in Loops : q # p /\ doing[q].at \notin Unplaced =>
           /\ doing[q].agent \in Ids /\ doing[q].agent # a
           /\ agents'[doing[q].agent] = agents[doing[q].agent]
    BY <1>1 DEF PipeIInv, PipeTyped, Placed
  <1>3. Placed'
    <2> SUFFICES ASSUME NEW q \in Loops
                 PROVE  /\ doing'[q].at \in Places[q]
                        /\ doing'[q].at \notin Unplaced =>
                               /\ doing'[q].agent \in Ids
                               /\ agents'[doing'[q].agent].status # "absent"
      BY DEF Placed
    <2>1. CASE q # p  BY <1>2, <2>1 DEF PipeIInv, PipeTyped, Placed
    <2>2. CASE q = p
      <3>1. "inserted" \in Places[q]
        <4>1. "inserted" \in Places["scheduler"]  BY DEF Places
        <4>2. "inserted" \in Places["dispatcher"]  BY DEF Places
        <4>3. "inserted" \in Places["comments"]  BY DEF Places
        <4> QED BY <4>1, <4>2, <4>3 DEF Loops
      <3> QED BY <1>1, <2>2, <3>1
    <2> QED BY <2>1, <2>2
  <1>4. (ToReviewer' => ToReviewer) /\ (ToFixer' => ToFixer)
    <2>1. CASE p = "dispatcher"
      BY <1>1, <2>1 DEF ToReviewer, ToFixer, Towards
    <2>2. CASE p # "dispatcher"
      <3>1. doing'["dispatcher"] = doing["dispatcher"]  BY <2>2 DEF Loops
      <3>2. doing["dispatcher"].at \in {"inserted", "running"} =>
               agents'[doing["dispatcher"].agent] = agents[doing["dispatcher"].agent]
        BY <1>2, <2>2 DEF Loops, Unplaced
      <3> QED BY <3>1, <3>2 DEF ToReviewer, ToFixer, Towards
    <2> QED BY <2>1, <2>2
  <1>5. TypeOK'  BY <1>1 DEF PipeIInv, PipeTyped, TypeOK, BoundsGrow, BoundsTyped
  <1>6. PipeTyped'  BY <1>1, <1>3, <1>4, <1>5 DEF PipeIInv, PipeTyped
  <1>7. BelowCap'
    <2> SUFFICES ASSUME human' = 0, human = 0 PROVE BelowCap'
      BY DEF BelowCap, BoundsGrow
    <2>1. doing'["comments"].at = doing["comments"].at  BY DEF Loops
    <2> QED BY <1>4, <2>1 DEF PipeIInv, BelowCap
  <1>8. Undisturbed'
    <2> SUFFICES ASSUME Quiet', Quiet
                 PROVE  /\ ClaimIsOurs' /\ SpawnIsOurs' /\ doing'["comments"].at = "idle"
                        /\ task'.status \in Parked => SlotFree'
      BY DEF Undisturbed, Quiet, BoundsGrow
    <2>0. /\ ClaimIsOurs /\ SpawnIsOurs /\ doing["comments"].at = "idle"
          /\ task.status \in Parked => SlotFree
      BY DEF PipeIInv, Undisturbed
    <2>1. p # "comments" /\ doing'["comments"].at = "idle"  BY <2>0 DEF Quiet, Loops
    <2>2. \A b \in Ids : Holds(b)' => b = a  BY <1>1
    <2>3. CASE p = "scheduler"
      <3>1. task.status = "claimed" /\ task.claimed_by = Nobody
        BY <2>0, <2>3 DEF ClaimIsOurs, SchedulerAt
      <3>2. ClaimIsOurs'  BY <2>2, <2>3, <3>1 DEF ClaimIsOurs
      <3>3. doing'["dispatcher"] = doing["dispatcher"]  BY <2>3 DEF Loops
      <3>4. doing["dispatcher"].at = "inserted" =>
               agents'[doing["dispatcher"].agent] = agents[doing["dispatcher"].agent]
        BY <1>2, <2>3 DEF Loops, Unplaced
      <3>5. SpawnIsOurs'
        <4>1. Spawning' =>
                 /\ task'.status \notin Parked
                 /\ \A b \in Ids : Holds(b)' => agents'[b].silent = "no"
          BY <1>1, <2>2, <3>1 DEF Parked
        <4>2. doing'["dispatcher"].at = "inserted" =>
                 /\ agents'[doing'["dispatcher"].agent].role \in {"reviewer", "fixer"}
                 /\ agents'[doing'["dispatcher"].agent].silent = "no"
          BY <2>0, <3>3, <3>4 DEF SpawnIsOurs
        <4>3. agents'[doing'["scheduler"].agent].silent = "no"  BY <1>1, <2>3
        <4> QED BY <4>1, <4>2, <4>3 DEF SpawnIsOurs
      <3> QED BY <2>1, <3>1, <3>2, <3>5 DEF Parked
    <2>4. CASE p = "dispatcher"
      <3>1. Spawning /\ task.status \notin Parked
        BY <2>0, <2>4 DEF SpawnIsOurs, Spawning
      <3>2. doing'["scheduler"] = doing["scheduler"]  BY <2>4 DEF Loops
      <3>3. role \in {"reviewer", "fixer"}  BY <2>4
      <3>4. ClaimIsOurs'  BY <1>1, <2>0, <2>2, <3>2, <3>3 DEF ClaimIsOurs, SchedulerAt
      <3>5. doing["scheduler"].at = "inserted" =>
               agents'[doing["scheduler"].agent] = agents[doing["scheduler"].agent]
        BY <1>2, <2>4 DEF Loops, Unplaced
      <3>6. SpawnIsOurs'  BY <1>1, <2>0, <2>2, <2>4, <3>1, <3>2, <3>3, <3>5 DEF SpawnIsOurs
      <3> QED BY <2>1, <3>1, <3>4, <3>6
    <2> QED BY <2>1, <2>3, <2>4 DEF Loops
  <1> QED BY <1>6, <1>7, <1>8 DEF PipeIInv

-----------------------------------------------------------------------------
(* Rows of tasks, agents and goroutines that a step writes.                 *)

Statuses == {"ready", "claimed", "review", "changes_requested",
             "ready_to_merge", "pending_approval", "done"}
LEMMA TaskSet ==
    ASSUME TypeOK, NEW s \in Statuses, task' = [task EXCEPT !.status = s]
    PROVE  /\ task' \in TaskRow /\ task'.status = s
           /\ task'.rounds = task.rounds /\ task'.claimed_by = task.claimed_by
  BY DEF TypeOK, TaskRow, Statuses

LEMMA TaskFreed ==
    ASSUME TypeOK, NEW s \in Statuses, task' = [task EXCEPT !.status = s, !.claimed_by = Nobody]
    PROVE  /\ task' \in TaskRow /\ task'.status = s
           /\ task'.rounds = task.rounds /\ task'.claimed_by = Nobody
  BY DEF TypeOK, TaskRow, Statuses

LEMMA Unclaimed ==
    ASSUME TypeOK, NEW p \in Loops, Unclaim(p)
    PROVE  /\ task' \in TaskRow /\ task'.rounds = task.rounds /\ task'.claimed_by = task.claimed_by
           /\ \/ task' = task
              \/ p = "scheduler" /\ task.status = "claimed" /\ task'.status = "ready"
  <1>1. CASE p = "scheduler" /\ task.status = "claimed"
    BY <1>1, TaskSet DEF Unclaim, Statuses
  <1>2. CASE ~(p = "scheduler" /\ task.status = "claimed")
    BY <1>2 DEF Unclaim, TypeOK
  <1> QED BY <1>1, <1>2

LEMMA Retired ==
    ASSUME PipeTyped, NEW a \in Ids, Holds(a), Retire(a)
    PROVE  Tame /\ SlotFree'
  <1>1. Tame /\ ~Holds(a)'  BY TameDead DEF Retire, PipeTyped, TypeOK
  <1> QED BY <1>1 DEF PipeTyped, OneHolder, SlotFree, Tame, Holds

LEMMA WentWith ==
    ASSUME TypeOK, NEW p \in Loops, NEW a \in Ids, NEW place \in {"inserted", "swept"},
           doing' = [doing EXCEPT ![p].at = place, ![p].agent = a]
    PROVE  /\ doing' \in [Loops -> Doing] /\ doing'[p].at = place /\ doing'[p].agent = a
           /\ \A q \in Loops : q # p => doing'[q] = doing[q]
  <1> DEFINE d == [doing[p] EXCEPT !.at = place]
             e == [d EXCEPT !.agent = a]
  <1>1. d \in Doing /\ d.at = place  BY DEF TypeOK, Doing
  <1>2. doing' = [[doing EXCEPT ![p] = d] EXCEPT ![p].agent = a]  OBVIOUS
  <1> HIDE DEF d
  <1>3. e \in Doing /\ e.at = place /\ e.agent = a  BY <1>1 DEF Doing
  <1>4. doing' = [doing EXCEPT ![p] = e]  BY <1>1, <1>2 DEF TypeOK
  <1> HIDE DEF e
  <1> QED BY <1>3, <1>4 DEF TypeOK

LEMMA BoundsSame == ASSUME TypeOK, UNCHANGED bounds PROVE BoundsGrow
  BY DEF TypeOK, bounds, BoundsGrow, BoundsTyped

LEMMA BoundsUp ==
    ASSUME TypeOK,
           \/ setbacks < MaxSetbacks /\ setbacks' = setbacks + 1 /\ UNCHANGED <<faults, human>>
           \/ faults < MaxFaults /\ faults' = faults + 1 /\ UNCHANGED <<setbacks, human>>
           \/ human < MaxHuman /\ human' = human + 1 /\ UNCHANGED <<setbacks, faults>>
    PROVE  /\ BoundsGrow
           /\ setbacks' = setbacks => ~Quiet'
           /\ human' # human => human' # 0
  BY PipelineAssumption DEF TypeOK, BoundsGrow, BoundsTyped, Quiet

\* One row is edited: what the sidecar, a verdict, a dead pane and a done leave.
LEMMA AgentEdited ==
    ASSUME PipeTyped, NEW a \in Ids, NEW b \in BOOLEAN, NEW f \in BOOLEAN, NEW g \in BOOLEAN,
           NEW v \in Verdicts \cup {"nothing"}, NEW st \in {"stopped", "running", "idle", "dead"},
           \/ agents' = [agents EXCEPT ![a].briefed = g]
           \/ agents' = [agents EXCEPT ![a].said = v]
           \/ agents' = [agents EXCEPT ![a].pane = b]
           \/ agents' = [agents EXCEPT ![a].bound = FALSE, ![a].status = st, ![a].briefed = g]
           \/ Holds(a) /\ agents' = [agents EXCEPT ![a].pane = b, ![a].status = st]
           \/ Holds(a) /\ agents' = [agents EXCEPT ![a].pane = b, ![a].status = agents[a].status]
    PROVE  Tame
  <1>0. agents \in [Ids -> AgentRow] /\ agents[a] \in AgentRow  BY DEF PipeTyped, TypeOK
  <1>1. CASE agents' = [agents EXCEPT ![a].briefed = g]
    <2> DEFINE r == [agents[a] EXCEPT !.briefed = g]
    <2>1. /\ r \in AgentRow /\ r.role = agents[a].role /\ r.silent = agents[a].silent
          /\ r.status = agents[a].status /\ r.bound = agents[a].bound
      BY <1>0 DEF AgentRow
    <2>2. agents' = [agents EXCEPT ![a] = r]  BY <1>1
    <2> HIDE DEF r
    <2> QED BY <1>0, <2>1, <2>2, TameRow DEF Holds
  <1>2. CASE agents' = [agents EXCEPT ![a].said = v]
    <2> DEFINE r == [agents[a] EXCEPT !.said = v]
    <2>1. /\ r \in AgentRow /\ r.role = agents[a].role /\ r.silent = agents[a].silent
          /\ r.status = agents[a].status /\ r.bound = agents[a].bound
      BY <1>0 DEF AgentRow
    <2>2. agents' = [agents EXCEPT ![a] = r]  BY <1>2
    <2> HIDE DEF r
    <2> QED BY <1>0, <2>1, <2>2, TameRow DEF Holds
  <1>3. CASE agents' = [agents EXCEPT ![a].pane = b]
    <2> DEFINE r == [agents[a] EXCEPT !.pane = b]
    <2>1. /\ r \in AgentRow /\ r.role = agents[a].role /\ r.silent = agents[a].silent
          /\ r.status = agents[a].status /\ r.bound = agents[a].bound
      BY <1>0 DEF AgentRow
    <2>2. agents' = [agents EXCEPT ![a] = r]  BY <1>3
    <2> HIDE DEF r
    <2> QED BY <1>0, <2>1, <2>2, TameRow DEF Holds
  <1>4. CASE agents' = [agents EXCEPT ![a].bound = FALSE, ![a].status = st, ![a].briefed = g]
    <2> DEFINE r == [agents[a] EXCEPT !.bound = FALSE, !.status = st, !.briefed = g]
    <2>1. /\ r \in AgentRow /\ r.role = agents[a].role /\ r.silent = agents[a].silent
          /\ r.status = st /\ ~r.bound
      BY <1>0 DEF AgentRow
    <2>2. agents' = [agents EXCEPT ![a] = r]  BY <1>0, <1>4
    <2> HIDE DEF r
    <2> QED BY <1>0, <2>1, <2>2, TameRow
  <1>5. ASSUME NEW s2 \in {st, agents[a].status}, Holds(a),
               agents' = [agents EXCEPT ![a].pane = b, ![a].status = s2]
        PROVE  Tame
    <2> DEFINE r == [agents[a] EXCEPT !.pane = b, !.status = s2]
    <2>1. /\ r \in AgentRow /\ r.role = agents[a].role /\ r.silent = agents[a].silent
          /\ r.status = s2
      BY <1>0 DEF AgentRow
    <2>2. agents' = [agents EXCEPT ![a] = r]  BY <1>0, <1>5
    <2>3. agents[a].status # "absent" => s2 # "absent"  OBVIOUS
    <2>4. Holds(a)  BY <1>5
    <2> HIDE DEF r
    <2> QED BY <1>0, <2>1, <2>2, <2>3, <2>4, TameRow
  <1> QED BY <1>1, <1>2, <1>3, <1>4, <1>5

-----------------------------------------------------------------------------
(* The invariant.                                                           *)

LEMMA PipeInitial == Init => PipeIInv
  <1> SUFFICES ASSUME Init PROVE PipeIInv
    OBVIOUS
  <1> USE DEF Init
  <1>1. task \in TaskRow  BY PipelineAssumption DEF TaskRow, Rounds
  <1>2. agents \in [Ids -> AgentRow] /\ \A a \in Ids : ~Holds(a)
    BY DEF NoAgent, AgentRow, Holds
  <1>3. ctx \in Ctx
    <2> DEFINE z == [arm \in {"implementor", "reviewer", "fixer"} \X Rounds |-> 0]
    <2>1. z \in [{"implementor", "reviewer", "fixer"} \X Rounds -> Nat]  OBVIOUS
    <2>2. ctx = [verdict |-> "none", rc |-> FALSE, fix |-> {}, frozen |-> z]  OBVIOUS
    <2> HIDE DEF z
    <2> QED BY <2>1, <2>2 DEF Ctx
  <1>4. doing \in [Loops -> Doing] /\ \A p \in Loops : doing[p].at = "idle"
    BY DEF Idle, Doing
  <1>5. TypeOK
    <2>1. /\ setbacks \in 0..MaxSetbacks /\ faults \in 0..MaxFaults /\ human \in 0..MaxHuman
          /\ prompts \in [Keys -> Ids \cup {Nobody}] /\ cohort \in SUBSET Ids
      BY PipelineAssumption
    <2> QED BY <1>1, <1>2, <1>3, <1>4, <2>1 DEF TypeOK
  <1>6. Placed
    <2>1. "idle" \in Places["scheduler"] /\ "idle" \in Places["dispatcher"] /\ "idle" \in Places["comments"]
      BY DEF Places
    <2> QED BY <1>4, <2>1 DEF Placed, Unplaced, Loops
  <1>7. /\ ~ToReviewer /\ ~ToFixer /\ ~SchedulerAt /\ ~Spawning
        /\ doing["comments"].at = "idle" /\ doing["scheduler"].at # "inserted"
        /\ doing["dispatcher"].at # "inserted"
    BY <1>4 DEF ToReviewer, ToFixer, Towards, SchedulerAt, Spawning, Loops
  <1>8. PipeTyped  BY <1>2, <1>5, <1>6, <1>7 DEF PipeTyped, OneHolder
  <1>9. BelowCap  BY <1>7 DEF BelowCap
  <1>10. Undisturbed  BY <1>2, <1>7 DEF Undisturbed, ClaimIsOurs, SpawnIsOurs, SlotFree, Parked
  <1> QED BY <1>8, <1>9, <1>10 DEF PipeIInv

\* What the steps below start from.
LEMMA Rows ==
    ASSUME PipeIInv
    PROVE  /\ PipeTyped /\ TypeOK /\ task \in TaskRow /\ agents \in [Ids -> AgentRow] /\ ctx \in Ctx
           /\ prompts \in [Keys -> Ids \cup {Nobody}] /\ doing \in [Loops -> Doing]
           /\ cohort \in SUBSET Ids
           /\ \A p \in Loops : doing[p].at \notin Unplaced =>
                  /\ doing[p].agent \in Ids /\ agents[doing[p].agent].status # "absent"
           /\ Quiet => ClaimIsOurs /\ SpawnIsOurs /\ (task.status \in Parked => SlotFree)
           /\ Quiet => doing["comments"].at = "idle"
  BY DEF PipeIInv, PipeTyped, TypeOK, Placed, Undisturbed

LEMMA SchedulerStep == PipeIInv /\ Scheduler => PipeIInv'
  <1> SUFFICES ASSUME PipeIInv, Scheduler PROVE PipeIInv'
    OBVIOUS
  <1> USE DEF At
  <1>t. /\ PipeTyped /\ TypeOK /\ task \in TaskRow /\ agents \in [Ids -> AgentRow] /\ ctx \in Ctx
        /\ prompts \in [Keys -> Ids \cup {Nobody}] /\ doing \in [Loops -> Doing]
        /\ cohort \in SUBSET Ids
    BY Rows
  <1>1. CASE ClaimReady
    <2>0. doing["scheduler"].at = "idle" /\ task.status = "ready" /\ UNCHANGED <<ctx, prompts, cohort, bounds>>
      BY <1>1 DEF ClaimReady
    <2>1. Tame /\ SlotFree'
      <3> DEFINE D == {a \in Ids : Holds(a)}
                 pane == [a \in Ids |-> agents[a].pane]
      <3>1. pane \in [Ids -> BOOLEAN]  BY <1>t DEF AgentRow
      <3>2. agents' = [a \in Ids |-> IF a \in D THEN Dead(agents[a], pane[a]) ELSE agents[a]]
        BY <1>1 DEF ClaimReady
      <3>3. D \in SUBSET Ids  OBVIOUS
      <3>4. Tame /\ \A a \in D : ~Holds(a)'
        <4> HIDE DEF D, pane
        <4> QED BY <1>t, <3>1, <3>2, <3>3, TameDeaths
      <3> QED BY <3>4 DEF SlotFree, Tame, Holds
    <2>2. /\ task' \in TaskRow /\ task'.status = "claimed" /\ task'.rounds = task.rounds
          /\ task'.claimed_by = task.claimed_by
      BY <1>1, <1>t DEF ClaimReady, TaskRow
    <2>3. /\ doing' \in [Loops -> Doing] /\ doing'["scheduler"].at = "claimed"
          /\ doing'["dispatcher"] = doing["dispatcher"] /\ doing'["comments"] = doing["comments"]
      <3>1. Go("scheduler", "claimed")  BY <1>1 DEF ClaimReady
      <3> QED BY <1>t, <3>1, Went DEF Loops
    <2>4. BoundsGrow  BY <1>t, <2>0, BoundsSame
    <2>5. TypeOK'  BY <1>t, <2>0, <2>1, <2>2, <2>3, <2>4 DEF TypeOK, Tame, RowsKept, BoundsGrow, BoundsTyped
    <2>6. Placed'
      <3>1. "claimed" \in Places["scheduler"]  BY DEF Places
      <3>2. Placed  BY <1>t DEF PipeTyped
      <3> QED BY <2>1, <2>3, <3>1, <3>2 DEF Placed, Unplaced, Loops, Tame, RowsKept
    <2>7. (ToReviewer' => ToReviewer) /\ (ToFixer' => ToFixer)
      <3>1. doing["dispatcher"].at \in {"inserted", "running"} => doing["dispatcher"].agent \in Ids
        BY Rows DEF Unplaced, Loops
      <3> QED BY <2>1, <2>3, <3>1 DEF ToReviewer, ToFixer, Towards, Tame, RowsKept
    <2>8. PipeTyped'  BY <1>t, <2>1, <2>2, <2>5, <2>6, <2>7 DEF PipeTyped, OneHolder, SlotFree
    <2>9. BelowCap'
      BY <2>0, <2>2, <2>3, <2>4, <2>7 DEF PipeIInv, BelowCap, BoundsGrow
    <2>10. Undisturbed'
      <3> SUFFICES ASSUME Quiet', Quiet PROVE Undisturbed'
        BY <2>4 DEF Undisturbed, Quiet, BoundsGrow
      <3>1. ClaimIsOurs /\ SpawnIsOurs /\ doing["comments"].at = "idle"  BY Rows
      <3>2. ClaimIsOurs'  BY <2>0, <2>1, <2>2, <3>1 DEF ClaimIsOurs, SlotFree
      <3>3. doing["dispatcher"].at = "inserted" => doing["dispatcher"].agent \in Ids
        BY Rows DEF Unplaced, Loops
      <3>4. SpawnIsOurs'
        BY <2>1, <2>2, <2>3, <3>1, <3>3 DEF SpawnIsOurs, SlotFree, Parked, Tame, RowsKept
      <3> QED BY <2>1, <2>3, <3>1, <3>2, <3>4 DEF Undisturbed
    <2> QED BY <2>8, <2>9, <2>10 DEF PipeIInv
  <1>2. CASE SpawnWorker
    <2>1. PICK a \in Ids : /\ Inserts(a, "implementor")
                           /\ doing' = [doing EXCEPT !["scheduler"].at = "inserted", !["scheduler"].agent = a]
      BY <1>2 DEF SpawnWorker, Insert, Inserts
    <2>2. /\ doing["scheduler"].at = "claimed"
          /\ UNCHANGED <<task, ctx, prompts, cohort>> /\ UNCHANGED bounds
      BY <1>2 DEF SpawnWorker
    <2>3. /\ doing' \in [Loops -> Doing] /\ doing'["scheduler"].at = "inserted"
          /\ doing'["scheduler"].agent = a /\ \A q \in Loops : q # "scheduler" => doing'[q] = doing[q]
      BY <1>t, <2>1, WentWith DEF Loops
    <2> QED BY <1>t, <2>1, <2>2, <2>3, BoundsSame, InsertKeeps DEF Unplaced, Loops
  <1>3. CASE SpawnWorkerBlocked
    <2>1. /\ Unclaim("scheduler") /\ Rest("scheduler") /\ UNCHANGED <<agents, ctx, prompts, cohort>>
          /\ UNCHANGED bounds /\ doing["scheduler"].at = "claimed"
      BY <1>3 DEF SpawnWorkerBlocked
    <2>2. /\ task' \in TaskRow /\ task'.rounds = task.rounds /\ task'.claimed_by = task.claimed_by
          /\ task' = task \/ (task.status = "claimed" /\ task'.status = "ready")
      BY <1>t, <2>1, Unclaimed DEF Loops
    <2>3. Steady /\ doing'["scheduler"] = Idle  BY <1>t, <2>1, SteadyRest DEF Loops
    <2>4. Tame /\ BoundsGrow  BY <1>t, <2>1, TameSame, BoundsSame
    <2>5. ~SchedulerAt'  BY <2>3 DEF SchedulerAt, Idle
    <2>6. Quiet' => task.claimed_by = Nobody
      BY <2>1, <2>4, Rows DEF ClaimIsOurs, SchedulerAt, Quiet, BoundsGrow
    <2> QED BY <1>t, <2>1, <2>2, <2>3, <2>4, <2>5, <2>6, Calm DEF Parked
  <1>4. CASE EnqueueWork
    <2>1. /\ prompts' = [prompts EXCEPT ![<<"task", 0>>] = doing["scheduler"].agent]
          /\ Go("scheduler", "prompted") /\ doing["scheduler"].at = "running"
          /\ UNCHANGED <<task, agents, ctx, cohort>> /\ UNCHANGED bounds
      BY <1>4 DEF EnqueueWork
    <2>2. "prompted" \in Places["scheduler"]  BY DEF Places
    <2>3. Steady  BY <1>t, <2>1, <2>2, SteadyGo DEF Loops, Unplaced
    <2>4. prompts' \in [Keys -> Ids \cup {Nobody}]
      <3>1. doing["scheduler"].agent \in Ids  BY <2>1, Rows DEF Loops, Unplaced
      <3> QED BY <1>t, <2>1, <3>1, KeysAreKeys, PromptTyped
    <2> QED BY <1>t, <2>1, <2>3, <2>4, TameSame, BoundsSame, CalmTaskSame
  <1>5. CASE SetClaimedBy
    <2>1. /\ task' = [task EXCEPT !.claimed_by = doing["scheduler"].agent] /\ Rest("scheduler")
          /\ doing["scheduler"].at = "prompted"
          /\ UNCHANGED <<agents, ctx, prompts, cohort>> /\ UNCHANGED bounds
      BY <1>5 DEF SetClaimedBy
    <2>2. task' \in TaskRow /\ task'.rounds = task.rounds /\ task'.status = task.status
      <3>1. doing["scheduler"].agent \in Ids  BY <2>1, Rows DEF Loops, Unplaced
      <3> QED BY <1>t, <2>1, <3>1 DEF TaskRow
    <2>3. Steady /\ ~SchedulerAt'  BY <1>t, <2>1, SteadyRest DEF Loops, SchedulerAt, Idle
    <2>4. Tame /\ BoundsGrow  BY <1>t, <2>1, TameSame, BoundsSame
    <2>5. Quiet' => task.status = "claimed"
      BY <2>1, <2>4, Rows DEF ClaimIsOurs, SchedulerAt, Quiet, BoundsGrow
    <2> QED BY <1>t, <2>1, <2>2, <2>3, <2>4, <2>5, Calm DEF Parked
  <1>6. ASSUME NEW a \in Ids, HealMissingInbox(a) PROVE PipeIInv'
    <2>1. prompts' = [prompts EXCEPT ![<<"task", 0>>] = a]
          /\ UNCHANGED <<task, agents, ctx, doing, cohort>> /\ UNCHANGED bounds
      BY <1>6 DEF HealMissingInbox
    <2>2. prompts' \in [Keys -> Ids \cup {Nobody}]  BY <1>t, <2>1, KeysAreKeys, PromptTyped
    <2> QED BY <1>t, <2>1, <2>2, TameSame, SteadySame, BoundsSame, CalmTaskSame
  <1>7. ASSUME NEW a \in Ids, RetireFrozenClaim(a) PROVE PipeIInv'
    <2>1. /\ doing["scheduler"].at = "idle" /\ task.status = "claimed" /\ Holds(a)
          /\ agents[a].silent # "no" /\ Retire(a) /\ prompts' = DropPrompts(a)
          /\ UNCHANGED <<doing, cohort>> /\ UNCHANGED bounds
      BY <1>7 DEF RetireFrozenClaim, Live, Holds
    <2>2. Tame /\ SlotFree'  BY <1>t, <2>1, Retired
    <2>3. Steady /\ BoundsGrow  BY <1>t, <2>1, SteadySame, BoundsSame
    <2>4. prompts' \in [Keys -> Ids \cup {Nobody}]  BY <1>t, <2>1, KeysAreKeys, PromptTyped
    <2>5. ~SchedulerAt' /\ (Quiet' => ~Spawning')
      <3>1. Quiet' => Quiet  BY <2>3 DEF Quiet, BoundsGrow
      <3> QED BY <2>1, <3>1, Rows DEF SpawnIsOurs, SchedulerAt, Spawning
    <2>6. ctx' \in Ctx /\ ctx'.fix = ctx.fix
      <3>1. ctx' \in {WithVerdict(ctx, "other"), ctx, Froze(ctx, "implementor"),
                      WithVerdict(Froze(ctx, "implementor"), "other")}
        BY <1>7 DEF RetireFrozenClaim
      <3> QED BY <1>t, <3>1, VerdictTyped, FrozeTyped
    <2>7. \/ task' = [task EXCEPT !.status = "review", !.claimed_by = Nobody]
          \/ task' = task
          \/ task' = [task EXCEPT !.status = "pending_approval"]
      BY <1>7 DEF RetireFrozenClaim
    <2>8. /\ task' \in TaskRow /\ task'.rounds = task.rounds
          /\ task' = task \/ task'.status \in {"review", "pending_approval"}
      BY <1>t, <2>7, TaskSet, TaskFreed DEF Statuses
    <2> QED BY <1>t, <2>1, <2>2, <2>3, <2>4, <2>5, <2>6, <2>8, Calm
  <1>8. CASE ReapStaleClaim
    <2>1. /\ task' = [task EXCEPT !.status = "ready", !.claimed_by = Nobody]
          /\ doing["scheduler"].at = "idle"
          /\ UNCHANGED <<agents, ctx, prompts, doing, cohort>> /\ UNCHANGED bounds
      BY <1>8 DEF ReapStaleClaim
    <2>2. /\ task' \in TaskRow /\ task'.status = "ready"
          /\ task'.rounds = task.rounds /\ task'.claimed_by = Nobody
      BY <1>t, <2>1, TaskFreed DEF Statuses
    <2>3. ~SchedulerAt'  BY <2>1 DEF SchedulerAt
    <2> QED BY <1>t, <2>1, <2>2, <2>3, TameSame, SteadySame, BoundsSame, Calm DEF Parked
  <1>9. CASE HealRestartCohort
    <2>1. PICK ghosts \in SUBSET {a \in cohort : Live(a) /\ agents[a].said = "nothing"} :
             /\ agents' = [a \in Ids |-> IF a \in ghosts THEN Dead(agents[a], FALSE) ELSE agents[a]]
             /\ prompts' = [k \in Keys |-> IF prompts[k] \in ghosts THEN Nobody ELSE prompts[k]]
             /\ ctx' = IF ghosts # {} THEN NoFix(ctx) ELSE ctx
      BY <1>9 DEF HealRestartCohort
    <2>2. cohort' = {} /\ UNCHANGED <<task, doing>> /\ UNCHANGED bounds
      BY <1>9 DEF HealRestartCohort
    <2>3. Tame
      <3> DEFINE pane == [a \in Ids |-> FALSE]
      <3>1. pane \in [Ids -> BOOLEAN]  OBVIOUS
      <3>2. ghosts \in SUBSET Ids  BY <1>t
      <3>3. agents' = [a \in Ids |-> IF a \in ghosts THEN Dead(agents[a], pane[a]) ELSE agents[a]]
        BY <2>1
      <3> HIDE DEF pane
      <3> QED BY <1>t, <3>1, <3>2, <3>3, TameDeaths
    <2>4. prompts' \in [Keys -> Ids \cup {Nobody}]  BY <1>t, <2>1
    <2>5. ctx' \in Ctx /\ ctx'.fix \subseteq ctx.fix  BY <1>t, <2>1, NoFixTyped
    <2> QED BY <1>t, <2>2, <2>3, <2>4, <2>5, SteadySame, BoundsSame, CalmTaskSame
  <1> QED BY <1>1, <1>2, <1>3, <1>4, <1>5, <1>6, <1>7, <1>8, <1>9 DEF Scheduler

\* A pass that lists a task for a spawn says what it read.
LEMMA Listing ==
    ASSUME PipeIInv, NEW place \in {"wants_reviewer", "wants_fixer"}, Go("dispatcher", place),
           UNCHANGED rows, UNCHANGED cohort, UNCHANGED bounds,
           \/ /\ place = "wants_reviewer" /\ task.status = "review" /\ task.rounds < MaxRounds
           \/ place = "wants_fixer" /\ task.status = "changes_requested"
    PROVE  PipeIInv'
  <1>t. /\ PipeTyped /\ TypeOK /\ task \in TaskRow /\ agents \in [Ids -> AgentRow] /\ ctx \in Ctx
        /\ prompts \in [Keys -> Ids \cup {Nobody}] /\ doing \in [Loops -> Doing]
        /\ cohort \in SUBSET Ids
    BY Rows
  <1>0. UNCHANGED <<task, agents, ctx, prompts>>  BY DEF rows
  <1>1. /\ doing' \in [Loops -> Doing] /\ doing'["dispatcher"].at = place
        /\ doing'["scheduler"] = doing["scheduler"] /\ doing'["comments"] = doing["comments"]
    BY <1>t, Went DEF Loops
  <1>2. BoundsGrow  BY <1>t, BoundsSame
  <1>3. TypeOK'  BY <1>t, <1>0, <1>1, <1>2 DEF TypeOK, BoundsGrow, BoundsTyped
  <1>4. Placed'
    <2>1. "wants_reviewer" \in Places["dispatcher"] /\ "wants_fixer" \in Places["dispatcher"]
      BY DEF Places
    <2>2. Placed  BY <1>t DEF PipeTyped
    <2> QED BY <1>0, <1>1, <2>1, <2>2 DEF Placed, Unplaced, Loops
  <1>5. (ToReviewer' <=> place = "wants_reviewer") /\ (ToFixer' <=> place = "wants_fixer")
    BY <1>1 DEF ToReviewer, ToFixer, Towards
  <1>6. PipeTyped'  BY <1>t, <1>0, <1>3, <1>4, <1>5 DEF PipeTyped, OneHolder, Holds
  <1>7. BelowCap'  BY <1>0, <1>1, <1>2, <1>5 DEF PipeIInv, BelowCap, BoundsGrow
  <1>8. Undisturbed'
    <2> SUFFICES ASSUME Quiet', Quiet PROVE Undisturbed'
      BY <1>2 DEF Undisturbed, Quiet, BoundsGrow
    <2>1. ClaimIsOurs /\ SpawnIsOurs /\ doing["comments"].at = "idle"  BY Rows
    <2>2. ClaimIsOurs'  BY <1>0, <1>1, <2>1 DEF ClaimIsOurs, SchedulerAt, Holds
    <2>3. SpawnIsOurs'  BY <1>0, <1>1, <2>1 DEF SpawnIsOurs, Parked
    <2> QED BY <1>0, <1>1, <2>1, <2>2, <2>3 DEF Undisturbed, Parked
  <1> QED BY <1>6, <1>7, <1>8 DEF PipeIInv

LEMMA DispatcherSpawns ==
    ASSUME PipeIInv,
           \/ ListReviewer \/ SpawnReviewer \/ BumpRound \/ EnqueueReview \/ SpawnBlocked
           \/ ListFixer \/ SpawnFixer \/ RecordFix \/ ClaimForFixer \/ EnqueueFix
    PROVE  PipeIInv'
  <1> USE DEF At
  <1>t. /\ PipeTyped /\ TypeOK /\ task \in TaskRow /\ agents \in [Ids -> AgentRow] /\ ctx \in Ctx
        /\ prompts \in [Keys -> Ids \cup {Nobody}] /\ doing \in [Loops -> Doing]
        /\ cohort \in SUBSET Ids
    BY Rows
  <1>1. CASE ListReviewer
    BY <1>1, Listing DEF ListReviewer, WantsReviewer
  <1>2. CASE ListFixer
    BY <1>2, Listing DEF ListFixer, WantsFixer
  <1>3. ASSUME NEW role \in {"reviewer", "fixer"}, Insert("dispatcher", role),
               UNCHANGED <<task, ctx, prompts, cohort>>, UNCHANGED bounds,
               \/ role = "reviewer" /\ doing["dispatcher"].at = "wants_reviewer"
               \/ role = "fixer" /\ doing["dispatcher"].at = "wants_fixer"
        PROVE  PipeIInv'
    <2>1. PICK a \in Ids : /\ Inserts(a, role)
                           /\ doing' = [doing EXCEPT !["dispatcher"].at = "inserted", !["dispatcher"].agent = a]
      BY <1>3 DEF Insert, Inserts
    <2>2. /\ doing' \in [Loops -> Doing] /\ doing'["dispatcher"].at = "inserted"
          /\ doing'["dispatcher"].agent = a /\ \A q \in Loops : q # "dispatcher" => doing'[q] = doing[q]
      BY <1>t, <2>1, WentWith DEF Loops
    <2> QED BY <1>t, <1>3, <2>1, <2>2, BoundsSame, InsertKeeps DEF Unplaced, Loops
  <1>4. CASE SpawnReviewer
    BY <1>3, <1>4 DEF SpawnReviewer
  <1>5. CASE SpawnFixer
    BY <1>3, <1>5 DEF SpawnFixer
  <1>6. CASE BumpRound
    <2>1. /\ doing["dispatcher"].at = "running" /\ agents[doing["dispatcher"].agent].role = "reviewer"
          /\ task' = [task EXCEPT !.rounds = task.rounds + 1] /\ Go("dispatcher", "bumped")
          /\ UNCHANGED <<agents, ctx, prompts, cohort>> /\ UNCHANGED bounds
      BY <1>6 DEF BumpRound
    <2>2. ToReviewer /\ task.rounds < MaxRounds
      BY <1>t, <2>1 DEF PipeTyped, ToReviewer, Towards
    <2>3. /\ task' \in TaskRow /\ task'.status = task.status
          /\ task'.claimed_by = task.claimed_by
      <3>1. task.rounds + 1 \in Rounds
        BY <1>t, <2>2, PipelineAssumption DEF TaskRow, Rounds
      <3> QED BY <1>t, <2>1, <3>1 DEF TaskRow
    <2>4. Steady /\ doing'["dispatcher"].at = "bumped"
      <3>1. "bumped" \in Places["dispatcher"]  BY DEF Places
      <3> QED BY <1>t, <2>1, <3>1, SteadyGo DEF Loops, Unplaced
    <2>5. ~ToReviewer' /\ ~ToFixer'  BY <2>4 DEF ToReviewer, ToFixer, Towards
    <2>6. Tame /\ BoundsGrow  BY <1>t, <2>1, TameSame, BoundsSame
    <2>7. PipeTyped'
      <3>1. TypeOK'  BY <1>t, <2>1, <2>3, <2>4, <2>6 DEF TypeOK, Steady, BoundsGrow, BoundsTyped
      <3>2. Placed'  BY <1>t, <2>4, <2>6, SteadyPlaces DEF PipeTyped, Tame
      <3> QED BY <1>t, <2>1, <2>5, <3>1, <3>2 DEF PipeTyped, OneHolder, Holds
    <2>8. BelowCap'
      <3> SUFFICES ASSUME human' = 0, human = 0 PROVE BelowCap'
        BY <2>6 DEF BelowCap, BoundsGrow
      <3>1. task.status # "changes_requested" /\ doing["comments"].at = "idle"
        BY <2>2 DEF PipeIInv, BelowCap
      <3>2. doing'["comments"].at = "idle"
        BY <1>t, <2>4, <2>6, <3>1, SteadyPlaces DEF PipeTyped, Tame
      <3> QED BY <2>1, <2>3, <2>5, <3>1, <3>2 DEF PipeIInv, BelowCap
    <2>9. Undisturbed'
      <3>1. Quiet' => Quiet  BY <2>6 DEF Quiet, BoundsGrow
      <3>2. Undisturbed  BY DEF PipeIInv
      <3>3. Quiet => ClaimIsOurs  BY Rows
      <3>4. SchedulerAt' => SchedulerAt  BY <1>t, <2>4, <2>6, SteadyPlaces DEF PipeTyped, Tame
      <3> QED BY <1>t, <2>3, <2>4, <2>6, <3>1, <3>2, <3>3, <3>4, QuietStays DEF ClaimIsOurs
    <2> QED BY <2>7, <2>8, <2>9 DEF PipeIInv
  <1>7. CASE EnqueueReview
    <2>1. /\ prompts' = Enqueue(<<"review", task.rounds>>, doing["dispatcher"].agent)
          /\ Rest("dispatcher") /\ doing["dispatcher"].at = "bumped"
          /\ UNCHANGED <<task, agents, ctx, cohort>> /\ UNCHANGED bounds
      BY <1>7 DEF EnqueueReview
    <2>2. doing["dispatcher"].agent \in Ids  BY <2>1, Rows DEF Loops, Unplaced
    <2>3. prompts' \in [Keys -> Ids \cup {Nobody}]  BY <1>t, <2>1, <2>2, KeysAreKeys, PromptTyped
    <2> QED BY <1>t, <2>1, <2>3, TameSame, SteadyRest, BoundsSame, CalmTaskSame DEF Loops
  <1>8. CASE SpawnBlocked
    <2>1. Rest("dispatcher") /\ UNCHANGED <<task, agents, ctx, prompts, cohort>> /\ UNCHANGED bounds
      BY <1>8 DEF SpawnBlocked, rows
    <2> QED BY <1>t, <2>1, TameSame, SteadyRest, BoundsSame, CalmTaskSame DEF Loops
  <1>9. CASE RecordFix
    <2>1. /\ doing["dispatcher"].at = "running" /\ agents[doing["dispatcher"].agent].role = "fixer"
          /\ ctx' = [ctx EXCEPT !.fix = ctx.fix \cup {task.rounds}] /\ Go("dispatcher", "recorded")
          /\ UNCHANGED <<task, agents, prompts, cohort>> /\ UNCHANGED bounds
      BY <1>9 DEF RecordFix
    <2>2. ctx' \in Ctx /\ ctx'.fix = ctx.fix \cup {task.rounds}  BY <1>t, <2>1, FixRecorded
    <2>3. Steady /\ doing'["dispatcher"].at = "recorded"
      <3>1. "recorded" \in Places["dispatcher"]  BY DEF Places
      <3> QED BY <1>t, <2>1, <3>1, SteadyGo DEF Loops, Unplaced
    <2>4. Tame /\ BoundsGrow  BY <1>t, <2>1, TameSame, BoundsSame
    <2>5. PipeTyped'
      BY <1>t, <2>1, <2>2, <2>3, <2>4, TypedStays DEF PipeTyped, OneHolder, Holds, Tame, BoundsGrow
    <2>6. BelowCap'
      <3> SUFFICES ASSUME human' = 0, human = 0 PROVE BelowCap'
        BY <2>4 DEF BelowCap, BoundsGrow
      <3>1. ToFixer  BY <2>1 DEF ToFixer, Towards
      <3>2. ~ToReviewer' /\ ~ToFixer'  BY <2>3 DEF ToReviewer, ToFixer, Towards
      <3>3. doing["comments"].at = "idle" => doing'["comments"].at = "idle"
        BY <1>t, <2>3, <2>4, SteadyPlaces DEF PipeTyped, Tame
      <3> QED BY <2>1, <2>2, <3>1, <3>2, <3>3 DEF PipeIInv, BelowCap
    <2>7. Undisturbed'
      <3>1. Quiet' => Quiet  BY <2>4 DEF Quiet, BoundsGrow
      <3>2. Undisturbed  BY DEF PipeIInv
      <3>3. Quiet => ClaimIsOurs  BY Rows
      <3>4. SchedulerAt' => SchedulerAt  BY <1>t, <2>3, <2>4, SteadyPlaces DEF PipeTyped, Tame
      <3> QED BY <1>t, <2>1, <2>3, <2>4, <3>1, <3>2, <3>3, <3>4, QuietStays DEF ClaimIsOurs
    <2> QED BY <2>5, <2>6, <2>7 DEF PipeIInv
  <1>10. CASE ClaimForFixer
    <2>1. /\ task' = IF task.status = "changes_requested"
                     THEN [task EXCEPT !.claimed_by = doing["dispatcher"].agent] ELSE task
          /\ doing["dispatcher"].at = "recorded" /\ Go("dispatcher", "fix_claimed")
          /\ UNCHANGED <<agents, ctx, prompts, cohort>> /\ UNCHANGED bounds
      BY <1>10 DEF ClaimForFixer
    <2>2. doing["dispatcher"].agent \in Ids  BY <2>1, Rows DEF Loops, Unplaced
    <2>3. /\ task' \in TaskRow /\ task'.status = task.status /\ task'.rounds = task.rounds
          /\ task.status # "changes_requested" => task'.claimed_by = task.claimed_by
      BY <1>t, <2>1, <2>2 DEF TaskRow
    <2>4. Steady
      <3>1. "fix_claimed" \in Places["dispatcher"]  BY DEF Places
      <3> QED BY <1>t, <2>1, <3>1, SteadyGo DEF Loops, Unplaced
    <2>5. Tame /\ BoundsGrow  BY <1>t, <2>1, TameSame, BoundsSame
    <2>6. Quiet' => ClaimIsOurs  BY <2>5, Rows DEF Quiet, BoundsGrow
    <2>7. SchedulerAt' => SchedulerAt  BY <1>t, <2>4, <2>5, SteadyPlaces DEF PipeTyped, Tame
    <2> QED BY <1>t, <2>1, <2>3, <2>4, <2>5, <2>6, <2>7, Calm DEF ClaimIsOurs
  <1>11. CASE EnqueueFix
    <2>1. /\ prompts' = Enqueue(<<"fix", task.rounds>>, doing["dispatcher"].agent)
          /\ Rest("dispatcher") /\ doing["dispatcher"].at = "fix_claimed"
          /\ UNCHANGED <<task, agents, ctx, cohort>> /\ UNCHANGED bounds
      BY <1>11 DEF EnqueueFix
    <2>2. doing["dispatcher"].agent \in Ids  BY <2>1, Rows DEF Loops, Unplaced
    <2>3. prompts' \in [Keys -> Ids \cup {Nobody}]  BY <1>t, <2>1, <2>2, KeysAreKeys, PromptTyped
    <2> QED BY <1>t, <2>1, <2>3, TameSame, SteadyRest, BoundsSame, CalmTaskSame DEF Loops
  <1> QED BY <1>1, <1>2, <1>4, <1>5, <1>6, <1>7, <1>8, <1>9, <1>10, <1>11

LEMMA DispatcherWatches ==
    ASSUME PipeIInv,
           \/ \E a \in Ids : \/ HealReviewPrompt(a) \/ ApplyVerdict(a) \/ WatchdogReviewer(a)
                             \/ HealFixPrompt(a) \/ WatchdogFixer(a) \/ SweepRetires(a)
                             \/ RetireStuckImplementor(a)
           \/ SweepDropsPrompts \/ SweepRearms
    PROVE  PipeIInv'
  <1> USE DEF At
  <1>t. /\ PipeTyped /\ TypeOK /\ task \in TaskRow /\ agents \in [Ids -> AgentRow] /\ ctx \in Ctx
        /\ prompts \in [Keys -> Ids \cup {Nobody}] /\ doing \in [Loops -> Doing]
        /\ cohort \in SUBSET Ids
    BY Rows
  <1>1. ASSUME NEW a \in Ids, HealReviewPrompt(a) \/ HealFixPrompt(a) PROVE PipeIInv'
    <2>1. /\ prompts' \in {Enqueue(<<"review", task.rounds>>, a), Enqueue(<<"fix", task.rounds>>, a)}
          /\ UNCHANGED <<task, agents, ctx, doing, cohort>> /\ UNCHANGED bounds
      BY <1>1 DEF HealReviewPrompt, HealFixPrompt
    <2>2. prompts' \in [Keys -> Ids \cup {Nobody}]  BY <1>t, <2>1, KeysAreKeys, PromptTyped
    <2> QED BY <1>t, <2>1, <2>2, TameSame, SteadySame, BoundsSame, CalmTaskSame
  <1>2. ASSUME NEW a \in Ids, ApplyVerdict(a) PROVE PipeIInv'
    <2>1. /\ doing["dispatcher"].at = "idle" /\ task.status = "review" /\ Holds(a) /\ Retire(a)
          /\ task' = [task EXCEPT !.status = Landing(agents[a].said)]
          /\ UNCHANGED <<prompts, doing, cohort>> /\ UNCHANGED bounds
      BY <1>2 DEF ApplyVerdict, LiveAs
    <2>2. ctx' \in Ctx /\ ctx'.fix = ctx.fix
      <3>1. ctx' \in {WithVerdict(ctx, "request_changes"), WithVerdict(ctx, "other")}
        BY <1>2 DEF ApplyVerdict
      <3> QED BY <1>t, <3>1, VerdictTyped
    <2>3. Tame /\ SlotFree'  BY <1>t, <2>1, Retired
    <2>4. Steady /\ BoundsGrow  BY <1>t, <2>1, SteadySame, BoundsSame
    <2>5. PICK s \in {"ready_to_merge", "changes_requested", "pending_approval"} :
             /\ s = Landing(agents[a].said)
             /\ s = "changes_requested" => task.rounds < MaxReviewRounds
      <3>1. CASE agents[a].said = "approve"  BY <3>1 DEF Landing
      <3>2. CASE agents[a].said = "request_changes" /\ task.rounds < MaxReviewRounds
        BY <3>2 DEF Landing
      <3>3. CASE /\ agents[a].said # "approve"
                 /\ ~(agents[a].said = "request_changes" /\ task.rounds < MaxReviewRounds)
        BY <3>3 DEF Landing
      <3> QED BY <3>1, <3>2, <3>3
    <2>6. task' \in TaskRow /\ task'.status = s /\ task'.rounds = task.rounds
      BY <1>t, <2>1, <2>5, TaskSet DEF Statuses
    <2>7. ~ToReviewer /\ ~Spawning'
      BY <2>1 DEF ToReviewer, Towards, Spawning
    <2>8. Quiet' => ~SchedulerAt'
      BY <2>1, <2>4, Rows DEF ClaimIsOurs, SchedulerAt, Quiet, BoundsGrow
    <2> QED BY <1>t, <2>1, <2>2, <2>3, <2>4, <2>5, <2>6, <2>7, <2>8, Calm
  <1>3. ASSUME NEW a \in Ids, WatchdogReviewer(a) PROVE PipeIInv'
    <2>1. /\ doing["dispatcher"].at = "idle" /\ task.status = "review" /\ Holds(a) /\ Retire(a)
          /\ prompts' = DropPrompts(a) /\ UNCHANGED <<doing, cohort>> /\ UNCHANGED bounds
          /\ task' = task \/ task' = [task EXCEPT !.status = "pending_approval"]
      BY <1>3 DEF WatchdogReviewer, LiveAs
    <2>2. ctx' \in Ctx /\ ctx'.fix = ctx.fix
      <3>1. ctx' \in {ctx, Froze(ctx, "reviewer"), WithVerdict(Froze(ctx, "reviewer"), "other")}
        BY <1>3 DEF WatchdogReviewer
      <3> QED BY <1>t, <3>1, VerdictTyped, FrozeTyped
    <2>3. Tame /\ SlotFree'  BY <1>t, <2>1, Retired
    <2>4. Steady /\ BoundsGrow  BY <1>t, <2>1, SteadySame, BoundsSame
    <2>5. prompts' \in [Keys -> Ids \cup {Nobody}]  BY <1>t, <2>1, KeysAreKeys, PromptTyped
    <2>6. /\ task' \in TaskRow /\ task'.rounds = task.rounds
          /\ task'.status \in {"review", "pending_approval"}
      BY <1>t, <2>1, TaskSet DEF Statuses
    <2>7. ~Spawning'  BY <2>1 DEF Spawning
    <2>8. Quiet' => ~SchedulerAt'
      BY <2>1, <2>4, Rows DEF ClaimIsOurs, SchedulerAt, Quiet, BoundsGrow
    <2> QED BY <1>t, <2>1, <2>2, <2>3, <2>4, <2>5, <2>6, <2>7, <2>8, Calm
  <1>4. ASSUME NEW a \in Ids, WatchdogFixer(a) PROVE PipeIInv'
    <2>1. /\ doing["dispatcher"].at = "idle" /\ task.status = "changes_requested" /\ Holds(a) /\ Retire(a)
          /\ prompts' = DropPrompts(a) /\ UNCHANGED <<doing, cohort>> /\ UNCHANGED bounds
      BY <1>4 DEF WatchdogFixer, LiveAs
    <2>2. ctx' \in Ctx /\ ctx'.fix \subseteq ctx.fix
      <3>1. PICK burnt \in {Froze(ctx, "fixer"), ctx} : ctx' \in {WithVerdict(NoFix(burnt), "other"), NoFix(burnt)}
        BY <1>4 DEF WatchdogFixer
      <3>2. burnt \in Ctx /\ burnt.fix = ctx.fix  BY <1>t, <3>1, FrozeTyped
      <3>3. NoFix(burnt) \in Ctx /\ NoFix(burnt).fix \subseteq ctx.fix  BY <3>2, NoFixTyped
      <3> QED BY <3>1, <3>3, VerdictTyped
    <2>3. Tame /\ SlotFree'  BY <1>t, <2>1, Retired
    <2>4. Steady /\ BoundsGrow  BY <1>t, <2>1, SteadySame, BoundsSame
    <2>5. prompts' \in [Keys -> Ids \cup {Nobody}]  BY <1>t, <2>1, KeysAreKeys, PromptTyped
    <2>6. /\ task' \in TaskRow /\ task'.rounds = task.rounds
          /\ \/ task'.status \in {"changes_requested", "pending_approval"}
             \/ task'.status = "ready" /\ task'.claimed_by = Nobody
      <3>1. \/ task' = [task EXCEPT !.status = "pending_approval"]
            \/ task' = [task EXCEPT !.status = "ready", !.claimed_by = Nobody]
            \/ task' = task
        BY <1>4 DEF WatchdogFixer
      <3> QED BY <1>t, <2>1, <3>1, TaskSet, TaskFreed DEF Statuses
    <2>7. ~Spawning'  BY <2>1 DEF Spawning
    <2>8. Quiet' => ~SchedulerAt'
      BY <2>1, <2>4, Rows DEF ClaimIsOurs, SchedulerAt, Quiet, BoundsGrow
    <2> QED BY <1>t, <2>1, <2>2, <2>3, <2>4, <2>5, <2>6, <2>7, <2>8, Calm
  <1>5. ASSUME NEW a \in Ids, SweepRetires(a) PROVE PipeIInv'
    <2>1. /\ agents[a].status \in {"idle", "stopped"}
          /\ agents' = [agents EXCEPT ![a] = Dead([agents[a] EXCEPT !.bound = TRUE], agents[a].pane)]
          /\ doing' = [doing EXCEPT !["dispatcher"].at = "swept", !["dispatcher"].agent = a]
          /\ UNCHANGED <<task, ctx, prompts, cohort>> /\ UNCHANGED bounds
      BY <1>5 DEF SweepRetires
    <2>2. Tame
      <3> DEFINE rec == [agents[a] EXCEPT !.bound = TRUE]
                 r == Dead(rec, agents[a].pane)
      <3>1. agents[a] \in AgentRow /\ agents[a].pane \in BOOLEAN  BY <1>t DEF AgentRow
      <3>2. rec \in AgentRow /\ rec.role = agents[a].role /\ rec.silent = agents[a].silent
        BY <3>1 DEF AgentRow
      <3>3. agents' = [agents EXCEPT ![a] = r]  BY <2>1
      <3> HIDE DEF rec
      <3>4. r \in AgentRow /\ r.status = "dead" /\ r.role = agents[a].role /\ r.silent \in {agents[a].silent, "no"}
        BY <3>1, <3>2, DeadRow
      <3> HIDE DEF r
      <3> QED BY <1>t, <3>3, <3>4, TameRow
    <2>3. Steady
      <3>1. /\ doing' \in [Loops -> Doing] /\ doing'["dispatcher"].at = "swept"
            /\ doing'["dispatcher"].agent = a /\ \A q \in Loops : q # "dispatcher" => doing'[q] = doing[q]
        BY <1>t, <2>1, WentWith DEF Loops
      <3> QED BY <2>1, <3>1 DEF Steady, Sweeps
    <2> QED BY <1>t, <2>1, <2>2, <2>3, BoundsSame, CalmTaskSame
  <1>6. ASSUME NEW a \in Ids, RetireStuckImplementor(a) PROVE PipeIInv'
    <2>1. /\ agents' = [agents EXCEPT ![a] = Dead(agents[a], agents[a].pane)] /\ Rest("dispatcher")
          /\ UNCHANGED <<task, ctx, prompts, cohort>> /\ UNCHANGED bounds
      BY <1>6 DEF RetireStuckImplementor
    <2>2. Tame
      <3>1. agents[a].pane \in BOOLEAN  BY <1>t DEF AgentRow
      <3> QED BY <1>t, <2>1, <3>1, TameDead
    <2> QED BY <1>t, <2>1, <2>2, SteadyRest, BoundsSame, CalmTaskSame DEF Loops
  <1>7. CASE SweepDropsPrompts
    <2>1. /\ doing["dispatcher"].at = "swept" /\ prompts' = DropPrompts(doing["dispatcher"].agent)
          /\ Go("dispatcher", "dropped")
          /\ UNCHANGED <<task, agents, ctx, cohort>> /\ UNCHANGED bounds
      BY <1>7 DEF SweepDropsPrompts
    <2>2. doing["dispatcher"].agent \in Ids  BY <2>1, Rows DEF Loops, Unplaced
    <2>3. prompts' \in [Keys -> Ids \cup {Nobody}]  BY <1>t, <2>1, <2>2, KeysAreKeys, PromptTyped
    <2>4. Steady
      <3>1. "dropped" \in Places["dispatcher"]  BY DEF Places
      <3> QED BY <1>t, <2>1, <3>1, SteadyGo DEF Loops, Unplaced
    <2> QED BY <1>t, <2>1, <2>3, <2>4, TameSame, BoundsSame, CalmTaskSame
  <1>8. CASE SweepRearms
    <2>1. /\ ctx' = ctx \/ ctx' = NoFix(ctx)
          /\ Rest("dispatcher") /\ UNCHANGED <<task, agents, prompts, cohort>> /\ UNCHANGED bounds
      BY <1>8 DEF SweepRearms
    <2>2. ctx' \in Ctx /\ ctx'.fix \subseteq ctx.fix  BY <1>t, <2>1, NoFixTyped
    <2> QED BY <1>t, <2>1, <2>2, TameSame, SteadyRest, BoundsSame, CalmTaskSame DEF Loops
  <1> QED BY <1>1, <1>2, <1>3, <1>4, <1>5, <1>6, <1>7, <1>8

LEMMA Opened ==
    ASSUME agents \in [Ids -> AgentRow], NEW a \in Ids,
           agents' = [agents EXCEPT ![a].status = "running", ![a].pane = TRUE]
    PROVE  /\ agents' \in [Ids -> AgentRow] /\ agents'[a].role = agents[a].role
           /\ agents'[a].silent = agents[a].silent /\ agents'[a].status = "running"
           /\ \A b \in Ids : b # a => agents'[b] = agents[b]
  <1> DEFINE r == [agents[a] EXCEPT !.status = "running", !.pane = TRUE]
  <1>1. /\ r \in AgentRow /\ r.role = agents[a].role /\ r.silent = agents[a].silent
        /\ r.status = "running"
    BY DEF AgentRow
  <1>2. agents' = [agents EXCEPT ![a] = r]  OBVIOUS
  <1> HIDE DEF r
  <1> QED BY <1>1, <1>2

LEMMA WindowStep ==
    ASSUME PipeIInv, NEW p \in Loops, WindowOpens(p) \/ WindowFails(p)
    PROVE  PipeIInv'
  <1> USE DEF At
  <1>t. /\ PipeTyped /\ TypeOK /\ task \in TaskRow /\ agents \in [Ids -> AgentRow] /\ ctx \in Ctx
        /\ prompts \in [Keys -> Ids \cup {Nobody}] /\ doing \in [Loops -> Doing]
        /\ cohort \in SUBSET Ids
    BY Rows
  <1> DEFINE a == doing[p].agent
  <1>a. doing[p].at = "inserted" /\ a \in Ids /\ agents[a].status # "absent"
    BY <1>t, Rows DEF WindowOpens, WindowFails, Unplaced
  <1>1. CASE WindowFails(p)
    <2>1. /\ Unclaim(p) /\ Rest(p) /\ faults < MaxFaults /\ faults' = faults + 1
          /\ UNCHANGED <<agents, ctx, prompts, cohort>> /\ UNCHANGED <<setbacks, human>>
      BY <1>1 DEF WindowFails
    <2>2. BoundsGrow /\ ~Quiet'  BY <1>t, <2>1, BoundsUp
    <2>3. /\ task' \in TaskRow /\ task'.rounds = task.rounds
          /\ task' = task \/ task'.status = "ready"
      BY <1>t, <2>1, Unclaimed
    <2> QED BY <1>t, <2>1, <2>2, <2>3, TameSame, SteadyRest, Calm
  <1>2. CASE /\ \A b \in Ids \ {a} : ~Holds(b)
             /\ agents' = [agents EXCEPT ![a].status = "running", ![a].pane = TRUE]
             /\ Go(p, "running") /\ UNCHANGED <<task, ctx, prompts, cohort>> /\ UNCHANGED bounds
    <2>1. /\ agents' \in [Ids -> AgentRow] /\ agents'[a].role = agents[a].role
          /\ agents'[a].silent = agents[a].silent /\ agents'[a].status = "running"
          /\ \A b \in Ids : b # a => agents'[b] = agents[b]
      <3> HIDE DEF a
      <3> QED BY <1>t, <1>a, <1>2, Opened
    <2>2. RowsKept  BY <2>1 DEF RowsKept
    <2>3. \A b \in Ids : Holds(b)' => b = a  BY <1>2, <2>1 DEF Holds
    <2>4. /\ Steady /\ doing'[p].at = "running" /\ doing'[p].agent = a
          /\ \A q \in Loops : q # p => doing'[q] = doing[q]
      <3>1. "running" \in Places[p]
        <4>1. "running" \in Places["scheduler"]  BY DEF Places
        <4>2. "running" \in Places["dispatcher"]  BY DEF Places
        <4>3. "running" \in Places["comments"]  BY DEF Places
        <4> QED BY <4>1, <4>2, <4>3 DEF Loops
      <3> QED BY <1>t, <1>a, <1>2, <3>1, SteadyGo DEF Unplaced
    <2>5. BoundsGrow  BY <1>t, <1>2, BoundsSame
    <2>6. PipeTyped'
      BY <1>t, <1>2, <2>2, <2>3, <2>4, <2>5, TypedStays DEF OneHolder, BoundsGrow
    <2>7. BelowCap'
      BY <1>t, <1>2, <2>2, <2>4, <2>5, CapStays DEF PipeIInv, BoundsGrow
    <2>8. Undisturbed'
      <3> SUFFICES ASSUME Quiet', Quiet
                   PROVE  /\ ClaimIsOurs' /\ SpawnIsOurs' /\ doing'["comments"].at = "idle"
                          /\ task'.status \in Parked => SlotFree'
        BY <2>5 DEF Undisturbed, Quiet, BoundsGrow
      <3>1. ClaimIsOurs /\ SpawnIsOurs /\ doing["comments"].at = "idle"  BY Rows
      <3>2. p # "comments" /\ doing'["comments"].at = "idle"  BY <1>a, <2>4, <3>1 DEF Loops
      <3>3. \A q \in Loops : doing'[q].at = "inserted" =>
               /\ doing'[q] = doing[q] /\ doing[q].agent \in Ids
               /\ agents'[doing[q].agent].role = agents[doing[q].agent].role
               /\ agents'[doing[q].agent].silent = agents[doing[q].agent].silent
        BY <2>1, <2>4, Rows DEF Unplaced
      <3>4. CASE p = "scheduler"
        <4>1. task.status = "claimed" /\ task.claimed_by = Nobody /\ agents[a].silent = "no"
          BY <1>a, <3>1, <3>4 DEF ClaimIsOurs, SpawnIsOurs, SchedulerAt
        <4>2. ClaimIsOurs'  BY <1>2, <2>3, <2>4, <3>4, <4>1 DEF ClaimIsOurs
        <4>3. \A b \in Ids : Holds(b)' => agents'[b].silent = "no"  BY <2>1, <2>3, <4>1
        <4>4. SpawnIsOurs'
          BY <1>2, <3>1, <3>3, <4>1, <4>3 DEF SpawnIsOurs, Parked, Loops
        <4> QED BY <1>2, <3>2, <4>1, <4>2, <4>4 DEF Parked
      <3>5. CASE p = "dispatcher"
        <4>1. /\ task.status \notin Parked
              /\ agents[a].role \in {"reviewer", "fixer"} /\ agents[a].silent = "no"
          BY <1>a, <3>1, <3>5 DEF SpawnIsOurs, Spawning
        <4>2. doing'["scheduler"] = doing["scheduler"]  BY <2>4, <3>5 DEF Loops
        <4>3. \A b \in Ids : Holds(b)' => agents'[b].silent = "no" /\ agents'[b].role # "implementor"
          BY <2>1, <2>3, <4>1
        <4>4. ClaimIsOurs'  BY <1>2, <3>1, <4>2, <4>3 DEF ClaimIsOurs, SchedulerAt
        <4>5. SpawnIsOurs'  BY <1>2, <3>1, <3>3, <4>1, <4>3 DEF SpawnIsOurs, Loops
        <4> QED BY <1>2, <3>2, <4>1, <4>4, <4>5
      <3> QED BY <3>2, <3>4, <3>5 DEF Loops
    <2> QED BY <2>6, <2>7, <2>8 DEF PipeIInv
  <1>3. CASE /\ agents' = [agents EXCEPT ![a].pane = TRUE]
             /\ Rest(p) /\ Unclaim(p) /\ UNCHANGED <<ctx, prompts, cohort>> /\ UNCHANGED bounds
    <2>1. Tame
      <3>1. TRUE \in BOOLEAN /\ "nothing" \in Verdicts \cup {"nothing"}  OBVIOUS
      <3> HIDE DEF a
      <3> QED BY <1>t, <1>a, <1>3, <3>1, AgentEdited
    <2>2. /\ task' \in TaskRow /\ task'.rounds = task.rounds /\ task'.claimed_by = task.claimed_by
          /\ \/ task' = task
             \/ p = "scheduler" /\ task.status = "claimed" /\ task'.status = "ready"
      BY <1>t, <1>3, Unclaimed
    <2>3. Steady /\ doing'[p] = Idle  BY <1>t, <1>3, SteadyRest
    <2>4. BoundsGrow  BY <1>t, <1>3, BoundsSame
    <2>5. CASE task' = task
      BY <1>t, <1>3, <2>1, <2>3, <2>4, <2>5, CalmTaskSame
    <2>6. CASE p = "scheduler" /\ task.status = "claimed" /\ task'.status = "ready"
      <3>1. ~SchedulerAt'  BY <2>3, <2>6 DEF SchedulerAt, Idle
      <3>2. Quiet' => task.claimed_by = Nobody
        BY <1>a, <2>4, <2>6, Rows DEF ClaimIsOurs, SchedulerAt, Quiet, BoundsGrow
      <3> QED BY <1>t, <1>3, <2>1, <2>2, <2>3, <2>4, <2>6, <3>1, <3>2, Calm DEF Parked
    <2> QED BY <2>2, <2>5, <2>6
  <1>4. WindowOpens(p) => \/ /\ \A b \in Ids \ {a} : ~Holds(b)
                             /\ agents' = [agents EXCEPT ![a].status = "running", ![a].pane = TRUE]
                             /\ Go(p, "running") /\ UNCHANGED <<task, ctx, prompts, cohort>> /\ UNCHANGED bounds
                          \/ /\ agents' = [agents EXCEPT ![a].pane = TRUE]
                             /\ Rest(p) /\ Unclaim(p) /\ UNCHANGED <<ctx, prompts, cohort>> /\ UNCHANGED bounds
    BY DEF WindowOpens
  <1> QED BY <1>1, <1>2, <1>3, <1>4

LEMMA CommentStep ==
    ASSUME PipeIInv, CommentPass \/ Human
    PROVE  PipeIInv'
  <1> USE DEF At
  <1>t. /\ PipeTyped /\ TypeOK /\ task \in TaskRow /\ agents \in [Ids -> AgentRow] /\ ctx \in Ctx
        /\ prompts \in [Keys -> Ids \cup {Nobody}] /\ doing \in [Loops -> Doing]
        /\ cohort \in SUBSET Ids
    BY Rows
  <1>1. CASE CommentEpisode
    <2> DEFINE status == IF doing["comments"].parked /\ task.status = "pending_approval"
                         THEN "changes_requested" ELSE task.status
               by == IF status = "changes_requested" THEN doing["comments"].agent ELSE task.claimed_by
    <2>1. /\ doing["comments"].at = "running"
          /\ task' = [task EXCEPT !.status = status, !.claimed_by = by]
          /\ ctx' = [ctx EXCEPT !.fix = ctx.fix \cup {task.rounds}] /\ Go("comments", "recorded")
          /\ UNCHANGED <<agents, prompts, cohort>> /\ UNCHANGED bounds
      BY <1>1 DEF CommentEpisode
    <2>2. task' \in TaskRow /\ task'.rounds = task.rounds
      <3>1. status \in Statuses  BY <1>t DEF TaskRow, Statuses
      <3>2. by \in Ids \cup {Nobody}  BY <1>t, <2>1, Rows DEF TaskRow, Unplaced, Loops
      <3> HIDE DEF status, by
      <3> QED BY <1>t, <2>1, <3>1, <3>2 DEF TaskRow, Statuses
    <2>3. ctx' \in Ctx  BY <1>t, <2>1, FixRecorded
    <2>4. Steady
      <3>1. "recorded" \in Places["comments"]  BY DEF Places
      <3> QED BY <1>t, <2>1, <3>1, SteadyGo DEF Loops, Unplaced
    <2>5. Tame /\ BoundsGrow  BY <1>t, <2>1, TameSame, BoundsSame
    <2>6. PipeTyped'
      BY <1>t, <2>1, <2>2, <2>3, <2>4, <2>5, TypedStays DEF PipeTyped, OneHolder, Holds, Tame, BoundsGrow
    <2>7. human # 0 /\ human' # 0
      BY <2>1 DEF PipeIInv, BelowCap, bounds
    <2> QED BY <2>6, <2>7 DEF PipeIInv, BelowCap, Undisturbed, Quiet
  <1>2. CASE EnqueueCommentFix
    <2>1. /\ prompts' = Enqueue(<<"fix", task.rounds>>, doing["comments"].agent)
          /\ Rest("comments") /\ doing["comments"].at = "recorded"
          /\ UNCHANGED <<task, agents, ctx, cohort>> /\ UNCHANGED bounds
      BY <1>2 DEF EnqueueCommentFix
    <2>2. doing["comments"].agent \in Ids  BY <2>1, Rows DEF Loops, Unplaced
    <2>3. prompts' \in [Keys -> Ids \cup {Nobody}]  BY <1>t, <2>1, <2>2, KeysAreKeys, PromptTyped
    <2> QED BY <1>t, <2>1, <2>3, TameSame, SteadyRest, BoundsSame, CalmTaskSame DEF Loops
  <1>3. ASSUME ReopenReview \/ RequeueTask \/ GateFails PROVE PipeIInv'
    <2>1. /\ \/ \E s \in {"review", "changes_requested", "pending_approval"} :
                   task' = [task EXCEPT !.status = s]
             \/ task' = [task EXCEPT !.status = "ready", !.claimed_by = Nobody]
          /\ human < MaxHuman /\ human' = human + 1
          /\ UNCHANGED <<agents, ctx, prompts, doing, cohort>> /\ UNCHANGED <<setbacks, faults>>
      BY <1>3 DEF ReopenReview, RequeueTask, GateFails
    <2>2. BoundsGrow /\ ~Quiet'  BY <1>t, <2>1, BoundsUp
    <2>3. human' # 0  BY <1>t, <2>1 DEF TypeOK
    <2>4. task' \in TaskRow /\ task'.rounds = task.rounds
      BY <1>t, <2>1, TaskSet, TaskFreed DEF Statuses
    <2> QED BY <1>t, <2>1, <2>2, <2>3, <2>4, TameSame, SteadySame, Calm
  <1>4. CASE ReadComment
    <2>1. PICK a \in Ids :
             /\ Inserts(a, "fixer")
             /\ doing' = [doing EXCEPT !["comments"] =
                    [at |-> "inserted", agent |-> a, parked |-> task.status = "pending_approval"]]
      BY <1>4 DEF ReadComment, Inserts
    <2>2. /\ doing["comments"].at = "idle" /\ human < MaxHuman /\ human' = human + 1
          /\ UNCHANGED <<task, ctx, prompts, cohort>> /\ UNCHANGED <<setbacks, faults>>
      BY <1>4 DEF ReadComment
    <2>3. /\ doing' \in [Loops -> Doing] /\ doing'["comments"].at = "inserted"
          /\ doing'["comments"].agent = a /\ \A q \in Loops : q # "comments" => doing'[q] = doing[q]
      <3> DEFINE parked == task.status = "pending_approval"
                 d == [at |-> "inserted", agent |-> a, parked |-> parked]
      <3>1. parked \in BOOLEAN  OBVIOUS
      <3> HIDE DEF parked
      <3>2. d \in Doing /\ d.at = "inserted" /\ d.agent = a  BY <3>1 DEF Doing
      <3>3. doing' = [doing EXCEPT !["comments"] = d]  BY <2>1 DEF parked
      <3> HIDE DEF d
      <3> QED BY <1>t, <3>2, <3>3 DEF Loops
    <2>4. BoundsGrow /\ human' # 0  BY <1>t, <2>2, BoundsUp DEF TypeOK
    <2> QED BY <2>1, <2>2, <2>3, <2>4, InsertKeeps DEF Unplaced, Loops
  <1> QED BY <1>1, <1>2, <1>3, <1>4 DEF CommentPass, Human

LEMMA AgentStep ==
    ASSUME PipeIInv, NEW a \in Ids, Agent(a)
    PROVE  PipeIInv'
  <1>t. /\ PipeTyped /\ TypeOK /\ task \in TaskRow /\ agents \in [Ids -> AgentRow] /\ ctx \in Ctx
        /\ prompts \in [Keys -> Ids \cup {Nobody}] /\ doing \in [Loops -> Doing]
        /\ cohort \in SUBSET Ids
    BY Rows
  <1>b. /\ TRUE \in BOOLEAN /\ FALSE \in BOOLEAN /\ "nothing" \in Verdicts \cup {"nothing"}
        /\ "idle" \in {"stopped", "running", "idle", "dead"}
        /\ "stopped" \in {"stopped", "running", "idle", "dead"}
    OBVIOUS
  <1>1. CASE Brief(a)
    <2>1. /\ agents' = [agents EXCEPT ![a].briefed = TRUE]
          /\ UNCHANGED <<task, ctx, prompts, doing, cohort>> /\ UNCHANGED bounds
      BY <1>1 DEF Brief
    <2>2. Tame  BY <1>t, <1>b, <2>1, AgentEdited
    <2> QED BY <1>t, <2>1, <2>2, SteadySame, BoundsSame, CalmTaskSame
  <1>2. ASSUME NEW v \in Verdicts, SayVerdict(a, v) PROVE PipeIInv'
    <2>1. /\ agents' = [agents EXCEPT ![a].said = v]
          /\ UNCHANGED <<task, ctx, prompts, doing, cohort>> /\ UNCHANGED bounds
      BY <1>2 DEF SayVerdict
    <2>2. v \in Verdicts \cup {"nothing"}  OBVIOUS
    <2>3. Tame  BY <1>t, <1>b, <2>1, <2>2, AgentEdited
    <2> QED BY <1>t, <2>1, <2>3, SteadySame, BoundsSame, CalmTaskSame
  <1>3. CASE PaneDies(a)
    <2>1. PICK s \in {agents[a].status, "stopped"} :
             agents' = [agents EXCEPT ![a].pane = FALSE, ![a].status = s]
      BY <1>3 DEF PaneDies
    <2>2. /\ Holds(a) /\ setbacks < MaxSetbacks /\ setbacks' = setbacks + 1
          /\ UNCHANGED <<task, ctx, prompts, doing, cohort>> /\ UNCHANGED <<faults, human>>
      BY <1>3 DEF PaneDies
    <2>3. \/ agents' = [agents EXCEPT ![a].pane = FALSE, ![a].status = "stopped"]
          \/ agents' = [agents EXCEPT ![a].pane = FALSE, ![a].status = agents[a].status]
      BY <2>1
    <2>4. Tame  BY <1>t, <1>b, <2>2, <2>3, AgentEdited
    <2>5. BoundsGrow  BY <1>t, <2>2, BoundsUp
    <2> QED BY <1>t, <2>2, <2>4, <2>5, SteadySame, CalmTaskSame
  <1>4. CASE Release(a)
    <2>1. /\ agents' = [agents EXCEPT ![a] = Dead(agents[a], TRUE)]
          /\ UNCHANGED <<task, ctx, prompts, doing, cohort>> /\ UNCHANGED bounds
      BY <1>4 DEF Release
    <2>2. Tame  BY <1>t, <1>b, <2>1, TameDead
    <2> QED BY <1>t, <2>1, <2>2, SteadySame, BoundsSame, CalmTaskSame
  <1>5. CASE SetPR(a)
    <2>1. /\ ~AtIt(a) /\ Holds(a) /\ agents[a].role = "implementor"
          /\ task' = [task EXCEPT !.status = "review", !.pr_open = TRUE]
          /\ UNCHANGED <<agents, ctx, prompts, doing, cohort>> /\ UNCHANGED bounds
      BY <1>5 DEF SetPR, CanAct, LiveAs
    <2>2. /\ task' \in TaskRow /\ task'.rounds = task.rounds /\ task'.status = "review"
      BY <1>t, <2>1 DEF TaskRow
    <2>3. BoundsGrow  BY <1>t, <2>1, BoundsSame
    <2>4. Quiet' => ~SchedulerAt'
      <3>1. \A p \in Loops : doing[p].agent # a  BY <2>1 DEF AtIt
      <3>2. Quiet' => ClaimIsOurs  BY <2>3, Rows DEF Quiet, BoundsGrow
      <3> QED BY <2>1, <3>1, <3>2 DEF ClaimIsOurs, SchedulerAt, Loops
    <2> QED BY <1>t, <2>1, <2>2, <2>3, <2>4, TameSame, SteadySame, Calm DEF Parked
  <1>6. ASSUME NEW to \in {"review", "ready"}, Finish(a, to), BoundsGrow,
               UNCHANGED <<ctx, prompts, doing, cohort>>
        PROVE  PipeIInv'
    <2>1. /\ agents' = [agents EXCEPT ![a].bound = FALSE, ![a].status = "idle", ![a].briefed = FALSE]
          /\ task' = IF task.claimed_by = a
                     THEN [task EXCEPT !.status = to, !.claimed_by = Nobody] ELSE task
      BY <1>6 DEF Finish
    <2>2. Tame  BY <1>t, <1>b, <2>1, AgentEdited
    <2>3. CASE task.claimed_by # a
      BY <1>t, <1>6, <2>1, <2>2, <2>3, SteadySame, CalmTaskSame
    <2>4. CASE task.claimed_by = a
      <3>1. /\ task' \in TaskRow /\ task'.rounds = task.rounds /\ task'.status = to
            /\ task'.claimed_by = Nobody
        BY <1>t, <2>1, <2>4, TaskFreed DEF Statuses
      <3>2. a # Nobody  BY DEF Ids, Nobody
      <3>3. Quiet' => ~SchedulerAt'
        BY <1>6, <2>4, <3>2, Rows DEF ClaimIsOurs, SchedulerAt, Quiet, BoundsGrow
      <3> QED BY <1>t, <1>6, <2>2, <3>1, <3>3, SteadySame, Calm DEF Parked
    <2> QED BY <2>3, <2>4
  <1>7. CASE Done(a)
    BY <1>t, <1>6, <1>7, BoundsSame DEF Done
  <1>8. CASE DoneRed(a)
    <2>1. BoundsGrow  BY <1>t, <1>8, BoundsUp DEF DoneRed
    <2> QED BY <1>6, <1>8, <2>1 DEF DoneRed
  <1>9. ASSUME NEW how \in {"hung", "turn_ended"}, FallsSilent(a, how) PROVE PipeIInv'
    <2>1. /\ AllIdle /\ agents' = [agents EXCEPT ![a].silent = how]
          /\ UNCHANGED <<task, ctx, prompts, doing, cohort>> /\ UNCHANGED <<faults, human>>
          /\ \/ UNCHANGED setbacks
             \/ setbacks < MaxSetbacks /\ setbacks' = setbacks + 1
      BY <1>9 DEF FallsSilent
    <2>2. /\ agents' \in [Ids -> AgentRow]
          /\ \A b \in Ids : /\ agents'[b].role = agents[b].role /\ agents'[b].status = agents[b].status
                            /\ agents'[b].bound = agents[b].bound
      <3> DEFINE r == [agents[a] EXCEPT !.silent = how]
      <3>1. /\ r \in AgentRow /\ r.role = agents[a].role /\ r.status = agents[a].status
            /\ r.bound = agents[a].bound
        BY <1>t DEF AgentRow
      <3>2. agents' = [agents EXCEPT ![a] = r]  BY <2>1
      <3> HIDE DEF r
      <3> QED BY <1>t, <3>1, <3>2
    <2>3. RowsKept  BY <2>2 DEF RowsKept
    <2>4. \A b \in Ids : Holds(b)' <=> Holds(b)  BY <2>2 DEF Holds
    <2>5. BoundsGrow  BY <1>t, <2>1, BoundsSame, BoundsUp DEF bounds
    <2>6. Steady  BY <1>t, <2>1, SteadySame
    <2>7. PipeTyped'
      <3>1. OneHolder'  BY <1>t, <2>4 DEF PipeTyped, OneHolder
      <3> QED BY <1>t, <2>1, <2>3, <2>5, <2>6, <3>1, TypedStays DEF BoundsGrow
    <2>8. BelowCap'  BY <1>t, <2>1, <2>3, <2>5, <2>6, CapStays DEF PipeIInv, BoundsGrow
    <2>9. Undisturbed'
      <3> SUFFICES ASSUME Quiet', Quiet PROVE Undisturbed'
        BY <2>5 DEF Undisturbed, Quiet, BoundsGrow
      <3>1. ClaimIsOurs /\ (task.status \in Parked => SlotFree)  BY Rows
      <3>2. \A p \in Loops : doing'[p].at = "idle"  BY <2>1 DEF AllIdle, At
      <3>3. ClaimIsOurs' /\ SpawnIsOurs'
        BY <2>1, <3>1, <3>2 DEF ClaimIsOurs, SpawnIsOurs, SchedulerAt, Spawning, Loops
      <3> QED BY <2>1, <2>4, <3>1, <3>2, <3>3 DEF Undisturbed, SlotFree, Loops
    <2> QED BY <2>7, <2>8, <2>9 DEF PipeIInv
  <1> QED BY <1>1, <1>2, <1>3, <1>4, <1>5, <1>7, <1>8, <1>9 DEF Agent, Answers

LEMMA PipeStep == PipeIInv /\ [Next]_vars => PipeIInv'
  <1> SUFFICES ASSUME PipeIInv, [Next]_vars PROVE PipeIInv'
    OBVIOUS
  <1>t. /\ PipeTyped /\ TypeOK /\ task \in TaskRow /\ agents \in [Ids -> AgentRow] /\ ctx \in Ctx
        /\ prompts \in [Keys -> Ids \cup {Nobody}] /\ doing \in [Loops -> Doing]
        /\ cohort \in SUBSET Ids
    BY Rows
  <1>1. CASE Scheduler  BY <1>1, SchedulerStep
  <1>2. CASE Dispatcher  BY <1>2, DispatcherSpawns, DispatcherWatches DEF Dispatcher
  <1>3. CASE CommentPass \/ Human  BY <1>3, CommentStep
  <1>4. CASE \E p \in Loops : WindowOpens(p) \/ WindowFails(p)  BY <1>4, WindowStep
  <1>5. CASE \E a \in Ids : Agent(a)  BY <1>5, AgentStep
  <1>6. CASE ClaimAges
    <2>1. /\ task' = [task EXCEPT !.claim_old = TRUE]
          /\ UNCHANGED <<agents, ctx, prompts, doing, cohort>> /\ UNCHANGED bounds
      BY <1>6 DEF ClaimAges
    <2>2. /\ task' \in TaskRow /\ task'.rounds = task.rounds /\ task'.status = task.status
          /\ task'.claimed_by = task.claimed_by
      BY <1>t, <2>1 DEF TaskRow
    <2>3. BoundsGrow  BY <1>t, <2>1, BoundsSame
    <2>4. Quiet' => ClaimIsOurs  BY <2>3, Rows DEF Quiet, BoundsGrow
    <2>5. SchedulerAt' <=> SchedulerAt  BY <2>1 DEF SchedulerAt
    <2> QED BY <1>t, <2>1, <2>2, <2>3, <2>4, <2>5, TameSame, SteadySame, Calm DEF ClaimIsOurs
  <1>7. CASE Crash
    <2>1. /\ doing' = [p \in Loops |-> Idle] /\ cohort' = {a \in Ids : Live(a)}
          /\ faults < MaxFaults /\ faults' = faults + 1
          /\ UNCHANGED <<task, agents, ctx, prompts>> /\ UNCHANGED <<setbacks, human>>
      BY <1>7 DEF Crash, rows
    <2>2. Steady  BY <1>t, <2>1 DEF Steady, Idle, Doing
    <2>3. BoundsGrow  BY <1>t, <2>1, BoundsUp
    <2> QED BY <1>t, <2>1, <2>2, <2>3, TameSame, CalmTaskSame
  <1>8. CASE Merge
    <2>1. /\ task' = [task EXCEPT !.status = "done"] /\ task.status = "ready_to_merge"
          /\ UNCHANGED <<agents, ctx, prompts, doing, cohort>> /\ UNCHANGED bounds
      BY <1>8 DEF Merge
    <2>2. task' \in TaskRow /\ task'.rounds = task.rounds /\ task'.status = "done"
      BY <1>t, <2>1, TaskSet DEF Statuses
    <2>3. BoundsGrow  BY <1>t, <2>1, BoundsSame
    <2>4. Quiet' => ~SchedulerAt'
      BY <2>1, <2>3, Rows DEF ClaimIsOurs, SchedulerAt, Quiet, BoundsGrow
    <2> QED BY <1>t, <2>1, <2>2, <2>3, <2>4, TameSame, SteadySame, Calm DEF Parked
  <1>9. CASE UNCHANGED vars
    <2>1. UNCHANGED <<task, agents, ctx, prompts, doing, cohort>> /\ UNCHANGED bounds
      BY <1>9 DEF vars, bounds
    <2> QED BY <1>t, <2>1, TameSame, SteadySame, BoundsSame, CalmTaskSame
  <1> QED BY <1>1, <1>2, <1>3, <1>4, <1>5, <1>6, <1>7, <1>8, <1>9 DEF Next

\* Whoever moves, rows keep the shape of their tables: in particular no goroutine
\* goes on with an agent that it did not insert, and no round is raised past the
\* bound by a reviewer that was listed below it.
THEOREM PipelineTypeCorrect == Spec => []TypeOK
  <1>1. PipeIInv => TypeOK  BY DEF PipeIInv, PipeTyped
  <1> QED BY PipeInitial, PipeStep, <1>1, PTL DEF Spec

\* A task left alone never has a fix episode at or past
\* MAQUINISTA_REVIEW_ROUNDS_MAX, whatever crashes and silences: the cap of the
\* verdict UPDATE still holds when recordFixEpisode, guarded by nothing, runs.
THEOREM FixersStayBelowCap == Spec => []FixersCapped
  <1>1. PipeIInv => FixersCapped  BY DEF PipeIInv, BelowCap, FixersCapped
  <1> QED BY PipeInitial, PipeStep, <1>1, PTL DEF Spec

\* Without faults and humans, whichever pass parks a task or makes it ready to
\* merge leaves nobody on it, and no spawn that was under way adds anybody.
THEOREM ParkedTasksAreQuiet == Spec => []ParkedIsQuiet
  <1>1. PipeIInv => ParkedIsQuiet
    BY DEF PipeIInv, Undisturbed, ParkedIsQuiet, Quiet, Parked
  <1> QED BY PipeInitial, PipeStep, <1>1, PTL DEF Spec
=============================================================================
