------------------------------- MODULE TaskStore -------------------------------
(***************************************************************************)
(* Tasks that depend on tasks, and agents that pull them: the queries of   *)
(* internal/db/queries.go, the commands that call them (cmd_add.go,        *)
(* cmd_approve.go, cmd_reclaim.go, ...), the trigger that wakes dependents *)
(* (migrations/003_levante.sql) and the agents' rows (internal/agent).     *)
(* Transactions are READ COMMITTED: a statement sees what is committed,    *)
(* and waits for rows that an open transaction has written.                *)
(***************************************************************************)
EXTENDS Naturals, FiniteSets, FiniteSetsExt

CONSTANTS Tasks,        \* numbers, in order of created_at
          Deps,         \* task_deps: <<task, depends_on>>
          Gated,        \* requires_approval
          Ticketed,     \* metadata has a ticket_issue_id
          Workers,      \* agents
          MaxTries,     \* tasks.max_attempts
          MaxSetbacks   \* bound on failures, kills and what operators take back

ASSUME TaskAssumption ==
    /\ Tasks \subseteq Nat /\ Deps \subseteq {d \in Tasks \X Tasks : d[1] > d[2]}
    /\ Gated \subseteq Tasks /\ Ticketed \subseteq Tasks
    /\ MaxTries \in Nat \ {0} /\ MaxSetbacks \in Nat

Nil == 0
Gone == [row |-> "gone", task |-> Nil, pane |-> FALSE, doing |-> Nil]

VARIABLES
    task,        \* [status, by, attempt]; "none" before the insert
    worker,      \* agents: [row, task, pane, doing]; row is live (idle or working),
                 \* stopped or gone, doing is what the pane works on
    finishing,   \* open transactions of MarkDone and MarkMerged: [task, to, wakes, who]
    adding,      \* the command that works on a task, and what it read
    sweeping,    \* DraftReleaseAll is between its two statements
    finished,    \* tasks that have ever been done
    sneaked,     \* tasks drafted or put in draft while it was
    setbacks

taskVars == <<task, worker, finishing, adding, sweeping, finished, sneaked, setbacks>>

NoCommand == [at |-> "none", unmet |-> FALSE]

TaskInit ==
    /\ task = [t \in Tasks |-> [status |-> "none", by |-> Nil, attempt |-> 0]]
    /\ worker = [w \in Workers |-> [row |-> "live", task |-> Nil, pane |-> TRUE, doing |-> Nil]]
    /\ finishing = {} /\ adding = [t \in Tasks |-> NoCommand]
    /\ sweeping = FALSE /\ finished = {} /\ sneaked = {} /\ setbacks = 0

Setback == setbacks < MaxSetbacks /\ setbacks' = setbacks + 1
Is(t, s) == task[t].status = s
Needs(t) == {e \in Tasks : <<t, e>> \in Deps}
Unlocked(t) == \A f \in finishing : t # f.task /\ t \notin f.wakes
Sets(t, s) == task' = [task EXCEPT ![t].status = s]
Frees(t) == task' = [task EXCEPT ![t].status = "ready", ![t].by = Nil]

-----------------------------------------------------------------------------
(* maquinista add, draft-release, approve, reject, unclaim, reclaim          *)

HasUnmetDeps(t) == \E e \in Needs(t) : ~Is(e, "done")

\* The row starts pending; its edges follow.
AddTask(t) ==
    /\ Is(t, "none") /\ \A e \in Needs(t) : ~Is(e, "none")
    /\ Sets(t, "pending")
    /\ \E how \in {"add", "draft"} : adding' = [adding EXCEPT ![t].at = how]
    /\ UNCHANGED <<worker, finishing, sweeping, finished, sneaked, setbacks>>

AddReads(t) ==
    /\ \/ adding[t].at = "add"
       \/ adding[t].at = "none" /\ Is(t, "draft")
    /\ adding' = [adding EXCEPT ![t] = [at |-> IF adding[t].at = "add" THEN "settle" ELSE "release",
                                        unmet |-> HasUnmetDeps(t)]]
    /\ UNCHANGED <<task, worker, finishing, sweeping, finished, sneaked, setbacks>>

\* SetTaskStatus has no guard.
AddSettles(t) ==
    /\ Unlocked(t) /\ adding[t].at \in {"settle", "draft"}
    /\ IF adding[t].at = "draft" THEN Sets(t, "draft")
       ELSE IF adding[t].unmet THEN UNCHANGED task ELSE Sets(t, "ready")
    /\ sneaked' = IF sweeping /\ adding[t].at = "draft" THEN sneaked \cup {t} ELSE sneaked
    /\ adding' = [adding EXCEPT ![t] = NoCommand]
    /\ UNCHANGED <<worker, finishing, sweeping, finished, setbacks>>

DraftRelease(t) ==
    /\ Unlocked(t) /\ adding[t].at = "release"
    /\ IF Is(t, "draft") THEN Sets(t, IF adding[t].unmet THEN "pending" ELSE "ready") ELSE UNCHANGED task
    /\ adding' = [adding EXCEPT ![t] = NoCommand]
    /\ UNCHANGED <<worker, finishing, sweeping, finished, sneaked, setbacks>>

\* Two statements: drafts with unmet dependencies, then whatever is a draft.
DraftReleaseAll ==
    /\ \A t \in Tasks : Is(t, "draft") => Unlocked(t)
    /\ \/ /\ ~sweeping /\ \E t \in Tasks : Is(t, "draft")
          /\ task' = [t \in Tasks |-> IF Is(t, "draft") /\ HasUnmetDeps(t) THEN [task[t] EXCEPT !.status = "pending"] ELSE task[t]]
       \/ /\ sweeping
          /\ task' = [t \in Tasks |-> IF Is(t, "draft") THEN [task[t] EXCEPT !.status = "ready"] ELSE task[t]]
    /\ sweeping' = ~sweeping
    /\ UNCHANGED <<worker, finishing, adding, finished, sneaked, setbacks>>

ApproveTask(t) ==
    /\ Unlocked(t) /\ Is(t, "pending_approval") /\ Sets(t, "ready")
    /\ UNCHANGED <<worker, finishing, adding, sweeping, finished, sneaked, setbacks>>

RejectTask(t) ==
    /\ Unlocked(t) /\ Is(t, "pending_approval") /\ Setback /\ Sets(t, "rejected")
    /\ UNCHANGED <<worker, finishing, adding, sweeping, finished, sneaked>>

\* UnclaimTask for one, ReclaimStale for the old ones; the agent's row keeps the task.
Unclaim(t) ==
    /\ Unlocked(t) /\ Is(t, "claimed") /\ Setback /\ Frees(t)
    /\ UNCHANGED <<worker, finishing, adding, sweeping, finished, sneaked>>

-----------------------------------------------------------------------------
(* The agents                                                                *)

Registered(w) == worker[w].row # "gone"

\* The pane runs one script at a time.
Free(w) == worker[w].pane /\ worker[w].doing = Nil /\ \A f \in finishing : f.who # w

\* uq_agents_task_live: a live row that still names the task makes the whole
\* transaction fail.
TakesOn(w, t) ==
    /\ Registered(w) /\ Free(w)
    /\ Unlocked(t) /\ Is(t, "ready") /\ task[t].attempt < MaxTries
    /\ \A v \in Workers \ {w} : Registered(v) => worker[v].task # t
    /\ task' = [task EXCEPT ![t] = [status |-> "claimed", by |-> w, attempt |-> @.attempt + 1]]
    /\ worker' = [worker EXCEPT ![w] = [@ EXCEPT !.row = "live", !.task = t, !.doing = t]]
    /\ UNCHANGED <<finishing, adding, sweeping, finished, sneaked, setbacks>>

Able == {t \in Tasks : Is(t, "ready") /\ task[t].attempt < MaxTries /\ Unlocked(t)}

AtomicClaim(w) == Able # {} /\ TakesOn(w, Min(Able))

ClaimByID(w, t) == TakesOn(w, t)

\* refresh_ready_tasks, as part of the statement that writes 'done'.
SlipFirstDepWakes(t) == {d \in Tasks : t \in Needs(d) /\ Is(d, "pending")}
Wakes(t) == {d \in Tasks : t \in Needs(d) /\ Is(d, "pending") /\ \A e \in Needs(d) \ {t} : Is(e, "done")}

Finishes(t, to, w) ==
    LET wakes == IF to = "done" THEN Wakes(t) ELSE {} IN
    /\ Unlocked(t) /\ \A d \in wakes : Unlocked(d)
    /\ finishing' = finishing \cup {[task |-> t, to |-> to, wakes |-> wakes, who |-> w]}

Released(w) == [worker EXCEPT ![w].row = IF @ = "gone" THEN "gone" ELSE "live", ![w].task = Nil]

MarkDone(w) ==
    LET t == worker[w].doing IN
    /\ t # Nil
    /\ IF task[t].by = w
       THEN /\ Finishes(t, IF t \in Ticketed THEN "review" ELSE "done", w)
            /\ worker' = [worker EXCEPT ![w].doing = Nil]
       ELSE worker' = [Released(w) EXCEPT ![w].doing = Nil] /\ UNCHANGED finishing
    /\ UNCHANGED <<task, adding, sweeping, finished, sneaked, setbacks>>

\* A command without a guard, run for a pipeline task whose PR is merged; claimed_by stays.
MarkMerged(t) ==
    /\ t \in Ticketed /\ task[t].status \in {"claimed", "review"} /\ Finishes(t, "done", Nil)
    /\ UNCHANGED <<task, worker, adding, sweeping, finished, sneaked, setbacks>>

DoneCommits ==
    /\ \E f \in finishing :
        /\ finishing' = finishing \ {f}
        /\ task' = [t \in Tasks |->
             CASE t = f.task  -> [task[t] EXCEPT !.status = f.to, !.by = IF f.who = Nil THEN @ ELSE Nil]
               [] t \in f.wakes -> [task[t] EXCEPT !.status = IF t \in Gated THEN "pending_approval" ELSE "ready"]
               [] OTHER -> task[t]]
        /\ worker' = IF f.who = Nil THEN worker ELSE Released(f.who)
        /\ finished' = IF f.to = "done" THEN finished \cup {f.task} ELSE finished
    /\ UNCHANGED <<adding, sweeping, sneaked, setbacks>>

\* The second UPDATE does not ask whose task it is.
RecordFailure(w) ==
    LET t == worker[w].doing  mine == task[t].by = w /\ task[t].attempt < MaxTries IN
    /\ t # Nil /\ Unlocked(t) /\ Setback
    /\ IF task[t].attempt >= MaxTries THEN Sets(t, "failed") ELSE IF mine THEN Frees(t) ELSE UNCHANGED task
    /\ worker' = [Released(w) EXCEPT ![w].doing = Nil]
    /\ UNCHANGED <<finishing, adding, sweeping, finished, sneaked>>

\* agent.Kill: the window, then one transaction that frees the tasks and deletes the row.
Kill(w) ==
    /\ Registered(w) /\ \A f \in finishing : f.who # w
    /\ \A t \in Tasks : task[t].by = w /\ Is(t, "claimed") => Unlocked(t)
    /\ task' = [t \in Tasks |-> IF task[t].by = w /\ Is(t, "claimed")
                                THEN [task[t] EXCEPT !.status = "ready", !.by = Nil] ELSE task[t]]
    /\ worker' = [worker EXCEPT ![w] = Gone]
    /\ UNCHANGED <<finishing, adding, sweeping, finished, sneaked>>

\* The orchestrator's tick kills what has no window, parked rows included.
Reconcile(w) == ~worker[w].pane /\ Kill(w) /\ UNCHANGED setbacks

PaneDies(w) ==
    /\ worker[w].pane /\ Setback /\ worker' = [worker EXCEPT ![w].pane = FALSE, ![w].doing = Nil]
    /\ UNCHANGED <<task, finishing, adding, sweeping, finished, sneaked>>

\* KillAll: a row without a task is parked, one with a task is killed.
KillAll ==
    /\ Setback /\ finishing = {}
    /\ LET busy == {w \in Workers : Registered(w) /\ worker[w].task # Nil} IN
       /\ task' = [t \in Tasks |-> IF task[t].by \in busy /\ Is(t, "claimed")
                                   THEN [task[t] EXCEPT !.status = "ready", !.by = Nil] ELSE task[t]]
       /\ worker' = [w \in Workers |-> CASE w \in busy -> Gone
                                         [] Registered(w) /\ w \notin busy -> [worker[w] EXCEPT !.row = "stopped", !.pane = FALSE, !.doing = Nil]
                                         [] OTHER -> worker[w]]
    /\ UNCHANGED <<finishing, adding, sweeping, finished, sneaked>>

\* A window that cannot be opened takes the row with it again.
SpawnWithLayout(w) ==
    /\ worker[w].row = "gone" /\ worker' = [worker EXCEPT ![w].row = "live", ![w].pane = TRUE]
    /\ UNCHANGED <<task, finishing, adding, sweeping, finished, sneaked, setbacks>>

\* The commands of the chat and of the command line.
ApproveCommands == DraftReleaseAll \/ \E t \in Tasks : ApproveTask(t) \/ RejectTask(t) \/ DraftRelease(t)
KillCommands == KillAll \/ \E w \in Workers : Kill(w) /\ Setback
SpawnCommand == \E w \in Workers : SpawnWithLayout(w)

TaskNext ==
    \/ \E t \in Tasks : \/ AddTask(t) \/ AddReads(t) \/ AddSettles(t) \/ Unclaim(t) \/ MarkMerged(t)
                        \/ \E w \in Workers : ClaimByID(w, t)
    \/ ApproveCommands \/ KillCommands \/ SpawnCommand \/ DoneCommits
    \/ \E w \in Workers : \/ AtomicClaim(w) \/ MarkDone(w) \/ RecordFailure(w)
                          \/ Reconcile(w) \/ PaneDies(w)

TaskSpec == TaskInit /\ [][TaskNext]_taskVars

-----------------------------------------------------------------------------
\* A task is handed out only when every task it depends on was done at some
\* time, whichever of the command line, the trigger and the release of drafts
\* let it go; a draft made during a release of all drafts is excepted.
DepsFirst ==
    \A t \in Tasks \ sneaked :
        task[t].status \in {"ready", "claimed", "review", "done"} => Needs(t) \subseteq finished

\* "Pending tasks auto-promote to ready as deps complete"
\* (docs/planning-workflows.md): nobody sleeps whose dependencies are done.
PendingWakes ==
    \A t \in Tasks : (Is(t, "pending") /\ adding[t] = NoCommand) => HasUnmetDeps(t)
================================================================================
