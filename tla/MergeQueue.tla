----------------------------- MODULE MergeQueue -----------------------------
(***************************************************************************)
(* The merge of one pipeline task in gh mode: the merge_queue rows of      *)
(* internal/db/queries.go, their executors (internal/pipeline/merge.go,    *)
(* mergegate.go, mergeup.go), and the merger agent that resolves rebase    *)
(* conflicts (merger.go).                                                  *)
(*                                                                         *)
(* Two executors run ProcessMergeGH: the daemon's drain and the approve    *)
(* verb, which the CLI, the topic and a ticket comment share.  The         *)
(* dispatch loop runs the enqueue, merger and parked merge-up passes.  An  *)
(* executor is "at" a point between two commits; a crash forgets it, and   *)
(* what GitHub has merged stays merged.  Review rounds are ReviewPipeline; *)
(* here they are one step back to ready_to_merge.                          *)
(***************************************************************************)
EXTENDS Naturals, FiniteSets

CONSTANTS MaxEntries,       \* bound on merge_queue rows
          MaxMergeAttempts, \* MAQUINISTA_MERGE_MAX_ATTEMPTS
          MaxTrouble,       \* bound on infrastructure errors, races and red gates
          MaxCrashes,       \* bound on executors that die
          MaxPeople         \* bound on what people do: approvals, comments, rework

ASSUME MergeAssumption ==
    /\ MaxEntries \in Nat \ {0} /\ MaxMergeAttempts \in Nat \ {0}
    /\ MaxTrouble \in Nat /\ MaxCrashes \in Nat /\ MaxPeople \in Nat

MaxMergeUps == 2        \* maxMergeUps, mergeup.go:69
MaxGateFixRounds == 3   \* maxGateFixRounds, mergegate.go

Entries == 1..MaxEntries        \* merge_queue.id, in insertion order
Executors == {"drain", "approve"}
NoEntry == 0

VARIABLES
    tstatus,    \* tasks.status
    queue,      \* merge_queue rows of the task
    exec,       \* where each executor is, and the row it claimed
    branch,     \* "current": origin/<branch> contains origin/<base>
    squashed,   \* GitHub has merged the PR
    marker,     \* newest merge_conflict row: its entry and attempt, consumed, old
    merger,     \* the live merger agent
    keys,       \* merger prompts ever enqueued: <<entry, attempt>>
    withAgent,  \* PIPELINE_MERGE_AGENT, fixed at start
    trouble, crashes, people

mergeVars == <<tstatus, queue, exec, branch, squashed, marker, merger, keys,
               withAgent, trouble, crashes, people>>
episode == <<marker, merger, keys>>

MergeEntry == [status   : {"absent", "pending", "merging", "merged", "failed", "conflict"},
               attempts : 0..MaxMergeAttempts,
               mergeups : 0..MaxMergeUps]

NoMarker == [entry |-> NoEntry, attempt |-> 0, consumed |-> TRUE, old |-> FALSE]
IdleExecutor == [at |-> "idle", entry |-> NoEntry]

MergeInit ==
    /\ tstatus = "ready_to_merge"
    /\ queue = [i \in Entries |-> [status |-> "absent", attempts |-> 0, mergeups |-> 0]]
    /\ exec = [x \in Executors |-> IdleExecutor]
    /\ branch \in {"current", "stale"}
    /\ squashed = FALSE
    /\ marker = NoMarker /\ merger = "none" /\ keys = {}
    /\ withAgent \in BOOLEAN
    /\ trouble = 0 /\ crashes = 0 /\ people = 0

-----------------------------------------------------------------------------
(* merge_queue statements.  A definition named Slip... is a plausible slip  *)
(* in the code of the definition after it; nothing else uses it.            *)

LiveEntry(i) == queue[i].status \in {"pending", "merging"}
NoLiveEntry == \A i \in Entries : ~LiveEntry(i)
Pending(i) == queue[i].status = "pending"
Newest(S) == CHOOSE i \in S : \A j \in S : j <= i
Written == {i \in Entries : queue[i].status # "absent"}
Unwritten(i) == queue[i].status = "absent" /\ \A j \in 1..(i - 1) : j \in Written

Put(i, s) == [queue EXCEPT ![i].status = s]

BumpMergeAttempts(i) == queue[i].attempts + 1
BumpMergeUpAttempts(i) == queue[i].mergeups + 1
LatestMergeEntryForTask == Newest(Written)
EnsureParkedMergeUpLedger == [status |-> "conflict", attempts |-> 0, mergeups |-> 0]

\* EnqueueMerge: the partial unique index on live rows makes it a no-op.
EnqueueMerge(i) == Unwritten(i) /\ NoLiveEntry /\ queue' = Put(i, "pending")

\* The executor goes to "at"; its row goes to status s.
Moves(x, at) == exec' = [exec EXCEPT ![x].at = at]
Finishes(x, s) == /\ queue' = Put(exec[x].entry, s)
                  /\ exec' = [exec EXCEPT ![x] = IdleExecutor]
\* CompleteMerge, ConflictMerge and FailMerge match on the id alone.
\* ReleaseMergeEntry is guarded on 'merging'; the row an executor holds is.
SlipNotReleased(x) == UNCHANGED queue /\ exec' = [exec EXCEPT ![x] = IdleExecutor]
ReleaseMergeEntry(x) == Finishes(x, "pending")

\* What the merge code counts as work going wrong is bounded.
Troubled == trouble < MaxTrouble /\ trouble' = trouble + 1
Acts == people < MaxPeople /\ people' = people + 1

MergerLive == merger # "none"
MergerEpisodePending == MergerLive \/ ~marker.consumed

SlipLiveMergerOnly == withAgent /\ MergerLive
EpisodeGuard == withAgent /\ MergerEpisodePending

AtCap(n) == n >= MaxMergeAttempts

-----------------------------------------------------------------------------
(* Executors                                                                *)

RunMergeEnqueuePass ==
    /\ tstatus = "ready_to_merge"
    /\ \E i \in Entries : EnqueueMerge(i)
    /\ UNCHANGED <<tstatus, exec, branch, squashed, episode, withAgent, trouble, crashes, people>>

ClaimMergeEntry(x, i) == /\ Pending(i)
                  /\ queue' = Put(i, "merging")
                  /\ exec' = [exec EXCEPT ![x] = [at |-> "claimed", entry |-> i]]

DrainClaims ==
    /\ exec["drain"].at = "idle"
    /\ \E i \in Entries : (\A j \in 1..(i - 1) : ~Pending(j)) /\ ClaimMergeEntry("drain", i)
    /\ UNCHANGED <<tstatus, branch, squashed, episode, withAgent, trouble, crashes, people>>

\* The verb reads the status first; entry lookup, insert and claim are later
\* statements, and somebody else may have taken the entry by then.
ApproveRef ==
    /\ exec["approve"].at = "idle" /\ tstatus = "ready_to_merge"
    /\ Acts
    /\ Moves("approve", "approved")
    /\ UNCHANGED <<tstatus, queue, branch, squashed, episode, withAgent, trouble, crashes>>

RunMergeOnApprove ==
    /\ exec["approve"].at = "approved"
    /\ \/ \E i \in Entries : EnqueueMerge(i) /\ UNCHANGED exec
       \/ \E i \in Entries : ClaimMergeEntry("approve", i)
       \/ /\ \E i \in Entries : queue[i].status = "merging"
          /\ exec' = [exec EXCEPT !["approve"] = IdleExecutor] /\ UNCHANGED queue
    /\ UNCHANGED <<tstatus, branch, squashed, episode, withAgent, trouble, crashes, people>>

\* ProcessMergeGH up to the pickup comment: the status and the merger episode
\* are read here and not again.
ProcessMergeGH(x) ==
    /\ exec[x].at = "claimed"
    /\ IF tstatus # "ready_to_merge" \/ EpisodeGuard
       THEN ReleaseMergeEntry(x)
       ELSE Moves(x, "working") /\ UNCHANGED queue
    /\ UNCHANGED <<tstatus, branch, squashed, episode, withAgent, trouble, crashes, people>>

\* Fetch, then the up-to-date fast path, or rebase and push.
SyncBranch(x) ==
    /\ exec[x].at = "working"
    /\ \/ branch' = "current" /\ Moves(x, "gating")
       \/ branch = "stale" /\ Moves(x, "conflicted") /\ UNCHANGED branch
    /\ UNCHANGED <<tstatus, queue, squashed, episode, withAgent, trouble, crashes, people>>

\* failMerge: any git, gh or gate machinery error; the task stays where it is.
FailMerge(x) ==
    /\ exec[x].at \in {"working", "conflicted", "gating"}
    /\ Troubled
    /\ Finishes(x, "failed")
    /\ UNCHANGED <<tstatus, branch, squashed, episode, withAgent, crashes, people>>

\* Marker and release are one transaction.
ArmMergeConflictAgent(x) ==
    LET i == exec[x].entry  n == BumpMergeAttempts(i) IN
    IF AtCap(n)
    THEN /\ queue' = [queue EXCEPT ![i].attempts = n, ![i].status = "conflict"]
         /\ Moves(x, "parking")
         /\ UNCHANGED episode
    ELSE /\ marker' = [entry |-> i, attempt |-> n, consumed |-> FALSE, old |-> FALSE]
         /\ queue' = [queue EXCEPT ![i].attempts = n, ![i].status = "pending"]
         /\ exec' = [exec EXCEPT ![x] = IdleExecutor]
         /\ UNCHANGED <<merger, keys>>

\* runMergeUp: the API or a local ref merge.  A race releases the row and
\* spends nothing; a claimed success that does not verify is a conflict.
MergeUpAfterConflict(x) ==
    LET i == exec[x].entry  n == BumpMergeUpAttempts(i) IN
    /\ \/ branch' = "current" /\ Moves(x, "gating") /\ UNCHANGED <<queue, trouble>>
       \/ Troubled /\ ReleaseMergeEntry(x) /\ UNCHANGED branch
       \/ /\ UNCHANGED <<branch, trouble>>
          /\ IF n >= MaxMergeUps
             THEN /\ queue' = [queue EXCEPT ![i].mergeups = n, ![i].status = "conflict"]
                  /\ Moves(x, "parking")
             ELSE /\ queue' = [queue EXCEPT ![i].mergeups = n, ![i].status = "pending"]
                  /\ exec' = [exec EXCEPT ![x] = IdleExecutor]
    /\ UNCHANGED episode

Conflict(x) ==
    /\ exec[x].at = "conflicted"
    /\ IF withAgent THEN ArmMergeConflictAgent(x) /\ UNCHANGED <<branch, trouble>>
                    ELSE MergeUpAfterConflict(x)
    /\ UNCHANGED <<tstatus, squashed, withAgent, crashes, people>>

\* CI is read, then the quality gate builds and tests origin/<branch>.
ChecksPending(x) ==
    /\ exec[x].at = "gating" /\ ReleaseMergeEntry(x)
    /\ UNCHANGED <<tstatus, branch, squashed, episode, withAgent, trouble, crashes, people>>

ChecksFailed(x) ==
    LET i == exec[x].entry  n == BumpMergeAttempts(i) IN
    /\ exec[x].at = "gating"
    /\ Troubled
    /\ IF AtCap(n)
       THEN /\ queue' = [queue EXCEPT ![i].attempts = n, ![i].status = "failed"]
            /\ Moves(x, "parking")
       ELSE /\ queue' = [queue EXCEPT ![i].attempts = n, ![i].status = "pending"]
            /\ exec' = [exec EXCEPT ![x] = IdleExecutor]
    /\ UNCHANGED <<tstatus, branch, squashed, episode, withAgent, crashes, people>>

GateRed(x) ==
    /\ exec[x].at = "gating"
    /\ Troubled
    /\ queue' = Put(exec[x].entry, "failed")
    /\ Moves(x, "gate_red")
    /\ UNCHANGED <<tstatus, branch, squashed, episode, withAgent, crashes, people>>

\* The guarded UPDATE that follows the row's own commit, in all three parks.
Lands(x, s) ==
    /\ tstatus' = IF tstatus = "ready_to_merge" THEN s ELSE tstatus
    /\ exec' = [exec EXCEPT ![x] = IdleExecutor]
    /\ UNCHANGED <<queue, branch, squashed, episode, withAgent, trouble, crashes, people>>

ParkMergeConflict(x) == exec[x].at = "parking" /\ Lands(x, "pending_approval")

\* Every failed row of the task counts, whatever failed it.
ParkGateFailure(x) ==
    /\ exec[x].at = "gate_red"
    /\ Lands(x, IF Cardinality({i \in Entries : queue[i].status = "failed"}) >= MaxGateFixRounds
                THEN "pending_approval" ELSE "changes_requested")

PRMergeSquash(x) ==
    /\ exec[x].at = "gating"
    /\ squashed' = TRUE /\ Moves(x, "squashed")
    /\ UNCHANGED <<tstatus, queue, branch, episode, withAgent, trouble, crashes, people>>

CompleteMerge(x) ==
    /\ exec[x].at = "squashed"
    /\ queue' = Put(exec[x].entry, "merged") /\ Moves(x, "completed")
    /\ UNCHANGED <<tstatus, branch, squashed, episode, withAgent, trouble, crashes, people>>

FinishMergeGH(x) == exec[x].at = "completed" /\ Lands(x, "done")

\* An executor dies, or an infrastructure error ends the approve verb: only
\* the drain releases its row on an error, so for the verb both look alike.
ExecutorDies(x) ==
    /\ exec[x].at # "idle" /\ exec[x].at # "starting"
    /\ crashes < MaxCrashes /\ crashes' = crashes + 1
    /\ exec' = [exec EXCEPT ![x] = [IdleExecutor EXCEPT
                   !.at = IF x = "drain" THEN "starting" ELSE "idle"]]
    /\ UNCHANGED <<tstatus, queue, branch, squashed, episode, withAgent, trouble, people>>

\* RunMergeDrain reconciles once, when it starts: rows nobody works on are
\* released if they have been held for 30 minutes by then.
ReconcileStaleMerging ==
    /\ exec["drain"].at = "starting"
    /\ exec' = [exec EXCEPT !["drain"] = IdleExecutor]
    /\ \/ queue' = [i \in Entries |->
                IF queue[i].status = "merging" /\ \A x \in Executors : exec[x].entry # i
                THEN [queue[i] EXCEPT !.status = "pending"] ELSE queue[i]]
       \/ UNCHANGED queue
    /\ UNCHANGED <<tstatus, branch, squashed, episode, withAgent, trouble, crashes, people>>

Executor(x) ==
    \/ ProcessMergeGH(x) \/ SyncBranch(x) \/ FailMerge(x) \/ Conflict(x)
    \/ ChecksPending(x) \/ ChecksFailed(x) \/ GateRed(x) \/ ParkGateFailure(x)
    \/ ParkMergeConflict(x) \/ PRMergeSquash(x) \/ CompleteMerge(x) \/ FinishMergeGH(x)

-----------------------------------------------------------------------------
(* The merger episode and the parked merge-up, in the dispatch loop         *)

Key == <<marker.entry, marker.attempt>>

\* The stale bound comes before the spawn; a failed spawn changes nothing.
MergerSpawnPass ==
    /\ tstatus = "ready_to_merge" /\ ~marker.consumed /\ ~MergerLive /\ ~marker.old
    /\ merger' = "unprompted"
    /\ UNCHANGED <<tstatus, queue, exec, branch, squashed, marker, keys, withAgent, trouble, crashes, people>>

\* Also the tail of the spawn.  The key deduplicates whoever it was for.
MergerPromptPass ==
    /\ tstatus = "ready_to_merge" /\ merger = "unprompted" /\ Key \notin keys
    /\ merger' = "prompted" /\ keys' = keys \cup {Key}
    /\ UNCHANGED <<tstatus, queue, exec, branch, squashed, marker, withAgent, trouble, crashes, people>>

MergerSays ==
    /\ merger = "prompted"
    /\ \/ merger' = "merged" /\ branch' = "current"
       \/ merger' \in {"needs_human", "silent"} /\ UNCHANGED branch
    /\ UNCHANGED <<tstatus, queue, exec, squashed, marker, keys, withAgent, trouble, crashes, people>>

ApplyMergerMerged ==
    /\ merger = "merged" /\ tstatus = "ready_to_merge"
    /\ marker' = [marker EXCEPT !.consumed = TRUE]
    /\ merger' = "none"
    /\ UNCHANGED <<tstatus, queue, exec, branch, squashed, keys, withAgent, trouble, crashes, people>>

\* One transaction; a row an executor holds is not touched.
ParkMergerConflict ==
    /\ tstatus' = "pending_approval" /\ merger' = "none"
    /\ marker' = [marker EXCEPT !.consumed = TRUE]
    /\ queue' = [i \in Entries |-> IF Pending(i) THEN [queue[i] EXCEPT !.status = "conflict"]
                                   ELSE queue[i]]

MergerGivesUp ==    \* needs_human verdict, watchdog on silence, stale marker
    /\ tstatus = "ready_to_merge"
    /\ merger \in {"needs_human", "silent", "unprompted"} \/ (merger = "none" /\ ~marker.consumed /\ marker.old)
    /\ ParkMergerConflict
    /\ UNCHANGED <<exec, branch, squashed, keys, withAgent, trouble, crashes, people>>

MarkerAges ==       \* two hours without a spawn
    /\ ~marker.consumed /\ ~MergerLive /\ ~marker.old
    /\ marker' = [marker EXCEPT !.old = TRUE]
    /\ UNCHANGED <<tstatus, queue, exec, branch, squashed, merger, keys, withAgent, trouble, crashes, people>>

\* The budget lives on the newest row, or on a 'conflict' row made for it.
BudgetLeft(i) == queue[i].mergeups < MaxMergeUps
ParkedMergeUpOne ==
    /\ tstatus = "pending_approval" /\ NoLiveEntry /\ ~MergerEpisodePending
    /\ branch = "stale" /\ ~squashed
    /\ Written # {} => BudgetLeft(LatestMergeEntryForTask)
    /\ \/ branch' = "current" /\ UNCHANGED queue
       \/ /\ UNCHANGED branch
          /\ IF Written = {}
             THEN queue' = [queue EXCEPT ![1] = [EnsureParkedMergeUpLedger EXCEPT !.mergeups = 1]]
             ELSE queue' = [queue EXCEPT ![LatestMergeEntryForTask].mergeups = @ + 1]
    /\ UNCHANGED <<tstatus, exec, squashed, episode, withAgent, trouble, crashes, people>>

-----------------------------------------------------------------------------
(* People, the rest of the pipeline, and the base branch                    *)

BaseMoves ==
    /\ branch = "current" /\ Acts /\ branch' = "stale"
    /\ UNCHANGED <<tstatus, queue, exec, squashed, episode, withAgent, trouble, crashes>>

\* reopenReview: the merging check and the flip are two statements.
SlipFailsHeldRows(i) == LiveEntry(i)
OpenToObjection(i) == Pending(i)
ObjectionReads ==
    /\ tstatus = "ready_to_merge" /\ \A i \in Entries : queue[i].status # "merging"
    /\ exec["approve"].at = "idle"      \* the comment pass stands in for its caller
    /\ Acts /\ Moves("approve", "objecting")
    /\ UNCHANGED <<tstatus, queue, branch, squashed, episode, withAgent, trouble, crashes>>
ReopenReview ==
    /\ exec["approve"].at = "objecting"
    /\ exec' = [exec EXCEPT !["approve"] = IdleExecutor]
    /\ IF tstatus # "ready_to_merge" THEN UNCHANGED <<tstatus, queue>>
       ELSE /\ tstatus' = "review"
            /\ queue' = [i \in Entries |-> IF OpenToObjection(i)
                            THEN [queue[i] EXCEPT !.status = "failed"] ELSE queue[i]]
    /\ UNCHANGED <<branch, squashed, episode, withAgent, trouble, crashes, people>>

\* A review round ends well, or a parked task goes round again.
ReviewRound ==
    /\ tstatus \in {"review", "changes_requested", "pending_approval"}
    /\ Acts /\ tstatus' = "ready_to_merge"
    /\ UNCHANGED <<queue, exec, branch, squashed, episode, withAgent, trouble, crashes>>

MergeNext ==
    \/ RunMergeEnqueuePass \/ DrainClaims \/ ApproveRef \/ RunMergeOnApprove
    \/ \E x \in Executors : Executor(x) \/ ExecutorDies(x)
    \/ ReconcileStaleMerging
    \/ MergerSpawnPass \/ MergerPromptPass \/ MergerSays \/ ApplyMergerMerged
    \/ MergerGivesUp \/ MarkerAges \/ ParkedMergeUpOne
    \/ BaseMoves \/ ObjectionReads \/ ReopenReview \/ ReviewRound

\* Ticks recur and a pass ends.  CI settles and a rebase that can be resolved
\* is, in the end: strong fairness, because a release undoes the claim.
MergeFairness ==
    /\ WF_mergeVars(RunMergeEnqueuePass) /\ WF_mergeVars(DrainClaims)
    /\ WF_mergeVars(RunMergeOnApprove) /\ WF_mergeVars(ReconcileStaleMerging)
    /\ WF_mergeVars(MergerSpawnPass) /\ WF_mergeVars(MergerPromptPass)
    /\ WF_mergeVars(MergerSays) /\ WF_mergeVars(ApplyMergerMerged)
    /\ WF_mergeVars(MergerGivesUp) /\ WF_mergeVars(ReopenReview)
    /\ \A x \in Executors : WF_mergeVars(Executor(x)) /\ SF_mergeVars(PRMergeSquash(x))

MergeSpec == MergeInit /\ [][MergeNext]_mergeVars
MergeFairSpec == MergeSpec /\ MergeFairness

-----------------------------------------------------------------------------
\* "A merge can never complete behind a needs-human verdict" (merger.go:640):
\* no executor is past its guards while a merger episode is open, so neither
\* a squash nor the merger's own park can overtake the other.
PastGuards(x) == exec[x].at \in {"working", "conflicted", "gating"}
NoMergeBehindVerdict ==
    withAgent /\ MergerEpisodePending => \A x \in Executors : ~PastGuards(x)

\* A row that ended stays ended: CompleteMerge, ConflictMerge and FailMerge
\* match on the id alone, so this rests on nobody ending a row that is held.
EndedRowsStay ==
    [][\A i \in Entries : queue[i].status \in {"merged", "failed", "conflict"}
        => queue'[i].status = queue[i].status]_mergeVars

\* A task that is ready to merge does not stay so: the queue merges it or
\* somebody is asked, across lost mergers and failing machinery, unless an
\* executor dies.
ReadyIsDecided ==
    (tstatus = "ready_to_merge" /\ crashes = 0) ~> (tstatus # "ready_to_merge" \/ crashes > 0)
=============================================================================
