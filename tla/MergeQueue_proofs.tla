-------------------------- MODULE MergeQueue_proofs --------------------------
(***************************************************************************)
(* Proofs about MergeQueue for any number of merge_queue rows, attempts,   *)
(* faults, crashes and interventions: nobody merges behind an open merger  *)
(* episode, and a row that ended stays ended.  Both rest on one argument:  *)
(* the partial unique index keeps at most one row live, and an executor    *)
(* between its claim and its release or verdict holds that row, alone.     *)
(***************************************************************************)
EXTENDS MergeQueue, OrderLemmas, TLAPS

TaskStatus == {"ready_to_merge", "pending_approval", "changes_requested", "review", "done"}
Holds(x) == exec[x].at \in {"claimed", "working", "conflicted", "gating", "squashed"}
Points == {"idle", "starting", "approved", "objecting", "claimed", "working", "conflicted",
           "gating", "parking", "gate_red", "squashed", "completed"}

(* What the statements on merge_queue and the executors' positions rely on.  *)
RowsTyped == queue \in [Entries -> MergeEntry]
ExecTyped == exec \in [Executors -> [at : Points, entry : Entries \cup {NoEntry}]]
OneLiveRow == \A i, j \in Entries : LiveEntry(i) /\ LiveEntry(j) => i = j
BudgetOpen == \A i \in Entries : queue[i].status \in {"absent", "pending", "merging"}
                => queue[i].attempts < MaxMergeAttempts /\ queue[i].mergeups < MaxMergeUps
HoldersHold == \A x \in Executors : Holds(x) =>
                  exec[x].entry \in Entries /\ queue[exec[x].entry].status = "merging"
OneExecutor == \A x, y \in Executors : Holds(x) /\ Holds(y) => x = y
RowInv == /\ RowsTyped /\ ExecTyped /\ OneLiveRow
          /\ BudgetOpen /\ HoldersHold /\ OneExecutor

(* The rest of the state, and the merger episode.                            *)
EpisodeTyped ==
    /\ tstatus \in TaskStatus
    /\ branch \in {"current", "stale"}
    /\ squashed \in BOOLEAN /\ withAgent \in BOOLEAN
    /\ marker \in [entry : Entries \cup {NoEntry}, attempt : Nat, consumed : BOOLEAN, old : BOOLEAN]
    /\ merger \in {"none", "unprompted", "prompted", "merged", "needs_human", "silent"}
    /\ keys \subseteq (Entries \cup {NoEntry}) \X Nat
    /\ trouble \in Nat /\ crashes \in Nat /\ people \in Nat
LiveMergerHasMarker == MergerLive => ~marker.consumed
NoAgentNoEpisode == ~withAgent => ~MergerEpisodePending
EpisodeInv == EpisodeTyped /\ LiveMergerHasMarker /\ NoAgentNoEpisode

MergeTypeOK == RowsTyped /\ ExecTyped /\ EpisodeTyped
MergeIInv == RowInv /\ EpisodeInv /\ NoMergeBehindVerdict

-----------------------------------------------------------------------------
(* Three kinds of steps on the rows and the executors.                       *)

\* An executor moves without touching the queue, and starts to hold nothing.
LEMMA MoveKeepsRows ==
    ASSUME RowInv, NEW x \in Executors, NEW at \in Points, UNCHANGED queue,
           \/ exec' = [exec EXCEPT ![x].at = at]
           \/ exec' = [exec EXCEPT ![x] = [at |-> at, entry |-> NoEntry]]
           \/ exec' = [exec EXCEPT ![x] = [IdleExecutor EXCEPT !.at = at]],
           at \in {"claimed", "working", "conflicted", "gating", "squashed"}
             => Holds(x) /\ exec'[x].entry = exec[x].entry
    PROVE  RowInv'
  <1> USE DEF RowInv
  <1> DEFINE e == [IdleExecutor EXCEPT !.at = at]
  <1>0. e \in [at : Points, entry : Entries \cup {NoEntry}] /\ e.at = at
    BY DEF IdleExecutor
  <1> HIDE DEF e
  <1>1. ExecTyped'  BY <1>0 DEF ExecTyped, e
  <1>2. \A y \in Executors : Holds(y)' => Holds(y) /\ exec'[y].entry = exec[y].entry
    BY <1>0 DEF ExecTyped, Holds, e
  <1>3. RowsTyped' /\ OneLiveRow' /\ BudgetOpen'
    BY DEF RowsTyped, OneLiveRow, BudgetOpen, LiveEntry
  <1>4. HoldersHold' /\ OneExecutor'
    BY <1>2 DEF HoldersHold, OneExecutor
  <1> QED BY <1>1, <1>3, <1>4

\* The executor that holds a row releases it or ends it, and lets go of it.
LEMMA LetGoKeepsRows ==
    ASSUME RowInv, NEW x \in Executors, Holds(x),
           NEW r \in MergeEntry, r.status # "merging",
           r.status \in {"absent", "pending"} =>
             r.attempts < MaxMergeAttempts /\ r.mergeups < MaxMergeUps,
           queue' = [queue EXCEPT ![exec[x].entry] = r],
           exec' \in [Executors -> [at : Points, entry : Entries \cup {NoEntry}]],
           \A y \in Executors : y # x => exec'[y] = exec[y],
           ~Holds(x)'
    PROVE  RowInv'
  <1> USE DEF RowInv
  <1> DEFINE i == exec[x].entry
  <1>1. i \in Entries /\ queue[i].status = "merging"  BY DEF HoldersHold
  <1>2. RowsTyped' /\ ExecTyped'  BY <1>1 DEF RowsTyped, ExecTyped
  <1>3. \A j \in Entries : queue'[j] = IF j = i THEN r ELSE queue[j]
    BY <1>1 DEF RowsTyped
  <1>4. OneLiveRow'  BY <1>1, <1>3 DEF OneLiveRow, LiveEntry
  <1>5. BudgetOpen'  BY <1>3 DEF BudgetOpen, MergeEntry
  <1>6. \A y \in Executors : ~Holds(y)'
    BY DEF OneExecutor, Holds
  <1>7. HoldersHold' /\ OneExecutor'  BY <1>6 DEF HoldersHold, OneExecutor
  <1> QED BY <1>2, <1>4, <1>5, <1>7

\* Rows nobody holds change: inserted, ended, released, or spent on a merge-up.
LEMMA UnheldKeepsRows ==
    ASSUME RowInv, UNCHANGED exec, RowsTyped', BudgetOpen',
           \A i \in Entries : queue[i].status = "merging" /\ (\E x \in Executors : Holds(x))
              => queue'[i].status = "merging",
           \/ \A i \in Entries : LiveEntry(i)' => LiveEntry(i)
           \/ NoLiveEntry /\ \E i \in Entries : \A j \in Entries : LiveEntry(j)' => j = i
    PROVE  RowInv'
  <1> USE DEF RowInv
  <1>1. ExecTyped'  BY DEF ExecTyped
  <1>2. OneLiveRow'  BY DEF OneLiveRow, NoLiveEntry
  <1>3. \A x \in Executors : Holds(x)' <=> Holds(x)  BY DEF Holds
  <1>4. HoldersHold' /\ OneExecutor'  BY <1>3 DEF HoldersHold, OneExecutor
  <1> QED BY <1>1, <1>2, <1>4

-----------------------------------------------------------------------------
\* What each row can become at the hands of the executor that holds it.
LEMMA HeldRow ==
    ASSUME RowInv, NEW x \in Executors, Holds(x)
    PROVE  LET i == exec[x].entry  n == BumpMergeAttempts(i)  u == BumpMergeUpAttempts(i) IN
           /\ i \in Entries
           /\ queue[i].status = "merging"
           /\ queue[i] \in MergeEntry
           /\ n \in 0..MaxMergeAttempts /\ u \in 0..MaxMergeUps
           /\ ~AtCap(n) => n < MaxMergeAttempts
           /\ ~(u >= MaxMergeUps) => u < MaxMergeUps
  <1> DEFINE i == exec[x].entry
  <1>1. i \in Entries /\ queue[i].status = "merging"  BY DEF RowInv, HoldersHold
  <1>2. queue[i] \in MergeEntry  BY <1>1 DEF RowInv, RowsTyped
  <1>3. queue[i].attempts < MaxMergeAttempts /\ queue[i].mergeups < MaxMergeUps
    BY <1>1 DEF RowInv, BudgetOpen
  <1> QED BY <1>1, <1>2, <1>3, MergeAssumption
          DEF MergeEntry, BumpMergeAttempts, BumpMergeUpAttempts, AtCap, MaxMergeUps

\* An executor that is done with its row, whatever the row becomes.
LEMMA FinishesKeepsRows ==
    ASSUME RowInv, NEW x \in Executors, Holds(x),
           NEW st \in {"pending", "merged", "failed", "conflict"},
           queue' = Put(exec[x].entry, st),
           \/ exec' = [exec EXCEPT ![x] = IdleExecutor]
           \/ \E at \in {"parking", "gate_red", "completed"} : Moves(x, at)
    PROVE  RowInv'
  <1> DEFINE i == exec[x].entry
             r == [queue[i] EXCEPT !.status = st]
  <1>1. i \in Entries /\ queue[i] \in MergeEntry /\ queue[i].status = "merging"
    BY HeldRow
  <1>2. r \in MergeEntry /\ r.status = st /\ r.attempts = queue[i].attempts
        /\ r.mergeups = queue[i].mergeups
    BY <1>1 DEF MergeEntry
  <1>3. queue[i].attempts < MaxMergeAttempts /\ queue[i].mergeups < MaxMergeUps
    BY <1>1 DEF RowInv, BudgetOpen
  <1>4. queue' = [queue EXCEPT ![i] = r]  BY <1>1 DEF Put, RowInv, RowsTyped
  <1>5. /\ exec' \in [Executors -> [at : Points, entry : Entries \cup {NoEntry}]]
        /\ \A y \in Executors : y # x => exec'[y] = exec[y]
        /\ ~Holds(x)'
    BY DEF RowInv, ExecTyped, Moves, IdleExecutor, Points, Holds
  <1> HIDE DEF r
  <1> QED BY <1>2, <1>3, <1>4, <1>5, LetGoKeepsRows

\* An executor that spends an attempt or a merge-up: the row ends at the cap
\* and goes back to the queue below it.
LEMMA SpendKeepsRows ==
    ASSUME RowInv, NEW x \in Executors, Holds(x),
           NEW n \in Nat, NEW st \in {"pending", "failed", "conflict"},
           \/ /\ queue' = [queue EXCEPT ![exec[x].entry].attempts = n,
                                        ![exec[x].entry].status = st]
              /\ n \in 0..MaxMergeAttempts
              /\ st = "pending" => n < MaxMergeAttempts
           \/ /\ queue' = [queue EXCEPT ![exec[x].entry].mergeups = n,
                                        ![exec[x].entry].status = st]
              /\ n \in 0..MaxMergeUps
              /\ st = "pending" => n < MaxMergeUps,
           exec' = [exec EXCEPT ![x] = IdleExecutor] \/ Moves(x, "parking")
    PROVE  RowInv'
  <1> DEFINE i == exec[x].entry
             r == [queue[i] EXCEPT !.attempts = n, !.status = st]
             s == [queue[i] EXCEPT !.mergeups = n, !.status = st]
  <1>1. i \in Entries /\ queue[i] \in MergeEntry /\ queue[i].status = "merging"
    BY HeldRow
  <1>2. queue[i].attempts < MaxMergeAttempts /\ queue[i].mergeups < MaxMergeUps
    BY <1>1 DEF RowInv, BudgetOpen
  <1>3. /\ exec' \in [Executors -> [at : Points, entry : Entries \cup {NoEntry}]]
        /\ \A y \in Executors : y # x => exec'[y] = exec[y]
        /\ ~Holds(x)'
    BY DEF RowInv, ExecTyped, Moves, IdleExecutor, Points, Holds
  <1>4. CASE /\ queue' = [queue EXCEPT ![i].attempts = n, ![i].status = st]
             /\ n \in 0..MaxMergeAttempts
             /\ st = "pending" => n < MaxMergeAttempts
    <2>1. /\ r \in MergeEntry /\ r.status = st /\ r.attempts = n
          /\ r.mergeups = queue[i].mergeups
      BY <1>1, <1>4 DEF MergeEntry
    <2>2. queue' = [queue EXCEPT ![i] = r]  BY <1>1, <1>4 DEF RowInv, RowsTyped
    <2> HIDE DEF r
    <2> QED BY <1>2, <1>3, <1>4, <2>1, <2>2, LetGoKeepsRows
  <1>5. CASE /\ queue' = [queue EXCEPT ![i].mergeups = n, ![i].status = st]
             /\ n \in 0..MaxMergeUps
             /\ st = "pending" => n < MaxMergeUps
    <2>1. /\ s \in MergeEntry /\ s.status = st /\ s.mergeups = n
          /\ s.attempts = queue[i].attempts
      BY <1>1, <1>5 DEF MergeEntry
    <2>2. queue' = [queue EXCEPT ![i] = s]  BY <1>1, <1>5 DEF RowInv, RowsTyped
    <2> HIDE DEF s
    <2> QED BY <1>2, <1>3, <1>5, <2>1, <2>2, LetGoKeepsRows
  <1> QED BY <1>4, <1>5

LEMMA EnqueueKeepsRows ==
    ASSUME RowInv, NEW i \in Entries, EnqueueMerge(i), UNCHANGED exec
    PROVE  RowInv'
  <1>1. queue' = [queue EXCEPT ![i].status = "pending"] /\ queue[i].status = "absent"
    BY DEF EnqueueMerge, Unwritten, Put
  <1>2. RowsTyped'  BY <1>1 DEF RowInv, RowsTyped, MergeEntry
  <1>3. BudgetOpen'  BY <1>1 DEF RowInv, RowsTyped, BudgetOpen, MergeEntry
  <1>4. \A j \in Entries : LiveEntry(j)' => j = i
    BY <1>1 DEF EnqueueMerge, NoLiveEntry, LiveEntry, RowInv, RowsTyped
  <1>5. \A j \in Entries : queue[j].status # "merging"
    BY DEF EnqueueMerge, NoLiveEntry, LiveEntry
  <1>6. NoLiveEntry  BY DEF EnqueueMerge
  <1> QED BY <1>2, <1>3, <1>4, <1>5, <1>6, UnheldKeepsRows

LEMMA ClaimKeepsRows ==
    ASSUME RowInv, NEW x \in Executors, NEW i \in Entries, ClaimMergeEntry(x, i)
    PROVE  RowInv'
  <1> USE DEF RowInv
  <1>1. /\ queue[i].status = "pending"
        /\ queue' = [queue EXCEPT ![i].status = "merging"]
        /\ exec' = [exec EXCEPT ![x] = [at |-> "claimed", entry |-> i]]
    BY DEF ClaimMergeEntry, Pending, Put
  <1>2. \A y \in Executors : ~Holds(y)
    BY <1>1 DEF HoldersHold, OneLiveRow, LiveEntry
  <1>3. \A y \in Executors : Holds(y)' => y = x
    BY <1>1, <1>2 DEF Holds, ExecTyped
  <1>4. /\ exec'[x].entry = i /\ queue'[i].status = "merging"
        /\ RowsTyped' /\ ExecTyped'
    BY <1>1 DEF RowsTyped, MergeEntry, ExecTyped, Points
  <1>5. OneLiveRow' /\ BudgetOpen'
    BY <1>1 DEF OneLiveRow, BudgetOpen, LiveEntry, RowsTyped, MergeEntry
  <1>6. HoldersHold' /\ OneExecutor'  BY <1>3, <1>4 DEF HoldersHold, OneExecutor
  <1> QED BY <1>4, <1>5, <1>6

-----------------------------------------------------------------------------
LEMMA RowInit == MergeInit => RowInv
  <1> SUFFICES ASSUME MergeInit PROVE RowInv  OBVIOUS
  <1>1. RowsTyped /\ BudgetOpen /\ OneLiveRow
    BY MergeAssumption DEF MergeInit, RowsTyped, BudgetOpen, OneLiveRow, LiveEntry,
                           MergeEntry, MaxMergeUps
  <1>2. ExecTyped /\ HoldersHold /\ OneExecutor
    BY DEF MergeInit, ExecTyped, HoldersHold, OneExecutor, Holds, IdleExecutor, Points
  <1> QED BY <1>1, <1>2 DEF RowInv

LEMMA ExecutorKeepsRows ==
    ASSUME RowInv, NEW x \in Executors, Executor(x)
    PROVE  RowInv'
  <1>1. CASE ProcessMergeGH(x)
    <2>1. Holds(x)  BY <1>1 DEF ProcessMergeGH, Holds
    <2>2. CASE ReleaseMergeEntry(x)
      BY <2>1, <2>2, FinishesKeepsRows DEF ReleaseMergeEntry, Finishes
    <2>3. CASE Moves(x, "working") /\ UNCHANGED queue
      <3>1. exec'[x].entry = exec[x].entry  BY <2>3 DEF Moves, RowInv, ExecTyped
      <3> QED BY <2>1, <2>3, <3>1, MoveKeepsRows DEF Moves, Points
    <2> QED BY <1>1, <2>2, <2>3 DEF ProcessMergeGH
  <1>2. CASE SyncBranch(x)
    <2>1. Holds(x) /\ UNCHANGED queue  BY <1>2 DEF SyncBranch, Holds
    <2>2. PICK at \in {"gating", "conflicted"} : Moves(x, at)  BY <1>2 DEF SyncBranch
    <2>3. exec'[x].entry = exec[x].entry  BY <2>2 DEF Moves, RowInv, ExecTyped
    <2>4. at \in Points  BY DEF Points
    <2> QED BY <2>1, <2>2, <2>3, <2>4, MoveKeepsRows DEF Moves
  <1>3. CASE FailMerge(x)
    <2>1. Holds(x)  BY <1>3 DEF FailMerge, Holds
    <2> QED BY <1>3, <2>1, FinishesKeepsRows DEF FailMerge, Finishes
  <1>4. CASE Conflict(x)
    <2> DEFINE i == exec[x].entry
               n == BumpMergeAttempts(i)
               u == BumpMergeUpAttempts(i)
    <2>1. Holds(x) /\ exec[x].at = "conflicted"  BY <1>4 DEF Conflict, Holds
    <2>2. /\ i \in Entries /\ queue[i] \in MergeEntry /\ RowsTyped
          /\ n \in 0..MaxMergeAttempts /\ u \in 0..MaxMergeUps
          /\ ~AtCap(n) => n < MaxMergeAttempts
          /\ ~(u >= MaxMergeUps) => u < MaxMergeUps
          /\ queue[i].attempts \in 0..MaxMergeAttempts /\ queue[i].mergeups \in 0..MaxMergeUps
          /\ queue[i].attempts < MaxMergeAttempts /\ queue[i].mergeups < MaxMergeUps
      BY <2>1, HeldRow DEF RowInv, BudgetOpen, MergeEntry
    <2>n. n \in Nat /\ u \in Nat  BY <2>2, MergeAssumption DEF MaxMergeUps
    <2> HIDE DEF n, u
    <2>3. CASE ArmMergeConflictAgent(x)
      <3>1. CASE AtCap(n)
        <4>1. /\ queue' = [queue EXCEPT ![i].attempts = n, ![i].status = "conflict"]
              /\ Moves(x, "parking")
          BY <2>3, <3>1 DEF ArmMergeConflictAgent, n
        <4> QED BY <2>1, <2>2, <2>n, <4>1, SpendKeepsRows
      <3>2. CASE ~AtCap(n)
        <4>1. /\ queue' = [queue EXCEPT ![i].attempts = n, ![i].status = "pending"]
              /\ exec' = [exec EXCEPT ![x] = IdleExecutor]
          BY <2>3, <3>2 DEF ArmMergeConflictAgent, n
        <4> QED BY <2>1, <2>2, <2>n, <3>2, <4>1, SpendKeepsRows
      <3> QED BY <3>1, <3>2
    <2>4. CASE MergeUpAfterConflict(x)
      <3>1. CASE Moves(x, "gating") /\ UNCHANGED queue
        <4>1. exec'[x].entry = exec[x].entry  BY <3>1 DEF Moves, RowInv, ExecTyped
        <4> QED BY <2>1, <3>1, <4>1, MoveKeepsRows DEF Moves, Points
      <3>2. CASE ReleaseMergeEntry(x)
        BY <2>1, <3>2, FinishesKeepsRows DEF ReleaseMergeEntry, Finishes
      <3>3. ASSUME u >= MaxMergeUps,
                   queue' = [queue EXCEPT ![i].mergeups = u, ![i].status = "conflict"],
                   Moves(x, "parking")
            PROVE  RowInv'
        BY <2>1, <2>2, <2>n, <3>3, SpendKeepsRows
      <3>4. ASSUME ~(u >= MaxMergeUps),
                   queue' = [queue EXCEPT ![i].mergeups = u, ![i].status = "pending"],
                   exec' = [exec EXCEPT ![x] = IdleExecutor]
            PROVE  RowInv'
        BY <2>1, <2>2, <2>n, <3>4, SpendKeepsRows
      <3> QED BY <2>4, <3>1, <3>2, <3>3, <3>4 DEF MergeUpAfterConflict, u
    <2> QED BY <1>4, <2>3, <2>4 DEF Conflict
  <1>5. CASE ChecksPending(x)
    <2>1. Holds(x)  BY <1>5 DEF ChecksPending, Holds
    <2> QED BY <1>5, <2>1, FinishesKeepsRows DEF ChecksPending, ReleaseMergeEntry, Finishes
  <1>6. CASE ChecksFailed(x)
    <2> DEFINE i == exec[x].entry
               n == BumpMergeAttempts(i)
    <2>1. Holds(x)  BY <1>6 DEF ChecksFailed, Holds
    <2>2. /\ i \in Entries /\ queue[i] \in MergeEntry /\ RowsTyped
          /\ n \in 0..MaxMergeAttempts
          /\ ~AtCap(n) => n < MaxMergeAttempts
          /\ queue[i].mergeups \in 0..MaxMergeUps /\ queue[i].mergeups < MaxMergeUps
      BY <2>1, HeldRow DEF RowInv, BudgetOpen, MergeEntry
    <2>n. n \in Nat  BY <2>2, MergeAssumption
    <2> HIDE DEF n
    <2>3. CASE AtCap(n)
      <3>1. /\ queue' = [queue EXCEPT ![i].attempts = n, ![i].status = "failed"]
            /\ Moves(x, "parking")
        BY <1>6, <2>3 DEF ChecksFailed, n
      <3> QED BY <2>1, <2>2, <2>n, <3>1, SpendKeepsRows
    <2>4. CASE ~AtCap(n)
      <3>1. /\ queue' = [queue EXCEPT ![i].attempts = n, ![i].status = "pending"]
            /\ exec' = [exec EXCEPT ![x] = IdleExecutor]
        BY <1>6, <2>4 DEF ChecksFailed, n
      <3> QED BY <2>1, <2>2, <2>n, <2>4, <3>1, SpendKeepsRows
    <2> QED BY <2>3, <2>4
  <1>7. CASE GateRed(x)
    <2>1. Holds(x)  BY <1>7 DEF GateRed, Holds
    <2> QED BY <1>7, <2>1, FinishesKeepsRows DEF GateRed
  <1>8. CASE ParkGateFailure(x) \/ ParkMergeConflict(x) \/ FinishMergeGH(x)
    <2>1. UNCHANGED queue /\ exec' = [exec EXCEPT ![x] = IdleExecutor]
      BY <1>8 DEF ParkGateFailure, ParkMergeConflict, FinishMergeGH, Lands
    <2> QED BY <2>1, MoveKeepsRows DEF IdleExecutor, Points
  <1>9. CASE PRMergeSquash(x)
    <2>1. Holds(x) /\ UNCHANGED queue /\ Moves(x, "squashed")
      BY <1>9 DEF PRMergeSquash, Holds
    <2>2. exec'[x].entry = exec[x].entry  BY <2>1 DEF Moves, RowInv, ExecTyped
    <2> QED BY <2>1, <2>2, MoveKeepsRows DEF Moves, Points
  <1>10. CASE CompleteMerge(x)
    <2>1. Holds(x)  BY <1>10 DEF CompleteMerge, Holds
    <2> QED BY <1>10, <2>1, FinishesKeepsRows DEF CompleteMerge
  <1> QED BY <1>1, <1>2, <1>3, <1>4, <1>5, <1>6, <1>7, <1>8, <1>9, <1>10 DEF Executor

\* The ledger row of a parked merge-up is a row that was written.
LEMMA LatestIsWritten ==
    ASSUME Written # {}
    PROVE  LatestMergeEntryForTask \in Written
  <1>1. Written \in SUBSET (1..MaxEntries) /\ MaxEntries \in Nat
    BY MergeAssumption DEF Written, Entries
  <1>2. \E i \in Written : \A j \in Written : j <= i  BY <1>1, HasGreatest
  <1> QED BY <1>2 DEF LatestMergeEntryForTask, Newest

LEMMA RowNext == RowInv /\ [MergeNext]_mergeVars => RowInv'
  <1> SUFFICES ASSUME RowInv, [MergeNext]_mergeVars PROVE RowInv'  OBVIOUS
  <1>0. ASSUME UNCHANGED <<queue, exec>>  PROVE RowInv'
    BY <1>0 DEF RowInv, RowsTyped, ExecTyped, OneLiveRow, LiveEntry, BudgetOpen,
                HoldersHold, OneExecutor, Holds
  <1>1. CASE UNCHANGED mergeVars  BY <1>0, <1>1 DEF mergeVars
  <1>2. CASE RunMergeEnqueuePass
    BY <1>2, EnqueueKeepsRows DEF RunMergeEnqueuePass
  <1>3. CASE DrainClaims
    BY <1>3, ClaimKeepsRows DEF DrainClaims, Executors
  <1>4. CASE ApproveRef
    <2>1. UNCHANGED queue /\ exec' = [exec EXCEPT !["approve"].at = "approved"]
      BY <1>4 DEF ApproveRef, Moves
    <2>2. "approve" \in Executors /\ "approved" \in Points  BY DEF Executors, Points
    <2> QED BY <2>1, <2>2, MoveKeepsRows
  <1>5. CASE RunMergeOnApprove
    <2>1. "approve" \in Executors /\ "idle" \in Points  BY DEF Executors, Points
    <2>2. CASE \E i \in Entries : EnqueueMerge(i) /\ UNCHANGED exec
      BY <2>2, EnqueueKeepsRows
    <2>3. CASE \E i \in Entries : ClaimMergeEntry("approve", i)
      BY <2>1, <2>3, ClaimKeepsRows
    <2>4. CASE exec' = [exec EXCEPT !["approve"] = IdleExecutor] /\ UNCHANGED queue
      BY <2>1, <2>4, MoveKeepsRows DEF IdleExecutor
    <2> QED BY <1>5, <2>2, <2>3, <2>4 DEF RunMergeOnApprove
  <1>6. ASSUME NEW x \in Executors, Executor(x)  PROVE RowInv'
    BY <1>6, ExecutorKeepsRows
  <1>7. ASSUME NEW x \in Executors, ExecutorDies(x)  PROVE RowInv'
    <2>1. UNCHANGED queue /\ "starting" \in Points /\ "idle" \in Points
      BY <1>7 DEF ExecutorDies, Points
    <2>2. CASE x = "drain"
      <3>1. exec' = [exec EXCEPT ![x] = [IdleExecutor EXCEPT !.at = "starting"]]
        BY <1>7, <2>2 DEF ExecutorDies
      <3> QED BY <2>1, <3>1, MoveKeepsRows
    <2>3. CASE x # "drain"
      <3>1. exec' = [exec EXCEPT ![x] = [IdleExecutor EXCEPT !.at = "idle"]]
        BY <1>7, <2>3 DEF ExecutorDies
      <3> QED BY <2>1, <3>1, MoveKeepsRows
    <2> QED BY <2>2, <2>3
  <1>8. CASE ReconcileStaleMerging
    <2> USE DEF RowInv
    <2>1. /\ exec' = [exec EXCEPT !["drain"] = IdleExecutor]
          /\ exec["drain"].at = "starting"
      BY <1>8 DEF ReconcileStaleMerging
    <2>2. CASE UNCHANGED queue
      BY <2>1, <2>2, MoveKeepsRows DEF IdleExecutor, Executors, Points
    <2>3. CASE queue' = [i \in Entries |->
                IF queue[i].status = "merging" /\ \A x \in Executors : exec[x].entry # i
                THEN [queue[i] EXCEPT !.status = "pending"] ELSE queue[i]]
      <3>1. RowsTyped'  BY <2>3 DEF RowsTyped, MergeEntry
      <3>2. OneLiveRow'  BY <2>3 DEF OneLiveRow, LiveEntry, RowsTyped, MergeEntry
      <3>3. BudgetOpen'  BY <2>3 DEF BudgetOpen, RowsTyped, MergeEntry
      <3>4. ExecTyped'  BY <2>1 DEF ExecTyped, IdleExecutor, Points
      <3>5. \A x \in Executors : Holds(x)' => Holds(x) /\ exec'[x] = exec[x]
        BY <2>1 DEF Holds, ExecTyped, IdleExecutor
      <3>6. HoldersHold'  BY <2>3, <3>5 DEF HoldersHold, RowsTyped
      <3>7. OneExecutor'  BY <3>5 DEF OneExecutor
      <3> QED BY <3>1, <3>2, <3>3, <3>4, <3>6, <3>7
    <2> QED BY <1>8, <2>2, <2>3 DEF ReconcileStaleMerging
  <1>9. CASE MergerSpawnPass \/ MergerPromptPass \/ MergerSays \/ ApplyMergerMerged
             \/ MarkerAges \/ BaseMoves \/ ReviewRound
    BY <1>0, <1>9 DEF MergerSpawnPass, MergerPromptPass, MergerSays, ApplyMergerMerged,
                      MarkerAges, BaseMoves, ReviewRound
  <1>10. CASE MergerGivesUp
    <2>1. /\ UNCHANGED exec
          /\ queue' = [i \in Entries |-> IF queue[i].status = "pending"
                          THEN [queue[i] EXCEPT !.status = "conflict"] ELSE queue[i]]
      BY <1>10 DEF MergerGivesUp, ParkMergerConflict, Pending
    <2>2. RowsTyped' /\ BudgetOpen'
      BY <2>1 DEF RowInv, RowsTyped, BudgetOpen, MergeEntry
    <2>3. \A i \in Entries : LiveEntry(i)' => LiveEntry(i)
      BY <2>1 DEF LiveEntry, RowInv, RowsTyped, MergeEntry
    <2>4. \A i \in Entries : queue[i].status = "merging" => queue'[i].status = "merging"
      BY <2>1
    <2> QED BY <2>1, <2>2, <2>3, <2>4, UnheldKeepsRows
  <1>11. CASE ParkedMergeUpOne
    <2>1. UNCHANGED exec /\ NoLiveEntry  BY <1>11 DEF ParkedMergeUpOne
    <2>2. \A i \in Entries : queue[i].status # "merging"
      BY <2>1 DEF NoLiveEntry, LiveEntry
    <2>3. CASE UNCHANGED queue  BY <1>0, <2>1, <2>3
    <2>4. CASE queue' = [queue EXCEPT ![1] = [EnsureParkedMergeUpLedger EXCEPT !.mergeups = 1]]
      <3>1. 1 \in Entries /\ 0 \in 0..MaxMergeAttempts /\ 1 \in 0..MaxMergeUps
        BY MergeAssumption DEF Entries, MaxMergeUps
      <3> DEFINE r == [EnsureParkedMergeUpLedger EXCEPT !.mergeups = 1]
      <3>2. r \in MergeEntry /\ r.status = "conflict"
        BY <3>1 DEF MergeEntry, EnsureParkedMergeUpLedger
      <3> HIDE DEF r
      <3>3. RowsTyped' /\ BudgetOpen'
        BY <2>4, <3>1, <3>2 DEF RowInv, RowsTyped, BudgetOpen, r
      <3>4. \A i \in Entries : LiveEntry(i)' => LiveEntry(i)
        BY <2>4, <3>1, <3>2 DEF LiveEntry, RowInv, RowsTyped, r
      <3> QED BY <2>1, <2>2, <3>3, <3>4, UnheldKeepsRows
    <2>5. CASE /\ Written # {}
               /\ queue' = [queue EXCEPT ![LatestMergeEntryForTask].mergeups = @ + 1]
      <3> DEFINE i == LatestMergeEntryForTask
      <3>1. BudgetLeft(i)  BY <1>11, <2>5 DEF ParkedMergeUpOne
      <3>2. i \in Entries /\ queue[i].status \notin {"absent", "pending", "merging"}
        BY <2>1, <2>5, LatestIsWritten DEF Written, NoLiveEntry, LiveEntry
      <3> HIDE DEF i
      <3>3. queue[i] \in MergeEntry /\ queue[i].mergeups < MaxMergeUps
        BY <3>1, <3>2 DEF BudgetLeft, RowInv, RowsTyped
      <3> DEFINE r == [queue[i] EXCEPT !.mergeups = queue[i].mergeups + 1]
      <3>4. r \in MergeEntry /\ r.status = queue[i].status
        BY <3>3 DEF MergeEntry, MaxMergeUps
      <3>5. queue' = [queue EXCEPT ![i] = r]  BY <2>5, <3>2 DEF RowInv, RowsTyped, i
      <3> HIDE DEF r
      <3>6. RowsTyped' /\ BudgetOpen'
        BY <3>2, <3>4, <3>5 DEF RowInv, RowsTyped, BudgetOpen
      <3>7. \A j \in Entries : LiveEntry(j)' => LiveEntry(j)
        BY <3>4, <3>5 DEF LiveEntry, RowInv, RowsTyped
      <3> QED BY <2>1, <2>2, <3>6, <3>7, UnheldKeepsRows
    <2> QED BY <1>11, <2>3, <2>4, <2>5 DEF ParkedMergeUpOne
  <1>12. CASE ObjectionReads
    <2>1. UNCHANGED queue /\ exec' = [exec EXCEPT !["approve"].at = "objecting"]
      BY <1>12 DEF ObjectionReads, Moves
    <2>2. "approve" \in Executors /\ "objecting" \in Points  BY DEF Executors, Points
    <2> QED BY <2>1, <2>2, MoveKeepsRows
  <1>13. CASE ReopenReview
    <2> USE DEF RowInv
    <2>1. /\ exec' = [exec EXCEPT !["approve"] = IdleExecutor]
          /\ "approve" \in Executors /\ "idle" \in Points
      BY <1>13 DEF ReopenReview, Executors, Points
    <2>2. CASE UNCHANGED queue
      BY <2>1, <2>2, MoveKeepsRows DEF IdleExecutor
    <2>3. CASE queue' = [i \in Entries |-> IF queue[i].status = "pending"
                            THEN [queue[i] EXCEPT !.status = "failed"] ELSE queue[i]]
      <3>1. RowsTyped' /\ BudgetOpen'
        BY <2>3 DEF RowsTyped, BudgetOpen, MergeEntry
      <3>2. OneLiveRow'  BY <2>3 DEF OneLiveRow, LiveEntry, RowsTyped, MergeEntry
      <3>3. ExecTyped'  BY <2>1 DEF ExecTyped, IdleExecutor
      <3>4. \A x \in Executors : Holds(x)' => Holds(x) /\ exec'[x] = exec[x]
        BY <2>1 DEF Holds, ExecTyped, IdleExecutor
      <3>5. HoldersHold'  BY <2>3, <3>4 DEF HoldersHold, RowsTyped
      <3>6. OneExecutor'  BY <3>4 DEF OneExecutor
      <3> QED BY <3>1, <3>2, <3>3, <3>5, <3>6
    <2> QED BY <1>13, <2>2, <2>3 DEF ReopenReview, OpenToObjection, Pending
  <1> QED BY <1>1, <1>2, <1>3, <1>4, <1>5, <1>6, <1>7, <1>8, <1>9, <1>10, <1>11,
             <1>12, <1>13 DEF MergeNext

-----------------------------------------------------------------------------
(* The merger episode.                                                       *)
LEMMA EpisodeInit == MergeInit => EpisodeInv
  <1> SUFFICES ASSUME MergeInit PROVE EpisodeInv  OBVIOUS
  <1>1. /\ marker = NoMarker /\ merger = "none" /\ keys = {}
        /\ tstatus = "ready_to_merge" /\ branch \in {"current", "stale"}
        /\ squashed = FALSE /\ withAgent \in BOOLEAN
        /\ trouble = 0 /\ crashes = 0 /\ people = 0
    BY DEF MergeInit
  <1>2. NoMarker.consumed = TRUE
        /\ NoMarker \in [entry : Entries \cup {NoEntry}, attempt : Nat,
                         consumed : BOOLEAN, old : BOOLEAN]
    BY DEF NoMarker
  <1>3. EpisodeTyped  BY <1>1, <1>2 DEF EpisodeTyped, TaskStatus
  <1>4. LiveMergerHasMarker /\ NoAgentNoEpisode
    BY <1>1, <1>2 DEF LiveMergerHasMarker, NoAgentNoEpisode, MergerLive, MergerEpisodePending
  <1> QED BY <1>3, <1>4 DEF EpisodeInv

\* The steps of an executor leave the episode alone, except the one that arms
\* it: that one runs in merger mode, with an attempt below the cap.
LEMMA ExecutorEpisode ==
    ASSUME RowInv, EpisodeInv, NEW x \in Executors, Executor(x)
    PROVE  /\ EpisodeInv'
           /\ UNCHANGED withAgent
           /\ UNCHANGED <<marker, merger>> \/ exec[x].at = "conflicted"
  <1> USE DEF EpisodeInv
  <1>0. ASSUME UNCHANGED <<episode, withAgent, crashes, people>>,
               tstatus' \in TaskStatus, branch' \in {"current", "stale"},
               squashed' \in BOOLEAN, trouble' \in Nat
        PROVE  /\ EpisodeInv'
               /\ UNCHANGED withAgent
               /\ UNCHANGED <<marker, merger>>
    BY <1>0 DEF EpisodeTyped, episode, LiveMergerHasMarker, NoAgentNoEpisode,
                MergerLive, MergerEpisodePending
  <1>1. CASE \/ ProcessMergeGH(x) \/ SyncBranch(x) \/ FailMerge(x) \/ ChecksPending(x)
             \/ ChecksFailed(x) \/ GateRed(x) \/ PRMergeSquash(x) \/ CompleteMerge(x)
    <2>1. UNCHANGED <<episode, withAgent, crashes, people, tstatus>>
      BY <1>1 DEF ProcessMergeGH, SyncBranch, FailMerge, ChecksPending, ChecksFailed,
                  GateRed, PRMergeSquash, CompleteMerge
    <2>2. branch' \in {"current", "stale"}
      BY <1>1 DEF ProcessMergeGH, SyncBranch, FailMerge, ChecksPending, ChecksFailed,
                  GateRed, PRMergeSquash, CompleteMerge, EpisodeTyped
    <2>3. trouble' \in Nat
      BY <1>1 DEF ProcessMergeGH, SyncBranch, FailMerge, ChecksPending, ChecksFailed,
                  GateRed, PRMergeSquash, CompleteMerge, EpisodeTyped, Troubled
    <2>4. squashed' = squashed \/ squashed' = TRUE
      BY <1>1 DEF ProcessMergeGH, SyncBranch, FailMerge, ChecksPending, ChecksFailed,
                  GateRed, PRMergeSquash, CompleteMerge
    <2>5. squashed' \in BOOLEAN  BY <2>4 DEF EpisodeTyped
    <2> QED BY <1>0, <2>1, <2>2, <2>3, <2>5 DEF EpisodeTyped
  <1>2. CASE ParkGateFailure(x) \/ ParkMergeConflict(x) \/ FinishMergeGH(x)
    <2>1. PICK s \in {"pending_approval", "changes_requested", "done"} : Lands(x, s)
      <3>1. CASE ParkGateFailure(x)  BY <3>1 DEF ParkGateFailure
      <3>2. CASE ParkMergeConflict(x)  BY <3>2 DEF ParkMergeConflict
      <3>3. CASE FinishMergeGH(x)  BY <3>3 DEF FinishMergeGH
      <3> QED BY <1>2, <3>1, <3>2, <3>3
    <2> QED BY <1>0, <2>1 DEF Lands, EpisodeTyped, TaskStatus
  <1>3. CASE Conflict(x)
    <2>1. /\ exec[x].at = "conflicted"
          /\ UNCHANGED <<tstatus, squashed, withAgent, crashes, people>>
      BY <1>3 DEF Conflict
    <2>2. CASE UNCHANGED episode /\ branch' \in {"current", "stale"} /\ trouble' \in Nat
      BY <1>0, <2>1, <2>2 DEF EpisodeTyped
    <2>3. CASE withAgent /\ ArmMergeConflictAgent(x)
      <3> DEFINE i == exec[x].entry
                 n == BumpMergeAttempts(i)
      <3>1. UNCHANGED <<branch, trouble>>  BY <1>3, <2>3 DEF Conflict
      <3>2. CASE UNCHANGED episode  BY <2>2, <3>1, <3>2 DEF EpisodeTyped
      <3>3. CASE /\ marker' = [entry |-> i, attempt |-> n, consumed |-> FALSE, old |-> FALSE]
                 /\ UNCHANGED <<merger, keys>>
        <4>1. Holds(x)  BY <2>1 DEF Holds
        <4>2. i \in Entries /\ n \in Nat  BY <4>1, HeldRow, MergeAssumption
        <4>3. EpisodeTyped'  BY <2>1, <3>1, <3>3, <4>2 DEF EpisodeTyped
        <4>4. LiveMergerHasMarker' /\ NoAgentNoEpisode'
          BY <2>1, <2>3, <3>3 DEF LiveMergerHasMarker, NoAgentNoEpisode
        <4> QED BY <2>1, <4>3, <4>4
      <3> QED BY <2>3, <3>2, <3>3 DEF ArmMergeConflictAgent
    <2>4. CASE ~withAgent /\ MergeUpAfterConflict(x)
      <3>1. UNCHANGED episode  BY <2>4 DEF MergeUpAfterConflict
      <3>2. branch' \in {"current", "stale"} /\ trouble' \in Nat
        BY <1>3, <2>4 DEF Conflict, MergeUpAfterConflict, EpisodeTyped, Troubled
      <3> QED BY <2>2, <3>1, <3>2
    <2> QED BY <1>3, <2>3, <2>4 DEF Conflict
  <1> QED BY <1>1, <1>2, <1>3 DEF Executor

LEMMA EpisodeNext == RowInv /\ EpisodeInv /\ [MergeNext]_mergeVars => EpisodeInv'
  <1> SUFFICES ASSUME RowInv, EpisodeInv, [MergeNext]_mergeVars PROVE EpisodeInv'
    OBVIOUS
  <1> USE DEF EpisodeInv
  <1> USE DEF episode, LiveMergerHasMarker, NoAgentNoEpisode, MergerLive, MergerEpisodePending
  <1>0. ASSUME UNCHANGED <<episode, withAgent, trouble, squashed>>,
               tstatus' \in TaskStatus, branch' \in {"current", "stale"},
               crashes' \in Nat, people' \in Nat
        PROVE  EpisodeInv'
    BY <1>0 DEF EpisodeTyped
  <1>1. CASE UNCHANGED mergeVars  BY <1>0, <1>1 DEF mergeVars, EpisodeTyped
  <1>2. ASSUME NEW x \in Executors, Executor(x)  PROVE EpisodeInv'
    BY <1>2, ExecutorEpisode
  <1>3. CASE \/ RunMergeEnqueuePass \/ DrainClaims \/ ApproveRef \/ RunMergeOnApprove
             \/ (\E x \in Executors : ExecutorDies(x)) \/ ReconcileStaleMerging
             \/ ParkedMergeUpOne \/ BaseMoves \/ ObjectionReads \/ ReopenReview \/ ReviewRound
    <2>1. UNCHANGED <<episode, withAgent, trouble, squashed>>
      BY <1>3 DEF RunMergeEnqueuePass, DrainClaims, ApproveRef, RunMergeOnApprove,
                  ExecutorDies, ReconcileStaleMerging, ParkedMergeUpOne, BaseMoves,
                  ObjectionReads, ReopenReview, ReviewRound
    <2>2. tstatus' \in TaskStatus
      BY <1>3 DEF RunMergeEnqueuePass, DrainClaims, ApproveRef, RunMergeOnApprove,
                  ExecutorDies, ReconcileStaleMerging, ParkedMergeUpOne, BaseMoves,
                  ObjectionReads, ReopenReview, ReviewRound, TaskStatus, EpisodeTyped
    <2>3. branch' \in {"current", "stale"}
      BY <1>3 DEF RunMergeEnqueuePass, DrainClaims, ApproveRef, RunMergeOnApprove,
                  ExecutorDies, ReconcileStaleMerging, ParkedMergeUpOne, BaseMoves,
                  ObjectionReads, ReopenReview, ReviewRound, EpisodeTyped
    <2>4. crashes' \in Nat /\ people' \in Nat
      BY <1>3 DEF RunMergeEnqueuePass, DrainClaims, ApproveRef, RunMergeOnApprove,
                  ExecutorDies, ReconcileStaleMerging, ParkedMergeUpOne, BaseMoves,
                  ObjectionReads, ReopenReview, ReviewRound, EpisodeTyped, Acts
    <2> QED BY <1>0, <2>1, <2>2, <2>3, <2>4
  <1>4. CASE MergerSpawnPass  BY <1>4 DEF MergerSpawnPass, EpisodeTyped
  <1>5. CASE MergerPromptPass
    <2>1. Key \in (Entries \cup {NoEntry}) \X Nat  BY DEF Key, EpisodeTyped
    <2> QED BY <1>5, <2>1 DEF MergerPromptPass, EpisodeTyped
  <1>6. CASE MergerSays  BY <1>6 DEF MergerSays, EpisodeTyped
  <1>7. CASE ApplyMergerMerged  BY <1>7 DEF ApplyMergerMerged, EpisodeTyped
  <1>8. CASE MergerGivesUp
    BY <1>8 DEF MergerGivesUp, ParkMergerConflict, EpisodeTyped, TaskStatus
  <1>9. CASE MarkerAges  BY <1>9 DEF MarkerAges, EpisodeTyped
  <1> QED BY <1>1, <1>2, <1>3, <1>4, <1>5, <1>6, <1>7, <1>8, <1>9 DEF MergeNext

-----------------------------------------------------------------------------
(* No executor is past its guards while an episode is open.  An executor     *)
(* passes them only when none is, and the step that opens one is the one     *)
(* executor's that could be past them.                                       *)
LEMMA VerdictNext ==
    ASSUME MergeIInv, [MergeNext]_mergeVars
    PROVE  NoMergeBehindVerdict'
  <1> USE DEF MergeIInv
  <1> USE DEF MergerEpisodePending, MergerLive
  <1>0. ASSUME UNCHANGED withAgent, MergerEpisodePending' => MergerEpisodePending,
               \A y \in Executors : PastGuards(y)' => PastGuards(y)
        PROVE  NoMergeBehindVerdict'
    BY <1>0 DEF NoMergeBehindVerdict
  <1>e. exec \in [Executors -> [at : Points, entry : Entries \cup {NoEntry}]]
    BY DEF RowInv, ExecTyped
  <1>1. CASE UNCHANGED mergeVars
    BY <1>0, <1>1 DEF mergeVars, PastGuards
  <1>2. ASSUME NEW x \in Executors, ProcessMergeGH(x)  PROVE NoMergeBehindVerdict'
    <2>1. UNCHANGED <<withAgent, marker, merger>>
      BY <1>2 DEF ProcessMergeGH, episode
    <2>2. CASE EpisodeGuard
      <3>1. \A y \in Executors : PastGuards(y)' => PastGuards(y)
        BY <1>2, <1>e, <2>2
           DEF ProcessMergeGH, ReleaseMergeEntry, Finishes, IdleExecutor, PastGuards
      <3> QED BY <1>0, <2>1, <3>1
    <2>3. CASE ~EpisodeGuard
      BY <2>1, <2>3 DEF EpisodeGuard, NoMergeBehindVerdict
    <2> QED BY <2>2, <2>3
  <1>3. ASSUME NEW x \in Executors, Conflict(x)  PROVE NoMergeBehindVerdict'
    <2>1. UNCHANGED withAgent /\ exec[x].at = "conflicted"  BY <1>3 DEF Conflict
    <2>2. CASE withAgent
      <3>1. ArmMergeConflictAgent(x)  BY <1>3, <2>2 DEF Conflict
      <3>2. Moves(x, "parking") \/ exec' = [exec EXCEPT ![x] = IdleExecutor]
        BY <3>1 DEF ArmMergeConflictAgent
      <3>3. \A y \in Executors : PastGuards(y) => y = x
        BY <2>1 DEF RowInv, OneExecutor, Holds, PastGuards
      <3>4. \A y \in Executors : ~PastGuards(y)'
        BY <3>2, <3>3, <1>e DEF Moves, IdleExecutor, PastGuards
      <3> QED BY <3>4 DEF NoMergeBehindVerdict
    <2>3. CASE ~withAgent
      BY <2>1, <2>3 DEF NoMergeBehindVerdict
    <2> QED BY <2>2, <2>3
  <1>4. ASSUME NEW x \in Executors,
               \/ SyncBranch(x) \/ FailMerge(x) \/ ChecksPending(x) \/ ChecksFailed(x)
               \/ GateRed(x) \/ ParkGateFailure(x) \/ ParkMergeConflict(x)
               \/ PRMergeSquash(x) \/ CompleteMerge(x) \/ FinishMergeGH(x)
        PROVE  NoMergeBehindVerdict'
    <2>1. UNCHANGED <<withAgent, marker, merger>>
      BY <1>4 DEF SyncBranch, FailMerge, ChecksPending, ChecksFailed, GateRed, ParkGateFailure,
                  ParkMergeConflict, PRMergeSquash, CompleteMerge, FinishMergeGH, Lands, episode
    <2>2. \/ \E at \in {"gating", "conflicted", "parking", "gate_red", "squashed", "completed"} :
                Moves(x, at) /\ (at \in {"gating", "conflicted"} => exec[x].at = "working")
          \/ exec' = [exec EXCEPT ![x] = IdleExecutor]
      <3>1. CASE SyncBranch(x)  BY <3>1 DEF SyncBranch
      <3>2. CASE FailMerge(x)  BY <3>2 DEF FailMerge, Finishes
      <3>3. CASE ChecksPending(x)  BY <3>3 DEF ChecksPending, ReleaseMergeEntry, Finishes
      <3>4. CASE ChecksFailed(x)  BY <3>4 DEF ChecksFailed
      <3>5. CASE GateRed(x)  BY <3>5 DEF GateRed
      <3>6. CASE ParkGateFailure(x) \/ ParkMergeConflict(x) \/ FinishMergeGH(x)
        BY <3>6 DEF ParkGateFailure, ParkMergeConflict, FinishMergeGH, Lands
      <3>7. CASE PRMergeSquash(x) \/ CompleteMerge(x)
        BY <3>7 DEF PRMergeSquash, CompleteMerge
      <3> QED BY <1>4, <3>1, <3>2, <3>3, <3>4, <3>5, <3>6, <3>7
    <2>3. \A y \in Executors : PastGuards(y)' => PastGuards(y)
      BY <2>2, <1>e DEF Moves, IdleExecutor, PastGuards
    <2> QED BY <1>0, <2>1, <2>3
  <1>5. ASSUME \/ RunMergeEnqueuePass \/ DrainClaims \/ ApproveRef \/ RunMergeOnApprove
               \/ (\E x \in Executors : ExecutorDies(x)) \/ ReconcileStaleMerging
               \/ ObjectionReads \/ ReopenReview
        PROVE  NoMergeBehindVerdict'
    <2>1. UNCHANGED <<withAgent, marker, merger>>
      BY <1>5 DEF RunMergeEnqueuePass, DrainClaims, ApproveRef, RunMergeOnApprove, ExecutorDies,
                  ReconcileStaleMerging, ObjectionReads, ReopenReview, episode
    <2>2. \A y \in Executors : PastGuards(y)' => PastGuards(y)
      <3>1. CASE RunMergeEnqueuePass  BY <3>1 DEF RunMergeEnqueuePass, PastGuards
      <3>2. CASE DrainClaims
        BY <3>2, <1>e DEF DrainClaims, ClaimMergeEntry, PastGuards
      <3>3. CASE ApproveRef \/ ObjectionReads
        BY <3>3, <1>e DEF ApproveRef, ObjectionReads, Moves, PastGuards
      <3>4. CASE RunMergeOnApprove
        BY <3>4, <1>e DEF RunMergeOnApprove, ClaimMergeEntry, IdleExecutor, PastGuards
      <3>5. ASSUME NEW x \in Executors, ExecutorDies(x)
            PROVE  \A y \in Executors : PastGuards(y)' => PastGuards(y)
        BY <3>5, <1>e DEF ExecutorDies, IdleExecutor, PastGuards
      <3>6. CASE ReconcileStaleMerging \/ ReopenReview
        BY <3>6, <1>e DEF ReconcileStaleMerging, ReopenReview, IdleExecutor, PastGuards
      <3> QED BY <1>5, <3>1, <3>2, <3>3, <3>4, <3>5, <3>6
    <2> QED BY <1>0, <2>1, <2>2
  <1>6. ASSUME \/ MergerSpawnPass \/ MergerPromptPass \/ MergerSays \/ ApplyMergerMerged
               \/ MergerGivesUp \/ MarkerAges \/ ParkedMergeUpOne \/ BaseMoves \/ ReviewRound
        PROVE  NoMergeBehindVerdict'
    <2>1. UNCHANGED <<withAgent, exec>>
      BY <1>6 DEF MergerSpawnPass, MergerPromptPass, MergerSays, ApplyMergerMerged, MergerGivesUp,
                  MarkerAges, ParkedMergeUpOne, BaseMoves, ReviewRound
    <2>2. \A y \in Executors : PastGuards(y)' => PastGuards(y)  BY <2>1 DEF PastGuards
    <2>m. marker \in [entry : Entries \cup {NoEntry}, attempt : Nat, consumed : BOOLEAN, old : BOOLEAN]
      BY DEF EpisodeInv, EpisodeTyped
    <2>3. MergerEpisodePending' => MergerEpisodePending
      BY <1>6, <2>m DEF MergerSpawnPass, MergerPromptPass, MergerSays, ApplyMergerMerged,
                        MergerGivesUp, ParkMergerConflict, MarkerAges, ParkedMergeUpOne,
                        BaseMoves, ReviewRound, episode
    <2> QED BY <1>0, <2>1, <2>2, <2>3
  <1> QED BY <1>1, <1>2, <1>3, <1>4, <1>5, <1>6 DEF MergeNext, Executor

LEMMA MergeIInvInit == MergeInit => MergeIInv
  <1>1. MergeInit => NoMergeBehindVerdict
    BY DEF MergeInit, NoMergeBehindVerdict, PastGuards, IdleExecutor
  <1> QED BY <1>1, RowInit, EpisodeInit DEF MergeIInv

LEMMA MergeIInvNext == MergeIInv /\ [MergeNext]_mergeVars => MergeIInv'
  <1>1. MergeIInv => RowInv /\ EpisodeInv  BY DEF MergeIInv
  <1>2. MergeIInv /\ [MergeNext]_mergeVars => NoMergeBehindVerdict'  BY VerdictNext
  <1>3. RowInv' /\ EpisodeInv' /\ NoMergeBehindVerdict' => MergeIInv'  BY DEF MergeIInv
  <1> QED BY <1>1, <1>2, <1>3, RowNext, EpisodeNext

\* Every reachable state of the merge is well typed; in particular no attempt
\* or merge-up counter ever passes its cap (the bounds of MergeEntry).
THEOREM MergeTypeCorrect == MergeSpec => []MergeTypeOK
  <1>1. MergeIInv => MergeTypeOK
    BY DEF MergeIInv, MergeTypeOK, RowInv, EpisodeInv
  <1> QED BY MergeIInvInit, MergeIInvNext, <1>1, PTL DEF MergeSpec

\* "A merge can never complete behind a needs-human verdict": while a merger
\* episode is open no executor is between its guards and the end of the merge.
THEOREM NobodyMergesBehindVerdict == MergeSpec => []NoMergeBehindVerdict
  <1>1. MergeIInv => NoMergeBehindVerdict  BY DEF MergeIInv
  <1> QED BY MergeIInvInit, MergeIInvNext, <1>1, PTL DEF MergeSpec

\* The partial unique index on live rows, and the claim, keep at most one
\* executor on the task, and the row it works on stays 'merging' under it.
THEOREM OneExecutorHoldsItsRow == MergeSpec => [](OneExecutor /\ HoldersHold)
  <1>1. MergeIInv => OneExecutor /\ HoldersHold  BY DEF MergeIInv, RowInv
  <1> QED BY MergeIInvInit, MergeIInvNext, <1>1, PTL DEF MergeSpec

-----------------------------------------------------------------------------
(* A step ends, releases or claims a row, and never touches one that ended.  *)
Ended(i) == queue[i].status \in {"merged", "failed", "conflict"}
KeepsEnded == \A i \in Entries : Ended(i) => queue'[i].status = queue[i].status

LEMMA ExecutorKeepsEnded ==
    ASSUME RowInv, NEW x \in Executors, Executor(x)
    PROVE  KeepsEnded
  <1> USE DEF KeepsEnded, Ended
  <1>q. queue \in [Entries -> MergeEntry]  BY DEF RowInv, RowsTyped
  <1>0. ASSUME UNCHANGED queue PROVE KeepsEnded  BY <1>0
  <1>1. ASSUME Holds(x), \A j \in Entries : j # exec[x].entry => queue'[j] = queue[j]
        PROVE  KeepsEnded
    BY <1>1, HeldRow
  <1>2. CASE ProcessMergeGH(x)
    BY <1>0, <1>1, <1>2, <1>q DEF ProcessMergeGH, ReleaseMergeEntry, Finishes, Put, Holds
  <1>3. CASE SyncBranch(x) \/ PRMergeSquash(x) \/ ParkGateFailure(x) \/ ParkMergeConflict(x)
             \/ FinishMergeGH(x)
    BY <1>0, <1>3 DEF SyncBranch, PRMergeSquash, ParkGateFailure, ParkMergeConflict,
                      FinishMergeGH, Lands
  <1>4. CASE FailMerge(x) \/ ChecksPending(x) \/ GateRed(x) \/ CompleteMerge(x)
    <2>1. Holds(x)  BY <1>4 DEF FailMerge, ChecksPending, GateRed, CompleteMerge, Holds
    <2>2. \E st \in {"pending", "failed", "merged"} : queue' = Put(exec[x].entry, st)
      BY <1>4 DEF FailMerge, ChecksPending, ReleaseMergeEntry, Finishes, GateRed, CompleteMerge
    <2> QED BY <1>1, <1>q, <2>1, <2>2 DEF Put
  <1>5. CASE ChecksFailed(x)
    BY <1>1, <1>5, <1>q DEF ChecksFailed, Holds
  <1>6. CASE Conflict(x)
    <2>1. Holds(x)  BY <1>6 DEF Conflict, Holds
    <2>2. CASE ArmMergeConflictAgent(x)
      BY <1>1, <1>q, <2>1, <2>2 DEF ArmMergeConflictAgent
    <2>3. CASE MergeUpAfterConflict(x)
      <3>1. CASE UNCHANGED queue  BY <1>0, <3>1
      <3>2. CASE ReleaseMergeEntry(x)
        BY <1>1, <1>q, <2>1, <3>2 DEF ReleaseMergeEntry, Finishes, Put
      <3>3. CASE \E st \in {"conflict", "pending"} :
                   queue' = [queue EXCEPT ![exec[x].entry].mergeups = BumpMergeUpAttempts(exec[x].entry),
                                          ![exec[x].entry].status = st]
        BY <1>1, <1>q, <2>1, <3>3
      <3> QED BY <2>3, <3>1, <3>2, <3>3 DEF MergeUpAfterConflict
    <2> QED BY <1>6, <2>2, <2>3 DEF Conflict
  <1> QED BY <1>2, <1>3, <1>4, <1>5, <1>6 DEF Executor

LEMMA EndedNext == RowInv /\ [MergeNext]_mergeVars => KeepsEnded
  <1> SUFFICES ASSUME RowInv, [MergeNext]_mergeVars PROVE KeepsEnded  OBVIOUS
  <1> USE DEF KeepsEnded, Ended
  <1>q. queue \in [Entries -> MergeEntry]  BY DEF RowInv, RowsTyped
  <1>0. ASSUME UNCHANGED queue PROVE KeepsEnded  BY <1>0
  <1>1. CASE UNCHANGED mergeVars  BY <1>0, <1>1 DEF mergeVars
  <1>2. ASSUME NEW x \in Executors, Executor(x)  PROVE KeepsEnded
    BY <1>2, ExecutorKeepsEnded
  <1>3. ASSUME NEW i \in Entries, EnqueueMerge(i)  PROVE KeepsEnded
    BY <1>3, <1>q DEF EnqueueMerge, Unwritten, Put
  <1>4. ASSUME NEW x \in Executors, NEW i \in Entries, ClaimMergeEntry(x, i)  PROVE KeepsEnded
    BY <1>4, <1>q DEF ClaimMergeEntry, Pending, Put
  <1>5. CASE RunMergeEnqueuePass  BY <1>3, <1>5 DEF RunMergeEnqueuePass
  <1>6. CASE DrainClaims  BY <1>4, <1>6 DEF DrainClaims, Executors
  <1>7. CASE RunMergeOnApprove
    BY <1>0, <1>3, <1>4, <1>7 DEF RunMergeOnApprove, Executors
  <1>8. CASE \/ ApproveRef \/ (\E x \in Executors : ExecutorDies(x)) \/ MergerSpawnPass
             \/ MergerPromptPass \/ MergerSays \/ ApplyMergerMerged \/ MarkerAges
             \/ BaseMoves \/ ObjectionReads \/ ReviewRound
    BY <1>0, <1>8 DEF ApproveRef, ExecutorDies, MergerSpawnPass, MergerPromptPass, MergerSays,
                      ApplyMergerMerged, MarkerAges, BaseMoves, ObjectionReads, ReviewRound
  <1>9. CASE ReconcileStaleMerging  BY <1>9 DEF ReconcileStaleMerging
  <1>10. CASE MergerGivesUp
    BY <1>10 DEF MergerGivesUp, ParkMergerConflict, Pending
  <1>11. CASE ReopenReview
    BY <1>11 DEF ReopenReview, OpenToObjection, Pending
  <1>12. CASE ParkedMergeUpOne
    <2>1. CASE UNCHANGED queue  BY <1>0, <2>1
    <2>2. CASE /\ Written = {}
               /\ \A j \in Entries : j # 1 => queue'[j] = queue[j]
      <3>1. \A j \in Entries : queue[j].status = "absent"  BY <2>2 DEF Written
      <3> QED BY <2>2, <3>1
    <2>3. CASE queue' = [queue EXCEPT ![LatestMergeEntryForTask].mergeups = @ + 1]
      <3>1. \A j \in Entries : queue'[j].status = queue[j].status
        BY <1>q, <2>3 DEF MergeEntry
      <3> QED BY <3>1
    <2> QED BY <1>12, <1>q, <2>1, <2>2, <2>3 DEF ParkedMergeUpOne
  <1> QED BY <1>1, <1>2, <1>5, <1>6, <1>7, <1>8, <1>9, <1>10, <1>11, <1>12 DEF MergeNext

\* A merge_queue row that ended stays ended: although CompleteMerge, ConflictMerge
\* and FailMerge match on the id alone, they only ever name a row that is held.
THEOREM EndedRowsAreFinal == MergeSpec => EndedRowsStay
  <1>1. RowInv /\ [MergeNext]_mergeVars =>
          [\A i \in Entries : queue[i].status \in {"merged", "failed", "conflict"}
             => queue'[i].status = queue[i].status]_mergeVars
    BY EndedNext DEF KeepsEnded, Ended
  <1> QED BY RowInit, RowNext, <1>1, PTL DEF MergeSpec, EndedRowsStay
=============================================================================
