----------------------------- MODULE Loops_proofs -----------------------------
(***************************************************************************)
(* Proofs about the loops that poll: the scheduler of jobs, the dashboard's *)
(* supervisor, the dispatchers of messages, the transcript monitor, and the *)
(* topics with the windows of their agents.  Each section has the inductive *)
(* invariant of a component and what follows from it.                       *)
(***************************************************************************)
EXTENDS Outbound, Monitor, Topics, Jobs, Dashboard, OrderLemmas

-----------------------------------------------------------------------------
(* Jobs and webhooks                                                         *)

JobKeys == (Jobs \X Slots) \cup Deliveries

\* An insert has taken effect at most once, and only for a key that is there.
JobIInv ==
    /\ inserted \in [JobKeys -> Nat]
    /\ \A k \in JobKeys : inserted[k] <= 1 /\ (inserted[k] > 0 => k \in fires)

LEMMA JobInitial == JobInit => JobIInv
  BY DEF JobInit, JobIInv, JobKeys

LEMMA EnqueuedOnce ==
    ASSUME JobIInv, NEW k, EnqueueOnce(k)
    PROVE  JobIInv'
  <1>1. CASE k \in JobKeys /\ k \notin fires
    <2>1. inserted[k] = 0  BY <1>1 DEF JobIInv
    <2>2. inserted' = [inserted EXCEPT ![k] = 1] /\ fires' = fires \cup {k}
      BY <1>1, <2>1 DEF EnqueueOnce, NewKey, JobIInv
    <2>3. inserted' \in [JobKeys -> Nat]  BY <2>2 DEF JobIInv
    <2>4. ASSUME NEW i \in JobKeys
          PROVE  inserted'[i] <= 1 /\ (inserted'[i] > 0 => i \in fires')
      <3>1. CASE i = k  BY <1>1, <2>2, <3>1 DEF JobIInv
      <3>2. CASE i # k  BY <2>2, <3>2 DEF JobIInv
      <3> QED BY <3>1, <3>2
    <2>5. JobKeys' = JobKeys  BY DEF JobKeys, Slots
    <2> QED BY <2>3, <2>4, <2>5 DEF JobIInv
  <1>2. CASE ~(k \in JobKeys /\ k \notin fires)
    <2>1. inserted' = inserted /\ fires \subseteq fires'
      BY <1>2 DEF EnqueueOnce, NewKey, JobIInv
    <2> QED BY <2>1 DEF JobIInv, JobKeys, Slots
  <1> QED BY <1>1, <1>2

LEMMA JobStep == JobIInv /\ [JobNext]_jobVars => JobIInv'
  <1> SUFFICES ASSUME JobIInv, [JobNext]_jobVars PROVE JobIInv'
    OBVIOUS
  <1>1. CASE UNCHANGED <<fires, inserted>>
    BY <1>1 DEF JobIInv, JobKeys, Slots
  <1>2. CASE FireOne
    BY <1>2, EnqueuedOnce DEF FireOne
  <1>3. ASSUME NEW d \in Deliveries, Handle(d) PROVE JobIInv'
    BY <1>1, <1>3, EnqueuedOnce DEF Handle
  <1>4. ASSUME NEW j \in Jobs, OperatorAdds(j) \/ RmOrDisable(j) \/ AgentSwept(j) PROVE JobIInv'
    BY <1>1, <1>4 DEF OperatorAdds, RmOrDisable, AgentSwept
  <1>5. CASE OperatorEditsHook \/ Reconcile \/ DaemonDies
    BY <1>1, <1>5 DEF OperatorEditsHook, Reconcile, DaemonDies
  <1>6. CASE SpawnFunc \/ DispatchJobSpawn \/ JobTick \/ UNCHANGED jobVars
    BY <1>1, <1>6 DEF SpawnFunc, DispatchJobSpawn, JobTick, jobVars
  <1> QED BY <1>2, <1>3, <1>4, <1>5, <1>6 DEF JobNext

\* However a schedule is edited, swept, reconciled at a boot or fired again,
\* and however often a sender delivers an event, there is one inbox row for
\* each fire time of a job and for each delivery of the hook.
THEOREM JobsFireOnce == JobSpec => []FiresOnce
  <1>1. JobIInv => FiresOnce  BY DEF JobIInv, FiresOnce
  <1> QED BY JobInitial, JobStep, <1>1, PTL DEF JobSpec

-----------------------------------------------------------------------------
(* The dashboard's supervisor                                                *)

Birth == [at : Nat, run : Nat]
SupState == [at : {"off", "loop", "port", "spawn", "wait", "term", "backoff", "returned"},
             attempt : Nat, cancelled : BOOLEAN, run : Nat]
DashTyped ==
    /\ second \in Nat /\ sup \in SupState /\ births \in Seq(Birth)
    /\ IsFiniteSet(restarts) /\ restarts \subseteq (1..Len(births)) \X Nat
    /\ sup.at \in {"wait", "term"} => births # <<>>

\* No child is of the future, or of a daemon that has not started.
BornBefore == \A j \in 1..Len(births) : births[j].at <= second /\ births[j].run <= sup.run
ExitsFollow == \A r \in restarts : births[r[1]].at <= r[2]

YoungOfThisRun(j) == births[j].run = sup.run /\ births[j].at + RestartWindow > second

\* The supervisor forgets the exit of no child that was born in the window.
ExitsRemembered ==
    sup.at \notin {"off", "returned"} =>
        \A j \in 1..Len(births) :
            YoungOfThisRun(j) /\ (j = Len(births) => sup.at \notin {"wait", "term"})
                => \E e \in Nat : <<j, e>> \in restarts

FirstIsFree ==
    sup.at \in {"loop", "port", "spawn"} /\ sup.attempt = 0 =>
        \A j \in 1..Len(births) : births[j].run # sup.run
StartedOnce == sup.at = "backoff" => sup.attempt > 0
BudgetIsLeft ==
    sup.at \in {"port", "spawn"} /\ sup.attempt > 0 /\ MaxRestarts > 0
        => Cardinality(restarts) < MaxRestarts

DashIInv ==
    /\ DashTyped /\ BornBefore /\ ExitsFollow /\ ExitsRemembered
    /\ FirstIsFree /\ StartedOnce /\ BudgetIsLeft /\ RestartsRationed

LEMMA DashInitial == DashInit => DashIInv
  <1> SUFFICES ASSUME DashInit PROVE DashIInv
    OBVIOUS
  <1>1. births = <<>> /\ Len(births) = 0 /\ restarts = {} /\ sup = Off /\ second = 1
    BY DEF DashInit
  <1>2. DashTyped  BY <1>1, FS_EmptySet DEF DashTyped, Off, SupState
  <1>3. BornBefore /\ ExitsFollow /\ ExitsRemembered /\ FirstIsFree /\ StartedOnce /\ BudgetIsLeft
    BY <1>1 DEF BornBefore, ExitsFollow, ExitsRemembered, FirstIsFree, StartedOnce, BudgetIsLeft, Off
  <1>4. RestartsRationed  BY <1>1 DEF RestartsRationed
  <1> QED BY <1>2, <1>3, <1>4 DEF DashIInv

LEMMA DashTypes ==
    ASSUME DashIInv
    PROVE  /\ births \in Seq(Birth) /\ Len(births) \in Nat
           /\ second \in Nat /\ sup \in SupState
           /\ sup.attempt \in Nat /\ sup.run \in Nat
           /\ IsFiniteSet(restarts) /\ restarts \subseteq (1..Len(births)) \X Nat
           /\ MaxRestarts \in Nat /\ RestartWindow \in Nat /\ RestartWindow > 0
           /\ \A j \in 1..Len(births) : births[j] \in Birth /\ births[j].at \in Nat /\ births[j].run \in Nat
  <1>1. births \in Seq(Birth) /\ second \in Nat /\ sup \in SupState /\ IsFiniteSet(restarts)
        /\ restarts \subseteq (1..Len(births)) \X Nat
    BY DEF DashIInv, DashTyped
  <1>2. Len(births) \in Nat  BY <1>1
  <1>3. sup.attempt \in Nat /\ sup.run \in Nat  BY <1>1 DEF SupState
  <1>4. MaxRestarts \in Nat /\ RestartWindow \in Nat /\ RestartWindow > 0
    BY DashboardAssumption
  <1>5. \A j \in 1..Len(births) : births[j] \in Birth  BY <1>1
  <1>6. \A j \in 1..Len(births) : births[j].at \in Nat /\ births[j].run \in Nat
    BY <1>5 DEF Birth
  <1> QED BY <1>1, <1>2, <1>3, <1>4, <1>5, <1>6

\* What is left of the window when a child is about to be spawned is fewer
\* children than the budget allows.
LEMMA FewAreYoung ==
    ASSUME DashIInv, sup.at = "spawn", MaxRestarts > 0
    PROVE  /\ IsFiniteSet({j \in 1..Len(births) : YoungOfThisRun(j)})
           /\ Cardinality({j \in 1..Len(births) : YoungOfThisRun(j)}) < MaxRestarts
  <1> DEFINE Young == {j \in 1..Len(births) : YoungOfThisRun(j)}
             Seen == {r[1] : r \in restarts}
  <1>0. Len(births) \in Nat /\ sup.attempt \in Nat /\ MaxRestarts \in Nat
    BY DashTypes
  <1>1. CASE sup.attempt = 0
    <2>1. Young = {}  BY <1>1 DEF DashIInv, FirstIsFree, YoungOfThisRun
    <2> QED BY <1>0, <2>1, FS_EmptySet
  <1>2. CASE sup.attempt > 0
    <2>1. IsFiniteSet(restarts) /\ Cardinality(restarts) < MaxRestarts
      BY <1>2 DEF DashIInv, DashTyped, BudgetIsLeft
    <2>2. IsFiniteSet(Seen) /\ Cardinality(Seen) <= Cardinality(restarts)
      <3> DEFINE F == [r \in restarts |-> r[1]]
      <3>1. F \in Surjection(restarts, Seen)  BY DEF Surjection
      <3> QED BY <2>1, <3>1, FS_Surjection
    <2>3. Young \subseteq Seen
      <3> SUFFICES ASSUME NEW j \in Young PROVE j \in Seen
        OBVIOUS
      <3> PICK e \in Nat : <<j, e>> \in restarts  BY DEF DashIInv, ExitsRemembered
      <3> QED OBVIOUS
    <2> HIDE DEF Young, Seen
    <2>4. IsFiniteSet(Young) /\ Cardinality(Young) <= Cardinality(Seen)
      BY <2>2, <2>3, FS_Subset
    <2>5. Cardinality(Young) \in Nat /\ Cardinality(Seen) \in Nat /\ Cardinality(restarts) \in Nat
      BY <2>1, <2>2, <2>4, FS_CardinalityType
    <2>6. Cardinality(Young) < MaxRestarts  BY <1>0, <2>1, <2>2, <2>4, <2>5
    <2> QED BY <2>4, <2>6 DEF Young
  <1> QED BY <1>0, <1>1, <1>2

LEMMA ChildIsRationed ==
    ASSUME DashIInv, SpawnChild
    PROVE  RestartsRationed'
  <1>0. /\ births \in Seq(Birth) /\ second \in Nat /\ sup \in SupState
        /\ sup.at = "spawn" /\ MaxRestarts \in Nat /\ RestartWindow \in Nat \ {0}
    BY DashTypes DEF SpawnChild
  <1> DEFINE b == [at |-> second, run |-> sup.run]
             n == Len(births)
             Recently(k) == {j \in 1..k : births[j].run = births[k].run
                                         /\ births[j].at + RestartWindow > births[k].at}
  <1>1. b \in Birth /\ births' = Append(births, b) /\ n \in Nat
    BY <1>0 DEF SpawnChild, Birth, SupState
  <1>2. Len(births') = n + 1 /\ births'[n + 1] = b /\ \A j \in 1..n : births'[j] = births[j]
    BY <1>0, <1>1
  <1> SUFFICES ASSUME MaxRestarts > 0, NEW k \in 1..(n + 1)
               PROVE  Cardinality(Recently(k)') <= MaxRestarts
    BY <1>2 DEF RestartsRationed
  <1>3. CASE k \in 1..n
    <2>1. Recently(k)' = Recently(k)  BY <1>2, <1>3, <1>1
    <2>2. Cardinality(Recently(k)) <= MaxRestarts  BY <1>3 DEF DashIInv, RestartsRationed
    <2> QED BY <2>1, <2>2
  <1>4. CASE k = n + 1
    <2> DEFINE Young == {j \in 1..n : YoungOfThisRun(j)}
    <2>1. Recently(k)' = Young \cup {n + 1}
      <3>1. births'[k].run = sup.run /\ births'[k].at = second  BY <1>2, <1>4
      <3>2. second + RestartWindow > second  BY <1>0
      <3>3. 1..k = (1..n) \cup {n + 1}  BY <1>1, <1>4
      <3>4. \A j \in 1..n : (births'[j].run = births'[k].run /\ births'[j].at + RestartWindow > births'[k].at)
                            <=> YoungOfThisRun(j)
        BY <1>2, <3>1 DEF YoungOfThisRun
      <3>5. births'[n + 1].run = births'[k].run /\ births'[n + 1].at + RestartWindow > births'[k].at
        BY <1>4, <3>1, <3>2
      <3> HIDE DEF b
      <3> QED BY <3>3, <3>4, <3>5
    <2>2. IsFiniteSet(Young) /\ Cardinality(Young) < MaxRestarts
      BY <1>0, FewAreYoung
    <2>3. Cardinality(Young \cup {n + 1}) <= Cardinality(Young) + 1 /\ Cardinality(Young) \in Nat
      <3> HIDE DEF Young
      <3>1. Cardinality(Young) \in Nat  BY <2>2, FS_CardinalityType
      <3>2. Cardinality(Young \cup {n + 1}) \in {Cardinality(Young), Cardinality(Young) + 1}
        BY <2>2, FS_AddElement
      <3> QED BY <3>1, <3>2
    <2>4. IsFiniteSet(Young \cup {n + 1})
      <3> HIDE DEF Young
      <3> QED BY <2>2, FS_AddElement
    <2>5. Cardinality(Young \cup {n + 1}) \in Nat  BY <2>4, FS_CardinalityType
    <2> HIDE DEF Young
    <2>6. Cardinality(Young \cup {n + 1}) <= MaxRestarts  BY <1>0, <2>2, <2>3, <2>5
    <2> QED BY <2>1, <2>6
  <1>5. k \in 1..n \/ k = n + 1  BY <1>1
  <1> HIDE DEF Recently
  <1> QED BY <1>3, <1>4, <1>5

LEMMA DashStep == DashIInv /\ [DashNext]_dashVars => DashIInv'
  <1> SUFFICES ASSUME DashIInv, [DashNext]_dashVars PROVE DashIInv'
    OBVIOUS
  <1> DEFINE n == Len(births)
  <1>0. /\ births \in Seq(Birth) /\ second \in Nat /\ sup \in SupState /\ n \in Nat
        /\ IsFiniteSet(restarts) /\ restarts \subseteq (1..n) \X Nat
        /\ RestartWindow \in Nat \ {0} /\ MaxRestarts \in Nat
        /\ \A j \in 1..n : births[j] \in Birth /\ births[j].at \in Nat /\ births[j].run \in Nat
        /\ sup.run \in Nat /\ sup.attempt \in Nat
    BY DashTypes
  <1>r. \A r \in restarts : r = <<r[1], r[2]>> /\ r[1] \in 1..n /\ r[2] \in Nat
    BY <1>0
  <1>1. ASSUME UNCHANGED births PROVE RestartsRationed'
    BY <1>1 DEF DashIInv, RestartsRationed
  <1>2. CASE UNCHANGED <<second, sup, restarts, births>>
    <2>1. DashTyped' /\ BornBefore' /\ ExitsFollow'
      BY <1>2 DEF DashIInv, DashTyped, BornBefore, ExitsFollow
    <2>2. ExitsRemembered' /\ FirstIsFree' /\ StartedOnce' /\ BudgetIsLeft'
      BY <1>2 DEF DashIInv, ExitsRemembered, YoungOfThisRun, FirstIsFree, StartedOnce, BudgetIsLeft
    <2> QED BY <1>1, <1>2, <2>1, <2>2 DEF DashIInv
  \* A step to "off" or "returned" leaves nothing to remember.
  <1>3. ASSUME sup' \in SupState, sup'.at \in {"off", "returned"}, sup'.run = sup.run,
               restarts' \in {restarts, {}}, UNCHANGED <<second, births>>
        PROVE  DashIInv'
    <2>1. DashTyped'  BY <1>0, <1>3, FS_EmptySet DEF DashTyped
    <2>2. BornBefore' /\ ExitsFollow'  BY <1>3 DEF DashIInv, BornBefore, ExitsFollow
    <2>3. ExitsRemembered' /\ FirstIsFree' /\ StartedOnce' /\ BudgetIsLeft'
      BY <1>3 DEF ExitsRemembered, FirstIsFree, StartedOnce, BudgetIsLeft
    <2> QED BY <1>1, <1>3, <2>1, <2>2, <2>3 DEF DashIInv
  <1>4. CASE RunDashboardStart
    <2>1. /\ sup' = [at |-> "loop", attempt |-> 0, cancelled |-> FALSE, run |-> sup.run + 1]
          /\ restarts' = {} /\ UNCHANGED <<second, births>>
      BY <1>4 DEF RunDashboardStart, Off
    <2>2. sup' \in SupState  BY <1>0, <2>1 DEF SupState
    <2>3. DashTyped'  BY <1>0, <2>1, <2>2, FS_EmptySet DEF DashTyped
    <2>4. \A j \in 1..n : births[j].run # sup.run + 1
      BY <1>0 DEF DashIInv, BornBefore, SupState
    <2>5. BornBefore' /\ ExitsFollow'
      BY <1>0, <2>1 DEF DashIInv, BornBefore, ExitsFollow, SupState
    <2>6. ExitsRemembered'  BY <2>1, <2>4 DEF ExitsRemembered, YoungOfThisRun
    <2>7. FirstIsFree' /\ StartedOnce' /\ BudgetIsLeft'  BY <2>1, <2>4 DEF FirstIsFree, StartedOnce, BudgetIsLeft
    <2> QED BY <1>1, <2>1, <2>3, <2>5, <2>6, <2>7 DEF DashIInv
  <1>5. CASE Run
    <2>0. sup.at = "loop" /\ UNCHANGED <<second, births>>  BY <1>5 DEF Run
    <2>1. CASE sup.cancelled
      <3>1. sup' = [sup EXCEPT !.at = "returned"] /\ restarts' = restarts
        BY <1>5, <2>1 DEF Run, SupGoes
      <3>2. sup' \in SupState /\ sup'.at = "returned" /\ sup'.run = sup.run
        BY <1>0, <3>1 DEF SupState
      <3> QED BY <1>3, <2>0, <3>1, <3>2
    <2>2. CASE ~sup.cancelled
      <3>1. /\ restarts' = Recent
            /\ sup' = [sup EXCEPT !.at = IF OverBudget(Recent) THEN "returned" ELSE "port"]
        BY <1>5, <2>2 DEF Run, SupGoes
      <3>2. /\ sup' \in SupState /\ sup'.run = sup.run /\ sup'.attempt = sup.attempt
            /\ sup'.at = IF OverBudget(Recent) THEN "returned" ELSE "port"
        BY <1>0, <3>1 DEF SupState
      <3>3. Recent \subseteq restarts /\ IsFiniteSet(Recent)  BY <1>0, FS_Subset DEF Recent
      <3>4. DashTyped'  BY <1>0, <2>0, <3>1, <3>2, <3>3 DEF DashTyped
      <3>5. BornBefore' /\ ExitsFollow'
        BY <2>0, <3>1, <3>2, <3>3 DEF DashIInv, BornBefore, ExitsFollow
      <3>6. ExitsRemembered'
        <4> SUFFICES ASSUME NEW j \in 1..n, YoungOfThisRun(j)
                     PROVE  \E e \in Nat : <<j, e>> \in Recent
          BY <2>0, <3>1, <3>2 DEF ExitsRemembered, YoungOfThisRun
        <4>1. PICK e \in Nat : <<j, e>> \in restarts
          BY <2>0 DEF DashIInv, ExitsRemembered
        <4>2. births[j].at <= e  BY <4>1 DEF DashIInv, ExitsFollow
        <4>3. e + RestartWindow > second  BY <1>0, <4>2 DEF YoungOfThisRun
        <4>4. <<j, e>> \in Recent  BY <4>1, <4>3 DEF Recent
        <4> QED BY <4>4
      <3>7. FirstIsFree' /\ StartedOnce'  BY <2>0, <3>2 DEF DashIInv, FirstIsFree, StartedOnce
      <3>8. BudgetIsLeft'
        <4>1. Cardinality(Recent) \in Nat  BY <3>3, FS_CardinalityType
        <4> QED BY <1>0, <3>1, <3>2, <4>1 DEF BudgetIsLeft, OverBudget
      <3> QED BY <1>1, <2>0, <3>4, <3>5, <3>6, <3>7, <3>8 DEF DashIInv
    <2> QED BY <1>0, <2>1, <2>2 DEF SupState
  <1>6. CASE KillPortOwner
    <2>1. sup.at = "port" /\ sup' = [sup EXCEPT !.at = "spawn"] /\ UNCHANGED <<second, restarts, births>>
      BY <1>6 DEF KillPortOwner, SupGoes
    <2>2. sup' \in SupState /\ sup'.at = "spawn" /\ sup'.run = sup.run /\ sup'.attempt = sup.attempt
      BY <1>0, <2>1 DEF SupState
    <2>3. DashTyped' /\ BornBefore' /\ ExitsFollow'
      BY <1>0, <2>1, <2>2 DEF DashIInv, DashTyped, BornBefore, ExitsFollow
    <2>4. ExitsRemembered' /\ FirstIsFree' /\ StartedOnce' /\ BudgetIsLeft'
      BY <2>1, <2>2 DEF DashIInv, ExitsRemembered, YoungOfThisRun, FirstIsFree, StartedOnce, BudgetIsLeft
    <2> QED BY <1>1, <2>1, <2>3, <2>4 DEF DashIInv
  <1>7. CASE SpawnChild
    <2> DEFINE b == [at |-> second, run |-> sup.run]
    <2>1. /\ sup.at = "spawn" /\ sup' = [sup EXCEPT !.at = "wait"]
          /\ births' = Append(births, b) /\ UNCHANGED <<second, restarts>>
      BY <1>7 DEF SpawnChild, SupGoes
    <2>2. sup' \in SupState /\ sup'.at = "wait" /\ sup'.run = sup.run
      BY <1>0, <2>1 DEF SupState
    <2>3. b \in Birth /\ b.at = second /\ b.run = sup.run  BY <1>0 DEF Birth, SupState
    <2> HIDE DEF b
    <2>4. Len(births') = n + 1 /\ births'[n + 1] = b /\ births' \in Seq(Birth)
          /\ \A j \in 1..n : births'[j] = births[j]
      BY <1>0, <2>1, <2>3
    <2>5. DashTyped'  BY <1>0, <2>1, <2>2, <2>4 DEF DashTyped
    <2>6. BornBefore' /\ ExitsFollow'
      <3>1. ASSUME NEW j \in 1..(n + 1)
            PROVE  births'[j].at <= second /\ births'[j].run <= sup.run
        <4>1. CASE j \in 1..n  BY <2>4, <4>1 DEF DashIInv, BornBefore
        <4>2. CASE j = n + 1  BY <1>0, <2>3, <2>4, <4>2 DEF SupState
        <4> QED BY <1>0, <4>1, <4>2
      <3>2. BornBefore'  BY <2>1, <2>2, <2>4, <3>1 DEF BornBefore
      <3>3. ExitsFollow'  BY <1>r, <2>1, <2>4 DEF DashIInv, ExitsFollow
      <3> QED BY <3>2, <3>3
    <2>7. ExitsRemembered'
      <3> SUFFICES ASSUME NEW j \in 1..(n + 1), j # n + 1, YoungOfThisRun(j)'
                   PROVE  \E e \in Nat : <<j, e>> \in restarts
        BY <2>1, <2>2, <2>4 DEF ExitsRemembered
      <3>1. j \in 1..n  BY <1>0
      <3>2. YoungOfThisRun(j)  BY <2>1, <2>2, <2>4, <3>1 DEF YoungOfThisRun
      <3> QED BY <2>1, <3>1, <3>2 DEF DashIInv, ExitsRemembered
    <2>8. FirstIsFree' /\ StartedOnce' /\ BudgetIsLeft'  BY <2>2 DEF FirstIsFree, StartedOnce, BudgetIsLeft
    <2> QED BY <1>7, <2>5, <2>6, <2>7, <2>8, ChildIsRationed DEF DashIInv
  <1>8. CASE WaitChild
    <2>0. sup.at \in {"wait", "term"} /\ UNCHANGED <<second, births>>  BY <1>8 DEF WaitChild
    <2>1. CASE sup.cancelled
      <3>1. sup' = [sup EXCEPT !.at = "returned"] /\ restarts' = restarts
        BY <1>8, <2>1 DEF WaitChild, SupGoes
      <3>2. sup' \in SupState /\ sup'.at = "returned" /\ sup'.run = sup.run
        BY <1>0, <3>1 DEF SupState
      <3> QED BY <1>3, <2>0, <3>1, <3>2
    <2>2. CASE ~sup.cancelled
      <3>1. /\ restarts' = restarts \cup {<<n, second>>}
            /\ \/ sup' = [sup EXCEPT !.at = "returned"]
               \/ sup' = [sup EXCEPT !.at = "backoff", !.attempt = @ + 1]
        BY <1>8, <2>2 DEF WaitChild, SupGoes, Kid
      <3>2. /\ sup' \in SupState /\ sup'.at \in {"returned", "backoff"} /\ sup'.run = sup.run
            /\ sup'.at = "backoff" => sup'.attempt > 0
        <4>1. CASE sup' = [sup EXCEPT !.at = "returned"]  BY <1>0, <4>1 DEF SupState
        <4>2. CASE sup' = [sup EXCEPT !.at = "backoff", !.attempt = @ + 1]
          <5>1. sup.attempt + 1 \in Nat /\ sup.attempt + 1 > 0  BY <1>0
          <5> QED BY <1>0, <4>2, <5>1 DEF SupState
        <4> QED BY <3>1, <4>1, <4>2
      <3>3. n \in 1..n /\ births[n].at <= second
        BY <1>0, <2>0 DEF DashIInv, DashTyped, BornBefore
      <3>4. DashTyped'
        <4>1. IsFiniteSet(restarts')  BY <1>0, <3>1, FS_AddElement
        <4> QED BY <1>0, <2>0, <3>1, <3>2, <3>3, <4>1 DEF DashTyped
      <3>5. BornBefore'  BY <2>0, <3>2 DEF DashIInv, BornBefore
      <3>6. ExitsFollow'
        <4> SUFFICES ASSUME NEW r \in restarts' PROVE births[r[1]].at <= r[2]
          BY <2>0 DEF ExitsFollow
        <4>1. CASE r \in restarts  BY <4>1 DEF DashIInv, ExitsFollow
        <4>2. CASE r = <<n, second>>  BY <3>3, <4>2
        <4> QED BY <3>1, <4>1, <4>2
      <3>7. ExitsRemembered'
        <4> SUFFICES ASSUME NEW j \in 1..n, YoungOfThisRun(j)
                     PROVE  \E e \in Nat : <<j, e>> \in restarts'
          BY <2>0, <3>2 DEF ExitsRemembered, YoungOfThisRun
        <4>1. CASE j = n  BY <1>0, <3>1, <4>1
        <4>2. CASE j # n
          <5>1. PICK e \in Nat : <<j, e>> \in restarts
            BY <2>0, <4>2 DEF DashIInv, ExitsRemembered
          <5> QED BY <3>1, <5>1
        <4> QED BY <4>1, <4>2
      <3>8. FirstIsFree' /\ StartedOnce' /\ BudgetIsLeft'  BY <3>2 DEF FirstIsFree, StartedOnce, BudgetIsLeft
      <3> QED BY <1>1, <2>0, <3>4, <3>5, <3>6, <3>7, <3>8 DEF DashIInv
    <2> QED BY <1>0, <2>1, <2>2 DEF SupState
  <1>9. CASE Backoff
    <2>0. sup.at = "backoff" /\ UNCHANGED <<second, restarts, births>>  BY <1>9 DEF Backoff
    <2>1. sup' = [sup EXCEPT !.at = IF sup.cancelled THEN "returned" ELSE "loop"]
      BY <1>9 DEF Backoff, SupGoes
    <2>2. /\ sup' \in SupState /\ sup'.at \in {"returned", "loop"}
          /\ sup'.run = sup.run /\ sup'.attempt = sup.attempt
      BY <1>0, <2>1 DEF SupState
    <2>3. DashTyped' /\ BornBefore' /\ ExitsFollow'
      BY <1>0, <2>0, <2>2 DEF DashIInv, DashTyped, BornBefore, ExitsFollow
    <2>4. ExitsRemembered' /\ FirstIsFree' /\ StartedOnce' /\ BudgetIsLeft'
      BY <2>0, <2>2 DEF DashIInv, ExitsRemembered, YoungOfThisRun, FirstIsFree, StartedOnce, BudgetIsLeft
    <2> QED BY <1>1, <2>0, <2>3, <2>4 DEF DashIInv
  <1>10. CASE SignalGroup
    <2>1. sup.at \in {"wait", "term"} /\ UNCHANGED <<second, restarts, births>>
      BY <1>10 DEF SignalGroup
    <2>2. sup' \in {sup, [sup EXCEPT !.at = "term"]}  BY <1>10 DEF SignalGroup, SupGoes
    <2>3. /\ sup' \in SupState /\ sup'.at \in {"wait", "term"} /\ (sup.at = "term" => sup'.at = "term")
          /\ sup'.run = sup.run /\ sup'.attempt = sup.attempt
      BY <1>0, <2>1, <2>2 DEF SupState
    <2>4. DashTyped' /\ BornBefore' /\ ExitsFollow'
      BY <1>0, <2>1, <2>3 DEF DashIInv, DashTyped, BornBefore, ExitsFollow
    <2>5. ExitsRemembered' /\ FirstIsFree' /\ StartedOnce' /\ BudgetIsLeft'
      BY <2>1, <2>3 DEF DashIInv, ExitsRemembered, YoungOfThisRun, FirstIsFree, StartedOnce, BudgetIsLeft
    <2> QED BY <1>1, <2>1, <2>4, <2>5 DEF DashIInv
  <1>11. CASE ServerListens \/ NodeDies
    BY <1>2, <1>11 DEF ServerListens, NodeDies
  <1>12. CASE StopDashboard
    <2>0. UNCHANGED <<second, births>>  BY <1>12 DEF StopDashboard
    <2>1. CASE sup.cancelled
      <3>1. sup' = [at |-> "off", attempt |-> 0, cancelled |-> FALSE, run |-> sup.run] /\ restarts' = {}
        BY <1>12, <2>1 DEF StopDashboard, Off
      <3>2. sup' \in SupState  BY <1>0, <3>1 DEF SupState
      <3> QED BY <1>3, <2>0, <3>1, <3>2
    <2>2. CASE ~sup.cancelled
      <3>1. sup' = [sup EXCEPT !.cancelled = TRUE] /\ restarts' = restarts
        BY <1>12, <2>2 DEF StopDashboard
      <3>2. sup' \in SupState /\ sup'.at = sup.at /\ sup'.run = sup.run /\ sup'.attempt = sup.attempt
        BY <1>0, <3>1 DEF SupState
      <3>3. DashTyped' /\ BornBefore' /\ ExitsFollow'
        BY <1>0, <2>0, <3>1, <3>2 DEF DashIInv, DashTyped, BornBefore, ExitsFollow
      <3>4. ExitsRemembered' /\ FirstIsFree' /\ StartedOnce' /\ BudgetIsLeft'
        BY <2>0, <3>1, <3>2 DEF DashIInv, ExitsRemembered, YoungOfThisRun, FirstIsFree, StartedOnce, BudgetIsLeft
      <3> QED BY <1>1, <2>0, <3>3, <3>4 DEF DashIInv
    <2> QED BY <1>0, <2>1, <2>2 DEF SupState
  <1>13. CASE RunReturns
    <2>1. /\ sup' = [at |-> "off", attempt |-> 0, cancelled |-> FALSE, run |-> sup.run]
          /\ restarts' = {} /\ UNCHANGED <<second, births>>
      BY <1>13 DEF RunReturns, Off
    <2>2. sup' \in SupState  BY <1>0, <2>1 DEF SupState
    <2> QED BY <1>3, <2>1, <2>2
  <1>14. CASE Second
    <2>1. second' = second + 1 /\ UNCHANGED <<sup, restarts, births>>  BY <1>14 DEF Second
    <2>2. DashTyped' /\ ExitsFollow' /\ FirstIsFree' /\ StartedOnce' /\ BudgetIsLeft'
      BY <1>0, <2>1 DEF DashIInv, DashTyped, ExitsFollow, FirstIsFree, StartedOnce, BudgetIsLeft
    <2>3. BornBefore'  BY <1>0, <2>1 DEF DashIInv, BornBefore
    <2>4. \A j \in 1..n : YoungOfThisRun(j)' => YoungOfThisRun(j)
      BY <1>0, <2>1 DEF YoungOfThisRun
    <2>5. ExitsRemembered'  BY <2>1, <2>4 DEF DashIInv, ExitsRemembered
    <2> QED BY <1>1, <2>1, <2>2, <2>3, <2>5 DEF DashIInv
  <1>15. CASE UNCHANGED dashVars
    BY <1>2, <1>15 DEF dashVars
  <1> QED BY <1>4, <1>5, <1>6, <1>7, <1>8, <1>9, <1>10, <1>11, <1>12, <1>13, <1>14, <1>15 DEF DashNext

\* However children die, whoever held their port and whenever the daemon is
\* stopped or killed, one supervisor spawns at most MaxRestarts of them in any
\* window: its loop cannot spin.
THEOREM RestartsAreRationed == DashSpec => []RestartsRationed
  <1>1. DashIInv => RestartsRationed  BY DEF DashIInv
  <1> QED BY DashInitial, DashStep, <1>1, PTL DEF DashSpec

-----------------------------------------------------------------------------
(* The relay and the dispatchers                                             *)

Rows == Items \X Chats
Item == [kind : {"reply", "echo"}, agent : Agents, origin : Chats \cup {NoTopic},
         says : SUBSET (Agents \cup {NoSender}), routed : BOOLEAN]
AtWork == [at : {"claimed", "sent", "limited", "error"}, row : Rows]

OutTyped ==
    /\ items \in [Items -> Item \cup {NoItem}]
    /\ binding \in [Chats -> [agent : Agents, type : {"owner", "observer"}]]
    /\ deliv \in [Rows -> Delivery]
    /\ worker \in [Dispatchers -> AtWork \cup {IdleWorker}]
    /\ posted \in [Chats -> Seq(Items)]

\* Rows are numbered as they are made.
MadeInOrder == Clock \in 0..MaxItems /\ Made = 1..Clock

\* What a dispatcher holds is a row of its own table, and nobody else's.
HeldIsSending ==
    \A w \in Dispatchers : worker[w].at # "idle" =>
        LET r == worker[w].row IN
        /\ items[r[1]].kind = w /\ deliv[r].status = "sending"
        /\ deliv[r].attempts > 0 /\ ~deliv[r].waiting

DeliveredIsRouted ==
    \A r \in Rows : /\ deliv[r].status # "absent" => items[r[1]].kind # "none" /\ items[r[1]].routed
                    /\ deliv[r].attempts > 0 => deliv[r].status # "absent"

Holds(w, r) == worker[w].at # "idle" /\ worker[w].row = r
Untold(r) == \A n \in 1..Len(posted[r[2]]) : posted[r[2]][n] # r[1]
ToldOnce(r) ==
    /\ \A m, n \in 1..Len(posted[r[2]]) : posted[r[2]][m] = r[1] /\ posted[r[2]][n] = r[1] => m = n
    /\ deliv[r].status \in {"sending", "sent"}
    /\ \A w \in Dispatchers : Holds(w, r) => worker[w].at = "sent"

\* A row that was posted is not claimed again, whoever died since.
NotAskedAgain == \A r \in Rows : <<r, "late">> \notin history => Untold(r) \/ ToldOnce(r)

Reply(i) == items[i].kind = "reply"
RoutedInOrder ==
    \A i, j \in Items : Reply(i) /\ Reply(j) /\ j < i /\ items[i].routed => items[j].routed
DeferralsRecorded ==
    \A r \in Rows : /\ deliv[r].due > 0 \/ deliv[r].waiting => <<r, "deferred">> \in history
                    /\ deliv[r].due > 0 => deliv[r].due >= r[1]
PostedWasClaimed ==
    \A t \in Chats : \A n \in 1..Len(posted[t]) : deliv[<<posted[t][n], t>>].attempts > 0

\* Once an answer has been claimed for a topic, an older one that was not
\* deferred is either done with or will never be tried again.
NobodyIsOvertaken ==
    \A t \in Chats : \A i, j \in Items :
        (/\ Reply(i) /\ Reply(j) /\ j < i /\ deliv[<<i, t>>].attempts > 0
         /\ <<<<j, t>>, "deferred">> \notin history)
            => deliv[<<j, t>>].status # "pending" /\ ~Holds("reply", <<j, t>>)

OutIInv ==
    /\ OutTyped /\ MadeInOrder /\ HeldIsSending /\ DeliveredIsRouted /\ NotAskedAgain
    /\ RoutedInOrder /\ DeferralsRecorded /\ PostedWasClaimed /\ NobodyIsOvertaken /\ AnswersInOrder

LEMMA OutInitial == OutInit => OutIInv
  <1> SUFFICES ASSUME OutInit PROVE OutIInv
    OBVIOUS
  <1>1. /\ \A i \in Items : items[i] = NoItem
        /\ \A r \in Rows : deliv[r] = NoDelivery
        /\ \A w \in Dispatchers : worker[w] = IdleWorker
        /\ \A t \in Chats : posted[t] = <<>> /\ Len(posted[t]) = 0
    BY DEF OutInit, Rows
  <1>2. OutTyped
    <2>1. NoDelivery \in Delivery  BY OutboundAssumption DEF NoDelivery, Delivery
    <2> QED BY <2>1 DEF OutInit, OutTyped, Rows
  <1>3. MadeInOrder
    <2>1. Made = {}  BY <1>1 DEF Made, NoItem
    <2>2. Clock = 0  BY <2>1, FS_EmptySet DEF Clock
    <2> QED BY <2>1, <2>2, OutboundAssumption DEF MadeInOrder
  <1>4. HeldIsSending  BY <1>1 DEF HeldIsSending, IdleWorker
  <1>5. DeliveredIsRouted /\ DeferralsRecorded /\ NobodyIsOvertaken
    BY <1>1 DEF DeliveredIsRouted, DeferralsRecorded, NobodyIsOvertaken, NoDelivery, Reply, NoItem
  <1>6. NotAskedAgain /\ PostedWasClaimed /\ AnswersInOrder
    BY <1>1 DEF NotAskedAgain, Untold, PostedWasClaimed, AnswersInOrder, Rows
  <1>7. RoutedInOrder  BY <1>1 DEF RoutedInOrder, Reply, NoItem
  <1> QED BY <1>2, <1>3, <1>4, <1>5, <1>6, <1>7 DEF OutIInv

\* What a topic shows, and what has been claimed, was made.
LEMMA ShownIsMade ==
    ASSUME OutIInv
    PROVE  /\ \A t \in Chats : \A n \in 1..Len(posted[t]) :
                  posted[t][n] \in Items /\ items[posted[t][n]].kind # "none"
           /\ \A r \in Rows : deliv[r].attempts > 0 => items[r[1]].kind # "none"
  <1>1. ASSUME NEW t \in Chats, NEW n \in 1..Len(posted[t])
        PROVE  posted[t][n] \in Items /\ items[posted[t][n]].kind # "none"
    <2>1. posted[t] \in Seq(Items)  BY DEF OutIInv, OutTyped
    <2>2. posted[t][n] \in Items  BY <2>1
    <2>3. <<posted[t][n], t>> \in Rows  BY <2>2 DEF Rows
    <2>4. deliv[<<posted[t][n], t>>].attempts > 0  BY DEF OutIInv, PostedWasClaimed
    <2>5. items[posted[t][n]].kind # "none"  BY <2>3, <2>4 DEF OutIInv, DeliveredIsRouted
    <2> QED BY <2>2, <2>5
  <1>2. \A r \in Rows : deliv[r].attempts > 0 => items[r[1]].kind # "none"
    BY DEF OutIInv, DeliveredIsRouted
  <1> QED BY <1>1, <1>2

LEMMA ItemCreated ==
    ASSUME OutIInv, NEW it \in Item, ~it.routed, Creates(it),
           UNCHANGED <<binding, deliv, worker, posted, history>>
    PROVE  OutIInv'
  <1> DEFINE c == Clock
  <1>0. c \in Nat /\ c < MaxItems /\ c + 1 \in Items /\ MaxItems \in Nat /\ Made = 1..c
        /\ items' = [items EXCEPT ![c + 1] = it]
    BY OutboundAssumption DEF OutIInv, MadeInOrder, Creates, Items
  <1>1. items[c + 1].kind = "none" /\ items \in [Items -> Item \cup {NoItem}]
    <2>1. c + 1 \notin Made  BY <1>0
    <2> QED BY <1>0, <2>1 DEF Made, OutIInv, OutTyped
  <1>2. it.kind \in {"reply", "echo"} /\ ~it.routed  BY DEF Item
  <1> HIDE DEF c
  <1>3. items'[c + 1] = it /\ \A i \in Items : i # c + 1 => items'[i] = items[i]
    BY <1>0, <1>1
  <1>4. OutTyped'
    <2>1. items' \in [Items -> Item \cup {NoItem}]  BY <1>0, <1>1
    <2> QED BY <2>1 DEF OutIInv, OutTyped, Rows
  <1>5. Made' = 1..(c + 1) /\ Clock' = c + 1
    <2>1. \A i \in Items : i \in Made' <=> i \in Made \/ i = c + 1
      BY <1>2, <1>3 DEF Made
    <2>2. Made' \subseteq Items /\ Made \subseteq Items  BY DEF Made
    <2>3. Made' = Made \cup {c + 1}  BY <1>0, <2>1, <2>2
    <2>4. Made' = 1..(c + 1)  BY <1>0, <2>3
    <2>5. Cardinality(1..(c + 1)) = c + 1  BY <1>0, FS_Interval
    <2> QED BY <2>4, <2>5 DEF Clock
  <1>6. MadeInOrder'  BY <1>0, <1>5 DEF MadeInOrder
  <1>7. \A i \in Items : items[i].kind # "none" => i # c + 1 /\ items'[i] = items[i]
    BY <1>1, <1>3
  <1>8. HeldIsSending'
    <2> SUFFICES ASSUME NEW w \in Dispatchers, worker[w].at # "idle"
                 PROVE  items'[worker[w].row[1]].kind = w
      BY DEF OutIInv, HeldIsSending
    <2>1. worker[w] \in AtWork  BY DEF OutIInv, OutTyped, IdleWorker
    <2>2. worker[w].row[1] \in Items  BY <2>1 DEF AtWork, Rows
    <2>3. items[worker[w].row[1]].kind = w  BY DEF OutIInv, HeldIsSending
    <2>4. w # "none"  BY DEF Dispatchers
    <2> QED BY <1>7, <2>2, <2>3, <2>4
  <1>9. DeliveredIsRouted'
    <2>1. \A r \in Rows : r[1] \in Items  BY DEF Rows
    <2> QED BY <1>7, <2>1 DEF OutIInv, DeliveredIsRouted, Rows
  <1>10. NotAskedAgain' /\ PostedWasClaimed' /\ DeferralsRecorded'
    BY DEF OutIInv, NotAskedAgain, Untold, ToldOnce, Holds, PostedWasClaimed, DeferralsRecorded
  <1>11. RoutedInOrder'
    <2> SUFFICES ASSUME NEW i \in Items, NEW j \in Items, Reply(i)', Reply(j)', j < i, items'[i].routed
                 PROVE  items'[j].routed
      BY DEF RoutedInOrder
    <2>1. i # c + 1  BY <1>2, <1>3
    <2>2. items'[i] = items[i]  BY <1>3, <2>1
    <2>3. i \in Made  BY <2>2 DEF Made, Reply
    <2>4. j # c + 1  BY <1>0, <2>3
    <2> QED BY <1>3, <2>2, <2>4 DEF OutIInv, RoutedInOrder, Reply
  <1>12. NobodyIsOvertaken'
    <2> SUFFICES ASSUME NEW t \in Chats, NEW i \in Items, NEW j \in Items, Reply(i)', Reply(j)', j < i,
                        deliv[<<i, t>>].attempts > 0, <<<<j, t>>, "deferred">> \notin history
                 PROVE  deliv[<<j, t>>].status # "pending" /\ ~Holds("reply", <<j, t>>)
      BY DEF NobodyIsOvertaken, Holds
    <2>1. <<i, t>> \in Rows  BY DEF Rows
    <2>2. items[i].kind # "none"  BY <2>1, ShownIsMade
    <2>3. i \in Made  BY <2>2 DEF Made
    <2>4. j # c + 1  BY <1>0, <2>3
    <2>5. Reply(i) /\ Reply(j)  BY <1>3, <1>7, <2>2, <2>4 DEF Reply
    <2> QED BY <2>5 DEF OutIInv, NobodyIsOvertaken
  <1>13. AnswersInOrder'
    <2> SUFFICES ASSUME NEW t \in Chats, NEW m \in 1..Len(posted[t]), NEW n \in 1..Len(posted[t]),
                        m < n, posted[t][n] < posted[t][m],
                        items'[posted[t][m]].kind = "reply", items'[posted[t][n]].kind = "reply"
                 PROVE  \/ <<<<posted[t][n], t>>, "deferred">> \in history
                        \/ \E k \in 1..m : posted[t][k] = posted[t][n]
      BY DEF AnswersInOrder
    <2>1. items[posted[t][m]].kind = "reply" /\ items[posted[t][n]].kind = "reply"
      BY <1>7, ShownIsMade
    <2> QED BY <2>1 DEF OutIInv, AnswersInOrder
  <1> QED BY <1>4, <1>6, <1>8, <1>9, <1>10, <1>11, <1>12, <1>13 DEF OutIInv

LEMMA FannedOut ==
    ASSUME OutIInv, NEW k \in {"reply", "echo"}, NEW i \in Queued(k), \A j \in Queued(k) : i <= j,
           NEW topics, FansOut(i, topics), UNCHANGED <<binding, worker, posted, history>>
    PROVE  OutIInv'
  <1> DEFINE it == [items[i] EXCEPT !.routed = TRUE]
             fresh == [NoDelivery EXCEPT !.status = "pending"]
  <1>0. /\ i \in Items /\ items[i].kind = k /\ ~items[i].routed
        /\ items \in [Items -> Item \cup {NoItem}] /\ deliv \in [Rows -> Delivery]
        /\ items' = [items EXCEPT ![i] = it]
        /\ deliv' = [r \in Rows |-> IF r[1] = i /\ r[2] \in topics /\ deliv[r].status = "absent"
                                    THEN fresh ELSE deliv[r]]
    BY DEF Queued, Made, OutIInv, OutTyped, FansOut, Rows
  <1>1. it \in Item /\ it.kind = k /\ it.routed
    <2>1. items[i] \in Item  BY <1>0 DEF NoItem
    <2> QED BY <1>0, <2>1 DEF Item
  <1>2. fresh \in Delivery /\ fresh.status = "pending" /\ fresh.attempts = 0 /\ fresh.due = 0 /\ ~fresh.waiting
    <2>1. NoDelivery \in Delivery /\ NoDelivery.attempts = 0 /\ NoDelivery.due = 0
      BY OutboundAssumption DEF NoDelivery, Delivery
    <2>2. ~NoDelivery.waiting  BY DEF NoDelivery
    <2>3. fresh \in Delivery /\ fresh.status = "pending" /\ fresh.attempts = 0 /\ fresh.due = 0
      BY <2>1 DEF Delivery
    <2>4. fresh.waiting = NoDelivery.waiting  BY <2>1 DEF Delivery
    <2> QED BY <2>2, <2>3, <2>4
  <1> HIDE DEF it, fresh
  <1>3. items'[i] = it /\ \A j \in Items : j # i => items'[j] = items[j]
    BY <1>0
  <1>k. \A j \in Items : items'[j].kind = items[j].kind /\ (items[j].kind # "none" => (items[j].routed => items'[j].routed))
    BY <1>0, <1>1, <1>3
  <1>4. \A r \in Rows : \/ deliv'[r] = deliv[r]
                        \/ r[1] = i /\ deliv[r].status = "absent" /\ deliv'[r] = fresh
    BY <1>0
  <1>5. \A r \in Rows : deliv[r].attempts > 0 \/ deliv[r].status # "absent" => deliv'[r] = deliv[r]
    BY <1>4 DEF OutIInv, DeliveredIsRouted
  <1>6. \A r \in Rows : deliv'[r].attempts > 0 => deliv'[r] = deliv[r]
    BY <1>2, <1>4
  <1>r. \A r \in Rows : r[1] \in Items /\ r[2] \in Chats  BY DEF Rows
  <1>7. OutTyped'
    <2>1. items' \in [Items -> Item \cup {NoItem}]  BY <1>0, <1>1
    <2>2. deliv' \in [Rows -> Delivery]  BY <1>0, <1>2
    <2> QED BY <2>1, <2>2 DEF OutIInv, OutTyped, Rows
  <1>8. MadeInOrder'
    <2>1. Made' = Made  BY <1>k DEF Made
    <2> QED BY <2>1 DEF OutIInv, MadeInOrder, Clock
  <1>9. HeldIsSending'
    <2> SUFFICES ASSUME NEW w \in Dispatchers, worker[w].at # "idle"
                 PROVE  LET r == worker[w].row IN
                        /\ items'[r[1]].kind = w /\ deliv'[r].status = "sending"
                        /\ deliv'[r].attempts > 0 /\ ~deliv'[r].waiting
      BY DEF HeldIsSending
    <2>1. worker[w] \in AtWork  BY DEF OutIInv, OutTyped, IdleWorker
    <2>2. worker[w].row \in Rows  BY <2>1 DEF AtWork
    <2> QED BY <1>k, <1>r, <1>5, <2>2 DEF OutIInv, HeldIsSending
  <1>10. DeliveredIsRouted'
    <2> SUFFICES ASSUME NEW r \in Rows
                 PROVE  /\ deliv'[r].status # "absent" => items'[r[1]].kind # "none" /\ items'[r[1]].routed
                        /\ deliv'[r].attempts > 0 => deliv'[r].status # "absent"
      BY DEF DeliveredIsRouted, Rows
    <2>1. CASE deliv'[r] = deliv[r]
      BY <1>k, <1>r, <2>1 DEF OutIInv, DeliveredIsRouted
    <2>2. CASE r[1] = i /\ deliv'[r] = fresh
      BY <1>1, <1>2, <1>3, <2>2
    <2> QED BY <1>4, <2>1, <2>2
  <1>11. NotAskedAgain'
    <2> SUFFICES ASSUME NEW r \in Rows, <<r, "late">> \notin history, ~Untold(r)
                 PROVE  ToldOnce(r)'
      BY DEF NotAskedAgain, Untold, Rows
    <2>1. ToldOnce(r)  BY DEF OutIInv, NotAskedAgain
    <2>2. deliv'[r] = deliv[r]  BY <1>5, <2>1 DEF ToldOnce
    <2> QED BY <2>1, <2>2 DEF ToldOnce, Holds
  <1>12. RoutedInOrder'
    <2> SUFFICES ASSUME NEW a \in Items, NEW b \in Items, Reply(a)', Reply(b)', b < a, items'[a].routed
                 PROVE  items'[b].routed
      BY DEF RoutedInOrder
    <2>1. Reply(a) /\ Reply(b)  BY <1>k DEF Reply
    <2>2. CASE a = i
      <3>1. ASSUME ~items[b].routed PROVE FALSE
        <4>1. k = "reply"  BY <1>0, <2>1, <2>2 DEF Reply
        <4>2. b \in Queued(k)  BY <2>1, <3>1, <4>1 DEF Queued, Made, Reply
        <4>3. i <= b /\ i \in Nat /\ b \in Nat  BY <4>2, <1>0 DEF Items
        <4> QED BY <2>2, <4>3
      <3>2. items[b].routed \/ ~items[b].routed  OBVIOUS
      <3> QED BY <1>k, <2>1, <3>1, <3>2 DEF Reply
    <2>3. CASE a # i
      <3>1. items[b].routed  BY <1>3, <2>1, <2>3 DEF OutIInv, RoutedInOrder
      <3> QED BY <1>k, <2>1, <3>1 DEF Reply
    <2> QED BY <2>2, <2>3
  <1>13. DeferralsRecorded'
    <2> SUFFICES ASSUME NEW r \in Rows
                 PROVE  /\ deliv'[r].due > 0 \/ deliv'[r].waiting => <<r, "deferred">> \in history
                        /\ deliv'[r].due > 0 => deliv'[r].due >= r[1]
      BY DEF DeferralsRecorded, Rows
    <2> QED BY <1>2, <1>4 DEF OutIInv, DeferralsRecorded
  <1>14. PostedWasClaimed'
    <2> SUFFICES ASSUME NEW t \in Chats, NEW n \in 1..Len(posted[t])
                 PROVE  deliv'[<<posted[t][n], t>>].attempts > 0
      BY DEF PostedWasClaimed
    <2>1. <<posted[t][n], t>> \in Rows  BY ShownIsMade DEF Rows
    <2>2. deliv[<<posted[t][n], t>>].attempts > 0  BY DEF OutIInv, PostedWasClaimed
    <2> QED BY <1>5, <2>1, <2>2
  <1>15. NobodyIsOvertaken'
    <2> SUFFICES ASSUME NEW t \in Chats, NEW a \in Items, NEW b \in Items, Reply(a)', Reply(b)', b < a,
                        deliv'[<<a, t>>].attempts > 0, <<<<b, t>>, "deferred">> \notin history
                 PROVE  deliv'[<<b, t>>].status # "pending" /\ ~Holds("reply", <<b, t>>)
      BY DEF NobodyIsOvertaken, Holds
    <2>1. <<a, t>> \in Rows /\ <<b, t>> \in Rows  BY DEF Rows
    <2>2. deliv[<<a, t>>].attempts > 0  BY <1>6, <2>1
    <2>3. items[a].routed  BY <2>1, <2>2 DEF OutIInv, DeliveredIsRouted
    <2>4. Reply(a) /\ Reply(b)  BY <1>k DEF Reply
    <2>5. items[b].routed  BY <2>3, <2>4 DEF OutIInv, RoutedInOrder
    <2>6. b # i  BY <1>0, <2>5
    <2>7. deliv'[<<b, t>>] = deliv[<<b, t>>]  BY <1>4, <2>1, <2>6
    <2> QED BY <2>2, <2>4, <2>7 DEF OutIInv, NobodyIsOvertaken
  <1>16. AnswersInOrder'
    <2> SUFFICES ASSUME NEW t \in Chats, NEW m \in 1..Len(posted[t]), NEW n \in 1..Len(posted[t]),
                        m < n, posted[t][n] < posted[t][m],
                        items'[posted[t][m]].kind = "reply", items'[posted[t][n]].kind = "reply"
                 PROVE  \/ <<<<posted[t][n], t>>, "deferred">> \in history
                        \/ \E q \in 1..m : posted[t][q] = posted[t][n]
      BY DEF AnswersInOrder
    <2>1. items[posted[t][m]].kind = "reply" /\ items[posted[t][n]].kind = "reply"
      BY <1>k, ShownIsMade
    <2> QED BY <2>1 DEF OutIInv, AnswersInOrder
  <1> QED BY <1>7, <1>8, <1>9, <1>10, <1>11, <1>12, <1>13, <1>14, <1>15, <1>16 DEF OutIInv

LEMMA OldestQueued ==
    ASSUME NEW k, Queued(k) # {}
    PROVE  Min(Queued(k)) \in Queued(k) /\ \A j \in Queued(k) : Min(Queued(k)) <= j
  <1>1. Queued(k) \in SUBSET Nat  BY OutboundAssumption DEF Queued, Made, Items
  <1>2. \E i \in Queued(k) : \A j \in Queued(k) : i <= j  BY <1>1, HasLeast
  <1> QED BY <1>2 DEF Min

\* A claim takes the row that has waited longest: older answers that are not
\* deferred are not pending.
LEMMA DeliveryClaimed ==
    ASSUME OutIInv, NEW w \in Dispatchers, ClaimDelivery(w)
    PROVE  OutIInv'
  <1>0. PICK r \in Table(w) :
          /\ Eligible(r) /\ \A q \in Table(w) : Eligible(q) => Place(r) <= Place(q)
          /\ deliv' = [deliv EXCEPT ![r].status = "sending", ![r].attempts = @ + 1]
          /\ worker' = [worker EXCEPT ![w] = [at |-> "claimed", row |-> r]]
    BY DEF ClaimDelivery
  <1> DEFINE d == [deliv[r] EXCEPT !.status = "sending", !.attempts = @ + 1]
             v == [at |-> "claimed", row |-> r]
  <1>u. UNCHANGED <<items, binding, posted, history>> /\ worker[w].at = "idle"
    BY DEF ClaimDelivery
  <1>t. /\ deliv \in [Rows -> Delivery] /\ worker \in [Dispatchers -> AtWork \cup {IdleWorker}]
        /\ r \in Rows /\ items[r[1]].kind = w /\ deliv[r].status = "pending" /\ ~deliv[r].waiting
    <2>1. r \in Rows /\ items[r[1]].kind = w  BY DEF Table, Rows
    <2>2. deliv \in [Rows -> Delivery] /\ worker \in [Dispatchers -> AtWork \cup {IdleWorker}]
      BY DEF OutIInv, OutTyped
    <2>3. deliv[r].status = "pending" /\ ~deliv[r].waiting  BY <1>0 DEF Eligible
    <2> QED BY <2>1, <2>2, <2>3
  <1>1. deliv' = [deliv EXCEPT ![r] = d]  BY <1>0
  <1>2. /\ d \in Delivery /\ d.status = "sending" /\ d.attempts > 0
        /\ d.due = deliv[r].due /\ d.waiting = deliv[r].waiting
    <2>1. deliv[r] \in Delivery /\ deliv[r].attempts + 1 \in Nat /\ deliv[r].attempts + 1 > 0
      BY <1>t DEF Delivery
    <2> QED BY <2>1 DEF Delivery
  <1>3. v \in AtWork /\ v.at = "claimed" /\ v.row = r  BY <1>t DEF AtWork
  <1> HIDE DEF d, v
  <1>4. deliv'[r] = d /\ \A q \in Rows : q # r => deliv'[q] = deliv[q]  BY <1>1, <1>t
  <1>5. worker'[w] = v /\ \A x \in Dispatchers : x # w => worker'[x] = worker[x]  BY <1>0, <1>t DEF v
  <1>6. OutTyped'
    <2>1. deliv' \in [Rows -> Delivery]  BY <1>1, <1>2, <1>t
    <2>2. worker' \in [Dispatchers -> AtWork \cup {IdleWorker}]  BY <1>0, <1>3, <1>t DEF v
    <2> QED BY <1>u, <2>1, <2>2 DEF OutIInv, OutTyped, Rows
  <1>7. MadeInOrder' /\ RoutedInOrder' /\ AnswersInOrder'
    <2>1. MadeInOrder'  BY <1>u DEF OutIInv, MadeInOrder, Made, Clock
    <2>2. RoutedInOrder'  BY <1>u DEF OutIInv, RoutedInOrder, Reply
    <2>3. AnswersInOrder'  BY <1>u DEF OutIInv, AnswersInOrder
    <2> QED BY <2>1, <2>2, <2>3
  <1>8. HeldIsSending'
    <2> SUFFICES ASSUME NEW x \in Dispatchers, worker'[x].at # "idle"
                 PROVE  LET q == worker'[x].row IN
                        /\ items[q[1]].kind = x /\ deliv'[q].status = "sending"
                        /\ deliv'[q].attempts > 0 /\ ~deliv'[q].waiting
      BY <1>u DEF HeldIsSending
    <2>1. CASE x = w  BY <1>2, <1>3, <1>4, <1>5, <1>t, <2>1
    <2>2. CASE x # w
      <3>1. worker[x] \in AtWork /\ worker'[x] = worker[x]  BY <1>5, <1>t, <2>2 DEF IdleWorker
      <3>2. worker[x].row \in Rows /\ items[worker[x].row[1]].kind = x
        BY <3>1 DEF AtWork, OutIInv, HeldIsSending
      <3>3. worker[x].row # r  BY <1>t, <2>2, <3>2
      <3> QED BY <1>4, <3>1, <3>2, <3>3 DEF OutIInv, HeldIsSending
    <2> QED BY <2>1, <2>2
  <1>9. DeliveredIsRouted'
    <2> SUFFICES ASSUME NEW q \in Rows
                 PROVE  /\ deliv'[q].status # "absent" => items[q[1]].kind # "none" /\ items[q[1]].routed
                        /\ deliv'[q].attempts > 0 => deliv'[q].status # "absent"
      BY <1>u DEF DeliveredIsRouted, Rows
    <2> QED BY <1>2, <1>4, <1>t DEF OutIInv, DeliveredIsRouted
  <1>10. NotAskedAgain'
    <2> SUFFICES ASSUME NEW q \in Rows, <<q, "late">> \notin history, ~Untold(q)
                 PROVE  ToldOnce(q)'
      BY <1>u DEF NotAskedAgain, Untold, Rows
    <2>1. ToldOnce(q)  BY DEF OutIInv, NotAskedAgain
    <2>2. q # r  BY <1>t, <2>1 DEF ToldOnce
    <2>3. \A x \in Dispatchers : Holds(x, q)' => Holds(x, q) /\ worker'[x].at = worker[x].at
      BY <1>3, <1>5, <2>2 DEF Holds
    <2> QED BY <1>4, <1>u, <2>1, <2>2, <2>3 DEF ToldOnce
  <1>11. DeferralsRecorded'
    <2> SUFFICES ASSUME NEW q \in Rows
                 PROVE  /\ deliv'[q].due > 0 \/ deliv'[q].waiting => <<q, "deferred">> \in history
                        /\ deliv'[q].due > 0 => deliv'[q].due >= q[1]
      BY <1>u DEF DeferralsRecorded, Rows
    <2> QED BY <1>2, <1>4 DEF OutIInv, DeferralsRecorded
  <1>12. PostedWasClaimed'
    <2> SUFFICES ASSUME NEW t \in Chats, NEW n \in 1..Len(posted[t])
                 PROVE  deliv'[<<posted[t][n], t>>].attempts > 0
      BY <1>u DEF PostedWasClaimed
    <2>1. <<posted[t][n], t>> \in Rows  BY ShownIsMade DEF Rows
    <2> QED BY <1>2, <1>4, <2>1 DEF OutIInv, PostedWasClaimed
  <1>13. NobodyIsOvertaken'
    <2> SUFFICES ASSUME NEW t \in Chats, NEW i \in Items, NEW j \in Items, Reply(i), Reply(j), j < i,
                        deliv'[<<i, t>>].attempts > 0, <<<<j, t>>, "deferred">> \notin history
                 PROVE  deliv'[<<j, t>>].status # "pending" /\ ~Holds("reply", <<j, t>>)'
      BY <1>u DEF NobodyIsOvertaken, Reply
    <2>1. <<i, t>> \in Rows /\ <<j, t>> \in Rows /\ i \in Nat /\ j \in Nat  BY DEF Rows, Items
    <2>2. CASE r = <<i, t>>
      <3>1. w = "reply" /\ <<j, t>> # r /\ <<j, t>> \in Table(w)
        BY <1>t, <2>1, <2>2 DEF Reply, Table, Rows
      <3>2. Place(r) >= i
        <4>1. deliv[r].due > 0 => deliv[r].due >= r[1]  BY <1>t DEF OutIInv, DeferralsRecorded
        <4>2. r[1] = i  BY <2>2
        <4> QED BY <2>1, <4>1, <4>2 DEF Place
      <3>3. ASSUME deliv[<<j, t>>].status = "pending" PROVE FALSE
        <4>1. ~deliv[<<j, t>>].waiting /\ ~(deliv[<<j, t>>].due > 0)
          BY <2>1 DEF OutIInv, DeferralsRecorded
        <4>2. Eligible(<<j, t>>) /\ Place(<<j, t>>) = j  BY <3>3, <4>1 DEF Eligible, Place
        <4>3. Place(r) <= j  BY <1>0, <3>1, <4>2
        <4>4. Place(r) \in Nat
          <5>1. deliv[r].due \in Nat  BY <1>t DEF Delivery
          <5> QED BY <2>1, <2>2, <5>1 DEF Place
        <4> QED BY <2>1, <3>2, <4>3, <4>4
      <3>4. ~Holds("reply", <<j, t>>)'  BY <1>3, <1>5, <3>1 DEF Holds
      <3> QED BY <1>4, <2>1, <3>1, <3>3, <3>4
    <2>3. CASE r # <<i, t>>
      <3>1. deliv[<<i, t>>].attempts > 0  BY <1>4, <2>1, <2>3
      <3>2. deliv[<<j, t>>].status # "pending" /\ ~Holds("reply", <<j, t>>)
        BY <3>1 DEF OutIInv, NobodyIsOvertaken
      <3>3. r # <<j, t>>  BY <1>t, <3>2
      <3>4. ~Holds("reply", <<j, t>>)'
        <4>1. "reply" \in Dispatchers  BY DEF Dispatchers
        <4> QED BY <1>3, <1>5, <3>2, <3>3, <4>1 DEF Holds
      <3> QED BY <1>4, <2>1, <3>2, <3>3, <3>4
    <2> QED BY <2>2, <2>3
  <1> QED BY <1>6, <1>7, <1>8, <1>9, <1>10, <1>11, <1>12, <1>13 DEF OutIInv

\* A call ends with an outcome; whatever is shown now was not shown before,
\* and overtakes no answer that is still to come.
LEMMA MessageSent ==
    ASSUME OutIInv, NEW w \in Dispatchers, SendMessage(w)
    PROVE  OutIInv'
  <1> DEFINE r == worker[w].row
             shows == Shows(r)
  <1>0. worker[w].at = "claimed" /\ UNCHANGED <<items, binding, deliv>>  BY DEF SendMessage
  <1>t. /\ worker \in [Dispatchers -> AtWork \cup {IdleWorker}] /\ worker[w] \in AtWork
        /\ r \in Rows /\ r[1] \in Items /\ r[2] \in Chats /\ r = <<r[1], r[2]>>
        /\ posted \in [Chats -> Seq(Items)] /\ items[r[1]].kind = w
        /\ deliv[r].status = "sending" /\ deliv[r].attempts > 0
    <2>1. worker[w] \in AtWork  BY <1>0 DEF OutIInv, OutTyped, IdleWorker
    <2>2. r \in Rows  BY <2>1 DEF AtWork
    <2> QED BY <1>0, <2>1, <2>2 DEF OutIInv, OutTyped, HeldIsSending, Rows
  <1>1. PICK step \in {"sent", "limited", "error"} :
          /\ worker' = [worker EXCEPT ![w].at = step]
          /\ \/ posted' = posted /\ history' = history /\ step # "sent"
             \/ shows /\ history' = history /\ step = "sent"
             \/ shows /\ history' = history \cup {<<r, "late">>}
    BY DEF SendMessage
  <1> DEFINE v == [worker[w] EXCEPT !.at = step]
  <1>2. v \in AtWork /\ v.at = step /\ v.row = r  BY <1>t DEF AtWork
  <1>3. worker' = [worker EXCEPT ![w] = v]  BY <1>1
  <1> HIDE DEF v
  <1>4. worker'[w] = v /\ \A x \in Dispatchers : x # w => worker'[x] = worker[x]  BY <1>3, <1>t
  <1>h. history \subseteq history' /\ \A q, why : why # "late" /\ <<q, why>> \in history' => <<q, why>> \in history
    BY <1>1
  <1>p. /\ posted' \in [Chats -> Seq(Items)]
        /\ \A t \in Chats : t # r[2] => posted'[t] = posted[t]
        /\ \/ posted' = posted
           \/ posted'[r[2]] = Append(posted[r[2]], r[1])
    <2>1. CASE posted' = posted  BY <1>t, <2>1
    <2>2. CASE shows
      <3>1. posted' = [posted EXCEPT ![r[2]] = Append(posted[r[2]], r[1])]  BY <2>2 DEF Shows
      <3>2. Append(posted[r[2]], r[1]) \in Seq(Items)  BY <1>t
      <3> QED BY <1>t, <3>1, <3>2
    <2> QED BY <1>1, <2>1, <2>2
  <1>q. ASSUME NEW t \in Chats, NEW n \in 1..Len(posted'[t])
        PROVE  \/ n \in 1..Len(posted[t]) /\ posted'[t][n] = posted[t][n]
               \/ n = Len(posted[t]) + 1 /\ <<posted'[t][n], t>> = r
    <2>1. posted[t] \in Seq(Items) /\ Len(posted[t]) \in Nat  BY <1>t
    <2>2. CASE posted'[t] = posted[t]  BY <2>2
    <2>3. CASE t = r[2] /\ posted'[t] = Append(posted[t], r[1])
      <3>1. Len(posted'[t]) = Len(posted[t]) + 1 /\ posted'[t][Len(posted[t]) + 1] = r[1]
            /\ \A k \in 1..Len(posted[t]) : posted'[t][k] = posted[t][k]
        BY <1>t, <2>1, <2>3
      <3>2. CASE n = Len(posted[t]) + 1  BY <1>t, <2>3, <3>1, <3>2
      <3>3. CASE n # Len(posted[t]) + 1
        <4>1. n \in 1..Len(posted[t])  BY <2>1, <3>1, <3>3
        <4> QED BY <3>1, <4>1
      <3> QED BY <3>2, <3>3
    <2> QED BY <1>p, <2>2, <2>3
  <1>g. \A t \in Chats : \A n \in 1..Len(posted[t]) : n \in 1..Len(posted'[t]) /\ posted'[t][n] = posted[t][n]
    <2> SUFFICES ASSUME NEW t \in Chats, NEW n \in 1..Len(posted[t])
                 PROVE  n \in 1..Len(posted'[t]) /\ posted'[t][n] = posted[t][n]
      OBVIOUS
    <2>1. posted[t] \in Seq(Items) /\ Len(posted[t]) \in Nat  BY <1>t
    <2>2. CASE posted'[t] = posted[t]  BY <2>2
    <2>3. CASE t = r[2] /\ posted'[t] = Append(posted[t], r[1])  BY <1>t, <2>1, <2>3
    <2> QED BY <1>p, <2>2, <2>3
  <1>5. OutTyped'
    <2>1. worker' \in [Dispatchers -> AtWork \cup {IdleWorker}]  BY <1>2, <1>3, <1>t
    <2> QED BY <1>0, <1>p, <2>1 DEF OutIInv, OutTyped, Rows
  <1>6. MadeInOrder' /\ RoutedInOrder' /\ DeliveredIsRouted'
    BY <1>0 DEF OutIInv, MadeInOrder, Made, Clock, RoutedInOrder, Reply, DeliveredIsRouted, Rows
  <1>7. HeldIsSending'
    BY <1>0, <1>2, <1>4 DEF OutIInv, HeldIsSending
  <1>8. DeferralsRecorded'
    BY <1>0, <1>h DEF OutIInv, DeferralsRecorded, Rows
  <1>9. PostedWasClaimed'
    <2> SUFFICES ASSUME NEW t \in Chats, NEW n \in 1..Len(posted'[t])
                 PROVE  deliv[<<posted'[t][n], t>>].attempts > 0
      BY <1>0 DEF PostedWasClaimed
    <2> QED BY <1>q, <1>t DEF OutIInv, PostedWasClaimed
  <1>H. \A x \in Dispatchers : \A q : Holds(x, q)' <=> Holds(x, q)
    BY <1>0, <1>2, <1>4 DEF Holds
  <1>10. NobodyIsOvertaken'
    <2>1. "reply" \in Dispatchers  BY DEF Dispatchers
    <2> QED BY <1>0, <1>h, <1>H, <2>1 DEF OutIInv, NobodyIsOvertaken, Reply
  <1>11. NotAskedAgain'
    <2> SUFFICES ASSUME NEW q \in Rows, <<q, "late">> \notin history', ~Untold(q)'
                 PROVE  ToldOnce(q)'
      BY DEF NotAskedAgain, Rows
    <2>0. <<q, "late">> \notin history /\ q[2] \in Chats /\ q[1] \in Items  BY <1>h DEF Rows
    <2>1. CASE q = r
      <3>1. ~ToldOnce(r)  BY <1>0 DEF ToldOnce, Holds
      <3>2. Untold(r)  BY <1>t, <2>0, <2>1, <3>1 DEF OutIInv, NotAskedAgain
      <3>3. step = "sent"
        <4>1. posted' # posted  BY <2>1, <3>2 DEF Untold
        <4>2. history' # history \cup {<<r, "late">>}  BY <2>1
        <4> QED BY <1>1, <4>1, <4>2
      <3>4. \A n \in 1..Len(posted'[q[2]]) : posted'[q[2]][n] = q[1] => n = Len(posted[q[2]]) + 1
        BY <1>q, <2>0, <2>1, <3>2 DEF Untold
      <3>5. \A x \in Dispatchers : Holds(x, q) => x = w
        BY <1>t, <2>1 DEF Holds, OutIInv, HeldIsSending
      <3>6. \A x \in Dispatchers : Holds(x, q)' => worker'[x].at = "sent"
        BY <1>2, <1>4, <1>H, <3>3, <3>5
      <3>7. \A m, n \in 1..Len(posted'[q[2]]) : posted'[q[2]][m] = q[1] /\ posted'[q[2]][n] = q[1] => m = n
        BY <3>4
      <3>8. deliv'[q].status = "sending"  BY <1>0, <1>t, <2>1
      <3> QED BY <3>6, <3>7, <3>8 DEF ToldOnce
    <2>2. CASE q # r
      <3>1. \A n \in 1..Len(posted'[q[2]]) : posted'[q[2]][n] = q[1] =>
               n \in 1..Len(posted[q[2]]) /\ posted[q[2]][n] = q[1]
        <4>1. q = <<q[1], q[2]>>  BY DEF Rows
        <4> QED BY <1>q, <2>0, <2>2, <4>1
      <3>2. ToldOnce(q)  BY <2>0, <3>1 DEF OutIInv, NotAskedAgain, Untold
      <3>3. \A x \in Dispatchers : Holds(x, q)' => worker'[x].at = "sent"
        <4>1. ~Holds(w, q)  BY <2>2 DEF Holds
        <4> QED BY <1>4, <1>H, <3>2, <4>1 DEF ToldOnce
      <3> QED BY <1>0, <3>1, <3>2, <3>3 DEF ToldOnce
    <2> QED BY <2>1, <2>2
  <1>12. AnswersInOrder'
    <2> SUFFICES ASSUME NEW t \in Chats, NEW m \in 1..Len(posted'[t]), NEW n \in 1..Len(posted'[t]),
                        m < n, posted'[t][n] < posted'[t][m],
                        items[posted'[t][m]].kind = "reply", items[posted'[t][n]].kind = "reply"
                 PROVE  \/ <<<<posted'[t][n], t>>, "deferred">> \in history'
                        \/ \E k \in 1..m : posted'[t][k] = posted'[t][n]
      BY <1>0 DEF AnswersInOrder
    <2>0. Len(posted[t]) \in Nat /\ Len(posted'[t]) \in Nat  BY <1>p, <1>t
    <2>1. CASE n \in 1..Len(posted[t])
      <3>1. m \in 1..Len(posted[t])  BY <2>0, <2>1
      <3>2. posted'[t][m] = posted[t][m] /\ posted'[t][n] = posted[t][n]  BY <1>g, <2>1, <3>1
      <3>3. \/ <<<<posted[t][n], t>>, "deferred">> \in history
            \/ \E k \in 1..m : posted[t][k] = posted[t][n]
        BY <2>1, <3>1, <3>2 DEF OutIInv, AnswersInOrder
      <3>4. \A k \in 1..m : k \in 1..Len(posted[t])  BY <2>0, <3>1
      <3> QED BY <1>g, <1>h, <3>2, <3>3, <3>4
    <2>2. CASE n \notin 1..Len(posted[t])
      <3> DEFINE i == posted'[t][m]
                 j == posted'[t][n]
      <3>1. n = Len(posted[t]) + 1 /\ <<j, t>> = r  BY <1>q, <2>2
      <3>2. m \in 1..Len(posted[t])  BY <2>0, <3>1
      <3>3. i = posted[t][m] /\ i \in Items /\ j \in Items
        BY <1>g, <1>t, <3>1, <3>2, ShownIsMade
      <3>4. deliv[<<i, t>>].attempts > 0  BY <3>2, <3>3 DEF OutIInv, PostedWasClaimed
      <3>5. Holds("reply", <<j, t>>)
        <4>1. items[r[1]].kind = "reply"  BY <3>1
        <4>2. w = "reply"  BY <1>t, <4>1
        <4> QED BY <1>0, <3>1, <4>2 DEF Holds
      <3> HIDE DEF i, j
      <3>6. Reply(i) /\ Reply(j) /\ j < i  BY DEF Reply, i, j
      <3>7. <<<<j, t>>, "deferred">> \in history
        BY <3>3, <3>4, <3>5, <3>6 DEF OutIInv, NobodyIsOvertaken
      <3> QED BY <1>h, <3>7 DEF i, j
    <2> QED BY <2>1, <2>2
  <1> QED BY <1>5, <1>6, <1>7, <1>8, <1>9, <1>10, <1>11, <1>12 DEF OutIInv

\* The outcome of a call is written: what was shown is not made pending again,
\* and a row goes back to its place unless it is deferred.
LEMMA OutcomeSettled ==
    ASSUME OutIInv, NEW w \in Dispatchers, worker[w].at # "idle",
           NEW d \in Delivery, Settles(w, d),
           d.status \in {"pending", "sent", "failed"}, d.attempts = Current(w).attempts,
           worker[w].at = "sent" => d.status = "sent",
           d.due \in {0, Current(w).due} \/ (d.due = Clock /\ d.waiting)
    PROVE  OutIInv'
  <1>w. worker[w] \in AtWork /\ worker \in [Dispatchers -> AtWork \cup {IdleWorker}]
    BY DEF OutIInv, OutTyped, IdleWorker
  <1>0. PICK r \in Rows : r = worker[w].row
    BY <1>w DEF AtWork
  <1>t. /\ deliv \in [Rows -> Delivery] /\ r[1] \in Items /\ r[2] \in Chats
        /\ items[r[1]].kind = w /\ deliv[r].status = "sending" /\ deliv[r].attempts > 0 /\ ~deliv[r].waiting
    BY <1>0 DEF OutIInv, OutTyped, HeldIsSending, Rows
  <1>1. /\ deliv' = [deliv EXCEPT ![r] = d] /\ worker' = [worker EXCEPT ![w] = IdleWorker]
        /\ history' = IF d.waiting THEN history \cup {<<r, "deferred">>} ELSE history
        /\ UNCHANGED <<items, binding, mail, posted>>
    BY <1>0 DEF Settles
  <1>d. d.attempts = deliv[r].attempts /\ (d.due \in {0, deliv[r].due} \/ (d.due = Clock /\ d.waiting))
    BY <1>0 DEF Current
  <1>c. Clock >= r[1] /\ Clock \in Nat
    <2>1. r[1] \in Made  BY <1>t DEF Made, Dispatchers
    <2>2. r[1] \in 1..Clock /\ Clock \in 0..MaxItems /\ MaxItems \in Nat
      BY <2>1, OutboundAssumption DEF OutIInv, MadeInOrder
    <2> QED BY <2>2
  <1>2. deliv'[r] = d /\ \A q \in Rows : q # r => deliv'[q] = deliv[q]
    BY <1>1, <1>t
  <1>3. worker'[w] = IdleWorker /\ \A x \in Dispatchers : x # w => worker'[x] = worker[x]
    BY <1>1, <1>w
  <1>i. IdleWorker.at = "idle"  BY DEF IdleWorker
  <1>h. /\ history \subseteq history'
        /\ \A q : <<q, "late">> \in history' => <<q, "late">> \in history
        /\ d.waiting => <<r, "deferred">> \in history'
    BY <1>1
  <1>H. \A x \in Dispatchers : \A q : Holds(x, q)' => Holds(x, q) /\ x # w /\ worker'[x] = worker[x]
    BY <1>3, <1>i DEF Holds
  <1>4. OutTyped'
    <2>1. deliv' \in [Rows -> Delivery]  BY <1>1, <1>t
    <2>2. worker' \in [Dispatchers -> AtWork \cup {IdleWorker}]  BY <1>1, <1>w
    <2> QED BY <1>1, <2>1, <2>2 DEF OutIInv, OutTyped, Rows
  <1>5. MadeInOrder' /\ RoutedInOrder'
    <2>1. MadeInOrder'  BY <1>1 DEF OutIInv, MadeInOrder, Made, Clock
    <2>2. RoutedInOrder'  BY <1>1 DEF OutIInv, RoutedInOrder, Reply
    <2> QED BY <2>1, <2>2
  <1>6. HeldIsSending'
    <2> SUFFICES ASSUME NEW x \in Dispatchers, worker'[x].at # "idle"
                 PROVE  LET q == worker'[x].row IN
                        /\ items[q[1]].kind = x /\ deliv'[q].status = "sending"
                        /\ deliv'[q].attempts > 0 /\ ~deliv'[q].waiting
      BY <1>1 DEF HeldIsSending
    <2>1. x # w /\ worker'[x] = worker[x]  BY <1>3, <1>i
    <2>2. worker[x] \in AtWork  BY <1>w, <1>i, <2>1
    <2>3. worker[x].row \in Rows /\ items[worker[x].row[1]].kind = x
      BY <2>1, <2>2 DEF AtWork, OutIInv, HeldIsSending
    <2>4. worker[x].row # r  BY <1>t, <2>1, <2>3
    <2> QED BY <1>2, <2>1, <2>3, <2>4 DEF OutIInv, HeldIsSending
  <1>7. DeliveredIsRouted'
    <2> SUFFICES ASSUME NEW q \in Rows
                 PROVE  /\ deliv'[q].status # "absent" => items[q[1]].kind # "none" /\ items[q[1]].routed
                        /\ deliv'[q].attempts > 0 => deliv'[q].status # "absent"
      BY <1>1 DEF DeliveredIsRouted, Rows
    <2> QED BY <1>2, <1>t DEF OutIInv, DeliveredIsRouted
  <1>8. NotAskedAgain'
    <2> SUFFICES ASSUME NEW q \in Rows, <<q, "late">> \notin history, ~Untold(q)
                 PROVE  ToldOnce(q)'
      BY <1>1, <1>h DEF NotAskedAgain, Untold, Rows
    <2>1. ToldOnce(q)  BY DEF OutIInv, NotAskedAgain
    <2>2. deliv'[q].status \in {"sending", "sent"}
      <3>1. CASE q = r
        <4>1. Holds(w, q)  BY <1>0, <3>1 DEF Holds
        <4>2. d.status = "sent"  BY <2>1, <4>1 DEF ToldOnce
        <4> QED BY <1>2, <3>1, <4>2
      <3>2. CASE q # r  BY <1>2, <2>1, <3>2 DEF ToldOnce
      <3> QED BY <3>1, <3>2
    <2> QED BY <1>1, <1>H, <2>1, <2>2 DEF ToldOnce
  <1>9. DeferralsRecorded'
    <2> SUFFICES ASSUME NEW q \in Rows
                 PROVE  /\ deliv'[q].due > 0 \/ deliv'[q].waiting => <<q, "deferred">> \in history'
                        /\ deliv'[q].due > 0 => deliv'[q].due >= q[1]
      BY DEF DeferralsRecorded, Rows
    <2>1. CASE q = r
      <3>1. /\ deliv[r].due > 0 => <<r, "deferred">> \in history
            /\ deliv[r].due > 0 => deliv[r].due >= r[1]
        BY DEF OutIInv, DeferralsRecorded
      <3> QED BY <1>2, <1>c, <1>d, <1>h, <2>1, <3>1
    <2>2. CASE q # r  BY <1>2, <1>h, <2>2 DEF OutIInv, DeferralsRecorded
    <2> QED BY <2>1, <2>2
  <1>10. PostedWasClaimed'
    <2> SUFFICES ASSUME NEW t \in Chats, NEW n \in 1..Len(posted[t])
                 PROVE  deliv'[<<posted[t][n], t>>].attempts > 0
      BY <1>1 DEF PostedWasClaimed
    <2>1. <<posted[t][n], t>> \in Rows  BY ShownIsMade DEF Rows
    <2> QED BY <1>2, <1>d, <2>1 DEF OutIInv, PostedWasClaimed
  <1>11. NobodyIsOvertaken'
    <2> SUFFICES ASSUME NEW t \in Chats, NEW i \in Items, NEW j \in Items, Reply(i), Reply(j), j < i,
                        deliv'[<<i, t>>].attempts > 0, <<<<j, t>>, "deferred">> \notin history'
                 PROVE  deliv'[<<j, t>>].status # "pending" /\ ~Holds("reply", <<j, t>>)'
      BY <1>1 DEF NobodyIsOvertaken, Reply
    <2>1. <<i, t>> \in Rows /\ <<j, t>> \in Rows  BY DEF Rows
    <2>2. deliv[<<i, t>>].attempts > 0  BY <1>2, <1>d, <2>1
    <2>3. deliv[<<j, t>>].status # "pending" /\ ~Holds("reply", <<j, t>>)
      BY <1>h, <2>2 DEF OutIInv, NobodyIsOvertaken
    <2>4. r # <<j, t>>
      <3>1. ASSUME r = <<j, t>> PROVE FALSE
        <4>1. w = "reply"  BY <1>t, <3>1 DEF Reply
        <4> QED BY <1>0, <2>3, <3>1, <4>1 DEF Holds
      <3> QED BY <3>1
    <2>5. "reply" \in Dispatchers  BY DEF Dispatchers
    <2> QED BY <1>2, <1>H, <2>1, <2>3, <2>4, <2>5
  <1>12. AnswersInOrder'
    <2>0. items' = items /\ posted' = posted  BY <1>1
    <2> SUFFICES ASSUME NEW t \in Chats, NEW m \in 1..Len(posted[t]), NEW n \in 1..Len(posted[t]),
                        m < n, posted[t][n] < posted[t][m],
                        items[posted[t][m]].kind = "reply", items[posted[t][n]].kind = "reply"
                 PROVE  \/ <<<<posted[t][n], t>>, "deferred">> \in history'
                        \/ \E k \in 1..m : posted[t][k] = posted[t][n]
      BY <2>0 DEF AnswersInOrder
    <2>1. \/ <<<<posted[t][n], t>>, "deferred">> \in history
          \/ \E k \in 1..m : posted[t][k] = posted[t][n]
      BY DEF OutIInv, AnswersInOrder
    <2> QED BY <1>h, <2>1
  <1> QED BY <1>4, <1>5, <1>6, <1>7, <1>8, <1>9, <1>10, <1>11, <1>12 DEF OutIInv

\* The ways a call can end are outcomes of that kind.
LEMMA OutcomesSettle ==
    ASSUME OutIInv, (\E w \in Dispatchers : MarkSent(w)) \/ OutcomeStep
    PROVE  OutIInv'
  <1>0. /\ "reply" \in Dispatchers /\ "echo" \in Dispatchers
        /\ Clock \in 0..MaxItems
    BY DEF Dispatchers, OutIInv, MadeInOrder
  <1>1. ASSUME NEW w \in Dispatchers, worker[w].at # "idle"
        PROVE  Current(w) \in Delivery /\ Current(w).status = "sending"
    <2>1. worker[w] \in AtWork  BY <1>1 DEF OutIInv, OutTyped, IdleWorker
    <2>2. worker[w].row \in Rows  BY <2>1 DEF AtWork
    <2> QED BY <1>1, <2>2 DEF Current, OutIInv, OutTyped, HeldIsSending
  <1>2. ASSUME NEW w \in Dispatchers, MarkSent(w) PROVE OutIInv'
    <2>1. worker[w].at = "sent" /\ Settles(w, [Current(w) EXCEPT !.status = "sent", !.due = 0])
      BY <1>2 DEF MarkSent
    <2> DEFINE d == [Current(w) EXCEPT !.status = "sent", !.due = 0]
    <2>2. 0 \in 0..MaxItems /\ Current(w) \in Delivery  BY <1>1, <2>1, OutboundAssumption
    <2>3. d \in Delivery /\ d.status = "sent" /\ d.attempts = Current(w).attempts /\ d.due = 0
      BY <2>2 DEF Delivery
    <2> HIDE DEF d
    <2> QED BY <2>1, <2>3, OutcomeSettled DEF d
  <1>3. ASSUME NEW w \in Dispatchers, worker[w].at \in {"limited", "error"},
               Settles(w, Deferred(Current(w)))
        PROVE  OutIInv'
    <2> DEFINE d == Deferred(Current(w))
    <2>1. Current(w) \in Delivery  BY <1>1, <1>3
    <2>2. /\ d \in Delivery /\ d.status = "pending" /\ d.attempts = Current(w).attempts
          /\ d.due = Clock /\ d.waiting = TRUE
      <3>1. d = [Current(w) EXCEPT !.status = "pending", !.due = Clock, !.waiting = TRUE]  BY DEF Deferred
      <3> HIDE DEF d
      <3> QED BY <1>0, <2>1, <3>1 DEF Delivery
    <2> HIDE DEF d
    <2> QED BY <1>3, <2>2, OutcomeSettled DEF d
  <1>4. ASSUME NEW w \in Dispatchers, worker[w].at \in {"limited", "error"}, NEW s \in {"failed", "pending"},
               Settles(w, [Current(w) EXCEPT !.status = s])
        PROVE  OutIInv'
    <2> DEFINE d == [Current(w) EXCEPT !.status = s]
    <2>1. Current(w) \in Delivery  BY <1>1, <1>4
    <2>2. d \in Delivery /\ d.status = s /\ d.attempts = Current(w).attempts /\ d.due = Current(w).due
      BY <2>1 DEF Delivery
    <2> HIDE DEF d
    <2> QED BY <1>4, <2>2, OutcomeSettled DEF d
  <1>5. CASE RateLimited  BY <1>0, <1>3, <1>5 DEF RateLimited
  <1>6. CASE SendFailed
    <2>1. CASE Exhausted("reply")  BY <1>0, <1>4, <1>6, <2>1 DEF SendFailed
    <2>2. CASE ~Exhausted("reply")  BY <1>0, <1>4, <1>6, <2>2 DEF SendFailed
    <2> QED BY <2>1, <2>2
  <1>7. CASE EchoFailed
    <2>1. CASE Exhausted("echo")  BY <1>0, <1>4, <1>7, <2>1 DEF EchoFailed
    <2>2. CASE ~Exhausted("echo")  BY <1>0, <1>3, <1>7, <2>2 DEF EchoFailed
    <2> QED BY <2>1, <2>2
  <1> QED BY <1>2, <1>5, <1>6, <1>7 DEF OutcomeStep

LEMMA DeferralEnded ==
    ASSUME OutIInv, NEW r \in Rows, DeferralEnds(r)
    PROVE  OutIInv'
  <1> DEFINE d == [deliv[r] EXCEPT !.waiting = FALSE]
  <1>0. /\ deliv \in [Rows -> Delivery] /\ deliv[r].waiting
        /\ deliv' = [deliv EXCEPT ![r] = d]
        /\ UNCHANGED <<items, binding, worker, posted, history>>
    BY DEF OutIInv, OutTyped, DeferralEnds
  <1>1. /\ d \in Delivery /\ d.waiting = FALSE /\ d.status = deliv[r].status
        /\ d.attempts = deliv[r].attempts /\ d.due = deliv[r].due
    BY <1>0 DEF Delivery
  <1> HIDE DEF d
  <1>2. /\ deliv'[r] = d /\ \A q \in Rows : q # r => deliv'[q] = deliv[q]
        /\ \A q \in Rows : /\ deliv'[q].status = deliv[q].status /\ deliv'[q].attempts = deliv[q].attempts
                           /\ deliv'[q].due = deliv[q].due
                           /\ deliv'[q].waiting => deliv[q].waiting
    BY <1>0, <1>1
  <1>3. OutTyped'
    <2>1. deliv' \in [Rows -> Delivery]  BY <1>0, <1>1
    <2> QED BY <1>0, <2>1 DEF OutIInv, OutTyped, Rows
  <1>4. MadeInOrder' /\ RoutedInOrder' /\ AnswersInOrder'
    <2>1. MadeInOrder'  BY <1>0 DEF OutIInv, MadeInOrder, Made, Clock
    <2>2. RoutedInOrder'  BY <1>0 DEF OutIInv, RoutedInOrder, Reply
    <2>3. AnswersInOrder'  BY <1>0 DEF OutIInv, AnswersInOrder
    <2> QED BY <2>1, <2>2, <2>3
  <1>5. HeldIsSending'
    <2> SUFFICES ASSUME NEW x \in Dispatchers, worker[x].at # "idle"
                 PROVE  LET q == worker[x].row IN
                        /\ items[q[1]].kind = x /\ deliv'[q].status = "sending"
                        /\ deliv'[q].attempts > 0 /\ ~deliv'[q].waiting
      BY <1>0 DEF HeldIsSending
    <2>1. worker[x] \in AtWork  BY DEF OutIInv, OutTyped, IdleWorker
    <2>2. worker[x].row \in Rows  BY <2>1 DEF AtWork
    <2> QED BY <1>2, <2>2 DEF OutIInv, HeldIsSending
  <1>6. DeliveredIsRouted' /\ DeferralsRecorded'
    <2>1. DeliveredIsRouted'  BY <1>0, <1>2 DEF OutIInv, DeliveredIsRouted, Rows
    <2>2. DeferralsRecorded'
      <3> SUFFICES ASSUME NEW q \in Rows
                   PROVE  /\ deliv'[q].due > 0 \/ deliv'[q].waiting => <<q, "deferred">> \in history
                          /\ deliv'[q].due > 0 => deliv'[q].due >= q[1]
        BY <1>0 DEF DeferralsRecorded, Rows
      <3> QED BY <1>2 DEF OutIInv, DeferralsRecorded
    <2> QED BY <2>1, <2>2
  <1>7. NotAskedAgain'
    BY <1>0, <1>2 DEF OutIInv, NotAskedAgain, Untold, ToldOnce, Holds, Rows
  <1>8. PostedWasClaimed'
    <2> SUFFICES ASSUME NEW t \in Chats, NEW n \in 1..Len(posted[t])
                 PROVE  deliv'[<<posted[t][n], t>>].attempts > 0
      BY <1>0 DEF PostedWasClaimed
    <2>1. <<posted[t][n], t>> \in Rows  BY ShownIsMade DEF Rows
    <2> QED BY <1>2, <2>1 DEF OutIInv, PostedWasClaimed
  <1>9. NobodyIsOvertaken'
    <2> SUFFICES ASSUME NEW t \in Chats, NEW i \in Items, NEW j \in Items, Reply(i), Reply(j), j < i,
                        deliv'[<<i, t>>].attempts > 0, <<<<j, t>>, "deferred">> \notin history
                 PROVE  deliv'[<<j, t>>].status # "pending" /\ ~Holds("reply", <<j, t>>)
      BY <1>0 DEF NobodyIsOvertaken, Reply, Holds
    <2>1. <<i, t>> \in Rows /\ <<j, t>> \in Rows  BY DEF Rows
    <2> QED BY <1>2, <2>1 DEF OutIInv, NobodyIsOvertaken
  <1> QED BY <1>3, <1>4, <1>5, <1>6, <1>7, <1>8, <1>9 DEF OutIInv

\* A dispatcher that dies leaves its row claimed, for ever.
LEMMA DeadHoldNothing ==
    ASSUME OutIInv, NEW w \in Dispatchers, DispatcherDies(w)
    PROVE  OutIInv'
  <1>0. /\ worker' = [worker EXCEPT ![w] = IdleWorker]
        /\ worker \in [Dispatchers -> AtWork \cup {IdleWorker}]
        /\ UNCHANGED <<items, binding, deliv, posted, history>>
    BY DEF DispatcherDies, OutIInv, OutTyped
  <1>1. worker'[w].at = "idle" /\ \A x \in Dispatchers : x # w => worker'[x] = worker[x]
    BY <1>0 DEF IdleWorker
  <1>2. \A x \in Dispatchers : \A q : Holds(x, q)' => Holds(x, q) /\ worker'[x] = worker[x]
    BY <1>1 DEF Holds
  <1>3. OutTyped'
    <2>1. worker' \in [Dispatchers -> AtWork \cup {IdleWorker}]  BY <1>0
    <2> QED BY <1>0, <2>1 DEF OutIInv, OutTyped, Rows
  <1>4. MadeInOrder' /\ RoutedInOrder' /\ AnswersInOrder'
    <2>1. MadeInOrder'  BY <1>0 DEF OutIInv, MadeInOrder, Made, Clock
    <2>2. RoutedInOrder'  BY <1>0 DEF OutIInv, RoutedInOrder, Reply
    <2>3. AnswersInOrder'  BY <1>0 DEF OutIInv, AnswersInOrder
    <2> QED BY <2>1, <2>2, <2>3
  <1>5. HeldIsSending'  BY <1>0, <1>1 DEF OutIInv, HeldIsSending
  <1>6. DeliveredIsRouted' /\ DeferralsRecorded' /\ PostedWasClaimed'
    BY <1>0 DEF OutIInv, DeliveredIsRouted, DeferralsRecorded, PostedWasClaimed, Rows
  <1>7. NotAskedAgain'
    <2> SUFFICES ASSUME NEW q \in Rows, <<q, "late">> \notin history, ~Untold(q)
                 PROVE  ToldOnce(q)'
      BY <1>0 DEF NotAskedAgain, Untold, Rows
    <2> QED BY <1>0, <1>2 DEF OutIInv, NotAskedAgain, ToldOnce
  <1>8. NobodyIsOvertaken'
    <2>1. "reply" \in Dispatchers  BY DEF Dispatchers
    <2> QED BY <1>0, <1>2, <2>1 DEF OutIInv, NobodyIsOvertaken, Reply
  <1> QED BY <1>3, <1>4, <1>5, <1>6, <1>7, <1>8 DEF OutIInv

LEMMA OutStep == OutIInv /\ [OutNext]_outVars => OutIInv'
  <1> SUFFICES ASSUME OutIInv, [OutNext]_outVars PROVE OutIInv'
    OBVIOUS
  <1>1. ASSUME UNCHANGED <<items, deliv, worker, posted, history>>,
               binding' \in [Chats -> [agent : Agents, type : {"owner", "observer"}]]
        PROVE  OutIInv'
    <2>1. OutTyped'  BY <1>1 DEF OutIInv, OutTyped, Rows
    <2>2. MadeInOrder' /\ RoutedInOrder' /\ HeldIsSending'
      BY <1>1 DEF OutIInv, MadeInOrder, Made, Clock, RoutedInOrder, Reply, HeldIsSending
    <2>3. DeliveredIsRouted' /\ DeferralsRecorded' /\ PostedWasClaimed' /\ AnswersInOrder'
      BY <1>1 DEF OutIInv, DeliveredIsRouted, DeferralsRecorded, PostedWasClaimed, Rows, AnswersInOrder
    <2>4. NotAskedAgain' /\ NobodyIsOvertaken'
      BY <1>1 DEF OutIInv, NotAskedAgain, Untold, ToldOnce, Holds, Rows, NobodyIsOvertaken, Reply
    <2> QED BY <2>1, <2>2, <2>3, <2>4 DEF OutIInv
  <1>2. CASE AppendOutbox
    <2>1. PICK a \in Agents, o \in Chats \cup {NoTopic}, says \in {{}, Agents \cup {NoSender}} :
            Creates([kind |-> "reply", agent |-> a, origin |-> o, says |-> says, routed |-> FALSE])
      BY <1>2 DEF AppendOutbox
    <2> DEFINE it == [kind |-> "reply", agent |-> a, origin |-> o, says |-> says, routed |-> FALSE]
    <2>2. it \in Item /\ it.routed = FALSE  BY DEF Item
    <2> HIDE DEF it
    <2> QED BY <1>2, <2>1, <2>2, ItemCreated DEF AppendOutbox, it
  <1>3. CASE DashboardMessage
    <2>1. PICK a \in Agents :
            Creates([kind |-> "echo", agent |-> a, origin |-> NoTopic, says |-> {}, routed |-> FALSE])
      BY <1>3 DEF DashboardMessage
    <2> DEFINE it == [kind |-> "echo", agent |-> a, origin |-> NoTopic, says |-> {}, routed |-> FALSE]
    <2>2. it \in Item /\ it.routed = FALSE  BY DEF Item
    <2> HIDE DEF it
    <2> QED BY <1>3, <2>1, <2>2, ItemCreated DEF DashboardMessage, it
  <1>4. CASE Relay
    <2>1. PICK i \in Queued("reply") : i = Min(Queued("reply")) /\ \A j \in Queued("reply") : i <= j
      BY <1>4, OldestQueued DEF Relay
    <2>2. PICK topics \in {FanoutDeliveries(i)} : FansOut(i, topics)  BY <1>4, <2>1 DEF Relay
    <2>3. UNCHANGED <<binding, worker, posted, history>>  BY <1>4 DEF Relay
    <2> QED BY <2>1, <2>2, <2>3, FannedOut
  <1>5. CASE EchoFanout
    <2>1. PICK i \in Queued("echo") : i = Min(Queued("echo")) /\ \A j \in Queued("echo") : i <= j
      BY <1>5, OldestQueued DEF EchoFanout
    <2>2. PICK topics \in {Subscribers(items[i].agent, {"owner"})} : FansOut(i, topics)
      BY <1>5, <2>1 DEF EchoFanout
    <2>3. UNCHANGED <<binding, worker, posted, history>>  BY <1>5 DEF EchoFanout
    <2> QED BY <2>1, <2>2, <2>3, FannedOut
  <1>6. CASE Rebind
    <2>1. PICK t \in Chats, a \in Agents : binding' = [binding EXCEPT ![t].agent = a]
      BY <1>6 DEF Rebind
    <2> DEFINE b == [binding[t] EXCEPT !.agent = a]
    <2>2. binding \in [Chats -> [agent : Agents, type : {"owner", "observer"}]]
      BY DEF OutIInv, OutTyped
    <2>3. b \in [agent : Agents, type : {"owner", "observer"}]  BY <2>2
    <2>4. binding' = [binding EXCEPT ![t] = b]  BY <2>1
    <2> HIDE DEF b
    <2>5. binding' \in [Chats -> [agent : Agents, type : {"owner", "observer"}]]
      BY <2>2, <2>3, <2>4
    <2> QED BY <1>1, <1>6, <2>5 DEF Rebind
  <1>7. ASSUME NEW w \in Dispatchers, DispatcherStep(w) \/ DispatcherDies(w) PROVE OutIInv'
    BY <1>7, DeliveryClaimed, MessageSent, OutcomesSettle, DeadHoldNothing DEF DispatcherStep
  <1>8. CASE OutcomeStep  BY <1>8, OutcomesSettle
  <1>9. ASSUME NEW r \in Items \X Chats, DeferralEnds(r) PROVE OutIInv'
    BY <1>9, DeferralEnded DEF Rows
  <1>10. CASE UNCHANGED outVars
    BY <1>1, <1>10 DEF outVars, OutIInv, OutTyped
  <1> QED BY <1>2, <1>3, <1>4, <1>5, <1>6, <1>7, <1>8, <1>9, <1>10 DEF OutNext

\* However dispatchers die between a claim, a call and its outcome, a topic
\* shows a message once, unless a call that erred had posted it after all.
THEOREM MessagesPostedOnce == OutSpec => []PostedOnce
  <1>1. OutIInv => PostedOnce
    <2> SUFFICES ASSUME OutIInv, NEW i \in Items, NEW t \in Chats, <<<<i, t>>, "late">> \notin history
                 PROVE  Times(i, t) <= 1
      BY DEF PostedOnce
    <2> DEFINE P == {n \in 1..Len(posted[t]) : posted[t][n] = i}
    <2>1. <<i, t>> \in Rows  BY DEF Rows
    <2>2. \A m, n \in P : m = n  BY <2>1 DEF OutIInv, NotAskedAgain, Untold, ToldOnce
    <2>t. Times(i, t) = Cardinality(P)  BY DEF Times
    <2> HIDE DEF P
    <2>3. CASE P = {}
      <3>1. Cardinality({}) = 0  BY FS_EmptySet
      <3> QED BY <2>3, <2>t, <3>1
    <2>4. CASE P # {}
      <3>1. PICK n \in P : TRUE  BY <2>4
      <3>2. P = {n}  BY <2>2, <3>1
      <3>3. Cardinality({n}) = 1  BY FS_Singleton
      <3> QED BY <2>t, <3>2, <3>3
    <2> QED BY <2>3, <2>4
  <1> QED BY OutInitial, OutStep, <1>1, PTL DEF OutSpec

\* However calls err and dispatchers die, an answer is overtaken in a topic
\* only by way of a rate limit: the claim takes the row that waited longest,
\* and a row that is not deferred keeps its place.
THEOREM AnswersKeepTheirOrder == OutSpec => []AnswersInOrder
  <1>1. OutIInv => AnswersInOrder  BY DEF OutIInv
  <1> QED BY OutInitial, OutStep, <1>1, PTL DEF OutSpec

-----------------------------------------------------------------------------
(* The transcript monitor                                                    *)

MonTyped ==
    /\ size \in Nat
    /\ claimed \in 0..MonRows /\ active \in 0..MonRows
    /\ poll \in [at : {"between", "flushing", "saving"}, batch : SUBSET Lines]

LineStart(o) == \E q \in Nat : o = 4 * q
Done(k) == Relayed(k) \/ k \in lost

\* A pi offset is always at the start of a line, and what is behind it but not
\* done with is in the batch at hand.
PiReads ==
    runner = "pi" =>
        /\ LineStart(offset) /\ offset <= size /\ LineStart(saved) /\ saved <= size
        /\ \A k \in Lines : /\ 4 * k <= saved => Done(k)
                            /\ 4 * k <= offset => Done(k) \/ (poll.at = "flushing" /\ k \in poll.batch)

MonIInv == MonTyped /\ PiReads

LEMMA MonInitial == MonInit => MonIInv
  <1> SUFFICES ASSUME MonInit PROVE MonIInv
    OBVIOUS
  <1>1. MonTyped
    <2>1. 0 \in 0..MonRows  BY MonitorAssumption
    <2> QED BY <2>1 DEF MonInit, MonTyped, Between
  <1>2. PiReads
    <2>1. LineStart(0)  BY DEF LineStart
    <2>2. \A k \in Lines : ~(4 * k <= 0)  BY MonitorAssumption DEF Lines
    <2> QED BY <2>1, <2>2 DEF MonInit, PiReads
  <1> QED BY <1>1, <1>2 DEF MonIInv

\* The offset pi is left at is the start of the line that is still being
\* written, and every line before it was parsed.
LEMMA PiOffsetHeld ==
    ASSUME MonTyped, LineStart(offset), offset <= size
    PROVE  /\ PiOffset \in Nat /\ LineStart(PiOffset) /\ PiOffset <= size /\ Start = offset
           /\ \A k \in Lines : 4 * k <= PiOffset => 4 * k <= offset \/ k \in Parsed(Start)
  <1>0. size \in Nat /\ offset \in Nat /\ Lines \subseteq Nat
    BY MonitorAssumption DEF MonTyped, Lines, LineStart
  <1>1. PiOffset = 4 * (size \div 4) /\ size \div 4 \in Nat /\ PiOffset <= size
    BY <1>0 DEF PiOffset
  <1>2. PiOffset \in Nat /\ LineStart(PiOffset)  BY <1>1 DEF LineStart
  <1>3. Start = offset  BY <1>0 DEF Start
  <1>4. ASSUME NEW k \in Lines, 4 * k <= PiOffset, ~(4 * k <= offset)
        PROVE  k \in Parsed(offset)
    <2>1. PICK q \in Nat : offset = 4 * q  BY DEF LineStart
    <2>2. 4 * (k - 1) >= offset  BY <1>0, <1>4, <2>1
    <2>3. size + 1 >= 4 * k  BY <1>0, <1>1, <1>2, <1>4
    <2> QED BY <2>2, <2>3 DEF Parsed
  <1> QED BY <1>1, <1>2, <1>3, <1>4

LEMMA MonStep == MonIInv /\ [MonNext]_monVars => MonIInv'
  <1> SUFFICES ASSUME MonIInv, [MonNext]_monVars PROVE MonIInv'
    OBVIOUS
  <1>0. /\ size \in Nat /\ Lines \subseteq Nat /\ MonRows \in Nat
        /\ claimed \in 0..MonRows /\ active \in 0..MonRows
        /\ poll.at \in {"between", "flushing", "saving"} /\ poll.batch \in SUBSET Lines
        /\ poll \in [at : {"between", "flushing", "saving"}, batch : SUBSET Lines]
    BY MonitorAssumption DEF MonIInv, MonTyped, Lines
  <1>n. runner = "pi" => offset \in Nat /\ saved \in Nat
    BY DEF MonIInv, PiReads, LineStart
  \* What only moves the runner or the sidecar.
  <1>1. ASSUME UNCHANGED <<runner, offset, saved, poll, outbox, lost>>,
               size' \in Nat, size' >= size, claimed' \in 0..MonRows, active' \in 0..MonRows
        PROVE  MonIInv'
    <2>1. MonTyped'  BY <1>0, <1>1 DEF MonTyped, Lines
    <2>2. PiReads'  BY <1>0, <1>1, <1>n DEF MonIInv, PiReads, Done, Relayed, LineStart, Lines
    <2> QED BY <2>1, <2>2 DEF MonIInv
  <1>2. CASE RunnerAppends
    <2>1. PICK s \in (size + 1)..(size + 4 - (size % 4)) : size' = s
      BY <1>2 DEF RunnerAppends
    <2>2. size' \in Nat /\ size' >= size  BY <1>0, <2>1
    <2> QED BY <1>0, <1>1, <1>2, <2>2 DEF RunnerAppends, inbox
  <1>3. CASE RunnerUpdatesPart \/ MonTick
    BY <1>0, <1>1, <1>3 DEF RunnerUpdatesPart, MonTick, inbox
  <1>4. CASE SidecarClaims
    <2>1. claimed' \in 0..MonRows /\ active' \in 0..MonRows  BY <1>0, <1>4 DEF SidecarClaims
    <2> QED BY <1>0, <1>1, <1>4, <2>1 DEF SidecarClaims, written
  <1>5. CASE NextTurn
    BY <1>0, <1>1, <1>5 DEF NextTurn, written
  <1>6. CASE ReadNewEntries
    <2>0. poll.at = "between" /\ UNCHANGED <<runner, size, saved, outbox, lost, claimed, active>>
      BY <1>6 DEF ReadNewEntries, written, inbox
    <2>1. ASSUME NEW batch, batch \subseteq Lines, NEW x, Reads(batch, x)
          PROVE  /\ offset' = x /\ poll'.batch = batch
                 /\ poll' \in [at : {"between", "flushing", "saving"}, batch : SUBSET Lines]
                 /\ batch # {} => poll'.at = "flushing"
      BY <2>1 DEF Reads
    <2>2. CASE ReadClaude
      <3>1. ~(runner = "pi")  BY <2>2 DEF ReadClaude
      <3>2. poll' \in [at : {"between", "flushing", "saving"}, batch : SUBSET Lines]
        <4>1. CASE poll' = [Between EXCEPT !.at = "saving"]
          BY <1>0, <4>1 DEF Between
        <4>2. CASE Reads(Parsed(Start), ClaudeOffset)
          <5>1. Parsed(Start) \subseteq Lines  BY DEF Parsed
          <5> QED BY <2>1, <4>2, <5>1
        <4> QED BY <2>2, <4>1, <4>2 DEF ReadClaude
      <3>3. MonTyped'  BY <1>0, <2>0, <3>2 DEF MonTyped, Lines
      <3> QED BY <2>0, <3>1, <3>3 DEF MonIInv, PiReads
    <2>3. CASE ReadPi
      <3>1. runner = "pi" /\ Reads(Parsed(Start), PiOffset)  BY <2>3 DEF ReadPi
      <3>2. MonTyped /\ LineStart(offset) /\ offset <= size  BY <3>1 DEF MonIInv, PiReads
      <3>3. /\ PiOffset \in Nat /\ LineStart(PiOffset) /\ PiOffset <= size
            /\ \A k \in Lines : 4 * k <= PiOffset => 4 * k <= offset \/ k \in Parsed(Start)
        BY <3>2, PiOffsetHeld
      <3>4. Parsed(Start) \subseteq Lines  BY DEF Parsed
      <3>5. /\ offset' = PiOffset /\ poll'.batch = Parsed(Start)
            /\ poll' \in [at : {"between", "flushing", "saving"}, batch : SUBSET Lines]
            /\ Parsed(Start) # {} => poll'.at = "flushing"
        BY <2>1, <3>1, <3>3, <3>4
      <3>6. MonTyped'  BY <1>0, <2>0, <3>3, <3>5 DEF MonTyped, Lines
      <3>7. \A k \in Lines : 4 * k <= offset => Done(k)
        BY <2>0, <3>1 DEF MonIInv, PiReads
      <3>8. \A k \in Lines : 4 * k <= offset' => Done(k)' \/ (poll'.at = "flushing" /\ k \in poll'.batch)
        BY <2>0, <3>3, <3>5, <3>7 DEF Done, Relayed
      <3>9. LineStart(offset)' /\ offset' <= size'  BY <2>0, <3>3, <3>5 DEF LineStart
      <3> QED BY <2>0, <3>1, <3>6, <3>8, <3>9 DEF MonIInv, PiReads, Done, Relayed, LineStart, Lines
    <2>4. CASE ReadOpenCode
      <3>1. ~(runner = "pi")  BY <2>4 DEF ReadOpenCode
      <3>2. poll' \in [at : {"between", "flushing", "saving"}, batch : SUBSET Lines]
        BY <2>1, <2>4 DEF ReadOpenCode
      <3>3. MonTyped'  BY <1>0, <2>0, <3>2 DEF MonTyped, Lines
      <3> QED BY <2>0, <3>1, <3>3 DEF MonIInv, PiReads
    <2> QED BY <1>6, <2>2, <2>3, <2>4 DEF ReadNewEntries
  <1>7. CASE FlushSession
    <2>0. /\ poll.at = "flushing" /\ poll' = [at |-> "saving", batch |-> {}]
          /\ UNCHANGED <<runner, size, offset, saved, claimed, active>>
          /\ outbox \subseteq outbox' /\ lost \subseteq lost'
          /\ \/ outbox' = outbox \cup (poll.batch \X {active})
             \/ lost' = lost \cup poll.batch
      BY <1>7 DEF FlushSession, Between, written, inbox
    <2>1. MonTyped'  BY <1>0, <2>0 DEF MonTyped, Lines
    <2>2. \A k \in Lines : Done(k) => Done(k)'  BY <2>0 DEF Done, Relayed
    <2>3. \A k \in poll.batch : Done(k)'
      <3> SUFFICES ASSUME NEW k \in poll.batch PROVE Done(k)'
        OBVIOUS
      <3>1. CASE outbox' = outbox \cup (poll.batch \X {active})
        <4>1. <<k, active>> \in outbox'  BY <3>1
        <4> QED BY <1>0, <4>1 DEF Done, Relayed
      <3>2. CASE lost' = lost \cup poll.batch  BY <3>2 DEF Done
      <3> QED BY <2>0, <3>1, <3>2
    <2>4. PiReads'
      BY <2>0, <2>2, <2>3 DEF MonIInv, PiReads, LineStart, Lines
    <2> QED BY <2>1, <2>4 DEF MonIInv
  <1>8. CASE SaveIfDirty
    <2>0. /\ poll.at = "saving" /\ poll' = [at |-> "between", batch |-> {}] /\ saved' = offset
          /\ UNCHANGED <<runner, size, offset, claimed, active, outbox, lost>>
      BY <1>8 DEF SaveIfDirty, Between, written, inbox
    <2>1. MonTyped'  BY <1>0, <2>0 DEF MonTyped, Lines
    <2>2. PiReads'  BY <2>0 DEF MonIInv, PiReads, Done, Relayed, LineStart, Lines
    <2> QED BY <2>1, <2>2 DEF MonIInv
  <1>9. CASE Crash
    <2>0. /\ poll' = [at |-> "between", batch |-> {}] /\ offset' = saved /\ active' = 0
          /\ UNCHANGED <<runner, size, saved, claimed, outbox, lost>>
      BY <1>9 DEF Crash, Between, written
    <2>1. MonTyped'  BY <1>0, <2>0 DEF MonTyped, Lines
    <2>2. PiReads'  BY <2>0 DEF MonIInv, PiReads, Done, Relayed, LineStart, Lines
    <2> QED BY <2>1, <2>2 DEF MonIInv
  <1>10. CASE UNCHANGED monVars
    BY <1>0, <1>1, <1>10 DEF monVars
  <1> QED BY <1>2, <1>3, <1>4, <1>5, <1>6, <1>7, <1>8, <1>9, <1>10 DEF MonNext

\* In whatever pieces a pi transcript is written, whenever the monitor polls,
\* fails to write a row or dies, no line behind its saved offset was left out.
THEOREM PiIsReadWhole == MonSpec => []PiNeverSkips
  <1>1. MonIInv => PiNeverSkips  BY DEF MonIInv, PiReads, PiNeverSkips, Done
  <1> QED BY MonInitial, MonStep, <1>1, PTL DEF MonSpec

-----------------------------------------------------------------------------
(* Topics and windows                                                        *)

WindowIds == 0..MaxWindows
AgentRow == [status : {"none", "stopped", "spawning", "running", "archived"},
             stop : BOOLEAN, window : WindowIds, fresh : BOOLEAN]
HandlerState == [at : {"idle", "cap", "prebind", "window", "publish", "bind", "archive"},
                 thread : Threads \cup {Nobody}, window : WindowIds]
ReconState == [todo : SUBSET (TopicAgents \X WindowIds), at : TopicAgents \cup {Nobody}, window : WindowIds]

TopicTyped ==
    /\ rowOf \in [TopicAgents -> AgentRow]
    /\ pane \in [1..MaxWindows -> TopicAgents \cup {Nobody}] /\ lastWindow \in WindowIds
    /\ handler \in HandlerState /\ recon \in ReconState
    /\ running \in BOOLEAN /\ torn \in BOOLEAN

PanesNumbered == \A w \in 1..MaxWindows : pane[w] # Nobody => w <= lastWindow
IdleWhenDown == ~running => handler = IdleHandler /\ recon = IdleRecon

\* Who says that a window is its own: a row, or a spawn that is about to write
\* the window it has opened into a row.
Claims(a, w) ==
    \/ rowOf[a].window = w
    \/ handler.at = "publish" /\ handler.thread = a /\ handler.window = w
    \/ recon.at # Nobody /\ recon.at = a /\ recon.window = w

\* Nobody claims a window that is named for somebody else, or somebody else's.
ClaimsApart ==
    running /\ ~torn =>
        \A a \in TopicAgents, w \in 1..MaxWindows : Claims(a, w) =>
            /\ w <= lastWindow /\ pane[w] \in {a, Nobody}
            /\ \A b \in TopicAgents : Claims(b, w) => b = a

TopicIInv == TopicTyped /\ PanesNumbered /\ IdleWhenDown /\ ClaimsApart

LEMMA TopicTypes ==
    ASSUME TopicIInv
    PROVE  /\ MaxWindows \in Nat /\ WindowIds \subseteq Nat /\ NoWindow \in WindowIds
           /\ \A a \in TopicAgents : rowOf[a] \in AgentRow /\ rowOf[a].window \in WindowIds
           /\ handler.window \in WindowIds /\ recon.window \in WindowIds
           /\ lastWindow \in Nat /\ lastWindow <= MaxWindows
  <1>1. MaxWindows \in Nat /\ WindowIds \subseteq Nat /\ NoWindow \in WindowIds
    BY TopicAssumption DEF WindowIds, NoWindow
  <1>2. \A a \in TopicAgents : rowOf[a] \in AgentRow  BY DEF TopicIInv, TopicTyped
  <1>3. \A a \in TopicAgents : rowOf[a].window \in WindowIds  BY <1>2 DEF AgentRow
  <1>4. handler.window \in WindowIds /\ recon.window \in WindowIds
    BY DEF TopicIInv, TopicTyped, HandlerState, ReconState
  <1>5. lastWindow \in Nat /\ lastWindow <= MaxWindows
    BY <1>1 DEF TopicIInv, TopicTyped, WindowIds
  <1> QED BY <1>1, <1>2, <1>3, <1>4, <1>5

LEMMA TopicInitial == TopicInit => TopicIInv
  <1> SUFFICES ASSUME TopicInit PROVE TopicIInv
    OBVIOUS
  <1>0. MaxWindows \in Nat /\ WindowIds \subseteq Nat /\ 0 \in WindowIds
    BY TopicAssumption DEF WindowIds
  <1>1. PICK made \in SUBSET Guests :
          rowOf = [a \in TopicAgents |-> IF a \in made THEN [NoRowYet EXCEPT !.status = "stopped"] ELSE NoRowYet]
    BY DEF TopicInit
  <1> DEFINE stopped == [NoRowYet EXCEPT !.status = "stopped"]
  <1>2. NoRowYet \in AgentRow /\ NoRowYet.window = 0
    BY <1>0 DEF NoRowYet, AgentRow, NoWindow
  <1>3. stopped \in AgentRow /\ stopped.window = 0  BY <1>2 DEF AgentRow
  <1> HIDE DEF stopped
  <1>4. rowOf \in [TopicAgents -> AgentRow] /\ \A a \in TopicAgents : rowOf[a].window = 0
    <2>1. \A a \in TopicAgents : rowOf[a] \in {NoRowYet, stopped}  BY <1>1 DEF stopped
    <2>2. rowOf = [a \in TopicAgents |-> rowOf[a]]  BY <1>1
    <2> QED BY <1>2, <1>3, <2>1, <2>2
  <1>5. IdleHandler \in HandlerState /\ IdleRecon \in ReconState
    BY <1>0 DEF IdleHandler, HandlerState, IdleRecon, ReconState, NoWindow
  <1>6. NoPanes \in [1..MaxWindows -> TopicAgents \cup {Nobody}] /\ \A w \in 1..MaxWindows : NoPanes[w] = Nobody
    BY DEF NoPanes
  <1>7. TopicTyped  BY <1>0, <1>4, <1>5, <1>6 DEF TopicInit, TopicTyped
  <1>8. \A a \in TopicAgents, w \in 1..MaxWindows : ~Claims(a, w)
    BY <1>0, <1>4 DEF TopicInit, Claims, IdleHandler, IdleRecon
  <1> QED BY <1>6, <1>7, <1>8 DEF TopicIInv, PanesNumbered, IdleWhenDown, ClaimsApart, TopicInit

\* A step after which nobody claims more than before keeps windows apart, also
\* when windows close.
LEMMA NothingClaimed ==
    ASSUME TopicIInv, TopicTyped', UNCHANGED <<lastWindow, running, torn>>,
           \A w \in 1..MaxWindows : pane'[w] \in {pane[w], Nobody},
           running \/ (handler' = IdleHandler /\ recon' = IdleRecon),
           \A a \in TopicAgents, w \in 1..MaxWindows : Claims(a, w)' => Claims(a, w)
    PROVE  TopicIInv'
  <1>1. PanesNumbered'  BY DEF TopicIInv, PanesNumbered
  <1>2. IdleWhenDown'  BY DEF IdleWhenDown, IdleHandler, IdleRecon
  <1>3. ClaimsApart'
    <2> SUFFICES ASSUME running, ~torn, NEW a \in TopicAgents, NEW w \in 1..MaxWindows, Claims(a, w)'
                 PROVE  /\ w <= lastWindow /\ pane'[w] \in {a, Nobody}
                        /\ \A b \in TopicAgents : Claims(b, w)' => b = a
      BY DEF ClaimsApart, TopicAgents
    <2>1. /\ w <= lastWindow /\ pane[w] \in {a, Nobody}
          /\ \A b \in TopicAgents : Claims(b, w) => b = a
      BY DEF TopicIInv, ClaimsApart
    <2> QED BY <2>1
  <1> QED BY <1>1, <1>2, <1>3 DEF TopicIInv

\* A window that is opened for an agent is claimed by nobody yet.
LEMMA WindowOpened ==
    ASSUME TopicIInv, NEW a \in TopicAgents, NewWindow(a), TopicTyped', running, UNCHANGED <<running, torn>>,
           \A b \in TopicAgents, w \in 1..MaxWindows :
               Claims(b, w)' => Claims(b, w) \/ (b = a /\ w = lastWindow + 1)
    PROVE  TopicIInv'
  <1> DEFINE n == lastWindow + 1
  <1>0. /\ n \in 1..MaxWindows /\ lastWindow' = n /\ pane' = [pane EXCEPT ![n] = a]
        /\ lastWindow \in Nat /\ MaxWindows \in Nat /\ n \in Nat
        /\ pane \in [1..MaxWindows -> TopicAgents \cup {Nobody}]
    BY TopicTypes DEF NewWindow, TopicIInv, TopicTyped
  <1>1. pane'[n] = a /\ \A w \in 1..MaxWindows : w # n => pane'[w] = pane[w]
    BY <1>0
  <1>2. PanesNumbered'
    <2> SUFFICES ASSUME NEW w \in 1..MaxWindows, pane'[w] # Nobody PROVE w <= n
      BY <1>0 DEF PanesNumbered
    <2>1. CASE w = n  BY <1>0, <2>1
    <2>2. CASE w # n
      <3>1. w <= lastWindow  BY <1>1, <2>2 DEF TopicIInv, PanesNumbered
      <3> QED BY <1>0, <3>1
    <2> QED BY <2>1, <2>2
  <1>3. IdleWhenDown'  BY DEF IdleWhenDown
  <1>4. ClaimsApart'
    <2> SUFFICES ASSUME ~torn, NEW b \in TopicAgents, NEW w \in 1..MaxWindows, Claims(b, w)'
                 PROVE  /\ w <= n /\ pane'[w] \in {b, Nobody}
                        /\ \A c \in TopicAgents : Claims(c, w)' => c = b
      BY <1>0 DEF ClaimsApart, TopicAgents
    <2>1. \A c \in TopicAgents, v \in 1..MaxWindows : Claims(c, v) =>
            /\ v <= lastWindow /\ pane[v] \in {c, Nobody}
            /\ \A e \in TopicAgents : Claims(e, v) => e = c
      BY DEF TopicIInv, ClaimsApart
    <2>2. \A c \in TopicAgents : ~Claims(c, n)
      <3>1. ~(n <= lastWindow)  BY <1>0
      <3> QED BY <1>0, <2>1, <3>1
    <2>3. CASE w = n
      <3>1. b = a /\ \A c \in TopicAgents : Claims(c, w)' => c = a  BY <2>2, <2>3
      <3> QED BY <1>0, <1>1, <2>3, <3>1
    <2>4. CASE w # n
      <3>1. \A c \in TopicAgents : Claims(c, w)' => Claims(c, w)  BY <2>4
      <3>2. /\ w <= lastWindow /\ pane[w] \in {b, Nobody}
            /\ \A c \in TopicAgents : Claims(c, w) => c = b
        BY <2>1, <3>1
      <3>3. w <= n  BY <1>0, <3>2
      <3> QED BY <1>1, <2>4, <3>1, <3>2, <3>3
    <2> QED BY <2>3, <2>4
  <1> QED BY <1>2, <1>3, <1>4 DEF TopicIInv

\* What most steps do: rows keep their window or lose it, windows may close,
\* and a spawn goes on or ends without a window.
LEMMA NoNewClaim ==
    ASSUME TopicIInv, UNCHANGED <<lastWindow, running, torn>>,
           rowOf' \in [TopicAgents -> AgentRow],
           \A a \in TopicAgents : rowOf'[a].window \in {rowOf[a].window, NoWindow},
           pane' \in [1..MaxWindows -> TopicAgents \cup {Nobody}],
           \A w \in 1..MaxWindows : pane'[w] \in {pane[w], Nobody},
           handler' \in HandlerState, handler'.at = "publish" => handler' = handler,
           recon' \in ReconState,
           recon'.at # Nobody => recon'.at = recon.at /\ recon'.window = recon.window,
           running \/ UNCHANGED <<handler, recon>>
    PROVE  TopicIInv'
  <1>1. TopicTyped'
    BY DEF TopicIInv, TopicTyped, WindowIds, AgentRow, HandlerState, ReconState, TopicAgents
  <1>2. \A a \in TopicAgents, w \in 1..MaxWindows : Claims(a, w)' => Claims(a, w)
    <2> SUFFICES ASSUME NEW a \in TopicAgents, NEW w \in 1..MaxWindows, Claims(a, w)' PROVE Claims(a, w)
      OBVIOUS
    <2>1. w # NoWindow  BY TopicTypes DEF NoWindow
    <2> QED BY <2>1 DEF Claims
  <1>3. running \/ (handler' = IdleHandler /\ recon' = IdleRecon)
    BY DEF TopicIInv, IdleWhenDown
  <1> QED BY <1>1, <1>2, <1>3, NothingClaimed

\* The rows of a window are stopped; they keep saying it is theirs.
LEMMA StopsKeepWindows ==
    ASSUME TopicIInv, NEW v
    PROVE  /\ Stops(v) \in [TopicAgents -> AgentRow]
           /\ \A a \in TopicAgents : Stops(v)[a].window = rowOf[a].window
  <1> SUFFICES ASSUME NEW a \in TopicAgents
               PROVE  Stops(v)[a] \in AgentRow /\ Stops(v)[a].window = rowOf[a].window
    BY DEF Stops
  <1> DEFINE r == [rowOf[a] EXCEPT !.status = "stopped", !.fresh = FALSE]
  <1>1. rowOf[a] \in AgentRow  BY TopicTypes
  <1>2. r \in AgentRow /\ r.window = rowOf[a].window  BY <1>1 DEF AgentRow
  <1>3. Stops(v)[a] \in {r, rowOf[a]}  BY DEF Stops
  <1> HIDE DEF r
  <1> QED BY <1>1, <1>2, <1>3

LEMMA ArchivedKeepWindows ==
    ASSUME TopicIInv, NEW x
    PROVE  /\ Archived(x) \in [TopicAgents -> AgentRow]
           /\ \A a \in TopicAgents : Archived(x)[a].window = rowOf[a].window
  <1>1. CASE x \in TopicAgents
    <2> DEFINE r == [rowOf[x] EXCEPT !.status = "archived", !.stop = TRUE, !.fresh = FALSE]
    <2>1. rowOf[x] \in AgentRow /\ rowOf \in [TopicAgents -> AgentRow]
      BY <1>1, TopicTypes DEF TopicIInv, TopicTyped
    <2>2. r \in AgentRow /\ r.window = rowOf[x].window  BY <2>1 DEF AgentRow
    <2>3. Archived(x) = [rowOf EXCEPT ![x] = r]  BY DEF Archived
    <2> HIDE DEF r
    <2> QED BY <2>1, <2>2, <2>3
  <1>2. CASE x \notin TopicAgents
    <2>1. Archived(x) = rowOf  BY <1>2 DEF Archived, TopicIInv, TopicTyped
    <2> QED BY <2>1 DEF TopicIInv, TopicTyped
  <1> QED BY <1>1, <1>2

\* A spawn writes the window it has opened, which was its claim already.
LEMMA WindowPublished ==
    ASSUME TopicIInv, running, NEW a \in TopicAgents, NEW r \in AgentRow,
           rowOf' = [rowOf EXCEPT ![a] = r], \A w \in 1..MaxWindows : r.window = w => Claims(a, w),
           handler' \in HandlerState, handler'.at = "publish" => handler' = handler,
           recon' \in ReconState,
           recon'.at # Nobody => recon'.at = recon.at /\ recon'.window = recon.window,
           UNCHANGED <<pane, lastWindow, running, torn>>
    PROVE  TopicIInv'
  <1>0. rowOf \in [TopicAgents -> AgentRow]  BY DEF TopicIInv, TopicTyped
  <1>1. rowOf' \in [TopicAgents -> AgentRow] /\ rowOf'[a] = r /\ \A b \in TopicAgents : b # a => rowOf'[b] = rowOf[b]
    BY <1>0
  <1>2. TopicTyped'
    BY <1>1 DEF TopicIInv, TopicTyped, WindowIds, AgentRow, HandlerState, ReconState, TopicAgents
  <1>3. \A b \in TopicAgents, w \in 1..MaxWindows : Claims(b, w)' => Claims(b, w)
    <2> SUFFICES ASSUME NEW b \in TopicAgents, NEW w \in 1..MaxWindows, Claims(b, w)' PROVE Claims(b, w)
      OBVIOUS
    <2>1. CASE rowOf'[b].window = w
      <3>1. CASE b = a  BY <1>1, <2>1, <3>1
      <3>2. CASE b # a  BY <1>1, <2>1, <3>2 DEF Claims
      <3> QED BY <3>1, <3>2
    <2>2. CASE rowOf'[b].window # w  BY <2>2 DEF Claims
    <2> QED BY <2>1, <2>2
  <1> QED BY <1>2, <1>3, NothingClaimed

\* The runner in a pane says whose it is, which is whom the pane is named for.
LEMMA SessionStarts ==
    ASSUME TopicIInv, SessionStartHook
    PROVE  TopicIInv'
  <1>1. PICK w \in 1..lastWindow :
          /\ pane[w] # Nobody
          /\ rowOf' = [rowOf EXCEPT ![pane[w]] = [status |-> "running", stop |-> FALSE, window |-> w, fresh |-> FALSE]]
    BY DEF SessionStartHook
  <1>u. UNCHANGED <<pane, lastWindow, handler, recon, running, torn>>
    BY DEF SessionStartHook, tmux, process
  <1> DEFINE a == pane[w]
             r == [status |-> "running", stop |-> FALSE, window |-> w, fresh |-> FALSE]
  <1>0. /\ w \in 1..MaxWindows /\ w \in WindowIds /\ a \in TopicAgents
        /\ rowOf \in [TopicAgents -> AgentRow]
    <2>1. w \in 1..MaxWindows /\ w \in WindowIds  BY TopicTypes DEF WindowIds
    <2> QED BY <1>1, <2>1 DEF TopicIInv, TopicTyped
  <1>2. r \in AgentRow /\ r.window = w  BY <1>0 DEF AgentRow
  <1>r. rowOf' = [rowOf EXCEPT ![a] = r]  BY <1>1
  <1> HIDE DEF r
  <1>3. rowOf' \in [TopicAgents -> AgentRow] /\ rowOf'[a] = r /\ \A b \in TopicAgents : b # a => rowOf'[b] = rowOf[b]
    BY <1>0, <1>2, <1>r
  <1>4. TopicTyped'
    BY <1>3, <1>u DEF TopicIInv, TopicTyped, WindowIds, AgentRow, HandlerState, ReconState, TopicAgents
  <1>5. \A b \in TopicAgents, v \in 1..MaxWindows : Claims(b, v)' => Claims(b, v) \/ (b = a /\ v = w)
    <2> SUFFICES ASSUME NEW b \in TopicAgents, NEW v \in 1..MaxWindows, Claims(b, v)', ~Claims(b, v)
                 PROVE  b = a /\ v = w
      OBVIOUS
    <2>1. rowOf'[b].window = v /\ rowOf[b].window # v  BY <1>u DEF Claims
    <2> QED BY <1>2, <1>3, <2>1
  <1>6. ClaimsApart'
    <2> SUFFICES ASSUME running, ~torn, NEW b \in TopicAgents, NEW v \in 1..MaxWindows, Claims(b, v)'
                 PROVE  /\ v <= lastWindow /\ pane[v] \in {b, Nobody}
                        /\ \A c \in TopicAgents : Claims(c, v)' => c = b
      BY <1>u DEF ClaimsApart, TopicAgents
    <2>1. \A c \in TopicAgents, x \in 1..MaxWindows : Claims(c, x) =>
            /\ x <= lastWindow /\ pane[x] \in {c, Nobody}
            /\ \A e \in TopicAgents : Claims(e, x) => e = c
      BY DEF TopicIInv, ClaimsApart
    <2>2. CASE v = w
      <3>1. \A c \in TopicAgents : Claims(c, w)' => c = a
        BY <1>0, <1>1, <1>5, <2>1
      <3> QED BY <1>1, <2>2, <3>1
    <2>3. CASE v # w
      <3>1. \A c \in TopicAgents : Claims(c, v)' => Claims(c, v)  BY <1>5, <2>3
      <3> QED BY <2>1, <3>1
    <2> QED BY <2>2, <2>3
  <1>7. PanesNumbered' /\ IdleWhenDown'
    BY <1>u DEF TopicIInv, PanesNumbered, IdleWhenDown
  <1> QED BY <1>4, <1>6, <1>7 DEF TopicIInv

\* At boot a window is left to the one row whose pane it is.
LEMMA BootSweeps ==
    ASSUME TopicIInv, SweepStaleWindowBindings
    PROVE  TopicIInv'
  <1>1. PICK rows \in {rowOf, ReconcileState} :
          rowOf' = [a \in TopicAgents |-> IF Healthy(a) THEN rows[a] ELSE [rows[a] EXCEPT !.window = NoWindow]]
    BY DEF SweepStaleWindowBindings
  <1>u. ~running /\ running' = TRUE /\ torn' = FALSE /\ UNCHANGED <<pane, lastWindow, handler, recon>>
    BY DEF SweepStaleWindowBindings, tmux
  <1>2. ASSUME NEW a \in TopicAgents
        PROVE  rows[a] \in AgentRow /\ rows[a].window = rowOf[a].window
    <2> DEFINE r == [rowOf[a] EXCEPT !.status = "stopped", !.fresh = FALSE]
    <2>1. rowOf[a] \in AgentRow  BY TopicTypes
    <2>2. r \in AgentRow /\ r.window = rowOf[a].window  BY <2>1 DEF AgentRow
    <2>3. rows[a] \in {r, rowOf[a]}  BY <1>1 DEF ReconcileState
    <2> HIDE DEF r
    <2> QED BY <2>1, <2>2, <2>3
  <1>3. ASSUME NEW a \in TopicAgents
        PROVE  rowOf'[a] \in AgentRow /\ (rowOf'[a].window # NoWindow => Healthy(a) /\ rowOf'[a].window = rowOf[a].window)
    <2> DEFINE r == [rows[a] EXCEPT !.window = NoWindow]
    <2>1. r \in AgentRow /\ r.window = NoWindow  BY <1>2, TopicTypes DEF AgentRow
    <2>2. rowOf'[a] = IF Healthy(a) THEN rows[a] ELSE r  BY <1>1
    <2> HIDE DEF r
    <2> QED BY <1>2, <2>1, <2>2
  <1>4. TopicTyped'
    <2>1. rowOf' \in [TopicAgents -> AgentRow]  BY <1>1, <1>3
    <2> QED BY <1>u, <2>1 DEF TopicIInv, TopicTyped, WindowIds, AgentRow, HandlerState, ReconState, TopicAgents
  <1>5. ASSUME NEW a \in TopicAgents, NEW w \in 1..MaxWindows, Claims(a, w)'
        PROVE  pane[w] = a /\ pane[w] # Nobody /\ w <= lastWindow
    <2>1. handler' = IdleHandler /\ recon' = IdleRecon  BY <1>u DEF TopicIInv, IdleWhenDown
    <2>2. rowOf'[a].window = w  BY <1>5, <2>1 DEF Claims, IdleHandler, IdleRecon
    <2>3. w # NoWindow  BY TopicTypes DEF NoWindow
    <2>4. Healthy(a) /\ rowOf[a].window = w  BY <1>3, <2>2, <2>3
    <2>5. pane[w] = a /\ pane[w] # Nobody  BY <2>4 DEF Healthy, TmuxWindowExists
    <2> QED BY <2>5 DEF TopicIInv, PanesNumbered
  <1>6. ClaimsApart'
    <2> SUFFICES ASSUME NEW a \in TopicAgents, NEW w \in 1..MaxWindows, Claims(a, w)'
                 PROVE  /\ w <= lastWindow /\ pane[w] \in {a, Nobody}
                        /\ \A b \in TopicAgents : Claims(b, w)' => b = a
      BY <1>u DEF ClaimsApart, TopicAgents
    <2> QED BY <1>5
  <1>7. PanesNumbered' /\ IdleWhenDown'
    BY <1>u DEF TopicIInv, PanesNumbered, IdleWhenDown
  <1> QED BY <1>4, <1>6, <1>7 DEF TopicIInv

LEMMA TopicStep == TopicIInv /\ [TopicNext]_topicVars => TopicIInv'
  <1> SUFFICES ASSUME TopicIInv, [TopicNext]_topicVars PROVE TopicIInv'
    OBVIOUS
  <1>0. /\ rowOf \in [TopicAgents -> AgentRow] /\ handler \in HandlerState /\ recon \in ReconState
        /\ pane \in [1..MaxWindows -> TopicAgents \cup {Nobody}] /\ lastWindow \in WindowIds
        /\ running \in BOOLEAN /\ torn \in BOOLEAN
        /\ NoWindow \in WindowIds
    BY TopicTypes DEF TopicIInv, TopicTyped
  <1>h. IdleHandler \in HandlerState /\ IdleRecon \in ReconState /\ IdleHandler.at = "idle" /\ IdleRecon.at = Nobody
    BY <1>0 DEF IdleHandler, IdleRecon, HandlerState, ReconState
  <1>d. ~running => handler = IdleHandler /\ recon = IdleRecon
    BY DEF TopicIInv, IdleWhenDown
  <1>a. ASSUME NEW t, NEW step, At(t, step), step # "idle" PROVE running
    BY <1>a, <1>d, <1>h DEF At
  \* Steps that move neither a row nor a window, nor the handler or the reconciler.
  <1>1. ASSUME UNCHANGED <<rowOf, pane, lastWindow, handler, recon, running, torn>> PROVE TopicIInv'
    BY <1>0, <1>1, NoNewClaim
  \* Steps of rows alone.
  <1>2. ASSUME UNCHANGED <<pane, lastWindow, handler, recon, running, torn>>,
               rowOf' \in [TopicAgents -> AgentRow],
               \A a \in TopicAgents : rowOf'[a].window \in {rowOf[a].window, NoWindow}
        PROVE  TopicIInv'
    BY <1>0, <1>2, NoNewClaim
  \* Steps of the handler, with a row or without.
  <1>3. ASSUME UNCHANGED <<pane, lastWindow, recon, running, torn>>, running,
               handler' \in HandlerState, handler'.at # "publish",
               rowOf' \in [TopicAgents -> AgentRow],
               \A a \in TopicAgents : rowOf'[a].window \in {rowOf[a].window, NoWindow}
        PROVE  TopicIInv'
    BY <1>0, <1>3, NoNewClaim
  <1>4. ASSUME NEW t \in Threads, ToOwner(t) PROVE TopicIInv'
    BY <1>1, <1>4 DEF ToOwner, tmux, process
  <1>5. ASSUME NEW t \in Threads, NEW a \in TopicAgents, Mention(t, a) \/ SetUserDefault(t, a) PROVE TopicIInv'
    BY <1>1, <1>5 DEF Mention, SetUserDefault, tmux, process
  <1>6. ASSUME NEW t \in Threads, TopicSpawn(t) PROVE TopicIInv'
    <2>1. running /\ UNCHANGED <<pane, lastWindow, recon, torn>> /\ running' = running
      BY <1>6 DEF TopicSpawn, Writes, tmux, process
    <2>2. PICK at \in {"bind", "cap"} :
            /\ handler' = [IdleHandler EXCEPT !.at = at, !.thread = t]
            /\ rowOf' \in {rowOf, [rowOf EXCEPT ![t].status = "stopped", ![t].stop = TRUE, ![t].fresh = FALSE]}
      BY <1>6 DEF TopicSpawn
    <2>3. handler' \in HandlerState /\ handler'.at # "publish"  BY <1>h, <2>2 DEF HandlerState
    <2>4. rowOf' \in [TopicAgents -> AgentRow] /\ \A a \in TopicAgents : rowOf'[a].window = rowOf[a].window
      <3> DEFINE r == [rowOf[t] EXCEPT !.status = "stopped", !.stop = TRUE, !.fresh = FALSE]
      <3>1. t \in TopicAgents  BY DEF TopicAgents
      <3>2. r \in AgentRow /\ r.window = rowOf[t].window  BY <1>0, <3>1 DEF AgentRow
      <3>3. rowOf' \in {rowOf, [rowOf EXCEPT ![t] = r]}  BY <2>2
      <3> HIDE DEF r
      <3> QED BY <1>0, <3>1, <3>2, <3>3
    <2> QED BY <1>3, <2>1, <2>3, <2>4
  <1>7. ASSUME NEW t \in Threads, PreRegister(t) PROVE TopicIInv'
    <2> DEFINE r == [status |-> "spawning", stop |-> FALSE, window |-> rowOf[t].window, fresh |-> TRUE]
    <2>0. running /\ UNCHANGED <<pane, lastWindow, recon, torn>> /\ running' = running
      BY <1>7, <1>a DEF PreRegister, tmux, process
    <2>1. \/ handler' = IdleHandler /\ rowOf' = rowOf
          \/ rowOf' = [rowOf EXCEPT ![t] = r] /\ handler' = [handler EXCEPT !.at = "prebind"]
      BY <1>7 DEF PreRegister, Goes
    <2>2. t \in TopicAgents  BY DEF TopicAgents
    <2>3. r \in AgentRow /\ r.window = rowOf[t].window
      <3>1. rowOf[t].window \in WindowIds  BY <2>2, TopicTypes
      <3> QED BY <3>1 DEF AgentRow
    <2> HIDE DEF r
    <2>4. rowOf' \in [TopicAgents -> AgentRow] /\ \A a \in TopicAgents : rowOf'[a].window = rowOf[a].window
      BY <1>0, <2>1, <2>2, <2>3
    <2>5. handler' \in HandlerState /\ handler'.at # "publish"  BY <1>0, <1>h, <2>1 DEF HandlerState
    <2> QED BY <1>3, <2>0, <2>4, <2>5
  <1>8. ASSUME NEW t \in Threads, PreBind(t) PROVE TopicIInv'
    <2>0. running /\ UNCHANGED <<rowOf, pane, lastWindow, recon, torn>> /\ running' = running
          /\ handler' = [handler EXCEPT !.at = "window"]
      BY <1>8, <1>a DEF PreBind, Goes, tmux, process
    <2>1. handler' \in HandlerState /\ handler'.at # "publish"  BY <1>0, <2>0 DEF HandlerState
    <2> QED BY <1>0, <1>3, <2>0, <2>1
  <1>9. ASSUME NEW t \in Threads, OpenTopicWindow(t) PROVE TopicIInv'
    <2>0. running /\ UNCHANGED <<rowOf, recon, running, torn>> /\ handler.thread = t /\ handler.at = "window"
      BY <1>9, <1>a DEF OpenTopicWindow, At, tables, process
    <2>1. CASE handler' = IdleHandler /\ UNCHANGED tmux
      BY <1>0, <1>3, <1>h, <2>0, <2>1 DEF tmux
    <2>2. CASE NewWindow(t) /\ handler' = [handler EXCEPT !.at = "publish", !.window = lastWindow']
      <3>1. /\ lastWindow' = lastWindow + 1 /\ lastWindow + 1 \in 1..MaxWindows /\ lastWindow + 1 \in WindowIds
            /\ pane' = [pane EXCEPT ![lastWindow + 1] = t]
        BY <2>2, TopicTypes DEF NewWindow, WindowIds
      <3>2. /\ handler' \in HandlerState /\ handler'.at = "publish" /\ handler'.thread = t
            /\ handler'.window = lastWindow + 1
        BY <1>0, <2>0, <2>2, <3>1 DEF HandlerState
      <3>3. t \in TopicAgents  BY DEF TopicAgents
      <3>4. TopicTyped'
        <4>1. pane' \in [1..MaxWindows -> TopicAgents \cup {Nobody}]  BY <1>0, <3>1, <3>3
        <4> QED BY <1>0, <2>0, <3>1, <3>2, <4>1
                DEF TopicTyped, WindowIds, AgentRow, HandlerState, ReconState, TopicAgents
      <3>5. \A b \in TopicAgents, w \in 1..MaxWindows :
               Claims(b, w)' => Claims(b, w) \/ (b = t /\ w = lastWindow + 1)
        BY <2>0, <3>2 DEF Claims
      <3> QED BY <2>0, <2>2, <3>3, <3>4, <3>5, WindowOpened
    <2> QED BY <1>9, <2>1, <2>2 DEF OpenTopicWindow
  <1>10. ASSUME NEW t \in Threads, PublishTopicWindow(t) PROVE TopicIInv'
    <2>0. running /\ UNCHANGED <<pane, lastWindow, recon, running, torn>> /\ handler.thread = t /\ handler.at = "publish"
      BY <1>10, <1>a DEF PublishTopicWindow, At, tmux, process
    <2>1. CASE handler' = IdleHandler /\ UNCHANGED rowOf
      BY <1>0, <1>3, <1>h, <2>0, <2>1
    <2>2. CASE /\ rowOf' = [rowOf EXCEPT ![t].status = "running", ![t].window = handler.window, ![t].fresh = FALSE]
               /\ Goes("bind")
      <3> DEFINE r == [rowOf[t] EXCEPT !.status = "running", !.window = handler.window, !.fresh = FALSE]
      <3>1. t \in TopicAgents /\ handler.window \in WindowIds  BY TopicTypes DEF TopicAgents
      <3>2. r \in AgentRow /\ r.window = handler.window  BY <1>0, <3>1 DEF AgentRow
      <3>3. rowOf' = [rowOf EXCEPT ![t] = r]  BY <2>2
      <3> HIDE DEF r
      <3>4. handler' \in HandlerState /\ handler'.at # "publish"  BY <1>0, <2>2 DEF Goes, HandlerState
      <3>5. \A w \in 1..MaxWindows : r.window = w => Claims(t, w)  BY <2>0, <3>2 DEF Claims
      <3> QED BY <1>0, <2>0, <3>1, <3>2, <3>3, <3>4, <3>5, WindowPublished
    <2> QED BY <1>10, <2>1, <2>2 DEF PublishTopicWindow
  <1>11. ASSUME NEW t \in Threads, WriteOwnerBinding(t) PROVE TopicIInv'
    BY <1>0, <1>3, <1>a, <1>11, <1>h DEF WriteOwnerBinding, tmux, process
  <1>12. CASE ArchiveBound
    <2>0. running /\ handler' = IdleHandler /\ UNCHANGED <<pane, lastWindow, recon, running, torn>>
      BY <1>12, <1>d, <1>h DEF ArchiveBound, tmux, process
    <2>1. PICK x \in {owner[handler.thread]} : rowOf' \in {rowOf, Archived(x)}
      BY <1>12 DEF ArchiveBound, tables
    <2>2. rowOf' \in [TopicAgents -> AgentRow] /\ \A a \in TopicAgents : rowOf'[a].window = rowOf[a].window
      BY <1>0, <2>1, ArchivedKeepWindows
    <2> QED BY <1>3, <1>h, <2>0, <2>2
  <1>13. CASE ReconcileAgentPanes
    <2>1. PICK todo \in SUBSET (TopicAgents \X WindowIds) : recon' = [recon EXCEPT !.todo = todo]
      <3> DEFINE todo == {<<a, rowOf[a].window>> : a \in {b \in TopicAgents : Listed(b) /\ ~TmuxWindowExists(rowOf[b].window)}}
      <3>1. todo \in SUBSET (TopicAgents \X WindowIds)  BY TopicTypes
      <3>2. recon' = [recon EXCEPT !.todo = todo]  BY <1>13 DEF ReconcileAgentPanes
      <3> QED BY <3>1, <3>2
    <2>2. running /\ UNCHANGED <<rowOf, pane, lastWindow, handler, running, torn>>
      BY <1>13 DEF ReconcileAgentPanes, tables, tmux, process
    <2>3. recon' \in ReconState /\ recon'.at = recon.at /\ recon'.window = recon.window
      BY <1>0, <2>1 DEF ReconState
    <2> QED BY <1>0, <2>2, <2>3, NoNewClaim
  <1>14. CASE RespawnAgent
    <2>0. PICK entry \in recon.todo :
            \/ recon' = [recon EXCEPT !.todo = @ \ {entry}] /\ UNCHANGED tmux
            \/ /\ NewWindow(entry[1])
               /\ recon' = [recon EXCEPT !.todo = @ \ {entry}, !.at = entry[1], !.window = lastWindow']
      BY <1>14 DEF RespawnAgent
    <2>1. recon.at = Nobody /\ running /\ UNCHANGED <<rowOf, handler, running, torn>>
      BY <1>14, <1>d DEF RespawnAgent, IdleRecon, tables, process
    <2>2. entry[1] \in TopicAgents /\ recon.todo \in SUBSET (TopicAgents \X WindowIds)
      BY <1>0, <2>0 DEF ReconState
    <2>3. CASE recon' = [recon EXCEPT !.todo = @ \ {entry}] /\ UNCHANGED tmux
      <3>1. recon' \in ReconState /\ recon'.at = recon.at /\ recon'.window = recon.window
        BY <1>0, <2>2, <2>3 DEF ReconState
      <3> QED BY <1>0, <2>1, <2>3, <3>1, NoNewClaim DEF tmux
    <2>4. CASE /\ NewWindow(entry[1])
               /\ recon' = [recon EXCEPT !.todo = @ \ {entry}, !.at = entry[1], !.window = lastWindow']
      <3>1. /\ lastWindow' = lastWindow + 1 /\ lastWindow + 1 \in 1..MaxWindows /\ lastWindow + 1 \in WindowIds
            /\ pane' = [pane EXCEPT ![lastWindow + 1] = entry[1]]
        BY <2>4, TopicTypes DEF NewWindow, WindowIds
      <3>2. /\ recon' \in ReconState /\ recon'.at = entry[1] /\ recon'.window = lastWindow + 1
        BY <1>0, <2>2, <2>4, <3>1 DEF ReconState
      <3>3. TopicTyped'
        <4>1. pane' \in [1..MaxWindows -> TopicAgents \cup {Nobody}]  BY <1>0, <2>2, <3>1
        <4> QED BY <1>0, <2>1, <3>1, <3>2, <4>1
                DEF TopicTyped, WindowIds, AgentRow, HandlerState, ReconState, TopicAgents
      <3>4. \A b \in TopicAgents, w \in 1..MaxWindows :
               Claims(b, w)' => Claims(b, w) \/ (b = entry[1] /\ w = lastWindow + 1)
        BY <2>1, <3>2 DEF Claims
      <3> QED BY <2>1, <2>2, <2>4, <3>3, <3>4, WindowOpened
    <2> QED BY <2>0, <2>3, <2>4
  <1>15. CASE RespawnIsPublished
    <2> DEFINE a == recon.at
               r == [rowOf[a] EXCEPT !.status = "running", !.window = recon.window, !.fresh = FALSE]
               after == [recon EXCEPT !.at = Nobody, !.window = NoWindow]
    <2>0. /\ a # Nobody /\ recon' = after
          /\ rowOf' = [rowOf EXCEPT ![a].status = "running", ![a].window = recon.window, ![a].fresh = FALSE]
          /\ UNCHANGED <<pane, lastWindow, handler, running, torn>>
      BY <1>15 DEF RespawnIsPublished, tmux, process
    <2>1. running /\ a \in TopicAgents /\ recon.window \in WindowIds
      BY <1>0, <1>d, <1>h, <2>0 DEF ReconState
    <2>2. r \in AgentRow /\ r.window = recon.window  BY <1>0, <2>1 DEF AgentRow
    <2>3. rowOf' = [rowOf EXCEPT ![a] = r]  BY <2>0
    <2>4. after \in ReconState /\ after.at = Nobody  BY <1>0 DEF ReconState
    <2>5. \A w \in 1..MaxWindows : r.window = w => Claims(a, w)  BY <2>0, <2>2 DEF Claims
    <2> HIDE DEF r, after
    <2> QED BY <1>0, <2>0, <2>1, <2>2, <2>3, <2>4, <2>5, WindowPublished
  <1>16. ASSUME NEW a \in TopicAgents, SpawningGoesStale(a) PROVE TopicIInv'
    <2> DEFINE r == [rowOf[a] EXCEPT !.fresh = FALSE]
    <2>1. r \in AgentRow /\ r.window = rowOf[a].window  BY <1>0 DEF AgentRow
    <2>2. rowOf' = [rowOf EXCEPT ![a] = r]  BY <1>16 DEF SpawningGoesStale
    <2> HIDE DEF r
    <2>3. rowOf' \in [TopicAgents -> AgentRow] /\ \A b \in TopicAgents : rowOf'[b].window = rowOf[b].window
      BY <1>0, <2>1, <2>2
    <2> QED BY <1>2, <1>16, <2>3 DEF SpawningGoesStale, tmux, process
  <1>17. ASSUME NEW a \in TopicAgents, AgentArchive(a) PROVE TopicIInv'
    <2>1. rowOf' \in [TopicAgents -> AgentRow] /\ \A b \in TopicAgents : rowOf'[b].window = rowOf[b].window
      BY <1>17, ArchivedKeepWindows DEF AgentArchive
    <2> QED BY <1>2, <1>17, <2>1 DEF AgentArchive, tmux, process
  <1>18. ASSUME NEW a \in TopicAgents, AgentCommand(a) PROVE TopicIInv'
    <2> DEFINE killed == [rowOf[a] EXCEPT !.stop = TRUE]
               respawned == [rowOf[a] EXCEPT !.stop = FALSE, !.window = NoWindow]
    <2>1. killed \in AgentRow /\ killed.window = rowOf[a].window  BY <1>0 DEF AgentRow
    <2>2. respawned \in AgentRow /\ respawned.window = NoWindow  BY <1>0 DEF AgentRow
    <2>3. rowOf' \in {[rowOf EXCEPT ![a] = killed], [rowOf EXCEPT ![a] = respawned]}
      BY <1>18 DEF AgentCommand
    <2> HIDE DEF killed, respawned
    <2>4. rowOf' \in [TopicAgents -> AgentRow] /\ \A b \in TopicAgents : rowOf'[b].window \in {rowOf[b].window, NoWindow}
      BY <1>0, <2>1, <2>2, <2>3
    <2> QED BY <1>2, <1>18, <2>4 DEF AgentCommand, tmux, process
  <1>19. CASE CleanupDeadWindow
    <2>1. PICK w \in 1..MaxWindows : rowOf' = Stops(w)  BY <1>19 DEF CleanupDeadWindow
    <2>2. rowOf' \in [TopicAgents -> AgentRow] /\ \A b \in TopicAgents : rowOf'[b].window = rowOf[b].window
      BY <2>1, StopsKeepWindows
    <2> QED BY <1>2, <1>19, <2>2 DEF CleanupDeadWindow, tmux, process
  <1>20. ASSUME NEW t \in Threads, HandleTopicClose(t) PROVE TopicIInv'
    <2>0. running /\ UNCHANGED <<lastWindow, recon, running, torn>>
      BY <1>20 DEF HandleTopicClose, Writes, process
    <2>1. PICK w \in {GetWindowForThread(t)} :
            \/ pane' = [pane EXCEPT ![w] = Nobody] /\ rowOf' = Stops(w)
            \/ UNCHANGED <<pane, rowOf>>
      BY <1>20 DEF HandleTopicClose
    <2>2. /\ pane' \in [1..MaxWindows -> TopicAgents \cup {Nobody}]
          /\ \A v \in 1..MaxWindows : pane'[v] \in {pane[v], Nobody}
      BY <1>0, <2>1
    <2>3. rowOf' \in [TopicAgents -> AgentRow] /\ \A b \in TopicAgents : rowOf'[b].window = rowOf[b].window
      BY <1>0, <2>1, StopsKeepWindows
    <2>4. handler' \in HandlerState /\ handler'.at # "publish"
      <3>1. handler' = [IdleHandler EXCEPT !.at = "archive", !.thread = t]  BY <1>20 DEF HandleTopicClose
      <3> QED BY <1>h, <3>1 DEF HandlerState
    <2> QED BY <1>0, <2>0, <2>2, <2>3, <2>4, NoNewClaim
  <1>21. CASE WindowCloses
    <2>1. PICK w \in 1..lastWindow : pane' = [pane EXCEPT ![w] = Nobody]  BY <1>21 DEF WindowCloses
    <2>2. /\ pane' \in [1..MaxWindows -> TopicAgents \cup {Nobody}]
          /\ \A v \in 1..MaxWindows : pane'[v] \in {pane[v], Nobody}
      BY <1>0, <2>1
    <2>3. UNCHANGED <<rowOf, lastWindow, handler, recon, running, torn>>
      BY <1>21 DEF WindowCloses, tables, process
    <2> QED BY <1>0, <2>2, <2>3, NoNewClaim
  \* With the daemon down, or torn from its tmux server, nothing is promised.
  <1>22. ASSUME rowOf' \in [TopicAgents -> AgentRow], running' \in BOOLEAN, torn' \in BOOLEAN, ~running' \/ torn',
                handler' \in HandlerState, recon' \in ReconState,
                running' \/ (handler' = IdleHandler /\ recon' = IdleRecon),
                UNCHANGED tmux \/ (pane' = NoPanes /\ lastWindow' = 0)
         PROVE  TopicIInv'
    <2>1. NoPanes \in [1..MaxWindows -> TopicAgents \cup {Nobody}] /\ 0 \in WindowIds
          /\ \A w \in 1..MaxWindows : NoPanes[w] = Nobody
      BY <1>0 DEF NoPanes, NoWindow
    <2>2. pane' \in [1..MaxWindows -> TopicAgents \cup {Nobody}] /\ lastWindow' \in WindowIds
      BY <1>0, <1>22, <2>1 DEF tmux
    <2>3. TopicTyped'
      BY <1>22, <2>2 DEF TopicTyped, WindowIds, AgentRow, HandlerState, ReconState, TopicAgents
    <2>4. PanesNumbered'  BY <1>22, <2>1 DEF tmux, TopicIInv, PanesNumbered
    <2>5. IdleWhenDown' /\ ClaimsApart'
      BY <1>22 DEF IdleWhenDown, ClaimsApart, IdleHandler, IdleRecon
    <2> QED BY <2>3, <2>4, <2>5 DEF TopicIInv
  <1>23. CASE DaemonCrash
    BY <1>0, <1>22, <1>23, <1>h DEF DaemonCrash, Down, tables
  <1>24. CASE TmuxServerDies
    <2>1. /\ pane' = NoPanes /\ lastWindow' = 0 /\ torn' = (torn \/ running)
          /\ UNCHANGED <<rowOf, handler, recon, running>>
      BY <1>24 DEF TmuxServerDies, tables
    <2>2. torn' \in BOOLEAN /\ (~running' \/ torn')  BY <1>0, <2>1
    <2> QED BY <1>0, <1>22, <1>d, <2>1, <2>2
  <1>25. CASE KillAllAgents
    <2> DEFINE r == [status |-> "stopped", stop |-> FALSE, window |-> NoWindow, fresh |-> FALSE]
    <2>1. r \in AgentRow  BY <1>0 DEF AgentRow
    <2>2. rowOf' = [a \in TopicAgents |-> IF Known(a) THEN r ELSE rowOf[a]]  BY <1>25 DEF KillAllAgents
    <2> HIDE DEF r
    <2>3. rowOf' \in [TopicAgents -> AgentRow]  BY <1>0, <2>1, <2>2
    <2> QED BY <1>0, <1>22, <1>25, <1>h, <2>3 DEF KillAllAgents, Down
  <1>26. CASE SessionStartHook  BY <1>26, SessionStarts
  <1>27. CASE SweepStaleWindowBindings  BY <1>27, BootSweeps
  <1>28. CASE Provisions \/ ProvisionMissingTopics \/ CloseOrphanedTopics
    BY <1>1, <1>28 DEF Provisions, CreateForumTopic, BindProvisioned, CloseForumTopic,
       ProvisionMissingTopics, CloseOrphanedTopics, tables, tmux, process
  <1>29. CASE UNCHANGED topicVars  BY <1>1, <1>29 DEF topicVars
  <1>30. CASE Handles
    BY <1>7, <1>8, <1>9, <1>10, <1>11, <1>12, <1>30 DEF Handles, HandlerStep
  <1>31. CASE Reconciles  BY <1>13, <1>14, <1>15, <1>31 DEF Reconciles
  <1> QED
    BY <1>4, <1>5, <1>6, <1>16, <1>17, <1>18, <1>19, <1>20, <1>21, <1>23, <1>24, <1>25, <1>26, <1>27,
       <1>28, <1>29, <1>30, <1>31 DEF TopicNext

\* From the boot sweep on, and until the tmux server dies under the daemon, no
\* two rows have one window, whichever of a message, the reconciler, a runner's
\* hook and the people at the keyboard is first.
THEOREM WindowsStayApart == TopicSpec => []WindowsApart
  <1>1. TopicIInv => WindowsApart
    <2> SUFFICES ASSUME TopicIInv, running, ~torn, NEW a \in TopicAgents, NEW b \in TopicAgents,
                        a # b, rowOf[a].window # NoWindow, rowOf[a].window = rowOf[b].window
                 PROVE  FALSE
      BY DEF WindowsApart
    <2>1. rowOf[a].window \in 1..MaxWindows  BY TopicTypes DEF WindowIds, NoWindow
    <2>2. Claims(a, rowOf[a].window) /\ Claims(b, rowOf[a].window)  BY DEF Claims
    <2> QED BY <2>1, <2>2 DEF TopicIInv, ClaimsApart
  <1> QED BY TopicInitial, TopicStep, <1>1, PTL DEF TopicSpec
=============================================================================
