------------------------- MODULE ReviewBudget_proofs --------------------------
(***************************************************************************)
(* Proofs about ReviewPipeline, on the invariant of ReviewPipeline_proofs:  *)
(* how often the agents of an arm may freeze.  The watchdog counts freezes *)
(* per arm and round and orders a respawn while the count is below the     *)
(* cap; but an agent whose spawn was ordered before, or that the late done *)
(* of another brought back, may freeze past it.  So the invariant budgets, *)
(* beside the freezes that were counted, what is still due: the agents     *)
(* that sit there, are under way or may still be asked for.  Staffing says *)
(* who can be at the task, Accounts what each of them may still cost.      *)
(***************************************************************************)
EXTENDS ReviewPipeline_proofs

-----------------------------------------------------------------------------
(* The invariant                                                             *)

\* Who is at a task.  The agent of a window that is still to open is nobody
\* else's, of its goroutine's role and not silent; a holder that fell silent is
\* alone; the scheduler is alone with its claim and its worker keeps the slot.
SpawnPlaces == {"inserted", "running", "prompted", "bumped", "recorded", "fix_claimed"}
SpawnsAs == [scheduler |-> {"implementor"}, dispatcher |-> {"reviewer", "fixer"}, comments |-> {"fixer"}]
FreshSpawns ==
    \A p \in Loops : doing[p].at = "inserted" =>
        /\ agents[doing[p].agent].silent = "no" /\ agents[doing[p].agent].role \in SpawnsAs[p]
        /\ doing[p].agent # task.claimed_by
        /\ \A q \in Loops \ {p} : doing[q].at \in SpawnPlaces => doing[p].agent # doing[q].agent
SilentAlone == \A a \in Ids : Holds(a) /\ agents[a].silent # "no" => doing["comments"].at = "idle"
WorkerKept == doing["scheduler"].at \in SpawnPlaces => Holds(doing["scheduler"].agent)
ImplementorPhases == {"ready", "claimed", "review"}
ImplementorsInPhase == \A a \in Ids : LiveAs(a, "implementor") => task.status \in ImplementorPhases

\* A claimant that lost its slot and not its pane can still take the task with
\* it when it is done; the dispatcher starts nothing for such a claim.
Claimant == task.claimed_by # Nobody /\ agents[task.claimed_by].pane
Haunted == task.status = "claimed" /\ Claimant /\ ~Holds(task.claimed_by)
Staffing ==
    /\ FreshSpawns /\ SilentAlone /\ ClaimIsOurs /\ WorkerKept /\ ImplementorsInPhase
    /\ task.claimed_by # Nobody => agents[task.claimed_by].status # "absent"
    /\ Haunted => ~Spawning

\* What a task may still cost, before a human or a fault pays for more: the next
\* freeze of an implementor needs a task that can be worked on, that of a
\* reviewer one that sits there, that of a fixer a round that can get one.
One(b) == IF b THEN 1 ELSE 0
InFlight == doing["comments"].at \in {"inserted", "running"}
CanRun == task.status # "pending_approval" \/ Claimant
Usurped == task.status = "claimed" /\ Claimant /\ \E a \in Ids : Holds(a) /\ a # task.claimed_by
Debt == InFlight \/ Usurped
Sits == \E a \in Ids : /\ LiveAs(a, "reviewer")
                       /\ ~(doing["dispatcher"].at \in {"inserted", "running"} /\ doing["dispatcher"].agent = a)
Cr == task.status = "changes_requested"
ImplDues == One(CanRun) + One(Debt)
FixDues == One(Sits) + One(Cr) + One(InFlight)
Frozen(role, r) == ctx.frozen[<<role, r>>]
ImplBudget == /\ Frozen("implementor", 0) + ImplDues <= RespawnCap + 1 + human
              /\ ImplDues <= 1 + human
RevBudget == \A r \in Rounds :
    Frozen("reviewer", r) + (IF r = task.rounds THEN One(Sits) ELSE 0) <= 1 + faults
FixBudget ==
    /\ \A r \in Rounds :
           Frozen("fixer", r) + (IF r = task.rounds THEN FixDues ELSE 0) <= RespawnCap + 1 + faults + human
    /\ FixDues <= 1 + faults + human
Later == \A r \in Rounds : r > task.rounds => Frozen("reviewer", r) = 0 /\ Frozen("fixer", r) = 0
Credit == /\ InFlight => human >= 1
          /\ ToReviewer => One(Cr) + One(InFlight) <= human
Accounts == ImplBudget /\ RevBudget /\ FixBudget /\ Later /\ Credit
Budgeted == Staffing /\ Accounts

\* Where a goroutine was before a steady step.
LEMMA Unhurried ==
    ASSUME TypeOK, Steady
    PROVE  /\ \A p \in Loops : doing'[p].at = "inserted" => doing'[p] = doing[p]
           /\ \A p \in Loops : doing'[p].at \in SpawnPlaces =>
                  doing[p].at \in SpawnPlaces /\ doing'[p].agent = doing[p].agent
           /\ doing["comments"].at = "idle" => doing'["comments"].at = "idle"
           /\ InFlight' => InFlight
  <1>1. \A p \in Loops : doing'[p].at = "inserted" => doing'[p] = doing[p]
    BY DEF Steady, Onward, Sweeps, Idle, Unplaced
  <1>2. \A p \in Loops : doing'[p].at \in SpawnPlaces =>
            doing[p].at \in SpawnPlaces /\ doing'[p].agent = doing[p].agent
    <2> SUFFICES ASSUME NEW p \in Loops, doing'[p].at \in SpawnPlaces
                 PROVE  doing[p].at \in SpawnPlaces /\ doing'[p].agent = doing[p].agent
      OBVIOUS
    <2>1. doing'[p] = doing[p] \/ Onward(p)
      BY DEF Steady, Sweeps, Idle, SpawnPlaces
    <2>2. doing[p].at \in {"idle", "wants_reviewer", "wants_fixer", "claimed", "inserted",
                "running", "prompted", "bumped", "recorded", "fix_claimed", "swept", "dropped"}
      BY DEF TypeOK, Doing
    <2> QED BY <2>1, <2>2 DEF Onward, SpawnPlaces, Unplaced
  <1>3. doing["comments"].at = "idle" => doing'["comments"].at = "idle"
    BY DEF Steady, Onward, Sweeps, Idle, Unplaced, Loops
  <1>4. InFlight' => InFlight
    <2>1. doing'["comments"] = doing["comments"] \/ doing'["comments"] = Idle \/ Onward("comments")
      BY DEF Steady, Sweeps, Loops
    <2> QED BY <2>1 DEF InFlight, Onward, Idle
  <1> QED BY <1>1, <1>2, <1>3, <1>4

\* A step that makes nobody a holder, nobody silent and gives no claim.
LEMMA StaffStays ==
    ASSUME PipeIInv, Staffing, Tame, Steady, task'.claimed_by \in {task.claimed_by, Nobody},
           task'.status = "ready" => task'.claimed_by = Nobody,
           SchedulerAt' => task'.status = "claimed" /\ task'.claimed_by = Nobody,
           doing'["scheduler"].at \in SpawnPlaces =>
               \A a \in Ids : Holds(a) /\ a = doing["scheduler"].agent => Holds(a)',
           \/ task'.status \in ImplementorPhases \/ task.status \notin ImplementorPhases \/ SlotFree',
           Haunted' /\ Spawning' => Haunted
    PROVE  Staffing'
  <1>0. /\ TypeOK /\ PipeTyped
        /\ \A p \in Loops : doing[p].at \notin Unplaced => doing[p].agent \in Ids
    BY Rows
  <1>1. /\ \A p \in Loops : doing'[p].at = "inserted" => doing'[p] = doing[p]
        /\ \A p \in Loops : doing'[p].at \in SpawnPlaces =>
                  doing[p].at \in SpawnPlaces /\ doing'[p].agent = doing[p].agent
        /\ doing["comments"].at = "idle" => doing'["comments"].at = "idle"
    BY <1>0, Unhurried
  <1>2. \A a \in Ids : /\ Holds(a)' => Holds(a)
                       /\ agents'[a].role = agents[a].role
                       /\ agents'[a].silent \in {agents[a].silent, "no"}
                       /\ agents[a].status # "absent" => agents'[a].status # "absent"
    BY DEF Tame, RowsKept, Holds
  <1>3. FreshSpawns'
    <2> SUFFICES ASSUME NEW p \in Loops, doing'[p].at = "inserted"
                 PROVE  /\ agents'[doing'[p].agent].silent = "no" /\ agents'[doing'[p].agent].role \in SpawnsAs[p]
                        /\ doing'[p].agent # task'.claimed_by
                        /\ \A q \in Loops \ {p} : doing'[q].at \in SpawnPlaces => doing'[p].agent # doing'[q].agent
      BY DEF FreshSpawns
    <2>1. doing'[p] = doing[p] /\ doing[p].agent \in Ids /\ doing[p].at = "inserted"
      BY <1>0, <1>1 DEF Unplaced
    <2>2. /\ agents[doing[p].agent].silent = "no" /\ agents[doing[p].agent].role \in SpawnsAs[p]
          /\ doing[p].agent # task.claimed_by
          /\ \A q \in Loops \ {p} : doing[q].at \in SpawnPlaces => doing[p].agent # doing[q].agent
      BY <2>1 DEF Staffing, FreshSpawns
    <2>3. doing[p].agent # Nobody  BY <2>1 DEF Ids, Nobody
    <2> QED BY <1>1, <1>2, <2>1, <2>2, <2>3
  <1>4. SilentAlone'  BY <1>1, <1>2 DEF Staffing, SilentAlone
  <1>5. ClaimIsOurs'
    <2>1. SchedulerAt' => /\ SchedulerAt /\ doing'["scheduler"].agent = doing["scheduler"].agent
                          /\ doing'["scheduler"].at = "claimed" => doing["scheduler"].at = "claimed"
      BY <1>0, SteadyPlaces DEF PipeTyped, TypeOK, Tame
    <2> QED BY <1>2, <2>1 DEF Staffing, ClaimIsOurs
  <1>6. WorkerKept'
    <2> SUFFICES ASSUME doing'["scheduler"].at \in SpawnPlaces
                 PROVE  Holds(doing["scheduler"].agent)' /\ doing'["scheduler"].agent = doing["scheduler"].agent
      BY DEF WorkerKept, Holds
    <2>1. /\ doing["scheduler"].at \in SpawnPlaces
          /\ doing'["scheduler"].agent = doing["scheduler"].agent
      BY <1>1 DEF Loops
    <2>2. doing["scheduler"].agent \in Ids
      BY <1>0, <2>1 DEF Loops, SpawnPlaces, Unplaced
    <2> QED BY <2>1, <2>2 DEF Staffing, WorkerKept, Holds
  <1>7. ImplementorsInPhase'  BY <1>2 DEF Staffing, ImplementorsInPhase, LiveAs, SlotFree
  <1>8. task'.claimed_by # Nobody => agents'[task'.claimed_by].status # "absent"
    <2>1. task.claimed_by \in Ids \cup {Nobody}  BY <1>0 DEF TypeOK, TaskRow
    <2> QED BY <1>2, <2>1 DEF Staffing
  <1>9. Haunted' => ~Spawning'
    <2>1. Spawning' => Spawning  BY <1>0, SteadyPlaces DEF PipeTyped, TypeOK, Tame
    <2> QED BY <2>1 DEF Staffing
  <1> QED BY <1>3, <1>4, <1>5, <1>6, <1>7, <1>8, <1>9 DEF Staffing

\* One counts a condition as zero or one.
LEMMA Ones ==
    /\ \A b \in BOOLEAN : One(b) \in {0, 1}
    /\ One(Sits) \in {0, 1} /\ One(Sits)' \in {0, 1} /\ One(Cr) \in {0, 1} /\ One(Cr)' \in {0, 1}
    /\ One(InFlight) \in {0, 1} /\ One(InFlight)' \in {0, 1}
    /\ One(CanRun) \in {0, 1} /\ One(CanRun)' \in {0, 1} /\ One(Debt) \in {0, 1} /\ One(Debt)' \in {0, 1}
  BY DEF One

\* What is due is a number.
LEMMA DuesAre ==
    /\ ImplDues \in Nat /\ ImplDues' \in Nat /\ FixDues \in Nat /\ FixDues' \in Nat
    /\ One(Sits) \in Nat /\ One(Sits)' \in Nat
  <1>1. ImplDues \in Nat  BY Ones DEF ImplDues
  <1>2. ImplDues' \in Nat  BY Ones DEF ImplDues
  <1>3. FixDues \in Nat  BY Ones DEF FixDues
  <1>4. FixDues' \in Nat  BY Ones DEF FixDues
  <1> QED BY <1>1, <1>2, <1>3, <1>4, Ones

\* Counts of freezes are numbers.
LEMMA FrozenAre ==
    ASSUME NEW c \in Ctx, NEW role \in {"implementor", "reviewer", "fixer"}, NEW r \in Rounds
    PROVE  c.frozen[<<role, r>>] \in Nat
  BY DEF Ctx

\* What a step may do to each budget: pay for what becomes due, or freeze one agent
\* on what was due or on a respawn that is left.
LEMMA ImplPaid ==
    ASSUME TypeOK, ImplBudget, NEW h \in Nat, human' = human + h,
           \/ /\ Frozen("implementor", 0)' = Frozen("implementor", 0)
              /\ ImplDues' <= ImplDues + h
           \/ /\ Frozen("implementor", 0)' = Frozen("implementor", 0) + 1
              /\ \/ Frozen("implementor", 0) < RespawnCap /\ ImplDues' <= ImplDues
                 \/ ImplDues' + 1 <= ImplDues
    PROVE  ImplBudget'
  <1>0. human \in Nat /\ RespawnCap \in Nat /\ 0 \in Rounds
    BY PipelineAssumption DEF TypeOK, Rounds
  <1>1. PICK n \in Nat, i \in Nat, j \in Nat :
           Frozen("implementor", 0) = n /\ ImplDues = i /\ ImplDues' = j
    BY <1>0, DuesAre, FrozenAre DEF TypeOK, Frozen
  <1>2. n + i <= RespawnCap + 1 + human /\ i <= 1 + human  BY <1>1 DEF ImplBudget
  <1>3. PICK m \in Nat : /\ Frozen("implementor", 0)' = m
                         /\ \/ m = n /\ j <= i + h
                            \/ m = n + 1 /\ ((n < RespawnCap /\ j <= i) \/ j + 1 <= i)
    BY <1>1
  <1>4. m + j <= RespawnCap + 1 + (human + h) /\ j <= 1 + (human + h)
    BY <1>0, <1>2, <1>3
  <1> QED BY <1>1, <1>3, <1>4 DEF ImplBudget

LEMMA RevPaid ==
    ASSUME TypeOK, RevBudget, NEW f \in Nat, faults' = faults + f, task'.rounds = task.rounds,
           \A r \in Rounds :
               \/ /\ Frozen("reviewer", r)' = Frozen("reviewer", r)
                  /\ One(Sits)' <= One(Sits) + f
               \/ /\ Frozen("reviewer", r)' = Frozen("reviewer", r) + 1 /\ r = task.rounds
                  /\ One(Sits)' + 1 <= One(Sits)
    PROVE  RevBudget'
  <1>0. faults \in Nat  BY PipelineAssumption DEF TypeOK
  <1> SUFFICES ASSUME NEW r \in Rounds
               PROVE  Frozen("reviewer", r)' + (IF r = task'.rounds THEN One(Sits)' ELSE 0) <= 1 + faults'
    BY DEF RevBudget
  <1>1. PICK n \in Nat, s \in Nat, t \in Nat :
           Frozen("reviewer", r) = n /\ One(Sits) = s /\ One(Sits)' = t
    BY DuesAre, FrozenAre DEF TypeOK, Frozen
  <1>2. n + (IF r = task.rounds THEN s ELSE 0) <= 1 + faults  BY <1>1 DEF RevBudget
  <1>3. PICK m \in Nat : /\ Frozen("reviewer", r)' = m
                         /\ \/ m = n /\ t <= s + f
                            \/ m = n + 1 /\ r = task.rounds /\ t + 1 <= s
    BY <1>1
  <1>4. m + (IF r = task.rounds THEN t ELSE 0) <= 1 + (faults + f)  BY <1>0, <1>2, <1>3
  <1> QED BY <1>1, <1>3, <1>4

LEMMA FixPaid ==
    ASSUME TypeOK, FixBudget, NEW h \in Nat, NEW f \in Nat, human' = human + h, faults' = faults + f,
           task'.rounds = task.rounds,
           \A r \in Rounds :
               \/ /\ Frozen("fixer", r)' = Frozen("fixer", r)
                  /\ FixDues' <= FixDues + h + f
               \/ /\ Frozen("fixer", r)' = Frozen("fixer", r) + 1 /\ r = task.rounds
                  /\ \/ Frozen("fixer", r) < RespawnCap /\ FixDues' <= FixDues
                     \/ FixDues' + 1 <= FixDues
    PROVE  FixBudget'
  <1>0. human \in Nat /\ faults \in Nat /\ RespawnCap \in Nat /\ 0 \in Rounds
    BY PipelineAssumption DEF TypeOK, Rounds
  <1>1. PICK x \in Nat, y \in Nat : FixDues = x /\ FixDues' = y  BY DuesAre
  <1>2. x <= 1 + faults + human  BY <1>1 DEF FixBudget
  <1>3. y <= x + h + f  BY <1>0, <1>1
  <1>4. y <= 1 + (faults + f) + (human + h)  BY <1>0, <1>2, <1>3
  <1>5. ASSUME NEW r \in Rounds
        PROVE  Frozen("fixer", r)' + (IF r = task'.rounds THEN FixDues' ELSE 0)
                   <= RespawnCap + 1 + faults' + human'
    <2>1. PICK n \in Nat : Frozen("fixer", r) = n  BY FrozenAre DEF TypeOK, Frozen
    <2>2. n + (IF r = task.rounds THEN x ELSE 0) <= RespawnCap + 1 + faults + human
      BY <1>1, <2>1 DEF FixBudget
    <2>3. PICK m \in Nat : /\ Frozen("fixer", r)' = m
                           /\ \/ m = n
                              \/ m = n + 1 /\ r = task.rounds /\ ((n < RespawnCap /\ y <= x) \/ y + 1 <= x)
      BY <1>1, <2>1
    <2>4. m + (IF r = task.rounds THEN y ELSE 0) <= RespawnCap + 1 + (faults + f) + (human + h)
      BY <1>0, <1>2, <1>3, <2>2, <2>3
    <2> QED BY <1>1, <2>3, <2>4
  <1> QED BY <1>1, <1>4, <1>5 DEF FixBudget

\* Nobody freezes and no round begins; humans and faults pay what is due.
LEMMA Thrift ==
    ASSUME TypeOK, Accounts, NEW h \in Nat, NEW f \in Nat, human' = human + h, faults' = faults + f,
           ctx'.frozen = ctx.frozen, task'.rounds = task.rounds,
           ImplDues' <= ImplDues + h, One(Sits)' <= One(Sits) + f, FixDues' <= FixDues + h + f, Credit'
    PROVE  Accounts'
  <1>1. \A role \in {"implementor", "reviewer", "fixer"}, r \in Rounds :
           Frozen(role, r)' = Frozen(role, r)
    BY DEF Frozen
  <1>2. 0 \in Rounds  BY PipelineAssumption DEF Rounds
  <1>3. ImplBudget'  BY <1>1, <1>2, ImplPaid DEF Accounts
  <1>4. RevBudget'  BY <1>1, RevPaid DEF Accounts
  <1>5. FixBudget'  BY <1>1, FixPaid DEF Accounts
  <1>6. Later'  BY <1>1 DEF Accounts, Later
  <1> QED BY <1>3, <1>4, <1>5, <1>6 DEF Accounts

\* A step after which no more is asked for keeps what humans paid for.
LEMMA CreditStays ==
    ASSUME TypeOK, Credit, human' = human, Cr' => Cr, InFlight' => InFlight, ToReviewer' => ToReviewer
    PROVE  Credit'
  <1>0. human \in Nat  BY PipelineAssumption DEF TypeOK
  <1>1. InFlight' => human' >= 1  BY DEF Credit
  <1>2. ToReviewer' => One(Cr)' + One(InFlight)' <= human'
    <2> SUFFICES ASSUME ToReviewer' PROVE One(Cr)' + One(InFlight)' <= human'
      OBVIOUS
    <2>1. One(Cr) + One(InFlight) <= human  BY DEF Credit
    <2>2. PICK c \in Nat, i \in Nat : One(Cr)' = c /\ One(InFlight)' = i  BY Ones
    <2>3. c <= One(Cr) /\ i <= One(InFlight)  BY <2>2 DEF One
    <2>4. c + i <= human  BY <1>0, <2>1, <2>2, <2>3, Ones
    <2> QED BY <2>2, <2>4
  <1> QED BY <1>1, <1>2 DEF Credit

\* So does a step after which no more is due keep every budget.
LEMMA Frugal ==
    ASSUME TypeOK, Accounts, UNCHANGED <<faults, human>>, ctx'.frozen = ctx.frozen,
           task'.rounds = task.rounds, CanRun' => CanRun, Debt' => Debt, Sits' => Sits, Cr' => Cr,
           InFlight' => InFlight, ToReviewer' => ToReviewer
    PROVE  Accounts'
  <1>0. human \in Nat /\ faults \in Nat  BY PipelineAssumption DEF TypeOK
  <1>1. /\ One(CanRun)' <= One(CanRun) /\ One(Debt)' <= One(Debt) /\ One(Sits)' <= One(Sits)
        /\ One(Cr)' <= One(Cr) /\ One(InFlight)' <= One(InFlight)
    BY DEF One
  <1>2. ImplDues' <= ImplDues  BY <1>1, Ones DEF ImplDues
  <1>3. FixDues' <= FixDues  BY <1>1, Ones DEF FixDues
  <1>4. Credit'  BY CreditStays DEF Accounts
  <1>5. /\ human' = human + 0 /\ faults' = faults + 0 /\ ImplDues' <= ImplDues + 0
        /\ One(Sits)' <= One(Sits) + 0 /\ FixDues' <= FixDues + 0 + 0
    BY <1>0, <1>1, <1>2, <1>3, DuesAre
  <1> QED BY <1>4, <1>5, Thrift

\* A reviewer whose spawn is not through does not sit there yet.
LEMMA SitsStays ==
    ASSUME TypeOK, Steady, Tame,
           doing["dispatcher"].at \in {"inserted", "running"} =>
               \/ doing'["dispatcher"].at \in {"inserted", "running"}
               \/ \A a \in Ids : a = doing["dispatcher"].agent => ~LiveAs(a, "reviewer")'
    PROVE  Sits' => Sits
  <1> SUFFICES ASSUME NEW a \in Ids, LiveAs(a, "reviewer")',
                      ~(doing'["dispatcher"].at \in {"inserted", "running"} /\ doing'["dispatcher"].agent = a)
               PROVE  Sits
    BY DEF Sits
  <1>1. LiveAs(a, "reviewer")  BY DEF LiveAs, Holds, Tame, RowsKept
  <1>2. doing'["dispatcher"].at \in {"inserted", "running"} =>
           doing'["dispatcher"].agent = doing["dispatcher"].agent
    BY Unhurried DEF SpawnPlaces, Loops
  <1>3. ~(doing["dispatcher"].at \in {"inserted", "running"} /\ doing["dispatcher"].agent = a)
    BY <1>2
  <1> QED BY <1>1, <1>3 DEF Sits

\* No pane opens, and whoever loses the slot loses its pane.
Mild == \A a \in Ids : /\ agents'[a].pane => agents[a].pane
                       /\ Holds(a) /\ ~Holds(a)' => ~agents'[a].pane
LEMMA ClaimsStay ==
    ASSUME TypeOK, Tame, Mild, task'.claimed_by = task.claimed_by
    PROVE  /\ Claimant' => Claimant
           /\ task'.status = task.status => (Haunted' => Haunted) /\ (Usurped' => Usurped)
  <1>1. task.claimed_by # Nobody => task.claimed_by \in Ids  BY DEF TypeOK, TaskRow
  <1>2. Claimant' => Claimant  BY <1>1 DEF Claimant, Mild
  <1>3. task'.status = task.status => (Haunted' => Haunted)
    BY <1>1, <1>2 DEF Haunted, Claimant, Mild
  <1>4. task'.status = task.status => (Usurped' => Usurped)
    BY <1>1, <1>2 DEF Usurped, Tame, Holds
  <1> QED BY <1>2, <1>3, <1>4

\* A step that leaves the status, the claim, the round and the counts alone.
LEMMA Uneventful ==
    ASSUME PipeIInv, Budgeted, Tame, Mild, Steady, UNCHANGED <<faults, human>>, ctx'.frozen = ctx.frozen,
           task'.status = task.status, task'.rounds = task.rounds, task'.claimed_by = task.claimed_by,
           doing'["scheduler"].at \in SpawnPlaces =>
               \A a \in Ids : Holds(a) /\ a = doing["scheduler"].agent => Holds(a)',
           doing["dispatcher"].at \in {"inserted", "running"} =>
               \/ doing'["dispatcher"].at \in {"inserted", "running"}
               \/ \A a \in Ids : a = doing["dispatcher"].agent => ~LiveAs(a, "reviewer")'
    PROVE  Budgeted'
  <1>0. TypeOK /\ PipeTyped  BY Rows
  <1>1. /\ Claimant' => Claimant
        /\ Haunted' => Haunted
        /\ Usurped' => Usurped
    BY <1>0, ClaimsStay
  <1>2. SchedulerAt' => SchedulerAt  BY <1>0, SteadyPlaces DEF PipeTyped, TypeOK, Tame
  <1>3. ToReviewer' => ToReviewer  BY <1>0, SteadyPlaces DEF PipeTyped, TypeOK, Tame
  <1>4. Staffing'
    <2>1. /\ task'.status = "ready" => task'.claimed_by = Nobody
          /\ SchedulerAt' => task'.status = "claimed" /\ task'.claimed_by = Nobody
      BY <1>2 DEF Budgeted, Staffing, ClaimIsOurs
    <2> QED BY <1>1, <2>1, StaffStays DEF Budgeted
  <1>5. Sits' => Sits  BY <1>0, SitsStays
  <1>6. InFlight' => InFlight  BY <1>0, Unhurried
  <1>7. (CanRun' => CanRun) /\ (Debt' => Debt) /\ (Cr' => Cr)
    BY <1>1, <1>6 DEF CanRun, Debt, Cr
  <1>8. Accounts'  BY <1>0, <1>3, <1>5, <1>6, <1>7, Frugal DEF Budgeted
  <1> QED BY <1>4, <1>8 DEF Budgeted

\* What a steady step leaves of the goroutines' wishes.
LEMMA Wishes ==
    ASSUME PipeTyped, Tame, Steady
    PROVE  /\ ToReviewer' => ToReviewer
           /\ InFlight' => InFlight
           /\ SchedulerAt' => SchedulerAt
           /\ Spawning' => Spawning
  <1>1. Placed /\ RowsKept /\ doing \in [Loops -> Doing] /\ TypeOK
    BY DEF PipeTyped, TypeOK, Tame
  <1>2. InFlight' => InFlight  BY <1>1, Unhurried
  <1> QED BY <1>1, <1>2, SteadyPlaces

\* No reviewer comes to sit there by a step of another goroutine.
LEMMA SitsSame ==
    ASSUME TypeOK, Steady, Tame, doing'["dispatcher"] = doing["dispatcher"]
    PROVE  Sits' => Sits
  <1>1. \A a \in Ids : LiveAs(a, "reviewer")' => LiveAs(a, "reviewer")
    BY DEF LiveAs, Holds, Tame, RowsKept
  <1> QED BY <1>1 DEF Sits

\* A step that leaves the task alone, and takes the slot from no spawn under way.
LEMMA Inconspicuous ==
    ASSUME PipeIInv, Budgeted, Tame, Mild, Steady, UNCHANGED <<task, faults, human>>,
           ctx'.frozen = ctx.frozen,
           \/ doing'["dispatcher"] = doing["dispatcher"]
           \/ doing["dispatcher"].at \notin {"inserted", "running"}
           \/ agents[doing["dispatcher"].agent].role # "reviewer",
           \/ \A a \in Ids : Holds(a) => Holds(a)'
           \/ doing'["scheduler"].at \notin SpawnPlaces
    PROVE  Budgeted'
  <1>1. doing'["scheduler"].at \in SpawnPlaces =>
            \A a \in Ids : Holds(a) /\ a = doing["scheduler"].agent => Holds(a)'
    OBVIOUS
  <1>2. doing["dispatcher"].at \in {"inserted", "running"} =>
            \/ doing'["dispatcher"].at \in {"inserted", "running"}
            \/ \A a \in Ids : a = doing["dispatcher"].agent => ~LiveAs(a, "reviewer")'
    BY DEF LiveAs, Tame, RowsKept
  <1>3. /\ task'.status = task.status /\ task'.rounds = task.rounds
        /\ task'.claimed_by = task.claimed_by /\ UNCHANGED <<faults, human>>
    OBVIOUS
  <1> QED BY <1>1, <1>2, <1>3, Uneventful

\* A spawn begins: of a claim, of a listed task, or of a comment, which pays.
LEMMA SpawnBudgeted ==
    ASSUME PipeIInv, Budgeted, NEW p \in Loops, NEW role \in SpawnsAs[p], NEW a \in Ids, Inserts(a, role),
           doing' \in [Loops -> Doing], doing'[p].at = "inserted", doing'[p].agent = a,
           \A q \in Loops : q # p => doing'[q] = doing[q],
           UNCHANGED <<task, ctx, faults>>,
           p = "scheduler" => doing[p].at = "claimed" /\ human' = human,
           p = "dispatcher" => /\ human' = human
                               /\ \/ role = "reviewer" /\ doing[p].at = "wants_reviewer"
                                  \/ role = "fixer" /\ doing[p].at = "wants_fixer",
           p = "comments" => doing[p].at = "idle" /\ human' = human + 1
    PROVE  Budgeted'
  <1>r. /\ role \in {"implementor", "reviewer", "fixer"}
        /\ role = "implementor" => p = "scheduler"
        /\ role = "reviewer" => p = "dispatcher"
    <2>1. /\ SpawnsAs["scheduler"] = {"implementor"} /\ SpawnsAs["dispatcher"] = {"reviewer", "fixer"}
          /\ SpawnsAs["comments"] = {"fixer"}
      BY DEF SpawnsAs
    <2> QED BY <2>1 DEF Loops
  <1>0. /\ TypeOK /\ PipeTyped /\ SlotFree /\ doing[p].at \in Unplaced
        /\ \A q \in Loops : doing[q].at \notin Unplaced =>
               doing[q].agent \in Ids /\ agents[doing[q].agent].status # "absent"
    BY Rows DEF Inserts, Unplaced, Loops
  <1>1. /\ agents' \in [Ids -> AgentRow]
        /\ agents'[a].role = role /\ agents'[a].status = "stopped" /\ agents'[a].silent = "no"
        /\ agents'[a].bound /\ agents[a].status = "absent"
        /\ \A b \in Ids : b # a => agents'[b] = agents[b] /\ ~Holds(b)'
    BY <1>0, <1>r, Inserted
  <1>2. \A q \in Loops : q # p /\ doing[q].at \in SpawnPlaces =>
           doing[q].agent \in Ids /\ doing[q].agent # a
    BY <1>0, <1>1 DEF SpawnPlaces, Unplaced
  <1>3. task.claimed_by # Nobody => /\ task.claimed_by \in Ids /\ task.claimed_by # a
                                    /\ agents'[task.claimed_by] = agents[task.claimed_by]
    BY <1>0, <1>1 DEF Budgeted, Staffing, TypeOK, TaskRow
  <1>c. a # task.claimed_by  BY <1>3 DEF Ids, Nobody
  <1>4. Claimant' <=> Claimant  BY <1>3 DEF Claimant
  <1>5. Haunted' => Haunted  BY <1>0, <1>3, <1>4 DEF Haunted, Claimant, SlotFree
  <1>6. Haunted' => p # "dispatcher" /\ ~Spawning'
    BY <1>5 DEF Budgeted, Staffing, Spawning, Loops
  <1>s. p = "scheduler" => SchedulerAt /\ task.status = "claimed" /\ task.claimed_by = Nobody
    BY DEF Budgeted, Staffing, ClaimIsOurs, SchedulerAt
  <1>7. FreshSpawns'
    <2> SUFFICES ASSUME NEW q \in Loops, doing'[q].at = "inserted"
                 PROVE  /\ agents'[doing'[q].agent].silent = "no" /\ agents'[doing'[q].agent].role \in SpawnsAs[q]
                        /\ doing'[q].agent # task'.claimed_by
                        /\ \A t \in Loops \ {q} : doing'[t].at \in SpawnPlaces => doing'[q].agent # doing'[t].agent
      BY DEF FreshSpawns
    <2>1. CASE q = p  BY <1>1, <1>2, <1>c, <2>1
    <2>2. CASE q # p
      <3>1. doing'[q] = doing[q] /\ doing[q].at = "inserted"  BY <2>2
      <3>2. doing[q].agent \in Ids /\ doing[q].agent # a /\ agents'[doing[q].agent] = agents[doing[q].agent]
        BY <1>1, <1>2, <2>2, <3>1 DEF SpawnPlaces
      <3>3. /\ agents[doing[q].agent].silent = "no" /\ agents[doing[q].agent].role \in SpawnsAs[q]
            /\ doing[q].agent # task.claimed_by
            /\ \A t \in Loops \ {q} : doing[t].at \in SpawnPlaces => doing[q].agent # doing[t].agent
        BY <3>1 DEF Budgeted, Staffing, FreshSpawns
      <3> QED BY <3>1, <3>2, <3>3
    <2> QED BY <2>1, <2>2
  <1>8. SilentAlone'  BY <1>1 DEF SilentAlone
  <1>9. ClaimIsOurs'
    <2>1. \A b \in Ids : Holds(b)' => b = a  BY <1>1
    <2>2. CASE p = "scheduler"  BY <1>s, <2>1, <2>2 DEF ClaimIsOurs
    <2>3. CASE p # "scheduler"
      <3>1. doing'["scheduler"] = doing["scheduler"]  BY <2>3 DEF Loops
      <3>2. ClaimIsOurs  BY DEF Budgeted, Staffing
      <3> QED BY <1>1, <1>r, <2>1, <2>3, <3>1, <3>2 DEF ClaimIsOurs, SchedulerAt
    <2> QED BY <2>2, <2>3
  <1>10. WorkerKept'
    <2>1. CASE p = "scheduler"  BY <1>1, <2>1 DEF WorkerKept, Holds
    <2>2. CASE p # "scheduler"
      <3>1. doing'["scheduler"] = doing["scheduler"]  BY <2>2 DEF Loops
      <3>2. doing["scheduler"].at \in SpawnPlaces => doing["scheduler"].agent \in Ids
        BY <1>2, <2>2 DEF Loops
      <3> QED BY <1>0, <3>1, <3>2 DEF WorkerKept, Budgeted, Staffing, SlotFree
    <2> QED BY <2>1, <2>2
  <1>11. ImplementorsInPhase'
    BY <1>1, <1>r, <1>s DEF ImplementorsInPhase, LiveAs, ImplementorPhases
  <1>12. task'.claimed_by # Nobody => agents'[task'.claimed_by].status # "absent"
    BY <1>3 DEF Budgeted, Staffing
  <1>13. Staffing'
    BY <1>6, <1>7, <1>8, <1>9, <1>10, <1>11, <1>12 DEF Staffing
  <1>14. ~Sits'
    <2>1. \A b \in Ids : LiveAs(b, "reviewer")' => b = a /\ p = "dispatcher"
      BY <1>1, <1>r DEF LiveAs
    <2> QED BY <2>1 DEF Sits
  <1>15. (CanRun' <=> CanRun) /\ (Cr' <=> Cr)  BY <1>4 DEF CanRun, Cr
  <1>16. Usurped' => p = "comments"
    <2>1. Usurped' => Haunted'  BY <1>1, <1>3, <1>c DEF Usurped, Haunted, Claimant, Holds
    <2> QED BY <1>6, <1>s, <2>1 DEF Haunted, Claimant, Loops
  <1>17. (ToReviewer' => ToReviewer)
    <2>1. CASE p = "dispatcher"
      BY <1>1, <2>1 DEF ToReviewer, Towards
    <2>2. CASE p # "dispatcher"
      <3>1. doing'["dispatcher"] = doing["dispatcher"]  BY <2>2 DEF Loops
      <3>2. doing["dispatcher"].at \in {"inserted", "running"} =>
               agents'[doing["dispatcher"].agent] = agents[doing["dispatcher"].agent]
        BY <1>1, <1>2, <2>2 DEF Loops, SpawnPlaces
      <3> QED BY <3>1, <3>2 DEF ToReviewer, Towards
    <2> QED BY <2>1, <2>2
  <1>18. CASE p # "comments"
    <2>1. UNCHANGED <<faults, human>>  BY <1>18 DEF Loops
    <2>2. InFlight' <=> InFlight  BY <1>18 DEF InFlight, Loops
    <2>3. Debt' => Debt  BY <1>16, <1>18, <2>2 DEF Debt
    <2>4. Accounts'  BY <1>0, <1>14, <1>15, <1>17, <2>1, <2>2, <2>3, Frugal DEF Budgeted
    <2> QED BY <1>13, <2>4 DEF Budgeted
  <1>19. CASE p = "comments"
    <2>1. human \in Nat /\ faults \in Nat /\ human' = human + 1 /\ faults' = faults + 0
      BY <1>0, <1>19, PipelineAssumption DEF TypeOK
    <2>2. ~InFlight  BY <1>19 DEF InFlight
    <2>3. One(Sits)' = 0 /\ One(CanRun)' = One(CanRun) /\ One(Cr)' = One(Cr) /\ One(InFlight) = 0
      BY <1>14, <1>15, <2>2 DEF One
    <2>4. ImplDues' <= ImplDues + 1  BY <2>3, Ones DEF ImplDues
    <2>5. FixDues' <= FixDues + 1 + 0
      <3>1. One(Cr) + One(InFlight)' <= One(Cr) + 1  BY Ones
      <3> QED BY <2>3, <3>1, Ones DEF FixDues
    <2>6. Credit'
      <3>1. InFlight' => human' >= 1  BY <2>1
      <3>2. ToReviewer' => One(Cr)' + One(InFlight)' <= human'
        <4> SUFFICES ASSUME ToReviewer' PROVE One(Cr)' + One(InFlight)' <= human'
          OBVIOUS
        <4>1. One(Cr) + 0 <= human  BY <1>17, <2>3 DEF Budgeted, Accounts, Credit
        <4>2. PICK c \in Nat, i \in {0, 1} : One(Cr) = c /\ One(InFlight)' = i  BY Ones
        <4>3. c + i <= human + 1  BY <2>1, <4>1, <4>2
        <4> QED BY <2>1, <2>3, <4>2, <4>3
      <3> QED BY <3>1, <3>2 DEF Credit
    <2>7. One(Sits)' <= One(Sits) + 0  BY <2>3, Ones
    <2>8. Accounts'  BY <1>0, <2>1, <2>4, <2>5, <2>6, <2>7, Thrift DEF Budgeted
    <2> QED BY <1>13, <2>8 DEF Budgeted
  <1> QED BY <1>18, <1>19

\* What the passes write counts a freeze only through Froze.
LEMMA FrozenKept ==
    ASSUME NEW c \in Ctx, NEW v \in {"none", "request_changes", "other"}
    PROVE  WithVerdict(c, v).frozen = c.frozen /\ NoFix(c).frozen = c.frozen
  <1> DEFINE r == c.rc \/ v = "request_changes"
             x == c.fix \ {task.rounds}
  <1>1. WithVerdict(c, v) = [c EXCEPT !.verdict = v, !.rc = r]  BY DEF WithVerdict
  <1>2. NoFix(c) = [c EXCEPT !.fix = x]  BY DEF NoFix
  <1> HIDE DEF r, x
  <1> QED BY <1>1, <1>2 DEF Ctx

\* The watchdogs count a freeze on the arm and round at hand and on no other.
LEMMA FrozeAdds ==
    ASSUME TypeOK, NEW role \in {"implementor", "reviewer", "fixer"}, NEW c, c = Froze(ctx, role)
    PROVE  /\ Arm(role) \in {"implementor", "reviewer", "fixer"} \X Rounds
           /\ c \in Ctx
           /\ \A r2 \in {"implementor", "reviewer", "fixer"}, r \in Rounds :
                  c.frozen[<<r2, r>>] = IF <<r2, r>> = Arm(role) THEN ctx.frozen[<<r2, r>>] + 1
                                                                 ELSE ctx.frozen[<<r2, r>>]
  <1> DEFINE K == {"implementor", "reviewer", "fixer"} \X Rounds
             k == Arm(role)
             n == ctx.frozen[k] + 1
             z == [ctx.frozen EXCEPT ![k] = n]
  <1>1. k \in K  BY PipelineAssumption DEF Arm, TypeOK, TaskRow, Rounds
  <1>2. ctx \in Ctx /\ ctx.frozen \in [K -> Nat]  BY DEF TypeOK, Ctx
  <1>3. c = [ctx EXCEPT !.frozen[k] = n]  BY DEF Froze
  <1>4. c \in Ctx /\ c.frozen = z
    <2>1. c = [ctx EXCEPT !.frozen = z]  BY <1>2, <1>3 DEF Ctx
    <2>2. z \in [K -> Nat]  BY <1>1, <1>2
    <2> HIDE DEF z, n, k
    <2> QED BY <1>2, <2>1, <2>2 DEF Ctx
  <1>5. \A r2 \in {"implementor", "reviewer", "fixer"}, r \in Rounds :
           z[<<r2, r>>] = IF <<r2, r>> = k THEN ctx.frozen[<<r2, r>>] + 1 ELSE ctx.frozen[<<r2, r>>]
    BY <1>1, <1>2
  <1> HIDE DEF z, n
  <1> QED BY <1>1, <1>4, <1>5

\* Less is due when no new reason for a freeze comes up.
LEMMA DuesFall ==
    /\ (CanRun' => CanRun) /\ (Debt' => Debt) => ImplDues' <= ImplDues
    /\ (Sits' => Sits) => One(Sits)' <= One(Sits)
    /\ (Sits' => Sits) /\ (Cr' => Cr) /\ (InFlight' => InFlight) => FixDues' <= FixDues
  <1>1. ASSUME CanRun' => CanRun, Debt' => Debt PROVE ImplDues' <= ImplDues
    <2>1. One(CanRun)' <= One(CanRun) /\ One(Debt)' <= One(Debt)  BY <1>1 DEF One
    <2> QED BY <2>1, Ones DEF ImplDues
  <1>2. ASSUME Sits' => Sits PROVE One(Sits)' <= One(Sits)
    BY <1>2 DEF One
  <1>3. ASSUME Sits' => Sits, Cr' => Cr, InFlight' => InFlight PROVE FixDues' <= FixDues
    <2>1. One(Sits)' <= One(Sits) /\ One(Cr)' <= One(Cr) /\ One(InFlight)' <= One(InFlight)
      BY <1>3 DEF One
    <2> QED BY <2>1, Ones DEF FixDues
  <1> QED BY <1>1, <1>2, <1>3

\* A watchdog counts a freeze.
LEMMA FreezePaid ==
    ASSUME TypeOK, Accounts, UNCHANGED <<faults, human>>, task'.rounds = task.rounds,
           NEW role \in {"implementor", "reviewer", "fixer"}, ctx'.frozen = Froze(ctx, role).frozen,
           ImplDues' <= ImplDues, One(Sits)' <= One(Sits), FixDues' <= FixDues, Credit',
           role = "implementor" => Spent(role) < RespawnCap \/ ImplDues' + 1 <= ImplDues,
           role = "reviewer" => One(Sits)' + 1 <= One(Sits),
           role = "fixer" => Spent(role) < RespawnCap \/ FixDues' + 1 <= FixDues
    PROVE  Accounts'
  <1>0. /\ human \in Nat /\ faults \in Nat /\ human' = human + 0 /\ faults' = faults + 0
        /\ 0 \in Rounds /\ task.rounds \in Rounds
    BY PipelineAssumption DEF TypeOK, TaskRow, Rounds
  <1>1. \A r2 \in {"implementor", "reviewer", "fixer"}, r \in Rounds :
           Frozen(r2, r)' = IF <<r2, r>> = Arm(role) THEN Frozen(r2, r) + 1 ELSE Frozen(r2, r)
    BY FrozeAdds DEF Frozen
  <1>2. \A r2 \in {"implementor", "reviewer", "fixer"}, r \in Rounds :
           <<r2, r>> = Arm(role) <=> /\ r2 = role
                                     /\ r = IF role = "implementor" THEN 0 ELSE task.rounds
    BY DEF Arm
  <1>3. Spent(role) = IF role = "implementor" THEN Frozen(role, 0) ELSE Frozen(role, task.rounds)
    BY DEF Spent, Arm, Frozen
  <1>4. ImplDues' <= ImplDues + 0 /\ One(Sits)' <= One(Sits) + 0 /\ FixDues' <= FixDues + 0 + 0
    BY DuesAre
  <1>5. ImplBudget'
    <2>1. CASE role = "implementor"
      <3>1. Frozen("implementor", 0)' = Frozen("implementor", 0) + 1  BY <1>0, <1>1, <1>2, <2>1
      <3> QED BY <1>0, <1>3, <2>1, <3>1, ImplPaid DEF Accounts
    <2>2. CASE role # "implementor"
      <3>1. Frozen("implementor", 0)' = Frozen("implementor", 0)  BY <1>0, <1>1, <1>2, <2>2
      <3> QED BY <1>0, <1>4, <3>1, ImplPaid DEF Accounts
    <2> QED BY <2>1, <2>2
  <1>6. RevBudget'
    <2>1. CASE role = "reviewer"
      <3>1. \A r \in Rounds : /\ r = task.rounds => Frozen("reviewer", r)' = Frozen("reviewer", r) + 1
                              /\ r # task.rounds => Frozen("reviewer", r)' = Frozen("reviewer", r)
        BY <1>1, <1>2, <2>1
      <3> QED BY <1>0, <1>4, <2>1, <3>1, RevPaid DEF Accounts
    <2>2. CASE role # "reviewer"
      <3>1. \A r \in Rounds : Frozen("reviewer", r)' = Frozen("reviewer", r)  BY <1>1, <1>2, <2>2
      <3> QED BY <1>0, <1>4, <3>1, RevPaid DEF Accounts
    <2> QED BY <2>1, <2>2
  <1>7. FixBudget'
    <2>1. CASE role = "fixer"
      <3>1. \A r \in Rounds : /\ r = task.rounds => Frozen("fixer", r)' = Frozen("fixer", r) + 1
                              /\ r # task.rounds => Frozen("fixer", r)' = Frozen("fixer", r)
        BY <1>1, <1>2, <2>1
      <3>2. Frozen("fixer", task.rounds) < RespawnCap \/ FixDues' + 1 <= FixDues  BY <1>3, <2>1
      <3> QED BY <1>0, <1>4, <2>1, <3>1, <3>2, FixPaid DEF Accounts
    <2>2. CASE role # "fixer"
      <3>1. \A r \in Rounds : Frozen("fixer", r)' = Frozen("fixer", r)  BY <1>1, <1>2, <2>2
      <3> QED BY <1>0, <1>4, <3>1, FixPaid DEF Accounts
    <2> QED BY <2>1, <2>2
  <1>8. Later'
    <2> SUFFICES ASSUME NEW r \in Rounds, r > task.rounds
                 PROVE  Frozen("reviewer", r)' = 0 /\ Frozen("fixer", r)' = 0
      BY DEF Later
    <2>1. r # task.rounds  BY <1>0, PipelineAssumption DEF Rounds
    <2>2. /\ Frozen("reviewer", r)' = Frozen("reviewer", r)
          /\ Frozen("fixer", r)' = Frozen("fixer", r)
      BY <1>1, <1>2, <2>1
    <2> QED BY <2>2 DEF Accounts, Later
  <1> QED BY <1>5, <1>6, <1>7, <1>8 DEF Accounts

\* A pass that retires the holder leaves the slot free and its pane closed.
LEMMA RetiredMild ==
    ASSUME PipeTyped, NEW a \in Ids, Holds(a), Retire(a)
    PROVE  /\ Tame /\ Mild /\ SlotFree' /\ ~agents'[a].pane
           /\ \A b \in Ids : b # a => agents'[b] = agents[b]
  <1> DEFINE r == Dead(agents[a], FALSE)
  <1>1. r.pane = FALSE  BY DEF Dead, NoAgent
  <1>2. agents' = [agents EXCEPT ![a] = r] /\ agents \in [Ids -> AgentRow]
    BY DEF Retire, PipeTyped, TypeOK
  <1> HIDE DEF r
  <1>3. agents'[a] = r /\ \A b \in Ids : b # a => agents'[b] = agents[b]
    BY <1>2
  <1>4. Mild  BY <1>1, <1>3 DEF Mild, Holds
  <1> QED BY <1>1, <1>3, <1>4, Retired

\* The scheduler: an implementor is due for the status it claims the task in.
LEMMA SchedulerBudgeted == PipeIInv /\ Budgeted /\ Scheduler => Budgeted'
  <1> SUFFICES ASSUME PipeIInv, Budgeted, Scheduler PROVE Budgeted'
    OBVIOUS
  <1> USE DEF At
  <1>t. /\ PipeTyped /\ TypeOK /\ task \in TaskRow /\ agents \in [Ids -> AgentRow] /\ ctx \in Ctx
        /\ \A p \in Loops : doing[p].at \notin Unplaced =>
               doing[p].agent \in Ids /\ agents[doing[p].agent].status # "absent"
    BY Rows
  <1>b. /\ Staffing /\ Accounts /\ ClaimIsOurs /\ FreshSpawns /\ SilentAlone /\ WorkerKept
        /\ ImplementorsInPhase
    BY DEF Budgeted, Staffing
  <1>1. CASE ClaimReady
    <2>0. /\ doing["scheduler"].at = "idle" /\ task.status = "ready" /\ UNCHANGED <<ctx, faults, human>>
          /\ task.claimed_by = Nobody
      BY <1>1, <1>b DEF ClaimReady, bounds, ClaimIsOurs
    <2>1. Tame /\ SlotFree'
      <3> DEFINE D == {a \in Ids : Holds(a)}
                 pane == [a \in Ids |-> agents[a].pane]
      <3>1. pane \in [Ids -> BOOLEAN]  BY <1>t DEF AgentRow
      <3>2. agents' = [a \in Ids |-> IF a \in D THEN Dead(agents[a], pane[a]) ELSE agents[a]]
        BY <1>1 DEF ClaimReady
      <3>3. D \in SUBSET Ids  OBVIOUS
      <3>4. Tame /\ \A a \in D : ~Holds(a)'
        <4> HIDE DEF D, pane
        <4> QED BY <1>t, <3>1, <3>2, <3>3, TameDeaths
      <3> QED BY <3>4 DEF SlotFree, Tame, Holds
    <2>2. task'.status = "claimed" /\ task'.rounds = task.rounds /\ task'.claimed_by = Nobody
      BY <1>1, <1>t, <2>0 DEF ClaimReady, TaskRow
    <2>3. /\ doing'["scheduler"].at = "claimed"
          /\ \A q \in Loops : q # "scheduler" => doing'[q] = doing[q]
      <3>1. Go("scheduler", "claimed")  BY <1>1 DEF ClaimReady
      <3> QED BY <1>t, <3>1, Went DEF Loops
    <2>4. Staffing'
      <3>1. FreshSpawns'
        <4> SUFFICES ASSUME NEW p \in Loops, doing'[p].at = "inserted"
                     PROVE  /\ agents'[doing'[p].agent].silent = "no" /\ agents'[doing'[p].agent].role \in SpawnsAs[p]
                            /\ doing'[p].agent # task'.claimed_by
                            /\ \A q \in Loops \ {p} : doing'[q].at \in SpawnPlaces => doing'[p].agent # doing'[q].agent
          BY DEF FreshSpawns
        <4>1. doing'[p] = doing[p] /\ doing[p].agent \in Ids /\ doing[p].at = "inserted"
          BY <1>t, <2>3 DEF Unplaced
        <4>2. doing[p].agent # Nobody  BY <4>1 DEF Ids, Nobody
        <4>3. \A q \in Loops : doing'[q].at \in SpawnPlaces => doing'[q] = doing[q]
          BY <2>3 DEF SpawnPlaces
        <4> QED BY <1>b, <2>1, <2>2, <4>1, <4>2, <4>3 DEF FreshSpawns, Tame, RowsKept
      <3>2. ClaimIsOurs'  BY <2>1, <2>2 DEF ClaimIsOurs, SlotFree
      <3>3. SilentAlone' /\ ImplementorsInPhase'
        BY <2>1 DEF SilentAlone, ImplementorsInPhase, LiveAs, SlotFree
      <3>4. WorkerKept'  BY <2>3 DEF WorkerKept, SpawnPlaces
      <3>5. ~Haunted'  BY <2>2 DEF Haunted, Claimant
      <3> QED BY <2>2, <3>1, <3>2, <3>3, <3>4, <3>5 DEF Staffing
    <2>5. ~Sits' /\ ~Cr' /\ ~Usurped'
      BY <2>1, <2>2 DEF Sits, Cr, Usurped, Claimant, SlotFree, LiveAs
    <2>6. InFlight' <=> InFlight  BY <2>3 DEF InFlight, Loops
    <2>7. ToReviewer' => ToReviewer
      <3>1. doing'["dispatcher"] = doing["dispatcher"]  BY <2>3 DEF Loops
      <3>2. doing["dispatcher"].at \in {"inserted", "running"} => doing["dispatcher"].agent \in Ids
        BY <1>t DEF Unplaced, Loops
      <3> QED BY <2>1, <3>1, <3>2 DEF ToReviewer, Towards, Tame, RowsKept
    <2>8. (CanRun' => CanRun) /\ (Debt' => Debt)  BY <2>0, <2>5, <2>6 DEF CanRun, Debt
    <2>9. Accounts'  BY <1>t, <1>b, <2>0, <2>2, <2>5, <2>6, <2>7, <2>8, Frugal
    <2> QED BY <2>4, <2>9 DEF Budgeted
  <1>2. CASE SpawnWorker
    <2>1. PICK a \in Ids : /\ Inserts(a, "implementor")
                           /\ doing' = [doing EXCEPT !["scheduler"].at = "inserted", !["scheduler"].agent = a]
      BY <1>2 DEF SpawnWorker, Insert, Inserts
    <2>2. /\ doing["scheduler"].at = "claimed" /\ UNCHANGED <<task, ctx, faults, human>>
      BY <1>2 DEF SpawnWorker, bounds
    <2>3. /\ doing' \in [Loops -> Doing] /\ doing'["scheduler"].at = "inserted"
          /\ doing'["scheduler"].agent = a /\ \A q \in Loops : q # "scheduler" => doing'[q] = doing[q]
      BY <1>t, <2>1, WentWith DEF Loops
    <2>4. "implementor" \in SpawnsAs["scheduler"]  BY DEF SpawnsAs
    <2> QED BY <2>1, <2>2, <2>3, <2>4, SpawnBudgeted DEF Loops
  <1>3. CASE SpawnWorkerBlocked
    <2>1. /\ Unclaim("scheduler") /\ Rest("scheduler") /\ UNCHANGED <<agents, ctx, faults, human>>
          /\ doing["scheduler"].at = "claimed"
      BY <1>3 DEF SpawnWorkerBlocked, bounds
    <2>2. task.status = "claimed" /\ task.claimed_by = Nobody
      BY <1>b, <2>1 DEF ClaimIsOurs, SchedulerAt
    <2>3. task'.rounds = task.rounds /\ task'.claimed_by = Nobody /\ task'.status \in {"claimed", "ready"}
      BY <1>t, <2>1, <2>2, Unclaimed DEF Loops
    <2>4. /\ Steady /\ doing'["scheduler"] = Idle
          /\ \A q \in Loops : q # "scheduler" => doing'[q] = doing[q]
      BY <1>t, <2>1, SteadyRest DEF Loops
    <2>5. Tame  BY <1>t, <2>1, TameSame
    <2>6. ~SchedulerAt' /\ doing'["scheduler"].at \notin SpawnPlaces
      BY <2>4 DEF SchedulerAt, Idle, SpawnPlaces
    <2>7. ~Haunted' /\ ~Usurped' /\ ~Cr'  BY <2>3 DEF Haunted, Usurped, Claimant, Cr
    <2>8. Staffing'
      BY <1>b, <2>2, <2>3, <2>4, <2>5, <2>6, <2>7, StaffStays DEF ImplementorPhases
    <2>9. Sits' => Sits
      BY <1>t, <2>4, <2>5, SitsSame DEF Loops
    <2>10. (InFlight' => InFlight) /\ (ToReviewer' => ToReviewer)
      BY <1>t, <2>4, <2>5, Wishes
    <2>11. (CanRun' => CanRun) /\ (Debt' => Debt)  BY <2>2, <2>7, <2>10 DEF CanRun, Debt
    <2>12. Accounts'  BY <1>t, <1>b, <2>1, <2>3, <2>7, <2>9, <2>10, <2>11, Frugal
    <2> QED BY <2>8, <2>12 DEF Budgeted
  <1>4. CASE EnqueueWork
    <2>1. /\ Go("scheduler", "prompted") /\ doing["scheduler"].at = "running"
          /\ UNCHANGED <<task, agents, ctx, faults, human>>
      BY <1>4 DEF EnqueueWork, bounds
    <2>2. "prompted" \in Places["scheduler"]  BY DEF Places
    <2>3. Steady /\ \A q \in Loops : q # "scheduler" => doing'[q] = doing[q]
      BY <1>t, <2>1, <2>2, SteadyGo DEF Loops, Unplaced
    <2>4. Tame /\ Mild  BY <1>t, <2>1, TameSame DEF Mild, Holds
    <2> QED BY <2>1, <2>3, <2>4, Inconspicuous DEF Loops, Holds
  <1>5. CASE SetClaimedBy
    <2> DEFINE w == doing["scheduler"].agent
    <2>1. /\ task' = [task EXCEPT !.claimed_by = w] /\ Rest("scheduler")
          /\ doing["scheduler"].at = "prompted" /\ UNCHANGED <<agents, ctx, faults, human>>
      BY <1>5 DEF SetClaimedBy, bounds
    <2>2. /\ w \in Ids /\ Holds(w) /\ agents[w].status # "absent"
          /\ task.status = "claimed"
      BY <1>t, <1>b, <2>1 DEF Loops, Unplaced, WorkerKept, SpawnPlaces, ClaimIsOurs, SchedulerAt
    <2>3. task'.rounds = task.rounds /\ task'.status = "claimed" /\ task'.claimed_by = w
      BY <1>t, <2>1, <2>2 DEF TaskRow
    <2>4. /\ Steady /\ doing'["scheduler"] = Idle
          /\ \A q \in Loops : q # "scheduler" => doing'[q] = doing[q]
      BY <1>t, <2>1, SteadyRest DEF Loops
    <2>5. \A p \in Loops : doing'[p].at \in SpawnPlaces => doing'[p] = doing[p] /\ p # "scheduler"
      BY <2>4 DEF Idle, SpawnPlaces
    <2>6. FreshSpawns'
      <3>1. "inserted" \in SpawnPlaces /\ "prompted" \in SpawnPlaces /\ "scheduler" \in Loops
        BY DEF SpawnPlaces, Loops
      <3>2. \A p \in Loops : doing'[p].at = "inserted" => /\ doing'[p] = doing[p]
                                                          /\ doing[p].agent # w
        BY <1>b, <2>1, <2>5, <3>1 DEF FreshSpawns
      <3> QED BY <1>b, <2>1, <2>3, <2>5, <3>2 DEF FreshSpawns
    <2>7. /\ SilentAlone' /\ ImplementorsInPhase' /\ WorkerKept' /\ ClaimIsOurs' /\ ~Haunted' /\ ~Usurped'
      <3>1. doing'["comments"] = doing["comments"] /\ doing'["scheduler"].at = "idle"
        BY <2>4 DEF Loops, Idle
      <3>2. \A a \in Ids : Holds(a)' <=> Holds(a)  BY <2>1 DEF Holds
      <3>3. SilentAlone'  BY <1>b, <2>1, <3>1, <3>2 DEF SilentAlone
      <3>4. ImplementorsInPhase'  BY <2>3 DEF ImplementorsInPhase, ImplementorPhases
      <3>5. WorkerKept'  BY <3>1 DEF WorkerKept, SpawnPlaces
      <3>6. ClaimIsOurs'  BY <2>3, <3>1 DEF ClaimIsOurs, SchedulerAt
      <3>7. ~Haunted'  BY <2>1, <2>2, <2>3 DEF Haunted, Holds
      <3>8. ~Usurped'
        BY <1>t, <2>2, <2>3, <3>2 DEF Usurped, PipeTyped, OneHolder
      <3> QED BY <3>3, <3>4, <3>5, <3>6, <3>7, <3>8
    <2>8. Staffing'
      BY <2>1, <2>2, <2>3, <2>6, <2>7 DEF Staffing
    <2>9. Tame  BY <1>t, <2>1, TameSame
    <2>10. Sits' => Sits
      BY <1>t, <2>4, <2>9, SitsSame DEF Loops
    <2>11. (InFlight' => InFlight) /\ (ToReviewer' => ToReviewer)
      BY <1>t, <2>4, <2>9, Wishes
    <2>12. (CanRun' => CanRun) /\ (Debt' => Debt) /\ ~Cr'
      BY <2>2, <2>3, <2>7, <2>11 DEF CanRun, Debt, Cr
    <2>13. Accounts'  BY <1>t, <1>b, <2>1, <2>3, <2>10, <2>11, <2>12, Frugal
    <2> QED BY <2>8, <2>13 DEF Budgeted
  <1>6. ASSUME NEW a \in Ids, HealMissingInbox(a) PROVE Budgeted'
    <2>1. UNCHANGED <<task, agents, ctx, doing, faults, human>>  BY <1>6 DEF HealMissingInbox, bounds
    <2>2. Tame /\ Mild /\ Steady  BY <1>t, <2>1, TameSame, SteadySame DEF Mild, Holds
    <2> QED BY <2>1, <2>2, Inconspicuous DEF Holds
  <1>7. ASSUME NEW a \in Ids, RetireFrozenClaim(a) PROVE Budgeted'
    <2>1. /\ doing["scheduler"].at = "idle" /\ task.status = "claimed" /\ Holds(a)
          /\ agents[a].silent # "no" /\ Retire(a) /\ UNCHANGED <<doing, faults, human>>
      BY <1>7 DEF RetireFrozenClaim, Live, Holds, bounds
    <2>2. /\ Tame /\ Mild /\ SlotFree' /\ ~agents'[a].pane
          /\ \A b \in Ids : b # a => agents'[b] = agents[b]
      BY <1>t, <2>1, RetiredMild
    <2>3. Steady  BY <1>t, <2>1, SteadySame
    <2>4. ~SchedulerAt' /\ doing'["scheduler"].at \notin SpawnPlaces
      BY <2>1 DEF SchedulerAt, SpawnPlaces
    <2>5. ~InFlight /\ ~InFlight'
      BY <1>b, <2>1 DEF SilentAlone, InFlight
    <2>6. ~Sits' /\ ~Usurped'
      BY <2>2 DEF Sits, Usurped, SlotFree, LiveAs
    <2>7. ToReviewer' => ToReviewer
      BY <1>t, <2>2, <2>3, Wishes
    <2>8. \/ /\ task' = [task EXCEPT !.status = "review", !.claimed_by = Nobody]
             /\ ctx' = WithVerdict(ctx, "other")
          \/ UNCHANGED <<task, ctx>>
          \/ /\ ctx' = Froze(ctx, "implementor") /\ Spent("implementor") < RespawnCap
             /\ UNCHANGED task
          \/ /\ ctx' = WithVerdict(Froze(ctx, "implementor"), "other")
             /\ task' = [task EXCEPT !.status = "pending_approval"]
      BY <1>7 DEF RetireFrozenClaim
    <2>9. /\ task'.rounds = task.rounds /\ task'.claimed_by \in {task.claimed_by, Nobody}
          /\ task'.status \in {"claimed", "review", "pending_approval"}
      BY <1>t, <2>1, <2>8, TaskSet, TaskFreed DEF Statuses
    <2>10. Staffing'
      <3>1. Haunted' => Haunted
        <4>1. Haunted' => task'.status = "claimed" /\ task'.claimed_by = task.claimed_by
          BY <2>9 DEF Haunted, Claimant
        <4> QED BY <1>t, <2>1, <2>2, <4>1, ClaimsStay
      <3> QED BY <1>b, <2>2, <2>3, <2>4, <2>9, <3>1, StaffStays
    <2>11. CanRun /\ ~Cr /\ ~Cr' /\ ~Debt'
      BY <2>1, <2>5, <2>6, <2>9 DEF CanRun, Cr, Debt
    <2>12. /\ One(Sits)' <= One(Sits) /\ FixDues' <= FixDues /\ ImplDues' <= ImplDues
      BY <2>5, <2>6, <2>11, DuesFall
    <2>13. Credit'  BY <1>t, <1>b, <2>1, <2>5, <2>7, <2>11, CreditStays DEF Accounts
    <2>14. CASE ctx'.frozen = ctx.frozen
      <3>1. human' = human + 0 /\ faults' = faults + 0 /\ human \in Nat /\ faults \in Nat
        BY <1>t, <2>1, PipelineAssumption DEF TypeOK
      <3>2. ImplDues' <= ImplDues + 0 /\ One(Sits)' <= One(Sits) + 0 /\ FixDues' <= FixDues + 0 + 0
        BY <2>12, DuesAre
      <3>3. Accounts'  BY <1>t, <1>b, <2>9, <2>13, <2>14, <3>1, <3>2, Thrift
      <3> QED BY <2>10, <3>3 DEF Budgeted
    <2>15. CASE ctx' = Froze(ctx, "implementor") /\ Spent("implementor") < RespawnCap
      <3>1. Accounts'  BY <1>t, <1>b, <2>1, <2>9, <2>12, <2>13, <2>15, FreezePaid
      <3> QED BY <2>10, <3>1 DEF Budgeted
    <2>16. CASE /\ ctx' = WithVerdict(Froze(ctx, "implementor"), "other")
                /\ task' = [task EXCEPT !.status = "pending_approval"]
      <3>1. ctx'.frozen = Froze(ctx, "implementor").frozen
        <4>1. Froze(ctx, "implementor") \in Ctx  BY <1>t, FrozeTyped
        <4> QED BY <2>16, <4>1, FrozenKept
      <3>2. task'.claimed_by = task.claimed_by /\ task'.status = "pending_approval"
        BY <1>t, <2>16, TaskSet DEF Statuses
      <3>3. CanRun' => Debt
        <4> SUFFICES ASSUME CanRun' PROVE Usurped
          BY DEF Debt
        <4>1. Claimant'  BY <3>2 DEF CanRun
        <4>2. Claimant  BY <1>t, <2>2, <3>2, <4>1, ClaimsStay
        <4>3. task.claimed_by # a  BY <2>2, <3>2, <4>1 DEF Claimant
        <4> QED BY <2>1, <4>2, <4>3 DEF Usurped
      <3>4. ImplDues' + 1 <= ImplDues
        <4>1. One(CanRun) = 1 /\ One(Debt)' = 0 /\ One(CanRun)' <= One(Debt)
          BY <2>11, <3>3 DEF One
        <4> QED BY <4>1, Ones DEF ImplDues
      <3>5. Accounts'  BY <1>t, <1>b, <2>1, <2>9, <2>12, <2>13, <3>1, <3>4, FreezePaid
      <3> QED BY <2>10, <3>5 DEF Budgeted
    <2>17. WithVerdict(ctx, "other").frozen = ctx.frozen  BY <1>t, FrozenKept
    <2> QED BY <2>8, <2>14, <2>15, <2>16, <2>17
  <1>8. CASE ReapStaleClaim
    <2>1. /\ task' = [task EXCEPT !.status = "ready", !.claimed_by = Nobody] /\ task.status = "claimed"
          /\ doing["scheduler"].at = "idle" /\ UNCHANGED <<agents, ctx, doing, faults, human>>
      BY <1>8 DEF ReapStaleClaim, bounds
    <2>2. task'.status = "ready" /\ task'.rounds = task.rounds /\ task'.claimed_by = Nobody
      BY <1>t, <2>1, TaskFreed DEF Statuses
    <2>3. ~SchedulerAt' /\ doing'["scheduler"].at \notin SpawnPlaces
      BY <2>1 DEF SchedulerAt, SpawnPlaces
    <2>4. Tame /\ Steady  BY <1>t, <2>1, TameSame, SteadySame
    <2>5. ~Haunted' /\ ~Usurped' /\ ~Cr' /\ CanRun
      BY <2>1, <2>2 DEF Haunted, Usurped, Cr, CanRun
    <2>6. Staffing'  BY <1>b, <2>2, <2>3, <2>4, <2>5, StaffStays DEF ImplementorPhases
    <2>7. Sits' => Sits  BY <1>t, <2>1, <2>4, SitsSame
    <2>8. (InFlight' => InFlight) /\ (ToReviewer' => ToReviewer)
      BY <1>t, <2>4, Wishes
    <2>9. Debt' => Debt  BY <2>5, <2>8 DEF Debt
    <2>10. Accounts'  BY <1>t, <1>b, <2>1, <2>2, <2>5, <2>7, <2>8, <2>9, Frugal
    <2> QED BY <2>6, <2>10 DEF Budgeted
  <1>9. CASE HealRestartCohort
    <2>1. PICK ghosts \in SUBSET {a \in cohort : Live(a) /\ agents[a].said = "nothing"} :
             /\ agents' = [a \in Ids |-> IF a \in ghosts THEN Dead(agents[a], FALSE) ELSE agents[a]]
             /\ ctx' = IF ghosts # {} THEN NoFix(ctx) ELSE ctx
      BY <1>9 DEF HealRestartCohort
    <2>2. UNCHANGED <<task, doing, faults, human>> /\ doing["scheduler"].at = "idle"
      BY <1>9 DEF HealRestartCohort, bounds
    <2>3. Tame
      <3> DEFINE pane == [a \in Ids |-> FALSE]
      <3>1. pane \in [Ids -> BOOLEAN]  OBVIOUS
      <3>2. ghosts \in SUBSET Ids  BY <1>t DEF TypeOK
      <3>3. agents' = [a \in Ids |-> IF a \in ghosts THEN Dead(agents[a], pane[a]) ELSE agents[a]]
        BY <2>1
      <3> HIDE DEF pane
      <3> QED BY <1>t, <3>1, <3>2, <3>3, TameDeaths
    <2>4. Mild
      <3>1. \A a \in Ids : ~Dead(agents[a], FALSE).pane  BY DEF Dead, NoAgent
      <3>2. \A a \in Ids : agents'[a] = IF a \in ghosts THEN Dead(agents[a], FALSE) ELSE agents[a]
        BY <2>1
      <3> QED BY <3>1, <3>2 DEF Mild, Holds
    <2>5. ctx'.frozen = ctx.frozen  BY <1>t, <2>1, FrozenKept
    <2>6. Steady  BY <1>t, <2>2, SteadySame
    <2> QED BY <2>2, <2>3, <2>4, <2>5, <2>6, Inconspicuous DEF SpawnPlaces
  <1> QED BY <1>1, <1>2, <1>3, <1>4, <1>5, <1>6, <1>7, <1>8, <1>9 DEF Scheduler

\* The dispatcher lists a task: what it wants is due already.
LEMMA ListBudgeted ==
    ASSUME PipeIInv, Budgeted, NEW place \in {"wants_reviewer", "wants_fixer"}, Go("dispatcher", place),
           doing["dispatcher"].at = "idle", UNCHANGED <<task, agents, ctx, faults, human>>,
           place = "wants_reviewer" => task.status = "review",
           place = "wants_fixer" => task.status = "changes_requested"
    PROVE  Budgeted'
  <1>t. /\ PipeTyped /\ TypeOK  BY Rows
  <1>b. /\ Staffing /\ Accounts /\ ClaimIsOurs /\ FreshSpawns /\ SilentAlone /\ WorkerKept
        /\ ImplementorsInPhase
    BY DEF Budgeted, Staffing
  <1>1. /\ doing'["dispatcher"].at = place
        /\ \A q \in Loops : q # "dispatcher" => doing'[q] = doing[q]
        /\ doing'["scheduler"] = doing["scheduler"] /\ doing'["comments"] = doing["comments"]
    BY <1>t, Went DEF Loops
  <1>2. \A q \in Loops : doing'[q].at \in SpawnPlaces => doing'[q] = doing[q]
    BY <1>1 DEF SpawnPlaces
  <1>3. "inserted" \in SpawnPlaces  BY DEF SpawnPlaces
  <1>4. FreshSpawns'  BY <1>b, <1>2, <1>3 DEF FreshSpawns
  <1>5. SilentAlone' /\ WorkerKept'  BY <1>b, <1>1 DEF SilentAlone, WorkerKept, Holds
  <1>6. ClaimIsOurs' /\ ImplementorsInPhase'
    BY <1>b, <1>1 DEF ClaimIsOurs, SchedulerAt, ImplementorsInPhase, LiveAs, Holds
  <1>7. ~Haunted'  BY DEF Haunted
  <1>8. Staffing'  BY <1>b, <1>4, <1>5, <1>6, <1>7 DEF Staffing
  <1>9. InFlight' <=> InFlight  BY <1>1 DEF InFlight
  <1>10. (CanRun' => CanRun) /\ (Debt' => Debt) /\ (Cr' => Cr) /\ (Sits' => Sits)
    BY <1>9 DEF CanRun, Claimant, Debt, Usurped, Holds, Cr, Sits, LiveAs
  <1>11. Credit'
    <2>1. InFlight => human >= 1  BY <1>b DEF Accounts, Credit
    <2>2. ToReviewer' => ~Cr'
      BY <1>1 DEF ToReviewer, Towards, Cr
    <2>3. ToReviewer' => One(Cr)' + One(InFlight)' <= human'
      <3> SUFFICES ASSUME ToReviewer' PROVE One(Cr)' + One(InFlight)' <= human'
        OBVIOUS
      <3>1. One(Cr)' = 0 /\ One(InFlight)' = One(InFlight)  BY <1>9, <2>2 DEF One
      <3>2. One(InFlight) <= human
        <4>1. human \in Nat  BY <1>t, PipelineAssumption DEF TypeOK
        <4> QED BY <2>1, <4>1 DEF One
      <3> QED BY <3>1, <3>2, Ones
    <2> QED BY <1>9, <2>1, <2>3 DEF Credit
  <1>12. /\ human' = human + 0 /\ faults' = faults + 0 /\ human \in Nat /\ faults \in Nat
    BY <1>t, PipelineAssumption DEF TypeOK
  <1>13. ImplDues' <= ImplDues + 0 /\ One(Sits)' <= One(Sits) + 0 /\ FixDues' <= FixDues + 0 + 0
    BY <1>9, <1>10, DuesFall, DuesAre
  <1>14. Accounts'  BY <1>t, <1>b, <1>11, <1>12, <1>13, Thrift
  <1> QED BY <1>8, <1>14 DEF Budgeted

\* A new round: nobody froze in it yet, and what is due fits a whole budget.
LEMMA RoundBudgeted ==
    ASSUME PipeIInv, Budgeted, BumpRound
    PROVE  Budgeted'
  <1> USE DEF At
  <1>t. /\ PipeTyped /\ TypeOK /\ task \in TaskRow /\ agents \in [Ids -> AgentRow] /\ ctx \in Ctx
        /\ \A p \in Loops : doing[p].at \notin Unplaced =>
               doing[p].agent \in Ids /\ agents[doing[p].agent].status # "absent"
    BY Rows
  <1>b. /\ Staffing /\ Accounts /\ ClaimIsOurs
    BY DEF Budgeted, Staffing
  <1>1. /\ doing["dispatcher"].at = "running" /\ agents[doing["dispatcher"].agent].role = "reviewer"
        /\ task' = [task EXCEPT !.rounds = task.rounds + 1] /\ Go("dispatcher", "bumped")
        /\ UNCHANGED <<agents, ctx, faults, human>>
    BY DEF BumpRound, bounds
  <1>2. ToReviewer /\ task.rounds < MaxRounds
    BY <1>t, <1>1 DEF PipeTyped, ToReviewer, Towards
  <1>3. /\ task'.status = task.status /\ task'.claimed_by = task.claimed_by
        /\ task'.rounds = task.rounds + 1 /\ task.rounds + 1 \in Rounds /\ task.rounds \in Rounds
    <2>1. task.rounds + 1 \in Rounds
      BY <1>t, <1>2, PipelineAssumption DEF TaskRow, Rounds
    <2> QED BY <1>t, <1>1, <2>1 DEF TaskRow
  <1>n. \A r \in Rounds : r = task.rounds + 1 => r > task.rounds
    <2>1. task.rounds \in Nat /\ \A r \in Rounds : r \in Nat
      BY <1>3, PipelineAssumption DEF Rounds
    <2> QED BY <2>1
  <1>4. /\ Steady /\ doing'["dispatcher"].at = "bumped"
        /\ \A q \in Loops : q # "dispatcher" => doing'[q] = doing[q]
    <2>1. "bumped" \in Places["dispatcher"]  BY DEF Places
    <2> QED BY <1>t, <1>1, <2>1, SteadyGo DEF Loops, Unplaced
  <1>5. Tame  BY <1>t, <1>1, TameSame
  <1>6. ~ToReviewer' /\ (SchedulerAt' => SchedulerAt) /\ (InFlight' <=> InFlight)
    BY <1>4 DEF ToReviewer, Towards, SchedulerAt, InFlight, Loops
  <1>7. Staffing'
    <2>1. /\ task'.claimed_by \in {task.claimed_by, Nobody}
          /\ task'.status = "ready" => task'.claimed_by = Nobody
          /\ SchedulerAt' => task'.status = "claimed" /\ task'.claimed_by = Nobody
      BY <1>b, <1>3, <1>6 DEF ClaimIsOurs
    <2>2. doing'["scheduler"].at \in SpawnPlaces =>
               \A a \in Ids : Holds(a) /\ a = doing["scheduler"].agent => Holds(a)'
      BY <1>1 DEF Holds
    <2>3. task'.status \in ImplementorPhases \/ task.status \notin ImplementorPhases \/ SlotFree'
      BY <1>3
    <2>4. Haunted' /\ Spawning' => Haunted  BY <1>1, <1>3 DEF Haunted, Claimant, Holds
    <2> QED BY <1>b, <1>4, <1>5, <2>1, <2>2, <2>3, <2>4, StaffStays
  <1>8. (CanRun' => CanRun) /\ (Debt' => Debt) /\ (Cr' <=> Cr)
    BY <1>1, <1>3, <1>6 DEF CanRun, Claimant, Debt, Usurped, Holds, Cr
  <1>9. /\ human' = human + 0 /\ human' = human /\ faults' = faults
        /\ human \in Nat /\ faults \in Nat /\ RespawnCap \in Nat /\ 0 \in Rounds /\ Rounds \in SUBSET Nat
    BY <1>t, <1>1, PipelineAssumption DEF TypeOK, Rounds
  <1>10. \A role \in {"implementor", "reviewer", "fixer"}, r \in Rounds :
            Frozen(role, r)' = Frozen(role, r) /\ Frozen(role, r) \in Nat
    BY <1>t, <1>1, FrozenAre DEF Frozen
  <1>11. ImplBudget'
    <2>1. ImplDues' <= ImplDues + 0  BY <1>8, DuesFall, DuesAre
    <2>2. Frozen("implementor", 0)' = Frozen("implementor", 0)  BY <1>9, <1>10
    <2> QED BY <1>t, <1>b, <1>9, <2>1, <2>2, ImplPaid DEF Accounts
  <1>12. \A r \in Rounds : r > task.rounds => Frozen("reviewer", r) = 0 /\ Frozen("fixer", r) = 0
    BY <1>b DEF Accounts, Later
  <1>13. PICK s \in {0, 1}, n \in Nat : One(Sits)' = s /\ FixDues' = s + n /\ n <= human
    <2>1. PICK s \in {0, 1}, c \in {0, 1}, i \in {0, 1} :
             One(Sits)' = s /\ One(Cr)' = c /\ One(InFlight)' = i
      BY Ones
    <2>2. One(Cr) = c /\ One(InFlight) = i  BY <1>6, <1>8, <2>1 DEF One
    <2>3. c + i <= human  BY <1>b, <1>2, <2>2 DEF Accounts, Credit
    <2>4. FixDues' = s + (c + i)  BY <2>1 DEF FixDues
    <2> QED BY <2>1, <2>3, <2>4
  <1>14. RevBudget'
    <2> SUFFICES ASSUME NEW r \in Rounds
                 PROVE  Frozen("reviewer", r)' + (IF r = task'.rounds THEN One(Sits)' ELSE 0) <= 1 + faults'
      BY DEF RevBudget
    <2>1. Frozen("reviewer", r) + (IF r = task.rounds THEN One(Sits) ELSE 0) <= 1 + faults
      BY <1>b DEF Accounts, RevBudget
    <2>2. PICK m \in Nat : Frozen("reviewer", r) = m /\ Frozen("reviewer", r)' = m  BY <1>10
    <2>3. m <= 1 + faults  BY <1>9, <2>1, <2>2, Ones
    <2>4. r = task.rounds + 1 => m = 0  BY <1>n, <1>12, <2>2
    <2>5. m + (IF r = task.rounds + 1 THEN s ELSE 0) <= 1 + faults  BY <1>9, <1>13, <2>3, <2>4
    <2> QED BY <1>3, <1>9, <1>13, <2>2, <2>5
  <1>15. FixBudget'
    <2>1. ASSUME NEW r \in Rounds
          PROVE  Frozen("fixer", r)' + (IF r = task'.rounds THEN FixDues' ELSE 0)
                     <= RespawnCap + 1 + faults' + human'
      <3>1. Frozen("fixer", r) + (IF r = task.rounds THEN FixDues ELSE 0) <= RespawnCap + 1 + faults + human
        BY <1>b DEF Accounts, FixBudget
      <3>2. PICK m \in Nat : Frozen("fixer", r) = m /\ Frozen("fixer", r)' = m  BY <1>10
      <3>3. m <= RespawnCap + 1 + faults + human  BY <1>9, <3>1, <3>2, DuesAre
      <3>4. r = task.rounds + 1 => m = 0  BY <1>n, <1>12, <3>2
      <3>5. m + (IF r = task.rounds + 1 THEN s + n ELSE 0) <= RespawnCap + 1 + faults + human
        BY <1>9, <1>13, <3>3, <3>4
      <3> QED BY <1>3, <1>9, <1>13, <3>2, <3>5
    <2>2. s + n <= 1 + faults + human  BY <1>9, <1>13
    <2> QED BY <1>9, <1>13, <2>1, <2>2 DEF FixBudget
  <1>16. Later'
    <2> SUFFICES ASSUME NEW r \in Rounds, r > task.rounds + 1
                 PROVE  Frozen("reviewer", r)' = 0 /\ Frozen("fixer", r)' = 0
      BY <1>3 DEF Later
    <2>1. task.rounds \in Nat /\ r \in Nat  BY <1>3, PipelineAssumption DEF Rounds
    <2>2. r > task.rounds  BY <2>1
    <2> QED BY <1>10, <1>12, <2>2
  <1>17. Credit'  BY <1>b, <1>6, <1>9 DEF Accounts, Credit
  <1>18. Accounts'  BY <1>11, <1>14, <1>15, <1>16, <1>17 DEF Accounts
  <1> QED BY <1>7, <1>18 DEF Budgeted

\* The dispatcher: its lists, spawns, prompts, rounds and sweeps.
LEMMA DispatcherBudgeted ==
    ASSUME PipeIInv, Budgeted,
           \/ ListReviewer \/ SpawnReviewer \/ EnqueueReview \/ SpawnBlocked
           \/ ListFixer \/ SpawnFixer \/ RecordFix \/ ClaimForFixer \/ EnqueueFix
           \/ \E a \in Ids : HealReviewPrompt(a) \/ HealFixPrompt(a)
           \/ SweepDropsPrompts \/ SweepRearms
    PROVE  Budgeted'
  <1> USE DEF At
  <1>t. /\ PipeTyped /\ TypeOK /\ task \in TaskRow /\ agents \in [Ids -> AgentRow] /\ ctx \in Ctx
        /\ \A p \in Loops : doing[p].at \notin Unplaced =>
               doing[p].agent \in Ids /\ agents[doing[p].agent].status # "absent"
    BY Rows
  <1>b. /\ Staffing /\ Accounts /\ ClaimIsOurs /\ FreshSpawns /\ SilentAlone /\ WorkerKept
        /\ ImplementorsInPhase
    BY DEF Budgeted, Staffing
  <1>1. CASE ListReviewer
    BY <1>1, ListBudgeted DEF ListReviewer, WantsReviewer, rows, bounds
  <1>2. CASE ListFixer
    BY <1>2, ListBudgeted DEF ListFixer, WantsFixer, rows, bounds
  <1>3. ASSUME NEW role \in {"reviewer", "fixer"}, Insert("dispatcher", role),
               UNCHANGED <<task, ctx, faults, human>>,
               \/ role = "reviewer" /\ doing["dispatcher"].at = "wants_reviewer"
               \/ role = "fixer" /\ doing["dispatcher"].at = "wants_fixer"
        PROVE  Budgeted'
    <2>1. PICK a \in Ids : /\ Inserts(a, role)
                           /\ doing' = [doing EXCEPT !["dispatcher"].at = "inserted", !["dispatcher"].agent = a]
      BY <1>3 DEF Insert, Inserts
    <2>2. /\ doing' \in [Loops -> Doing] /\ doing'["dispatcher"].at = "inserted"
          /\ doing'["dispatcher"].agent = a /\ \A q \in Loops : q # "dispatcher" => doing'[q] = doing[q]
      BY <1>t, <2>1, WentWith DEF Loops
    <2>3. role \in SpawnsAs["dispatcher"]  BY DEF SpawnsAs
    <2> QED BY <1>3, <2>1, <2>2, <2>3, SpawnBudgeted DEF Loops
  <1>4. CASE SpawnReviewer
    BY <1>3, <1>4 DEF SpawnReviewer, bounds
  <1>5. CASE SpawnFixer
    BY <1>3, <1>5 DEF SpawnFixer, bounds
  <1>6. ASSUME UNCHANGED <<task, agents, faults, human>>, Steady, ctx'.frozen = ctx.frozen,
               \/ doing'["dispatcher"] = doing["dispatcher"]
               \/ doing["dispatcher"].at \notin {"inserted", "running"}
               \/ agents[doing["dispatcher"].agent].role # "reviewer"
        PROVE  Budgeted'
    <2>1. Tame /\ Mild  BY <1>t, <1>6, TameSame DEF Mild, Holds
    <2>2. \A a \in Ids : Holds(a) => Holds(a)'  BY <1>6 DEF Holds
    <2> QED BY <1>6, <2>1, <2>2, Inconspicuous
  <1>7. CASE EnqueueReview \/ SpawnBlocked \/ EnqueueFix
    <2>1. /\ Rest("dispatcher") /\ doing["dispatcher"].at \notin {"inserted", "running"}
          /\ UNCHANGED <<task, agents, ctx, faults, human>>
      BY <1>7 DEF EnqueueReview, SpawnBlocked, EnqueueFix, rows, bounds
    <2>2. Steady  BY <1>t, <2>1, SteadyRest DEF Loops
    <2> QED BY <1>6, <2>1, <2>2
  <1>8. CASE RecordFix
    <2>1. /\ doing["dispatcher"].at = "running" /\ agents[doing["dispatcher"].agent].role = "fixer"
          /\ ctx' = [ctx EXCEPT !.fix = ctx.fix \cup {task.rounds}] /\ Go("dispatcher", "recorded")
          /\ UNCHANGED <<task, agents, faults, human>>
      BY <1>8 DEF RecordFix, bounds
    <2>2. Steady
      <3>1. "recorded" \in Places["dispatcher"]  BY DEF Places
      <3> QED BY <1>t, <2>1, <3>1, SteadyGo DEF Loops, Unplaced
    <2>3. ctx'.frozen = ctx.frozen  BY <1>t, <2>1 DEF Ctx
    <2> QED BY <1>6, <2>1, <2>2, <2>3
  <1>9. ASSUME NEW a \in Ids, HealReviewPrompt(a) \/ HealFixPrompt(a) PROVE Budgeted'
    <2>1. UNCHANGED <<task, agents, ctx, doing, faults, human>>
      BY <1>9 DEF HealReviewPrompt, HealFixPrompt, bounds
    <2>2. Steady  BY <1>t, <2>1, SteadySame
    <2> QED BY <1>6, <2>1, <2>2
  <1>10. CASE SweepDropsPrompts
    <2>1. /\ doing["dispatcher"].at = "swept" /\ Go("dispatcher", "dropped")
          /\ UNCHANGED <<task, agents, ctx, faults, human>>
      BY <1>10 DEF SweepDropsPrompts, bounds
    <2>2. Steady
      <3>1. "dropped" \in Places["dispatcher"]  BY DEF Places
      <3> QED BY <1>t, <2>1, <3>1, SteadyGo DEF Loops, Unplaced
    <2> QED BY <1>6, <2>1, <2>2
  <1>11. CASE SweepRearms
    <2>1. /\ doing["dispatcher"].at = "dropped" /\ ctx' \in {ctx, NoFix(ctx)}
          /\ Rest("dispatcher") /\ UNCHANGED <<task, agents, faults, human>>
      BY <1>11 DEF SweepRearms, bounds
    <2>2. Steady  BY <1>t, <2>1, SteadyRest DEF Loops
    <2>3. ctx'.frozen = ctx.frozen  BY <1>t, <2>1, FrozenKept
    <2>4. /\ UNCHANGED <<task, agents, faults, human>>
          /\ doing["dispatcher"].at \notin {"inserted", "running"}
      BY <2>1
    <2> QED BY <1>6, <2>2, <2>3, <2>4
  <1>12. CASE ClaimForFixer
    <2> DEFINE w == doing["dispatcher"].agent
    <2>1. /\ task' = IF task.status = "changes_requested"
                     THEN [task EXCEPT !.claimed_by = w] ELSE task
          /\ doing["dispatcher"].at = "recorded" /\ Go("dispatcher", "fix_claimed")
          /\ UNCHANGED <<agents, ctx, faults, human>>
      BY <1>12 DEF ClaimForFixer, bounds
    <2>2. w \in Ids /\ agents[w].status # "absent"  BY <1>t, <2>1 DEF Loops, Unplaced
    <2>3. /\ task'.status = task.status /\ task'.rounds = task.rounds
          /\ \/ task' = task
             \/ task.status = "changes_requested" /\ task'.claimed_by = w
      BY <1>t, <2>1, <2>2 DEF TaskRow
    <2>4. /\ Steady /\ doing'["dispatcher"].at = "fix_claimed" /\ doing'["dispatcher"].agent = w
          /\ \A q \in Loops : q # "dispatcher" => doing'[q] = doing[q]
      <3>1. "fix_claimed" \in Places["dispatcher"]  BY DEF Places
      <3> QED BY <1>t, <2>1, <3>1, SteadyGo DEF Loops, Unplaced
    <2>5. Tame  BY <1>t, <2>1, TameSame
    <2>6. doing'["scheduler"] = doing["scheduler"] /\ doing'["comments"] = doing["comments"]
      BY <2>4 DEF Loops
    <2>7. FreshSpawns'
      <3> SUFFICES ASSUME NEW p \in Loops, doing'[p].at = "inserted"
                   PROVE  /\ agents'[doing'[p].agent].silent = "no" /\ agents'[doing'[p].agent].role \in SpawnsAs[p]
                          /\ doing'[p].agent # task'.claimed_by
                          /\ \A q \in Loops \ {p} : doing'[q].at \in SpawnPlaces => doing'[p].agent # doing'[q].agent
        BY DEF FreshSpawns
      <3>1. p # "dispatcher" /\ doing'[p] = doing[p]  BY <2>4
      <3>2. /\ agents[doing[p].agent].silent = "no" /\ agents[doing[p].agent].role \in SpawnsAs[p]
            /\ doing[p].agent # task.claimed_by
            /\ \A q \in Loops \ {p} : doing[q].at \in SpawnPlaces => doing[p].agent # doing[q].agent
        BY <1>b, <3>1 DEF FreshSpawns
      <3>3. "recorded" \in SpawnPlaces /\ "dispatcher" \in Loops  BY DEF SpawnPlaces, Loops
      <3>4. doing[p].agent # w  BY <2>1, <3>1, <3>2, <3>3
      <3>5. \A q \in Loops : doing'[q].agent = doing[q].agent /\ (doing'[q].at \in SpawnPlaces => doing[q].at \in SpawnPlaces)
        BY <2>1, <2>4, <3>3
      <3> QED BY <2>1, <2>3, <3>1, <3>2, <3>4, <3>5
    <2>8. SilentAlone' /\ WorkerKept' /\ ImplementorsInPhase'
      BY <1>b, <2>1, <2>3, <2>6 DEF SilentAlone, WorkerKept, ImplementorsInPhase, LiveAs, Holds
    <2>9. ClaimIsOurs'
      BY <1>b, <2>1, <2>3, <2>6 DEF ClaimIsOurs, SchedulerAt, Holds
    <2>10. ~Haunted'
      <3>1. Spawning  BY <2>1 DEF Spawning
      <3>2. ~Haunted  BY <1>b, <3>1 DEF Staffing
      <3> QED BY <2>1, <2>3, <3>2 DEF Haunted, Claimant, Holds
    <2>11. Staffing'
      <3>1. task'.claimed_by # Nobody => agents'[task'.claimed_by].status # "absent"
        BY <1>b, <2>1, <2>2, <2>3 DEF Staffing
      <3> QED BY <2>7, <2>8, <2>9, <2>10, <3>1 DEF Staffing
    <2>12. (InFlight' => InFlight) /\ (ToReviewer' => ToReviewer)
      BY <1>t, <2>4, <2>5, Wishes
    <2>13. (CanRun' => CanRun) /\ (Debt' => Debt) /\ (Cr' => Cr)
      BY <2>1, <2>3, <2>12 DEF CanRun, Debt, Usurped, Claimant, Holds, Cr
    <2>14. Sits' => Sits
      <3>1. doing["dispatcher"].at \in {"inserted", "running"} =>
               \/ doing'["dispatcher"].at \in {"inserted", "running"}
               \/ \A a \in Ids : a = doing["dispatcher"].agent => ~LiveAs(a, "reviewer")'
        BY <2>1
      <3> QED BY <1>t, <2>4, <2>5, <3>1, SitsStays
    <2>15. ctx'.frozen = ctx.frozen /\ UNCHANGED <<faults, human>>  BY <2>1
    <2>16. Accounts'  BY <1>t, <1>b, <2>3, <2>12, <2>13, <2>14, <2>15, Frugal
    <2> QED BY <2>11, <2>16 DEF Budgeted
  <1> QED BY <1>1, <1>2, <1>4, <1>5, <1>7, <1>8, <1>9, <1>10, <1>11, <1>12

\* An agent no goroutine is at loses the slot and keeps its pane.
LEMMA LetGoBudgeted ==
    ASSUME PipeIInv, Budgeted, NEW a \in Ids, ~AtIt(a),
           agents' = [agents EXCEPT ![a] = Dead(agents[a], agents[a].pane)],
           UNCHANGED <<task, ctx, faults, human>>, Steady,
           \/ doing'["dispatcher"] = doing["dispatcher"]
           \/ doing["dispatcher"].at \notin {"inserted", "running"},
           ~Spawning' \/ task.status # "claimed"
    PROVE  Budgeted'
  <1>t. /\ PipeTyped /\ TypeOK /\ task \in TaskRow /\ agents \in [Ids -> AgentRow]  BY Rows
  <1>b. /\ Staffing /\ Accounts /\ ClaimIsOurs  BY DEF Budgeted, Staffing
  <1>1. agents[a].pane \in BOOLEAN /\ agents[a] \in AgentRow  BY <1>t DEF AgentRow
  <1>2. Tame  BY <1>t, <1>1, TameDead
  <1>3. \A b \in Ids : /\ b # a => agents'[b] = agents[b]
                       /\ agents'[b].pane = agents[b].pane
    <2> DEFINE r == Dead(agents[a], agents[a].pane)
    <2>1. r.pane = agents[a].pane
      <3>1. CASE agents[a].pane
        BY <1>1, <3>1 DEF Dead, AgentRow
      <3>2. CASE ~agents[a].pane
        BY <1>1, <3>2 DEF Dead, NoAgent
      <3> QED BY <3>1, <3>2
    <2>2. agents' = [agents EXCEPT ![a] = r]  OBVIOUS
    <2> HIDE DEF r
    <2> QED BY <1>t, <2>1, <2>2
  <1>4. (InFlight' => InFlight) /\ (ToReviewer' => ToReviewer) /\ (SchedulerAt' => SchedulerAt)
    BY <1>t, <1>2, Wishes
  <1>5. Staffing'
    <2>1. doing'["scheduler"].at \in SpawnPlaces =>
             \A b \in Ids : Holds(b) /\ b = doing["scheduler"].agent => Holds(b)'
      BY <1>3 DEF AtIt, Holds, Loops
    <2>2. /\ task'.claimed_by \in {task.claimed_by, Nobody}
          /\ task'.status = "ready" => task'.claimed_by = Nobody
          /\ SchedulerAt' => task'.status = "claimed" /\ task'.claimed_by = Nobody
          /\ task'.status \in ImplementorPhases \/ task.status \notin ImplementorPhases \/ SlotFree'
      BY <1>b, <1>4 DEF ClaimIsOurs
    <2>3. ~(Haunted' /\ Spawning')  BY DEF Haunted
    <2> QED BY <1>b, <1>2, <2>1, <2>2, <2>3, StaffStays
  <1>6. Claimant' => Claimant
    <2>1. task.claimed_by # Nobody => task.claimed_by \in Ids  BY <1>t DEF TaskRow
    <2> QED BY <1>3, <2>1 DEF Claimant
  <1>7. Usurped' => Usurped
    BY <1>2, <1>6 DEF Usurped, Tame, Holds
  <1>8. (CanRun' => CanRun) /\ (Debt' => Debt) /\ (Cr' => Cr)
    BY <1>4, <1>6, <1>7 DEF CanRun, Debt, Cr
  <1>9. Sits' => Sits
    <2>1. CASE doing'["dispatcher"] = doing["dispatcher"]
      BY <1>t, <1>2, <2>1, SitsSame
    <2>2. CASE doing["dispatcher"].at \notin {"inserted", "running"}
      <3>1. doing["dispatcher"].at \in {"inserted", "running"} =>
               \/ doing'["dispatcher"].at \in {"inserted", "running"}
               \/ \A b \in Ids : b = doing["dispatcher"].agent => ~LiveAs(b, "reviewer")'
        BY <2>2
      <3> QED BY <1>t, <1>2, <3>1, SitsStays
    <2> QED BY <2>1, <2>2
  <1>10. Accounts'  BY <1>t, <1>b, <1>4, <1>8, <1>9, Frugal
  <1> QED BY <1>5, <1>10 DEF Budgeted

\* The passes that retire agents: verdicts, the watchdogs and the sweep.
LEMMA WatchBudgeted ==
    ASSUME PipeIInv, Budgeted, NEW a \in Ids,
           \/ ApplyVerdict(a) \/ WatchdogReviewer(a) \/ WatchdogFixer(a) \/ SweepRetires(a)
           \/ RetireStuckImplementor(a)
    PROVE  Budgeted'
  <1> USE DEF At
  <1>t. /\ PipeTyped /\ TypeOK /\ task \in TaskRow /\ agents \in [Ids -> AgentRow] /\ ctx \in Ctx
        /\ \A p \in Loops : doing[p].at \notin Unplaced =>
               doing[p].agent \in Ids /\ agents[doing[p].agent].status # "absent"
    BY Rows
  <1>b. /\ Staffing /\ Accounts /\ ClaimIsOurs /\ FreshSpawns /\ SilentAlone /\ WorkerKept
        /\ ImplementorsInPhase
    BY DEF Budgeted, Staffing
  <1>n. /\ human \in Nat /\ faults \in Nat /\ human = human + 0 /\ faults = faults + 0
    BY <1>t, PipelineAssumption DEF TypeOK
  \* The slot becomes free and the task leaves the status it was worked on in, or not.
  <1>1. ASSUME doing["dispatcher"].at = "idle", task.status \in {"review", "changes_requested"}, Holds(a),
               Retire(a), UNCHANGED <<doing, faults, human>>, task'.rounds = task.rounds,
               \/ task'.status \in {"review", "changes_requested", "pending_approval", "ready_to_merge"}
                  /\ task'.claimed_by = task.claimed_by
               \/ task'.status = "ready" /\ task'.claimed_by = Nobody
        PROVE  /\ Staffing' /\ Credit' /\ CanRun /\ ~Sits' /\ (InFlight' <=> InFlight)
               /\ (Debt' => Debt) /\ ImplDues' <= ImplDues
    <2>1. Tame /\ SlotFree'  BY <1>t, <1>1, Retired
    <2>2. Steady  BY <1>t, <1>1, SteadySame
    <2>3. ~SchedulerAt' /\ doing'["scheduler"].at \notin SpawnPlaces
      BY <1>b, <1>1 DEF ClaimIsOurs, SchedulerAt, SpawnPlaces
    <2>4. ~Spawning' /\ ~ToReviewer' /\ (InFlight' <=> InFlight)
      BY <1>1 DEF Spawning, ToReviewer, Towards, InFlight
    <2>5. Staffing'
      <3>1. /\ task'.claimed_by \in {task.claimed_by, Nobody}
            /\ task'.status = "ready" => task'.claimed_by = Nobody
        BY <1>1
      <3> QED BY <1>b, <2>1, <2>2, <2>3, <2>4, <3>1, StaffStays
    <2>6. Credit'
      BY <1>b, <1>1, <2>4 DEF Accounts, Credit
    <2>7. CanRun  BY <1>1 DEF CanRun
    <2>8. ~Sits' /\ ~Usurped'
      BY <2>1 DEF Sits, Usurped, SlotFree, LiveAs
    <2>9. Debt' => Debt  BY <2>4, <2>8 DEF Debt
    <2> QED BY <2>4, <2>5, <2>6, <2>7, <2>8, <2>9, DuesFall
  <1>2. CASE ApplyVerdict(a)
    <2>1. /\ doing["dispatcher"].at = "idle" /\ task.status = "review" /\ LiveAs(a, "reviewer") /\ Retire(a)
          /\ task' = [task EXCEPT !.status = Landing(agents[a].said)]
          /\ ctx' \in {WithVerdict(ctx, "request_changes"), WithVerdict(ctx, "other")}
          /\ UNCHANGED <<doing, faults, human>>
      BY <1>2 DEF ApplyVerdict, bounds
    <2>2. PICK s \in {"ready_to_merge", "changes_requested", "pending_approval"} : s = Landing(agents[a].said)
      <3>1. CASE agents[a].said = "approve"  BY <3>1 DEF Landing
      <3>2. CASE agents[a].said = "request_changes" /\ task.rounds < MaxReviewRounds
        BY <3>2 DEF Landing
      <3>3. CASE /\ agents[a].said # "approve"
                 /\ ~(agents[a].said = "request_changes" /\ task.rounds < MaxReviewRounds)
        BY <3>3 DEF Landing
      <3> QED BY <3>1, <3>2, <3>3
    <2>3. /\ task'.status = s /\ task'.rounds = task.rounds /\ task'.claimed_by = task.claimed_by
      BY <1>t, <2>1, <2>2, TaskSet DEF Statuses
    <2>4. /\ Staffing' /\ Credit' /\ ~Sits' /\ (InFlight' <=> InFlight) /\ ImplDues' <= ImplDues
      BY <1>1, <2>1, <2>3 DEF LiveAs
    <2>5. Sits /\ ~Cr  BY <2>1 DEF Sits, Cr
    <2>6. One(Sits)' = 0 /\ One(Sits) = 1 /\ One(Cr) = 0 /\ One(InFlight)' = One(InFlight)
      BY <2>4, <2>5 DEF One
    <2>7. FixDues' <= FixDues
      <3>1. PICK c \in {0, 1}, i \in {0, 1} : One(Cr)' = c /\ One(InFlight) = i  BY Ones
      <3>2. FixDues' = 0 + c + i /\ FixDues = 1 + 0 + i  BY <2>6, <3>1 DEF FixDues
      <3> QED BY <3>2
    <2>8. ctx'.frozen = ctx.frozen  BY <1>t, <2>1, FrozenKept
    <2>9. ImplDues' <= ImplDues + 0 /\ One(Sits)' <= One(Sits) + 0 /\ FixDues' <= FixDues + 0 + 0
      BY <2>4, <2>6, <2>7, DuesAre
    <2>10. human' = human + 0 /\ faults' = faults + 0  BY <1>n, <2>1
    <2>11. Accounts'  BY <1>t, <1>b, <1>n, <2>3, <2>4, <2>8, <2>9, <2>10, Thrift
    <2> QED BY <2>4, <2>11 DEF Budgeted
  <1>3. CASE WatchdogReviewer(a)
    <2>1. /\ doing["dispatcher"].at = "idle" /\ task.status = "review" /\ LiveAs(a, "reviewer") /\ Retire(a)
          /\ UNCHANGED <<doing, faults, human>>
          /\ task' = task \/ task' = [task EXCEPT !.status = "pending_approval"]
      BY <1>3 DEF WatchdogReviewer, bounds
    <2>2. /\ task'.status \in {"review", "pending_approval"} /\ task'.rounds = task.rounds
          /\ task'.claimed_by = task.claimed_by
      BY <1>t, <2>1, TaskSet DEF Statuses
    <2>3. /\ Staffing' /\ Credit' /\ ~Sits' /\ (InFlight' <=> InFlight) /\ ImplDues' <= ImplDues
      BY <1>1, <2>1, <2>2 DEF LiveAs
    <2>4. Sits /\ ~Cr /\ ~Cr'  BY <2>1, <2>2 DEF Sits, Cr
    <2>5. One(Sits)' = 0 /\ One(Sits) = 1  BY <2>3, <2>4 DEF One
    <2>6. FixDues' <= FixDues /\ One(Sits)' <= One(Sits)  BY <2>3, <2>4, DuesFall
    <2>7. \/ ctx' = ctx
          \/ ctx'.frozen = Froze(ctx, "reviewer").frozen
      <3>1. ctx' \in {ctx, Froze(ctx, "reviewer"), WithVerdict(Froze(ctx, "reviewer"), "other")}
        BY <1>3 DEF WatchdogReviewer
      <3>2. Froze(ctx, "reviewer") \in Ctx  BY <1>t, FrozeTyped
      <3> QED BY <3>1, <3>2, FrozenKept
    <2>8. CASE ctx' = ctx
      <3>1. ImplDues' <= ImplDues + 0 /\ One(Sits)' <= One(Sits) + 0 /\ FixDues' <= FixDues + 0 + 0
        BY <2>3, <2>6, DuesAre
      <3>2. human' = human + 0 /\ faults' = faults + 0 /\ ctx'.frozen = ctx.frozen  BY <1>n, <2>1, <2>8
      <3>3. Accounts'  BY <1>t, <1>b, <1>n, <2>2, <2>3, <3>1, <3>2, Thrift
      <3> QED BY <2>3, <3>3 DEF Budgeted
    <2>9. CASE ctx'.frozen = Froze(ctx, "reviewer").frozen
      <3>1. One(Sits)' + 1 <= One(Sits)  BY <2>5
      <3>2. UNCHANGED <<faults, human>>  BY <2>1
      <3>3. Accounts'  BY <1>t, <1>b, <2>2, <2>3, <2>6, <2>9, <3>1, <3>2, FreezePaid
      <3> QED BY <2>3, <3>3 DEF Budgeted
    <2> QED BY <2>7, <2>8, <2>9
  <1>4. CASE WatchdogFixer(a)
    <2> DEFINE burnt == IF agents[a].silent = "hung" THEN Froze(ctx, "fixer") ELSE ctx
               capped == agents[a].silent = "hung" /\ Spent("fixer") >= RespawnCap
    <2>1. /\ doing["dispatcher"].at = "idle" /\ task.status = "changes_requested" /\ Holds(a)
          /\ agents[a].silent # "no" /\ Retire(a) /\ UNCHANGED <<doing, faults, human>>
          /\ IF capped \/ Superseded
             THEN /\ task' = IF capped
                             THEN [task EXCEPT !.status = "pending_approval"]
                             ELSE [task EXCEPT !.status = "ready", !.claimed_by = Nobody]
                  /\ ctx' = WithVerdict(NoFix(burnt), "other")
             ELSE /\ ctx' = NoFix(burnt)
                  /\ UNCHANGED task
      BY <1>4 DEF WatchdogFixer, LiveAs, bounds
    <2>2. /\ task'.rounds = task.rounds
          /\ \/ task'.status \in {"changes_requested", "pending_approval"} /\ task'.claimed_by = task.claimed_by
             \/ task'.status = "ready" /\ task'.claimed_by = Nobody
          /\ capped => task'.status = "pending_approval"
      <3>1. \/ task' = [task EXCEPT !.status = "pending_approval"]
            \/ ~capped /\ task' = [task EXCEPT !.status = "ready", !.claimed_by = Nobody]
            \/ ~capped /\ task' = task
        BY <2>1
      <3> HIDE DEF capped
      <3> QED BY <1>t, <2>1, <3>1, TaskSet, TaskFreed DEF Statuses
    <2>3. ctx'.frozen = burnt.frozen
      <3>1. burnt \in Ctx  BY <1>t, FrozeTyped
      <3>2. ctx' \in {WithVerdict(NoFix(burnt), "other"), NoFix(burnt)}  BY <2>1
      <3> HIDE DEF burnt
      <3>3. NoFix(burnt) \in Ctx  BY <1>t, <3>1, NoFixTyped
      <3> QED BY <3>1, <3>2, <3>3, FrozenKept
    <2>4. /\ Staffing' /\ Credit' /\ ~Sits' /\ (InFlight' <=> InFlight) /\ ImplDues' <= ImplDues
      BY <1>1, <2>1, <2>2
    <2>5. ~InFlight' /\ Cr
      BY <1>b, <2>1, <2>4 DEF SilentAlone, InFlight, Cr
    <2>6. FixDues' <= FixDues /\ One(Sits)' <= One(Sits)  BY <2>4, <2>5, DuesFall
    <2>7. CASE agents[a].silent # "hung"
      <3>1. ImplDues' <= ImplDues + 0 /\ One(Sits)' <= One(Sits) + 0 /\ FixDues' <= FixDues + 0 + 0
        BY <2>4, <2>6, DuesAre
      <3>2. human' = human + 0 /\ faults' = faults + 0 /\ ctx'.frozen = ctx.frozen
        BY <1>n, <2>1, <2>3, <2>7
      <3>3. Accounts'  BY <1>t, <1>b, <1>n, <2>2, <2>4, <3>1, <3>2, Thrift
      <3> QED BY <2>4, <3>3 DEF Budgeted
    <2>8. CASE agents[a].silent = "hung"
      <3>1. ctx'.frozen = Froze(ctx, "fixer").frozen  BY <2>3, <2>8
      <3>2. Spent("fixer") < RespawnCap \/ FixDues' + 1 <= FixDues
        <4>1. CASE ~capped
          <5>1. Spent("fixer") \in Nat /\ RespawnCap \in Nat
            <6>1. Arm("fixer") \in {"implementor", "reviewer", "fixer"} \X Rounds
              BY <1>t DEF Arm, TaskRow
            <6> QED BY <1>t, <6>1, PipelineAssumption DEF Spent, Ctx
          <5> QED BY <2>8, <4>1, <5>1
        <4>2. CASE capped
          <5>1. ~Cr'  BY <2>2, <4>2 DEF Cr
          <5>2. One(Sits)' = 0 /\ One(Cr)' = 0 /\ One(InFlight)' = 0 /\ One(Cr) = 1
            BY <2>4, <2>5, <5>1 DEF One
          <5>3. PICK x \in {0, 1}, i \in {0, 1} : One(Sits) = x /\ One(InFlight) = i  BY Ones
          <5>4. FixDues' = 0 + 0 + 0 /\ FixDues = x + 1 + i  BY <5>2, <5>3 DEF FixDues
          <5> QED BY <5>4
        <4> QED BY <4>1, <4>2
      <3>3. UNCHANGED <<faults, human>>  BY <2>1
      <3>4. Accounts'  BY <1>t, <1>b, <2>2, <2>4, <2>6, <3>1, <3>2, <3>3, FreezePaid
      <3> QED BY <2>4, <3>4 DEF Budgeted
    <2> QED BY <2>7, <2>8
  <1>5. CASE SweepRetires(a)
    <2>1. /\ agents[a].status \in {"idle", "stopped"} /\ ~agents[a].bound /\ doing["dispatcher"].at = "idle"
          /\ agents' = [agents EXCEPT ![a] = Dead([agents[a] EXCEPT !.bound = TRUE], agents[a].pane)]
          /\ doing' = [doing EXCEPT !["dispatcher"].at = "swept", !["dispatcher"].agent = a]
          /\ UNCHANGED <<task, ctx, faults, human>>
      BY <1>5 DEF SweepRetires, bounds
    <2>2. Tame /\ Mild /\ \A b \in Ids : Holds(b) => Holds(b)'
      <3> DEFINE rec == [agents[a] EXCEPT !.bound = TRUE]
                 r == Dead(rec, agents[a].pane)
      <3>1. agents[a] \in AgentRow /\ agents[a].pane \in BOOLEAN  BY <1>t DEF AgentRow
      <3>2. /\ rec \in AgentRow /\ rec.role = agents[a].role /\ rec.silent = agents[a].silent
            /\ rec.pane = agents[a].pane
        BY <3>1 DEF AgentRow
      <3>3. agents' = [agents EXCEPT ![a] = r]  BY <2>1
      <3> HIDE DEF rec
      <3>4. r \in AgentRow /\ r.status = "dead" /\ r.role = agents[a].role /\ r.silent \in {agents[a].silent, "no"}
        BY <3>1, <3>2, DeadRow
      <3>5. r.pane => agents[a].pane
        <4>1. ~agents[a].pane => r.pane = FALSE  BY DEF Dead, NoAgent
        <4> QED BY <3>1, <4>1
      <3> HIDE DEF r
      <3>6. Tame  BY <1>t, <3>3, <3>4, TameRow
      <3>7. agents'[a] = r /\ \A b \in Ids : b # a => agents'[b] = agents[b]  BY <1>t, <3>3
      <3>8. ~Holds(a)  BY <2>1 DEF Holds
      <3>9. \A b \in Ids : Holds(b) => Holds(b)'  BY <3>7, <3>8 DEF Holds
      <3>10. Mild  BY <3>5, <3>7, <3>9 DEF Mild
      <3> QED BY <3>6, <3>9, <3>10
    <2>3. Steady
      <3>1. /\ doing' \in [Loops -> Doing] /\ doing'["dispatcher"].at = "swept"
            /\ doing'["dispatcher"].agent = a /\ \A q \in Loops : q # "dispatcher" => doing'[q] = doing[q]
        BY <1>t, <2>1, WentWith DEF Loops
      <3> QED BY <2>1, <3>1 DEF Steady, Sweeps
    <2>4. UNCHANGED <<task, faults, human>> /\ ctx'.frozen = ctx.frozen
      BY <2>1
    <2>5. doing["dispatcher"].at \notin {"inserted", "running"}  BY <2>1
    <2> QED BY <2>2, <2>3, <2>4, <2>5, Inconspicuous
  <1>6. CASE RetireStuckImplementor(a)
    <2>1. /\ doing["dispatcher"].at \in {"wants_reviewer", "wants_fixer"} /\ ~AtIt(a)
          /\ agents' = [agents EXCEPT ![a] = Dead(agents[a], agents[a].pane)] /\ Rest("dispatcher")
          /\ UNCHANGED <<task, ctx, faults, human>>
      BY <1>6 DEF RetireStuckImplementor, bounds
    <2>2. Steady /\ doing'["dispatcher"] = Idle
      BY <1>t, <2>1, SteadyRest DEF Loops
    <2>3. ~Spawning'  BY <2>2 DEF Spawning, Idle
    <2>4. doing["dispatcher"].at \notin {"inserted", "running"}  BY <2>1
    <2> QED BY <2>1, <2>2, <2>3, <2>4, LetGoBudgeted
  <1> QED BY <1>2, <1>3, <1>4, <1>5, <1>6

\* Comment rounds and the acts of humans, which pay for what they ask for.
LEMMA CommentsBudgeted ==
    ASSUME PipeIInv, Budgeted, CommentPass \/ Human
    PROVE  Budgeted'
  <1> USE DEF At
  <1>t. /\ PipeTyped /\ TypeOK /\ task \in TaskRow /\ agents \in [Ids -> AgentRow] /\ ctx \in Ctx
        /\ doing \in [Loops -> Doing]
        /\ \A p \in Loops : doing[p].at \notin Unplaced =>
               doing[p].agent \in Ids /\ agents[doing[p].agent].status # "absent"
    BY Rows
  <1>b. /\ Staffing /\ Accounts /\ ClaimIsOurs /\ FreshSpawns /\ SilentAlone /\ WorkerKept
        /\ ImplementorsInPhase
    BY DEF Budgeted, Staffing
  <1>n. /\ human \in Nat /\ faults \in Nat /\ human = human + 0 /\ faults = faults + 0
    BY <1>t, PipelineAssumption DEF TypeOK
  <1>1. CASE CommentEpisode
    <2> DEFINE w == doing["comments"].agent
               status == IF doing["comments"].parked /\ task.status = "pending_approval"
                         THEN "changes_requested" ELSE task.status
               by == IF status = "changes_requested" THEN w ELSE task.claimed_by
    <2>1. /\ doing["comments"].at = "running"
          /\ task' = [task EXCEPT !.status = status, !.claimed_by = by]
          /\ ctx' = [ctx EXCEPT !.fix = ctx.fix \cup {task.rounds}] /\ Go("comments", "recorded")
          /\ UNCHANGED <<agents, faults, human>>
      BY <1>1 DEF CommentEpisode, bounds
    <2>2. w \in Ids /\ agents[w].status # "absent"  BY <1>t, <2>1 DEF Loops, Unplaced
    <2>3. /\ task'.rounds = task.rounds
          /\ \/ task'.status = task.status /\ task'.claimed_by = task.claimed_by
             \/ /\ task.status \in {"changes_requested", "pending_approval"}
                /\ task'.status = "changes_requested" /\ task'.claimed_by = w
      <3>1. /\ task'.rounds = task.rounds /\ task'.status = status /\ task'.claimed_by = by
        <4> HIDE DEF status, by
        <4> QED BY <1>t, <2>1 DEF TaskRow
      <3> QED BY <3>1
    <2>4. /\ Steady /\ doing'["comments"].at = "recorded" /\ doing'["comments"].agent = w
          /\ \A q \in Loops : q # "comments" => doing'[q] = doing[q]
      <3>1. "recorded" \in Places["comments"]  BY DEF Places
      <3> QED BY <1>t, <2>1, <3>1, SteadyGo DEF Loops, Unplaced
    <2>5. Tame  BY <1>t, <2>1, TameSame
    <2>6. doing'["scheduler"] = doing["scheduler"] /\ doing'["dispatcher"] = doing["dispatcher"]
      BY <2>4 DEF Loops
    <2>7. FreshSpawns'
      <3> SUFFICES ASSUME NEW p \in Loops, doing'[p].at = "inserted"
                   PROVE  /\ agents'[doing'[p].agent].silent = "no" /\ agents'[doing'[p].agent].role \in SpawnsAs[p]
                          /\ doing'[p].agent # task'.claimed_by
                          /\ \A q \in Loops \ {p} : doing'[q].at \in SpawnPlaces => doing'[p].agent # doing'[q].agent
        BY DEF FreshSpawns
      <3>1. p # "comments" /\ doing'[p] = doing[p]  BY <2>4
      <3>2. /\ agents[doing[p].agent].silent = "no" /\ agents[doing[p].agent].role \in SpawnsAs[p]
            /\ doing[p].agent # task.claimed_by
            /\ \A q \in Loops \ {p} : doing[q].at \in SpawnPlaces => doing[p].agent # doing[q].agent
        BY <1>b, <3>1 DEF FreshSpawns
      <3>3. "running" \in SpawnPlaces /\ "comments" \in Loops  BY DEF SpawnPlaces, Loops
      <3>4. doing[p].agent # w  BY <2>1, <3>1, <3>2, <3>3
      <3>5. \A q \in Loops : doing'[q].agent = doing[q].agent /\ (doing'[q].at \in SpawnPlaces => doing[q].at \in SpawnPlaces)
        BY <2>1, <2>4, <3>3
      <3> QED BY <2>1, <2>3, <3>1, <3>2, <3>4, <3>5
    <2>8. SilentAlone' /\ WorkerKept'
      BY <1>b, <2>1, <2>6 DEF SilentAlone, WorkerKept, Holds
    <2>9. ImplementorsInPhase'
      BY <1>b, <2>1, <2>3 DEF ImplementorsInPhase, ImplementorPhases, LiveAs, Holds
    <2>10. ClaimIsOurs'
      BY <1>b, <2>1, <2>3, <2>6 DEF ClaimIsOurs, SchedulerAt, Holds
    <2>11. Staffing'
      <3>1. task'.claimed_by # Nobody => agents'[task'.claimed_by].status # "absent"
        BY <1>b, <2>1, <2>2, <2>3 DEF Staffing
      <3>2. Haunted' => ~Spawning'
        BY <1>b, <2>1, <2>3, <2>6 DEF Haunted, Claimant, Holds, Spawning, Staffing
      <3> QED BY <2>7, <2>8, <2>9, <2>10, <3>1, <3>2 DEF Staffing
    <2>12. InFlight /\ ~InFlight'  BY <2>1, <2>4 DEF InFlight
    <2>13. (ToReviewer' => ToReviewer) /\ (Sits' => Sits)
      BY <1>t, <2>4, <2>5, <2>6, Wishes, SitsSame
    <2>14. One(InFlight) = 1 /\ One(InFlight)' = 0 /\ One(Debt) = 1 /\ One(Sits)' <= One(Sits)
      BY <2>12, <2>13, DuesFall DEF One, Debt
    <2>15. ImplDues' <= ImplDues
      <3>1. CASE task'.status = task.status /\ task'.claimed_by = task.claimed_by
        <4>1. (CanRun' => CanRun) /\ (Debt' => Debt)
          BY <2>1, <2>12, <3>1 DEF CanRun, Claimant, Debt
        <4> QED BY <4>1, DuesFall
      <3>2. CASE task'.status = "changes_requested"
        <4>1. ~Debt'  BY <2>12, <3>2 DEF Debt, Usurped
        <4>2. One(Debt)' = 0  BY <4>1 DEF One
        <4> QED BY <2>14, <4>2, Ones DEF ImplDues
      <3> QED BY <2>3, <3>1, <3>2
    <2>16. FixDues' <= FixDues
      <3>1. PICK x \in {0, 1}, y \in {0, 1}, c \in {0, 1}, d \in {0, 1} :
               One(Sits) = x /\ One(Sits)' = y /\ One(Cr) = c /\ One(Cr)' = d
        BY Ones
      <3>2. FixDues = x + c + 1 /\ FixDues' = y + d + 0 /\ y <= x  BY <2>14, <3>1 DEF FixDues
      <3> QED BY <3>2
    <2>17. Credit'
      <3>1. ToReviewer' => One(Cr)' + One(InFlight)' <= human'
        <4> SUFFICES ASSUME ToReviewer' PROVE One(Cr)' + One(InFlight)' <= human'
          OBVIOUS
        <4>1. One(Cr) + 1 <= human  BY <1>b, <2>13, <2>14 DEF Accounts, Credit
        <4>2. PICK c \in {0, 1}, d \in {0, 1} : One(Cr) = c /\ One(Cr)' = d  BY Ones
        <4>3. d + 0 <= human  BY <1>n, <4>1, <4>2
        <4> QED BY <2>1, <2>14, <4>2, <4>3
      <3> QED BY <2>12, <3>1 DEF Credit
    <2>18. ctx'.frozen = ctx.frozen  BY <1>t, <2>1 DEF Ctx
    <2>19. ImplDues' <= ImplDues + 0 /\ One(Sits)' <= One(Sits) + 0 /\ FixDues' <= FixDues + 0 + 0
      BY <2>14, <2>15, <2>16, DuesAre
    <2>20. human' = human + 0 /\ faults' = faults + 0  BY <1>n, <2>1
    <2>21. Accounts'  BY <1>t, <1>b, <1>n, <2>3, <2>17, <2>18, <2>19, <2>20, Thrift
    <2> QED BY <2>11, <2>21 DEF Budgeted
  <1>2. CASE EnqueueCommentFix
    <2>1. Rest("comments") /\ UNCHANGED <<task, agents, ctx, faults, human>>
      BY <1>2 DEF EnqueueCommentFix, bounds
    <2>2. Steady /\ doing'["dispatcher"] = doing["dispatcher"]  BY <1>t, <2>1, SteadyRest DEF Loops
    <2>3. Tame /\ Mild /\ \A a \in Ids : Holds(a) => Holds(a)'
      BY <1>t, <2>1, TameSame DEF Mild, Holds
    <2>4. UNCHANGED <<task, faults, human>> /\ ctx'.frozen = ctx.frozen  BY <2>1
    <2> QED BY <2>2, <2>3, <2>4, Inconspicuous
  <1>3. ASSUME ReopenReview \/ RequeueTask \/ GateFails PROVE Budgeted'
    <2>1. /\ task.status \in {"ready_to_merge", "pending_approval"}
          /\ \/ \E s \in {"review", "changes_requested", "pending_approval"} :
                   task' = [task EXCEPT !.status = s]
             \/ task' = [task EXCEPT !.status = "ready", !.claimed_by = Nobody]
          /\ human' = human + 1 /\ UNCHANGED <<agents, ctx, doing, faults>>
      BY <1>3 DEF ReopenReview, RequeueTask, GateFails
    <2>2. /\ task'.rounds = task.rounds
          /\ \/ /\ task'.status \in {"review", "changes_requested", "pending_approval"}
                /\ task'.claimed_by = task.claimed_by
             \/ task'.status = "ready" /\ task'.claimed_by = Nobody
      BY <1>t, <2>1, TaskSet, TaskFreed DEF Statuses
    <2>3. Tame /\ Steady  BY <1>t, <2>1, TameSame, SteadySame
    <2>4. ~SchedulerAt' /\ doing'["scheduler"].at \notin SpawnPlaces
      BY <1>b, <2>1 DEF ClaimIsOurs, SchedulerAt, SpawnPlaces
    <2>5. ~Haunted' /\ ~Usurped' /\ ~Cr
      BY <2>1, <2>2 DEF Haunted, Usurped, Cr
    <2>6. Staffing'
      <3>1. /\ task'.claimed_by \in {task.claimed_by, Nobody}
            /\ task'.status = "ready" => task'.claimed_by = Nobody
            /\ task.status \notin ImplementorPhases
        BY <2>1, <2>2 DEF ImplementorPhases
      <3> QED BY <1>b, <2>3, <2>4, <2>5, <3>1, StaffStays
    <2>7. (ToReviewer' => ToReviewer) /\ (InFlight' <=> InFlight) /\ (Sits' => Sits)
      <3>1. ToReviewer' => ToReviewer  BY <1>t, <2>3, Wishes
      <3>2. InFlight' <=> InFlight  BY <2>1 DEF InFlight
      <3>3. Sits' => Sits  BY <1>t, <2>1, <2>3, SitsSame
      <3> QED BY <3>1, <3>2, <3>3
    <2>8. Debt' => Debt  BY <2>5, <2>7 DEF Debt
    <2>9. /\ One(Debt)' <= One(Debt) /\ One(InFlight)' = One(InFlight) /\ One(Sits)' <= One(Sits)
          /\ One(Cr) = 0
      BY <2>5, <2>7, <2>8 DEF One
    <2>10. ImplDues' <= ImplDues + 1  BY <2>9, Ones DEF ImplDues
    <2>11. PICK c \in {0, 1}, i \in {0, 1} : One(Cr)' = c /\ One(InFlight) = i  BY Ones
    <2>12. FixDues' <= FixDues + 1 + 0
      <3>1. PICK x \in {0, 1}, y \in {0, 1} : One(Sits) = x /\ One(Sits)' = y  BY Ones
      <3>2. FixDues = x + 0 + i /\ FixDues' = y + c + i /\ y <= x  BY <2>9, <2>11, <3>1 DEF FixDues
      <3> QED BY <3>2
    <2>13. Credit'
      <3>1. InFlight' => human' >= 1  BY <1>n, <2>1
      <3>2. ToReviewer' => One(Cr)' + One(InFlight)' <= human'
        <4> SUFFICES ASSUME ToReviewer' PROVE One(Cr)' + One(InFlight)' <= human'
          OBVIOUS
        <4>1. 0 + i <= human  BY <1>b, <2>7, <2>9, <2>11 DEF Accounts, Credit
        <4>2. c + i <= human + 1  BY <1>n, <4>1
        <4> QED BY <2>1, <2>9, <2>11, <4>2
      <3> QED BY <3>1, <3>2 DEF Credit
    <2>14. /\ One(Sits)' <= One(Sits) + 0 /\ faults' = faults + 0 /\ ctx'.frozen = ctx.frozen
      BY <1>n, <2>1, <2>9, Ones
    <2>15. Accounts'
      BY <1>t, <1>b, <1>n, <2>1, <2>2, <2>10, <2>12, <2>13, <2>14, Thrift
    <2> QED BY <2>6, <2>15 DEF Budgeted
  <1>4. CASE ReadComment
    <2>1. PICK a \in Ids :
             /\ Inserts(a, "fixer")
             /\ doing' = [doing EXCEPT !["comments"] =
                    [at |-> "inserted", agent |-> a, parked |-> task.status = "pending_approval"]]
      BY <1>4 DEF ReadComment, Inserts
    <2>2. /\ doing["comments"].at = "idle" /\ human' = human + 1 /\ UNCHANGED <<task, ctx, faults>>
      BY <1>4 DEF ReadComment
    <2>3. /\ doing' \in [Loops -> Doing] /\ doing'["comments"].at = "inserted"
          /\ doing'["comments"].agent = a /\ \A q \in Loops : q # "comments" => doing'[q] = doing[q]
      <3> DEFINE parked == task.status = "pending_approval"
                 d == [at |-> "inserted", agent |-> a, parked |-> parked]
      <3>1. parked \in BOOLEAN  OBVIOUS
      <3> HIDE DEF parked
      <3>2. d \in Doing /\ d.at = "inserted" /\ d.agent = a  BY <3>1 DEF Doing
      <3>3. doing' = [doing EXCEPT !["comments"] = d]  BY <2>1 DEF parked
      <3> HIDE DEF d
      <3> QED BY <1>t, <3>2, <3>3 DEF Loops
    <2>4. "fixer" \in SpawnsAs["comments"]  BY DEF SpawnsAs
    <2> QED BY <2>1, <2>2, <2>3, <2>4, SpawnBudgeted DEF Loops
  <1> QED BY <1>1, <1>2, <1>3, <1>4 DEF CommentPass, Human

\* What agents do: verdicts, dones, late dones, and falling silent.
LEMMA AgentBudgeted ==
    ASSUME PipeIInv, Budgeted, NEW a \in Ids, Agent(a)
    PROVE  Budgeted'
  <1>t. /\ PipeTyped /\ TypeOK /\ task \in TaskRow /\ agents \in [Ids -> AgentRow] /\ ctx \in Ctx
    BY Rows
  <1>b. /\ Staffing /\ Accounts /\ ClaimIsOurs /\ FreshSpawns /\ SilentAlone /\ WorkerKept
        /\ ImplementorsInPhase
    BY DEF Budgeted, Staffing
  <1>c. /\ TRUE \in BOOLEAN /\ FALSE \in BOOLEAN /\ "nothing" \in Verdicts \cup {"nothing"}
        /\ "idle" \in {"stopped", "running", "idle", "dead"}
        /\ "stopped" \in {"stopped", "running", "idle", "dead"}
    OBVIOUS
  <1>d. ~AtIt(a) => \A p \in Loops : doing[p].agent # a  BY DEF AtIt
  <1>1. ASSUME NEW r \in AgentRow, agents' = [agents EXCEPT ![a] = r], Tame,
               r.pane => agents[a].pane, Holds(a) => r.bound /\ r.status # "dead",
               UNCHANGED <<task, ctx, doing, faults, human>>
        PROVE  Budgeted'
    <2>1. agents'[a] = r /\ \A b \in Ids : b # a => agents'[b] = agents[b]  BY <1>t, <1>1
    <2>2. \A b \in Ids : Holds(b) => Holds(b)'  BY <1>1, <2>1 DEF Holds
    <2>3. Mild  BY <1>1, <2>1, <2>2 DEF Mild
    <2>4. Steady  BY <1>t, <1>1, SteadySame
    <2>5. UNCHANGED <<task, faults, human>> /\ ctx'.frozen = ctx.frozen  BY <1>1
    <2>6. doing'["dispatcher"] = doing["dispatcher"]  BY <1>1
    <2> QED BY <1>1, <2>2, <2>3, <2>4, <2>5, <2>6, Inconspicuous
  <1>2. CASE Brief(a)
    <2> DEFINE r == [agents[a] EXCEPT !.briefed = TRUE]
    <2>1. agents' = [agents EXCEPT ![a].briefed = TRUE] /\ UNCHANGED <<task, ctx, doing, faults, human>>
      BY <1>2 DEF Brief, bounds
    <2>2. Tame  BY <1>t, <1>c, <2>1, AgentEdited
    <2>3. r \in AgentRow /\ r.pane = agents[a].pane /\ r.bound = agents[a].bound /\ r.status = agents[a].status
      BY <1>t DEF AgentRow
    <2>4. agents' = [agents EXCEPT ![a] = r]  BY <2>1
    <2> HIDE DEF r
    <2> QED BY <1>1, <2>1, <2>2, <2>3, <2>4 DEF Holds
  <1>3. ASSUME NEW v \in Verdicts, SayVerdict(a, v) PROVE Budgeted'
    <2> DEFINE r == [agents[a] EXCEPT !.said = v]
    <2>1. agents' = [agents EXCEPT ![a].said = v] /\ UNCHANGED <<task, ctx, doing, faults, human>>
      BY <1>3 DEF SayVerdict, bounds
    <2>2. v \in Verdicts \cup {"nothing"}  OBVIOUS
    <2>3. Tame  BY <1>t, <1>c, <2>1, <2>2, AgentEdited
    <2>4. r \in AgentRow /\ r.pane = agents[a].pane /\ r.bound = agents[a].bound /\ r.status = agents[a].status
      BY <1>t DEF AgentRow
    <2>5. agents' = [agents EXCEPT ![a] = r]  BY <2>1
    <2> HIDE DEF r
    <2> QED BY <1>1, <2>1, <2>3, <2>4, <2>5 DEF Holds
  <1>4. CASE PaneDies(a)
    <2>1. PICK s \in {agents[a].status, "stopped"} :
             agents' = [agents EXCEPT ![a].pane = FALSE, ![a].status = s]
      BY <1>4 DEF PaneDies
    <2>2. Holds(a) /\ UNCHANGED <<task, ctx, doing, faults, human>>
      BY <1>4 DEF PaneDies
    <2> DEFINE r == [agents[a] EXCEPT !.pane = FALSE, !.status = s]
    <2>3. \/ agents' = [agents EXCEPT ![a].pane = FALSE, ![a].status = "stopped"]
          \/ agents' = [agents EXCEPT ![a].pane = FALSE, ![a].status = agents[a].status]
      BY <2>1
    <2>4. Tame  BY <1>t, <1>c, <2>2, <2>3, AgentEdited
    <2>5. r \in AgentRow /\ r.pane = FALSE /\ r.bound = agents[a].bound /\ r.status = s
      BY <1>t DEF AgentRow
    <2>6. agents' = [agents EXCEPT ![a] = r]  BY <2>1
    <2>7. r.bound /\ r.status # "dead"
      <3> HIDE DEF r
      <3> QED BY <2>1, <2>2, <2>5 DEF Holds
    <2> HIDE DEF r
    <2> QED BY <1>1, <2>2, <2>4, <2>5, <2>6, <2>7
  <1>5. CASE Release(a)
    <2>1. /\ agents[a].pane /\ ~AtIt(a) /\ task.status = "review"
          /\ agents' = [agents EXCEPT ![a] = Dead(agents[a], TRUE)]
          /\ UNCHANGED <<task, ctx, doing, faults, human>>
      BY <1>5 DEF Release, CanAct, bounds
    <2>2. agents[a].pane = TRUE  BY <1>t, <2>1 DEF AgentRow
    <2>3. agents' = [agents EXCEPT ![a] = Dead(agents[a], agents[a].pane)]  BY <2>1, <2>2
    <2>4. Steady  BY <1>t, <2>1, SteadySame
    <2>5. UNCHANGED <<task, ctx, faults, human>> /\ doing'["dispatcher"] = doing["dispatcher"]
      BY <2>1
    <2> QED BY <2>1, <2>3, <2>4, <2>5, LetGoBudgeted
  <1>6. CASE SetPR(a)
    <2>1. /\ ~AtIt(a) /\ LiveAs(a, "implementor")
          /\ task' = [task EXCEPT !.status = "review", !.pr_open = TRUE]
          /\ UNCHANGED <<agents, ctx, doing, faults, human>>
      BY <1>6 DEF SetPR, CanAct, bounds
    <2>2. task'.rounds = task.rounds /\ task'.status = "review" /\ task'.claimed_by = task.claimed_by
      BY <1>t, <2>1 DEF TaskRow
    <2>3. ~SchedulerAt'
      BY <1>b, <1>d, <2>1 DEF ClaimIsOurs, SchedulerAt, Loops, LiveAs
    <2>4. doing'["scheduler"].at \notin SpawnPlaces  BY <2>3 DEF SchedulerAt, SpawnPlaces
    <2>5. Tame /\ Steady  BY <1>t, <2>1, TameSame, SteadySame
    <2>6. ~Haunted' /\ ~Usurped' /\ ~Cr'  BY <2>2 DEF Haunted, Usurped, Cr
    <2>7. CanRun
      BY <1>b, <2>1 DEF ImplementorsInPhase, ImplementorPhases, CanRun
    <2>8. Staffing'
      BY <1>b, <2>2, <2>3, <2>4, <2>5, <2>6, StaffStays DEF ImplementorPhases
    <2>9. (InFlight' => InFlight) /\ (ToReviewer' => ToReviewer)  BY <1>t, <2>5, Wishes
    <2>10. Sits' => Sits  BY <1>t, <2>1, <2>5, SitsSame
    <2>11. Debt' => Debt  BY <2>6, <2>9 DEF Debt
    <2>12. ctx'.frozen = ctx.frozen /\ UNCHANGED <<faults, human>>  BY <2>1
    <2>13. Accounts'  BY <1>t, <1>b, <2>2, <2>6, <2>7, <2>9, <2>10, <2>11, <2>12, Frugal
    <2> QED BY <2>8, <2>13 DEF Budgeted
  <1>7. ASSUME NEW to \in {"review", "ready"}, Finish(a, to), UNCHANGED <<ctx, doing, faults, human>>
        PROVE  Budgeted'
    <2>1. /\ agents' = [agents EXCEPT ![a].bound = FALSE, ![a].status = "idle", ![a].briefed = FALSE]
          /\ task' = IF task.claimed_by = a
                     THEN [task EXCEPT !.status = to, !.claimed_by = Nobody] ELSE task
          /\ agents[a].pane /\ ~AtIt(a)
      BY <1>7 DEF Finish, CanAct
    <2>2. Tame  BY <1>t, <1>c, <2>1, AgentEdited
    <2>3. Steady  BY <1>t, <1>7, SteadySame
    <2>4. \A b \in Ids : b # a => agents'[b] = agents[b]  BY <1>t, <2>1
    <2>5. (InFlight' => InFlight) /\ (ToReviewer' => ToReviewer) /\ (SchedulerAt' => SchedulerAt)
      BY <1>t, <2>2, <2>3, Wishes
    <2>6. Sits' => Sits  BY <1>t, <1>7, <2>2, <2>3, SitsSame
    <2>7. doing'["scheduler"].at \in SpawnPlaces =>
             \A b \in Ids : Holds(b) /\ b = doing["scheduler"].agent => Holds(b)'
      BY <1>d, <2>1, <2>4 DEF Holds, Loops
    <2>8. ctx'.frozen = ctx.frozen /\ UNCHANGED <<faults, human>>  BY <1>7
    <2>9. CASE task.claimed_by # a
      <3>1. task' = task  BY <2>1, <2>9
      <3>2. task.claimed_by # Nobody =>
               task.claimed_by \in Ids /\ agents'[task.claimed_by] = agents[task.claimed_by]
        BY <1>t, <2>4, <2>9 DEF TaskRow
      <3>3. (Claimant' => Claimant) /\ (Haunted' => Haunted)
        BY <3>1, <3>2 DEF Haunted, Claimant, Holds
      <3>4. Usurped' => Usurped  BY <2>2, <3>1, <3>3 DEF Usurped, Tame, Holds
      <3>5. Staffing'
        <4>1. /\ task'.claimed_by \in {task.claimed_by, Nobody}
              /\ task'.status = "ready" => task'.claimed_by = Nobody
              /\ SchedulerAt' => task'.status = "claimed" /\ task'.claimed_by = Nobody
              /\ task'.status \in ImplementorPhases \/ task.status \notin ImplementorPhases \/ SlotFree'
          BY <1>b, <2>5, <3>1 DEF ClaimIsOurs
        <4> QED BY <1>b, <2>2, <2>3, <2>7, <3>3, <4>1, StaffStays
      <3>6. (CanRun' => CanRun) /\ (Debt' => Debt) /\ (Cr' => Cr)
        BY <2>5, <3>1, <3>3, <3>4 DEF CanRun, Debt, Cr
      <3>7. task'.rounds = task.rounds  BY <3>1
      <3>8. Accounts'  BY <1>t, <1>b, <2>5, <2>6, <2>8, <3>6, <3>7, Frugal
      <3> QED BY <3>5, <3>8 DEF Budgeted
    <2>10. CASE task.claimed_by = a
      <3>1. task'.rounds = task.rounds /\ task'.status = to /\ task'.claimed_by = Nobody
        BY <1>t, <2>1, <2>10, TaskFreed DEF Statuses
      <3>2. a # Nobody  BY DEF Ids, Nobody
      <3>3. ~SchedulerAt'  BY <1>b, <1>7, <2>10, <3>2 DEF ClaimIsOurs, SchedulerAt
      <3>4. ~Haunted' /\ ~Usurped' /\ ~Cr' /\ CanRun
        BY <2>1, <2>10, <3>1, <3>2 DEF Haunted, Usurped, Cr, CanRun, Claimant
      <3>5. Staffing'
        BY <1>b, <2>2, <2>3, <2>7, <3>1, <3>3, <3>4, StaffStays DEF ImplementorPhases
      <3>6. Debt' => Debt  BY <2>5, <3>4 DEF Debt
      <3>7. Accounts'  BY <1>t, <1>b, <2>5, <2>6, <2>8, <3>1, <3>4, <3>6, Frugal
      <3> QED BY <3>5, <3>7 DEF Budgeted
    <2> QED BY <2>9, <2>10
  <1>8. CASE Done(a)
    BY <1>7, <1>8 DEF Done, bounds
  <1>9. CASE DoneRed(a)
    BY <1>7, <1>9 DEF DoneRed
  <1>10. ASSUME NEW how \in {"hung", "turn_ended"}, FallsSilent(a, how) PROVE Budgeted'
    <2>1. /\ AllIdle /\ agents' = [agents EXCEPT ![a].silent = how]
          /\ UNCHANGED <<task, ctx, doing, faults, human>>
      BY <1>10 DEF FallsSilent
    <2>2. \A b \in Ids : /\ agents'[b].role = agents[b].role /\ agents'[b].status = agents[b].status
                         /\ agents'[b].bound = agents[b].bound /\ agents'[b].pane = agents[b].pane
      <3> DEFINE r == [agents[a] EXCEPT !.silent = how]
      <3>1. /\ r.role = agents[a].role /\ r.status = agents[a].status
            /\ r.bound = agents[a].bound /\ r.pane = agents[a].pane
        BY <1>t DEF AgentRow
      <3>2. agents' = [agents EXCEPT ![a] = r]  BY <2>1
      <3> HIDE DEF r
      <3> QED BY <1>t, <3>1, <3>2
    <2>3. \A p \in Loops : doing'[p].at = "idle" /\ doing[p].at = "idle"
      BY <2>1 DEF AllIdle, At
    <2>4. \A b \in Ids : (Holds(b)' <=> Holds(b)) /\ (LiveAs(b, "reviewer")' <=> LiveAs(b, "reviewer"))
                         /\ (LiveAs(b, "implementor")' <=> LiveAs(b, "implementor"))
      BY <2>2 DEF Holds, LiveAs
    <2>5. task.claimed_by # Nobody => task.claimed_by \in Ids  BY <1>t DEF TaskRow
    <2>6. (Claimant' <=> Claimant) /\ (Usurped' <=> Usurped)
      BY <2>1, <2>2, <2>4, <2>5 DEF Claimant, Usurped
    <2>7. FreshSpawns' /\ SilentAlone' /\ WorkerKept' /\ ClaimIsOurs'
      BY <1>b, <2>1, <2>3 DEF FreshSpawns, SilentAlone, WorkerKept, ClaimIsOurs, SchedulerAt, SpawnPlaces, Loops
    <2>8. ImplementorsInPhase' /\ ~Spawning'
      BY <1>b, <2>1, <2>3, <2>4 DEF ImplementorsInPhase, Spawning, Loops
    <2>9. Staffing'
      BY <1>b, <2>1, <2>2, <2>5, <2>7, <2>8 DEF Staffing
    <2>10. (CanRun' => CanRun) /\ (Debt' => Debt) /\ (Cr' => Cr) /\ (InFlight' => InFlight)
      BY <2>1, <2>6 DEF CanRun, Debt, Cr, InFlight
    <2>11. (Sits' => Sits) /\ ~ToReviewer'
      BY <2>1, <2>3, <2>4 DEF Sits, ToReviewer, Towards, Loops
    <2>12. Accounts'  BY <1>t, <1>b, <2>1, <2>10, <2>11, Frugal
    <2> QED BY <2>9, <2>12 DEF Budgeted
  <1> QED BY <1>2, <1>3, <1>4, <1>5, <1>6, <1>8, <1>9, <1>10 DEF Agent, Answers

\* A window opens or fails, and the agent sits there from then on or is gone.
LEMMA WindowsBudgeted ==
    ASSUME PipeIInv, Budgeted, NEW p \in Loops, WindowOpens(p) \/ WindowFails(p)
    PROVE  Budgeted'
  <1> USE DEF At
  <1>t. /\ PipeTyped /\ TypeOK /\ task \in TaskRow /\ agents \in [Ids -> AgentRow] /\ ctx \in Ctx
        /\ doing \in [Loops -> Doing]
        /\ \A q \in Loops : doing[q].at \notin Unplaced =>
               doing[q].agent \in Ids /\ agents[doing[q].agent].status # "absent"
    BY Rows
  <1>b. /\ Staffing /\ Accounts /\ ClaimIsOurs /\ FreshSpawns /\ SilentAlone /\ WorkerKept
        /\ ImplementorsInPhase
    BY DEF Budgeted, Staffing
  <1>n. /\ human \in Nat /\ faults \in Nat /\ human = human + 0
    BY <1>t, PipelineAssumption DEF TypeOK
  <1> DEFINE a == doing[p].agent
  <1>a. doing[p].at = "inserted" /\ a \in Ids /\ agents[a].status # "absent"
    BY <1>t DEF WindowOpens, WindowFails, Unplaced
  <1>c. /\ a # task.claimed_by /\ agents[a].silent = "no" /\ agents[a].role \in SpawnsAs[p]
        /\ \A q \in Loops \ {p} : doing[q].at \in SpawnPlaces => a # doing[q].agent
    BY <1>a, <1>b DEF FreshSpawns
  <1>d. p = "scheduler" =>
           SchedulerAt /\ Holds(a) /\ task.status = "claimed" /\ task.claimed_by = Nobody
    BY <1>a, <1>b DEF WorkerKept, ClaimIsOurs, SchedulerAt, SpawnPlaces
  <1>e. agents[a].role = "implementor" => p = "scheduler"
    <2>1. /\ SpawnsAs["scheduler"] = {"implementor"} /\ SpawnsAs["dispatcher"] = {"reviewer", "fixer"}
          /\ SpawnsAs["comments"] = {"fixer"}
      BY DEF SpawnsAs
    <2> QED BY <1>c, <2>1 DEF Loops
  <1>f. agents[a].role = "reviewer" => p = "dispatcher"
    <2>1. /\ SpawnsAs["scheduler"] = {"implementor"} /\ SpawnsAs["dispatcher"] = {"reviewer", "fixer"}
          /\ SpawnsAs["comments"] = {"fixer"}
      BY DEF SpawnsAs
    <2> QED BY <1>c, <2>1 DEF Loops
  <1>g. task.claimed_by # Nobody => task.claimed_by \in Ids  BY <1>t DEF TaskRow
  <1>1. CASE WindowFails(p)
    <2>1. /\ Unclaim(p) /\ Rest(p) /\ faults' = faults + 1 /\ UNCHANGED <<agents, ctx, human>>
      BY <1>1 DEF WindowFails
    <2>2. /\ task'.rounds = task.rounds /\ task'.claimed_by = task.claimed_by
          /\ \/ task' = task
             \/ p = "scheduler" /\ task.status = "claimed" /\ task'.status = "ready"
      BY <1>t, <2>1, Unclaimed
    <2>3. Tame /\ Steady /\ doing'[p] = Idle  BY <1>t, <2>1, TameSame, SteadyRest
    <2>4. (InFlight' => InFlight) /\ (ToReviewer' => ToReviewer) /\ (SchedulerAt' => SchedulerAt)
      BY <1>t, <2>3, Wishes
    <2>5. SchedulerAt' => p # "scheduler"  BY <2>3 DEF SchedulerAt, Idle
    <2>6. (Claimant' => Claimant) /\ (Haunted' => Haunted) /\ (Usurped' => Usurped)
      BY <1>d, <2>1, <2>2 DEF Claimant, Haunted, Usurped, Holds
    <2>7. Staffing'
      <3>1. doing'["scheduler"].at \in SpawnPlaces =>
               \A b \in Ids : Holds(b) /\ b = doing["scheduler"].agent => Holds(b)'
        BY <2>1 DEF Holds
      <3>2. /\ task'.claimed_by \in {task.claimed_by, Nobody}
            /\ task'.status = "ready" => task'.claimed_by = Nobody
        BY <1>b, <1>d, <2>2 DEF ClaimIsOurs
      <3>3. SchedulerAt' => task'.status = "claimed" /\ task'.claimed_by = Nobody
        BY <1>b, <2>2, <2>4, <2>5 DEF ClaimIsOurs
      <3>4. task'.status \in ImplementorPhases \/ task.status \notin ImplementorPhases \/ SlotFree'
        BY <2>2 DEF ImplementorPhases
      <3> QED BY <1>b, <2>3, <2>6, <3>1, <3>2, <3>3, <3>4, StaffStays
    <2>8. (CanRun' => CanRun) /\ (Debt' => Debt) /\ (Cr' => Cr)
      BY <2>2, <2>4, <2>6 DEF CanRun, Debt, Cr
    <2>9. ImplDues' <= ImplDues  BY <2>8, DuesFall
    <2>10. One(Sits)' <= One(Sits) + 1
      <3>1. PICK x \in {0, 1}, y \in {0, 1} : One(Sits) = x /\ One(Sits)' = y  BY Ones
      <3> QED BY <3>1
    <2>11. FixDues' <= FixDues + 0 + 1
      <3>1. PICK x \in {0, 1}, y \in {0, 1}, c \in {0, 1}, d \in {0, 1}, i \in {0, 1}, j \in {0, 1} :
               /\ One(Sits) = x /\ One(Sits)' = y /\ One(Cr) = c /\ One(Cr)' = d
               /\ One(InFlight) = i /\ One(InFlight)' = j
        BY Ones
      <3>2. One(Cr)' <= One(Cr) /\ One(InFlight)' <= One(InFlight)  BY <2>4, <2>8 DEF One
      <3>3. d <= c /\ j <= i  BY <3>1, <3>2
      <3>4. FixDues = x + c + i /\ FixDues' = y + d + j  BY <3>1 DEF FixDues
      <3> QED BY <3>3, <3>4
    <2>12. Credit'
      <3>1. human' = human  BY <2>1
      <3> QED BY <1>t, <1>b, <2>4, <2>8, <3>1, CreditStays DEF Accounts
    <2>13. ImplDues' <= ImplDues + 0 /\ human' = human + 0 /\ ctx'.frozen = ctx.frozen
      BY <1>n, <2>1, <2>9, DuesAre
    <2>14. Accounts'
      BY <1>t, <1>b, <1>n, <2>1, <2>2, <2>10, <2>11, <2>12, <2>13, Thrift
    <2> QED BY <2>7, <2>14 DEF Budgeted
  <1>2. CASE /\ \A b \in Ids \ {a} : ~Holds(b)
             /\ agents' = [agents EXCEPT ![a].status = "running", ![a].pane = TRUE]
             /\ Go(p, "running") /\ UNCHANGED <<task, ctx, faults, human>>
    <2>1. /\ agents' \in [Ids -> AgentRow] /\ agents'[a].role = agents[a].role
          /\ agents'[a].silent = agents[a].silent /\ agents'[a].status = "running"
          /\ \A b \in Ids : b # a => agents'[b] = agents[b]
      <3> HIDE DEF a
      <3> QED BY <1>t, <1>a, <1>2, Opened
    <2>2. agents'[a].bound = agents[a].bound
      <3> DEFINE r == [agents[a] EXCEPT !.status = "running", !.pane = TRUE]
      <3>1. r.bound = agents[a].bound  BY <1>t, <1>a DEF AgentRow
      <3>2. agents' = [agents EXCEPT ![a] = r]  BY <1>2
      <3> HIDE DEF r, a
      <3> QED BY <1>t, <1>a, <3>1, <3>2
    <2>3. RowsKept  BY <2>1 DEF RowsKept
    <2>4. \A b \in Ids : Holds(b)' => b = a  BY <1>2, <2>1 DEF Holds
    <2>5. /\ Steady /\ doing'[p].at = "running" /\ doing'[p].agent = a
          /\ \A q \in Loops : q # p => doing'[q] = doing[q]
      <3>1. "running" \in Places[p]
        <4>1. "running" \in Places["scheduler"]  BY DEF Places
        <4>2. "running" \in Places["dispatcher"]  BY DEF Places
        <4>3. "running" \in Places["comments"]  BY DEF Places
        <4> QED BY <4>1, <4>2, <4>3 DEF Loops
      <3> QED BY <1>t, <1>a, <1>2, <3>1, SteadyGo DEF Unplaced
    <2>6. (ToReviewer' => ToReviewer) /\ (Spawning' => Spawning)
      BY <1>t, <2>3, <2>5, SteadyPlaces DEF PipeTyped
    <2>7. InFlight' <=> InFlight  BY <1>a, <2>5 DEF InFlight, Loops
    <2>8. FreshSpawns'
      <3> SUFFICES ASSUME NEW q \in Loops, doing'[q].at = "inserted"
                   PROVE  /\ agents'[doing'[q].agent].silent = "no" /\ agents'[doing'[q].agent].role \in SpawnsAs[q]
                          /\ doing'[q].agent # task'.claimed_by
                          /\ \A t \in Loops \ {q} : doing'[t].at \in SpawnPlaces => doing'[q].agent # doing'[t].agent
        BY DEF FreshSpawns
      <3>1. q # p /\ doing'[q] = doing[q]  BY <2>5
      <3>2. /\ agents[doing[q].agent].silent = "no" /\ agents[doing[q].agent].role \in SpawnsAs[q]
            /\ doing[q].agent # task.claimed_by
            /\ \A t \in Loops \ {q} : doing[t].at \in SpawnPlaces => doing[q].agent # doing[t].agent
        BY <1>b, <3>1 DEF FreshSpawns
      <3>3. "inserted" \in SpawnPlaces  BY DEF SpawnPlaces
      <3>4. doing[q].agent # a /\ doing[q].agent \in Ids
        BY <1>a, <1>t, <3>1, <3>2, <3>3 DEF Unplaced
      <3>5. agents'[doing[q].agent] = agents[doing[q].agent]  BY <2>1, <3>4
      <3>6. \A t \in Loops : doing'[t].agent = doing[t].agent /\ (doing'[t].at \in SpawnPlaces => doing[t].at \in SpawnPlaces)
        BY <1>a, <2>5, <3>3
      <3> QED BY <1>2, <3>1, <3>2, <3>5, <3>6
    <2>9. SilentAlone'  BY <1>c, <2>1, <2>4 DEF SilentAlone
    <2>10. ClaimIsOurs'
      <3>1. task' = task  BY <1>2
      <3>2. SchedulerAt' => SchedulerAt
        BY <1>a, <2>5 DEF SchedulerAt, Loops
      <3>3. \A b \in Ids : Holds(b)' /\ agents'[b].role = "implementor" => b = a /\ p = "scheduler"
        BY <1>e, <2>1, <2>4
      <3> QED BY <1>b, <2>5, <3>1, <3>2, <3>3 DEF ClaimIsOurs
    <2>11. WorkerKept'
      <3>1. CASE p = "scheduler"
        <4>1. a \in Ids /\ Holds(a)  BY <1>a, <1>d, <3>1
        <4>2. \A b \in Ids : b = a => Holds(b)'  BY <2>1, <2>2, <4>1 DEF Holds
        <4>3. doing'["scheduler"].agent = a  BY <2>5, <3>1
        <4> HIDE DEF a
        <4> QED BY <4>1, <4>2, <4>3 DEF WorkerKept
      <3>2. CASE p # "scheduler"
        <4>1. doing'["scheduler"] = doing["scheduler"]  BY <2>5, <3>2 DEF Loops
        <4>2. doing["scheduler"].at \in SpawnPlaces =>
                 doing["scheduler"].agent \in Ids \ {a} /\ Holds(doing["scheduler"].agent)
          BY <1>b, <1>c, <1>t, <3>2 DEF WorkerKept, Loops, SpawnPlaces, Unplaced
        <4> QED BY <1>2, <4>1, <4>2 DEF WorkerKept
      <3> QED BY <3>1, <3>2
    <2>12. ImplementorsInPhase'
      <3>1. \A b \in Ids : LiveAs(b, "implementor")' => p = "scheduler"
        BY <1>e, <2>1, <2>4 DEF LiveAs
      <3> QED BY <1>2, <1>d, <3>1 DEF ImplementorsInPhase, ImplementorPhases
    <2>13. task.claimed_by # Nobody =>
               task.claimed_by \in Ids /\ agents'[task.claimed_by] = agents[task.claimed_by]
      BY <1>c, <1>g, <2>1
    <2>14. (Claimant' => Claimant) /\ (Haunted' => Haunted)
      BY <1>2, <2>13 DEF Claimant, Haunted, Holds
    <2>15. Staffing'
      <3>1. task'.claimed_by # Nobody => agents'[task'.claimed_by].status # "absent"
        BY <1>2, <1>b, <2>13 DEF Staffing
      <3>2. Haunted' => ~Spawning'  BY <1>b, <2>6, <2>14 DEF Staffing
      <3> QED BY <2>8, <2>9, <2>10, <2>11, <2>12, <3>1, <3>2 DEF Staffing
    <2>16. Debt' => Debt
      <3> SUFFICES ASSUME Usurped' PROVE Debt
        BY <2>7 DEF Debt
      <3>1. task.status = "claimed" /\ Claimant  BY <1>2, <2>14 DEF Usurped
      <3>2. Haunted
        <4>1. ~Holds(task.claimed_by)  BY <1>2, <1>c, <2>13, <3>1 DEF Claimant
        <4> QED BY <3>1, <4>1 DEF Haunted
      <3>3. CASE p = "comments"  BY <1>a, <3>3 DEF Debt, InFlight
      <3>4. CASE p = "scheduler"  BY <1>d, <3>1, <3>4 DEF Claimant
      <3>5. CASE p = "dispatcher"
        BY <1>a, <1>b, <3>2, <3>5 DEF Staffing, Spawning
      <3> QED BY <3>3, <3>4, <3>5 DEF Loops
    <2>17. (CanRun' => CanRun) /\ (Cr' => Cr)  BY <1>2, <2>14 DEF CanRun, Cr
    <2>18. ~Sits'
      <3>1. \A b \in Ids : LiveAs(b, "reviewer")' => b = a /\ p = "dispatcher"
        BY <1>f, <2>1, <2>4 DEF LiveAs
      <3> QED BY <2>5, <3>1 DEF Sits
    <2>19. ctx'.frozen = ctx.frozen /\ UNCHANGED <<faults, human>> /\ task'.rounds = task.rounds
      BY <1>2
    <2>20. Accounts'  BY <1>t, <1>b, <2>6, <2>7, <2>16, <2>17, <2>18, <2>19, Frugal
    <2> QED BY <2>15, <2>20 DEF Budgeted
  <1>3. CASE /\ \E b \in Ids \ {a} : Holds(b)
             /\ agents' = [agents EXCEPT ![a].pane = TRUE]
             /\ Rest(p) /\ Unclaim(p) /\ UNCHANGED <<ctx, faults, human>>
    <2>1. Tame
      <3>1. TRUE \in BOOLEAN /\ "nothing" \in Verdicts \cup {"nothing"}  OBVIOUS
      <3> HIDE DEF a
      <3> QED BY <1>t, <1>a, <1>3, <3>1, AgentEdited
    <2>2. /\ \A b \in Ids : b # a => agents'[b] = agents[b]
          /\ agents'[a].bound = agents[a].bound /\ agents'[a].status = agents[a].status
      <3> DEFINE r == [agents[a] EXCEPT !.pane = TRUE]
      <3>1. r.bound = agents[a].bound /\ r.status = agents[a].status  BY <1>t, <1>a DEF AgentRow
      <3>2. agents' = [agents EXCEPT ![a] = r]  BY <1>3
      <3> HIDE DEF r, a
      <3> QED BY <1>t, <1>a, <3>1, <3>2
    <2>3. \A b \in Ids : Holds(b)' <=> Holds(b)  BY <2>2 DEF Holds
    <2>4. ~Holds(a)  BY <1>t, <1>a, <1>3 DEF PipeTyped, OneHolder
    <2>5. p # "scheduler"  BY <1>d, <2>4
    <2>6. task' = task  BY <1>3, <2>5 DEF Unclaim
    <2>7. Steady /\ doing'[p] = Idle /\ \A q \in Loops : q # p => doing'[q] = doing[q]
      BY <1>t, <1>3, SteadyRest
    <2>8. (InFlight' => InFlight) /\ (ToReviewer' => ToReviewer) /\ (SchedulerAt' => SchedulerAt)
      BY <1>t, <2>1, <2>7, Wishes
    <2>9. task.claimed_by # Nobody =>
               task.claimed_by \in Ids /\ agents'[task.claimed_by] = agents[task.claimed_by]
      BY <1>c, <1>g, <2>2
    <2>10. (Claimant' => Claimant) /\ (Haunted' => Haunted)
      BY <2>6, <2>9 DEF Claimant, Haunted, Holds
    <2>11. Usurped' => Usurped  BY <2>3, <2>6, <2>10 DEF Usurped
    <2>12. Staffing'
      <3>1. /\ task'.claimed_by \in {task.claimed_by, Nobody}
            /\ task'.status = "ready" => task'.claimed_by = Nobody
            /\ SchedulerAt' => task'.status = "claimed" /\ task'.claimed_by = Nobody
            /\ task'.status \in ImplementorPhases \/ task.status \notin ImplementorPhases \/ SlotFree'
        BY <1>b, <2>6, <2>8 DEF ClaimIsOurs
      <3>2. doing'["scheduler"].at \in SpawnPlaces =>
               \A b \in Ids : Holds(b) /\ b = doing["scheduler"].agent => Holds(b)'
        BY <2>3
      <3> QED BY <1>b, <2>1, <2>7, <2>10, <3>1, <3>2, StaffStays
    <2>13. Sits' => Sits
      <3>1. CASE p = "dispatcher"
        <4>1. \A b \in Ids : b = a => ~LiveAs(b, "reviewer")'  BY <2>3, <2>4 DEF LiveAs
        <4>2. doing["dispatcher"].at \in {"inserted", "running"} =>
                 \/ doing'["dispatcher"].at \in {"inserted", "running"}
                 \/ \A b \in Ids : b = doing["dispatcher"].agent => ~LiveAs(b, "reviewer")'
          BY <3>1, <4>1
        <4> QED BY <1>t, <2>1, <2>7, <4>2, SitsStays
      <3>2. CASE p # "dispatcher"
        <4>1. doing'["dispatcher"] = doing["dispatcher"]  BY <2>7, <3>2 DEF Loops
        <4> QED BY <1>t, <2>1, <2>7, <4>1, SitsSame
      <3> QED BY <3>1, <3>2
    <2>14. (CanRun' => CanRun) /\ (Debt' => Debt) /\ (Cr' => Cr)
      BY <2>6, <2>8, <2>10, <2>11 DEF CanRun, Debt, Cr
    <2>15. ctx'.frozen = ctx.frozen /\ UNCHANGED <<faults, human>> /\ task'.rounds = task.rounds
      BY <1>3, <2>6
    <2>16. Accounts'  BY <1>t, <1>b, <2>8, <2>13, <2>14, <2>15, Frugal
    <2> QED BY <2>12, <2>16 DEF Budgeted
  <1>4. WindowOpens(p) =>
            \/ /\ \A b \in Ids \ {a} : ~Holds(b)
               /\ agents' = [agents EXCEPT ![a].status = "running", ![a].pane = TRUE]
               /\ Go(p, "running") /\ UNCHANGED <<task, ctx, faults, human>>
            \/ /\ \E b \in Ids \ {a} : Holds(b)
               /\ agents' = [agents EXCEPT ![a].pane = TRUE]
               /\ Rest(p) /\ Unclaim(p) /\ UNCHANGED <<ctx, faults, human>>
    BY DEF WindowOpens, bounds
  <1> QED BY <1>1, <1>2, <1>3, <1>4

\* Nothing froze and nobody is at the task when it is added.
LEMMA BudgetInitial == Init => Budgeted
  <1> SUFFICES ASSUME Init PROVE Budgeted
    OBVIOUS
  <1>1. /\ task = [status |-> "ready", rounds |-> 0, claimed_by |-> Nobody,
                   claim_old |-> FALSE, pr_open |-> FALSE]
        /\ agents = [a \in Ids |-> NoAgent] /\ doing = [p \in Loops |-> Idle]
        /\ ctx = [verdict |-> "none", rc |-> FALSE, fix |-> {},
                  frozen |-> [arm \in {"implementor", "reviewer", "fixer"} \X Rounds |-> 0]]
        /\ faults = 0 /\ human = 0
    BY DEF Init
  <1>2. \A a \in Ids : ~Holds(a)  BY <1>1 DEF Holds, NoAgent
  <1>3. \A p \in Loops : doing[p].at = "idle"  BY <1>1 DEF Idle
  <1>4. task.status = "ready" /\ task.claimed_by = Nobody /\ task.rounds = 0  BY <1>1
  <1>5. Staffing
    BY <1>2, <1>3, <1>4 DEF Staffing, FreshSpawns, SilentAlone, ClaimIsOurs, SchedulerAt, WorkerKept,
       SpawnPlaces, ImplementorsInPhase, LiveAs, Haunted, Claimant, Loops
  <1>6. ~Sits /\ ~Cr /\ ~InFlight /\ ~Debt /\ CanRun /\ ~ToReviewer
    BY <1>2, <1>3, <1>4 DEF Sits, LiveAs, Cr, InFlight, Debt, Usurped, Claimant, CanRun,
       ToReviewer, Towards, Loops
  <1>7. ImplDues = 1 /\ FixDues = 0 /\ One(Sits) = 0
    BY <1>6 DEF ImplDues, FixDues, One
  <1>8. \A role \in {"implementor", "reviewer", "fixer"}, r \in Rounds : Frozen(role, r) = 0
    BY <1>1 DEF Frozen
  <1>9. RespawnCap \in Nat /\ 0 \in Rounds  BY PipelineAssumption DEF Rounds
  <1>10. ImplBudget /\ RevBudget /\ FixBudget /\ Later
    BY <1>1, <1>7, <1>8, <1>9 DEF ImplBudget, RevBudget, FixBudget, Later
  <1>11. Credit  BY <1>6 DEF Credit
  <1> QED BY <1>5, <1>10, <1>11 DEF Budgeted, Accounts

\* Every step keeps the budgets.
LEMMA BudgetStep == PipeIInv /\ Budgeted /\ [Next]_vars => Budgeted'
  <1> SUFFICES ASSUME PipeIInv, Budgeted, [Next]_vars PROVE Budgeted'
    OBVIOUS
  <1>t. /\ PipeTyped /\ TypeOK /\ task \in TaskRow /\ agents \in [Ids -> AgentRow] /\ ctx \in Ctx
        /\ doing \in [Loops -> Doing]
    BY Rows
  <1>b. /\ Staffing /\ Accounts /\ ClaimIsOurs  BY DEF Budgeted, Staffing
  <1>n. /\ human \in Nat /\ faults \in Nat /\ human = human + 0
    BY <1>t, PipelineAssumption DEF TypeOK
  <1>1. CASE Scheduler  BY <1>1, SchedulerBudgeted
  <1>2. CASE Dispatcher
    BY <1>2, DispatcherBudgeted, RoundBudgeted, WatchBudgeted DEF Dispatcher
  <1>3. CASE CommentPass \/ Human  BY <1>3, CommentsBudgeted
  <1>4. CASE \E p \in Loops : WindowOpens(p) \/ WindowFails(p)  BY <1>4, WindowsBudgeted
  <1>5. CASE \E a \in Ids : Agent(a)  BY <1>5, AgentBudgeted
  <1>6. CASE ClaimAges
    <2>1. /\ task' = [task EXCEPT !.claim_old = TRUE]
          /\ UNCHANGED <<agents, ctx, doing, faults, human>>
      BY <1>6 DEF ClaimAges, bounds
    <2>2. /\ task'.rounds = task.rounds /\ task'.status = task.status
          /\ task'.claimed_by = task.claimed_by
      BY <1>t, <2>1 DEF TaskRow
    <2>3. Tame /\ Steady /\ Mild /\ \A a \in Ids : Holds(a) => Holds(a)'
      BY <1>t, <2>1, TameSame, SteadySame DEF Mild, Holds
    <2>4. /\ doing'["scheduler"].at \in SpawnPlaces =>
                 \A a \in Ids : Holds(a) /\ a = doing["scheduler"].agent => Holds(a)'
          /\ doing["dispatcher"].at \in {"inserted", "running"} =>
                 \/ doing'["dispatcher"].at \in {"inserted", "running"}
                 \/ \A a \in Ids : a = doing["dispatcher"].agent => ~LiveAs(a, "reviewer")'
      BY <2>1, <2>3
    <2>5. ctx'.frozen = ctx.frozen /\ UNCHANGED <<faults, human>>  BY <2>1
    <2> QED BY <2>2, <2>3, <2>4, <2>5, Uneventful
  <1>7. CASE Crash
    <2>1. /\ doing' = [p \in Loops |-> Idle] /\ faults' = faults + 1
          /\ UNCHANGED <<task, agents, ctx, human>>
      BY <1>7 DEF Crash, rows
    <2>2. Steady  BY <1>t, <2>1 DEF Steady, Idle, Doing
    <2>3. Tame  BY <1>t, <2>1, TameSame
    <2>4. \A p \in Loops : doing'[p].at = "idle"  BY <2>1 DEF Idle
    <2>5. /\ ~SchedulerAt' /\ ~Spawning' /\ ~ToReviewer' /\ ~InFlight'
          /\ doing'["scheduler"].at \notin SpawnPlaces
      BY <2>4 DEF SchedulerAt, Spawning, ToReviewer, Towards, InFlight, SpawnPlaces, Loops
    <2>6. Staffing'
      <3>1. /\ task'.claimed_by \in {task.claimed_by, Nobody}
            /\ task'.status = "ready" => task'.claimed_by = Nobody
            /\ task'.status \in ImplementorPhases \/ task.status \notin ImplementorPhases \/ SlotFree'
        BY <1>b, <2>1 DEF ClaimIsOurs
      <3> QED BY <1>b, <2>2, <2>3, <2>5, <3>1, StaffStays
    <2>7. (CanRun' => CanRun) /\ (Debt' => Debt) /\ (Cr' => Cr) /\ (InFlight' => InFlight)
      BY <2>1, <2>5 DEF CanRun, Debt, Usurped, Claimant, Holds, Cr
    <2>8. One(Sits)' <= One(Sits) + 1
      <3>1. PICK x \in {0, 1}, y \in {0, 1} : One(Sits) = x /\ One(Sits)' = y  BY Ones
      <3> QED BY <3>1
    <2>9. FixDues' <= FixDues + 0 + 1
      <3>1. PICK x \in {0, 1}, y \in {0, 1}, c \in {0, 1}, d \in {0, 1}, i \in {0, 1}, j \in {0, 1} :
               /\ One(Sits) = x /\ One(Sits)' = y /\ One(Cr) = c /\ One(Cr)' = d
               /\ One(InFlight) = i /\ One(InFlight)' = j
        BY Ones
      <3>2. One(Cr)' <= One(Cr) /\ One(InFlight)' <= One(InFlight)  BY <2>7 DEF One
      <3>3. d <= c /\ j <= i  BY <3>1, <3>2
      <3>4. FixDues = x + c + i /\ FixDues' = y + d + j  BY <3>1 DEF FixDues
      <3> QED BY <3>3, <3>4
    <2>10. ImplDues' <= ImplDues + 0  BY <2>7, DuesFall, DuesAre
    <2>11. Credit'  BY <2>5 DEF Credit
    <2>12. human' = human + 0 /\ ctx'.frozen = ctx.frozen /\ task'.rounds = task.rounds
      BY <1>n, <2>1
    <2>13. Accounts'
      BY <1>t, <1>b, <1>n, <2>1, <2>8, <2>9, <2>10, <2>11, <2>12, Thrift
    <2> QED BY <2>6, <2>13 DEF Budgeted
  <1>8. CASE Merge
    <2>1. /\ task' = [task EXCEPT !.status = "done"] /\ task.status = "ready_to_merge"
          /\ UNCHANGED <<agents, ctx, doing, faults, human>>
      BY <1>8 DEF Merge, bounds
    <2>2. task'.rounds = task.rounds /\ task'.status = "done" /\ task'.claimed_by = task.claimed_by
      BY <1>t, <2>1, TaskSet DEF Statuses
    <2>3. Tame /\ Steady  BY <1>t, <2>1, TameSame, SteadySame
    <2>4. ~SchedulerAt' /\ doing'["scheduler"].at \notin SpawnPlaces
      BY <1>b, <2>1 DEF ClaimIsOurs, SchedulerAt, SpawnPlaces
    <2>5. ~Haunted' /\ ~Usurped' /\ ~Cr' /\ CanRun
      BY <2>1, <2>2 DEF Haunted, Usurped, Cr, CanRun
    <2>6. Staffing'
      <3>1. /\ task'.claimed_by \in {task.claimed_by, Nobody}
            /\ task'.status = "ready" => task'.claimed_by = Nobody
            /\ task.status \notin ImplementorPhases
        BY <2>1, <2>2 DEF ImplementorPhases
      <3> QED BY <1>b, <2>3, <2>4, <2>5, <3>1, StaffStays
    <2>7. (ToReviewer' => ToReviewer) /\ (InFlight' => InFlight)  BY <1>t, <2>3, Wishes
    <2>8. Sits' => Sits  BY <1>t, <2>1, <2>3, SitsSame
    <2>9. Debt' => Debt  BY <2>5, <2>7 DEF Debt
    <2>10. ctx'.frozen = ctx.frozen /\ UNCHANGED <<faults, human>>  BY <2>1
    <2>11. Accounts'  BY <1>t, <1>b, <2>2, <2>5, <2>7, <2>8, <2>9, <2>10, Frugal
    <2> QED BY <2>6, <2>11 DEF Budgeted
  <1>9. CASE UNCHANGED vars
    <2>1. UNCHANGED <<task, agents, ctx, doing, faults, human>>
      BY <1>9 DEF vars
    <2>2. Tame /\ Steady /\ Mild /\ \A a \in Ids : Holds(a) => Holds(a)'
      BY <1>t, <2>1, TameSame, SteadySame DEF Mild, Holds
    <2>3. /\ UNCHANGED <<task, faults, human>> /\ ctx'.frozen = ctx.frozen
          /\ doing'["dispatcher"] = doing["dispatcher"]
      BY <2>1
    <2> QED BY <2>2, <2>3, Inconspicuous
  <1> QED BY <1>1, <1>2, <1>3, <1>4, <1>5, <1>6, <1>7, <1>8, <1>9 DEF Next

-----------------------------------------------------------------------------
(* The theorem                                                               *)

\* However agents freeze, the daemon crashes and humans step in, implementors
\* freeze at most once more than MAQUINISTA_WATCHDOG_RESPAWN_CAP and once more for
\* every act of a human, the fixers of a round that often and once more for every
\* fault, the reviewers of a round once and once more for every fault; and left
\* alone, no fixer gets a round past the round cap.  A respawn is never ordered on
\* a count that a spawn under way, or a late done, has made stale.
THEOREM FreezesAreBudgeted == Spec => []BudgetKept
  <1>1. PipeIInv /\ Budgeted => BudgetKept
    <2> SUFFICES ASSUME PipeIInv, Budgeted PROVE BudgetKept
      OBVIOUS
    <2>t. TypeOK /\ ctx \in Ctx  BY Rows
    <2>1. FixersCapped  BY DEF PipeIInv, BelowCap, FixersCapped
    <2>2. /\ human \in Nat /\ faults \in Nat /\ RespawnCap \in Nat /\ 0 \in Rounds
          /\ \A role \in {"implementor", "reviewer", "fixer"}, r \in Rounds : Frozen(role, r) \in Nat
      BY <2>t, PipelineAssumption, FrozenAre DEF TypeOK, Rounds, Frozen
    <2>3. PICK i \in Nat, x \in Nat, s \in Nat : ImplDues = i /\ FixDues = x /\ One(Sits) = s
      BY DuesAre
    <2>4. Frozen("implementor", 0) <= RespawnCap + 1 + human
      <3>1. PICK n \in Nat : Frozen("implementor", 0) = n  BY <2>2
      <3>2. n + i <= RespawnCap + 1 + human  BY <2>3, <3>1 DEF Budgeted, Accounts, ImplBudget
      <3> QED BY <2>2, <3>1, <3>2
    <2>5. ASSUME NEW r \in Rounds
          PROVE  Frozen("reviewer", r) <= 1 + faults /\ Frozen("fixer", r) <= RespawnCap + 1 + human + faults
      <3>1. PICK n \in Nat, m \in Nat : Frozen("reviewer", r) = n /\ Frozen("fixer", r) = m  BY <2>2
      <3>2. n + (IF r = task.rounds THEN s ELSE 0) <= 1 + faults
        BY <2>3, <3>1 DEF Budgeted, Accounts, RevBudget
      <3>3. m + (IF r = task.rounds THEN x ELSE 0) <= RespawnCap + 1 + faults + human
        BY <2>3, <3>1 DEF Budgeted, Accounts, FixBudget
      <3> QED BY <2>2, <3>1, <3>2, <3>3
    <2> QED BY <2>1, <2>4, <2>5 DEF BudgetKept, Frozen
  <1>2. Init => PipeIInv /\ Budgeted  BY PipeInitial, BudgetInitial
  <1>3. PipeIInv /\ Budgeted /\ [Next]_vars => PipeIInv' /\ Budgeted'
    BY PipeStep, BudgetStep
  <1> QED BY <1>1, <1>2, <1>3, PTL DEF Spec
=============================================================================
