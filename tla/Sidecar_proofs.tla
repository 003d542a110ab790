--------------------------- MODULE Sidecar_proofs ---------------------------
(***************************************************************************)
(* Proofs about Sidecar for any number of daemons, agents, messages and    *)
(* faults.  Type correctness and the retry budget hold unconditionally;    *)
(* exclusive holding and acked-was-typed need the two operating            *)
(* conditions of the deployment: a drive ends before its lease, and rows   *)
(* are not repointed while a sidecar works on them.                        *)
(***************************************************************************)
EXTENDS Sidecar, TLAPS

LEMMA SidecarCases ==
    ASSUME NEW s \in SidecarState
    PROVE  \/ s = Idle
           \/ s = NoSidecar
           \/ s \in [pc : {"driving", "drove", "failed"}, msg : Msgs, version : Nat]
  BY DEF SidecarState

LEMMA RowOps ==
    ASSUME NEW rows \in [Msgs -> InboxRow], NEW m \in Msgs, NEW a \in Agents,
           NEW w \in Workers, NEW now \in Nat
    PROVE  /\ EnqueueInbox(rows, m, a, now) \in [Msgs -> InboxRow]
           /\ UpsertInbox(rows, m, a, now) \in [Msgs -> InboxRow]
           /\ ClaimInbox(rows, m, w) \in [Msgs -> InboxRow]
           /\ AckInbox(rows, m) \in [Msgs -> InboxRow]
           /\ FailInbox(rows, m) \in [Msgs -> InboxRow]
           /\ [rows EXCEPT ![m].lease = "expired"] \in [Msgs -> InboxRow]
  <1> PendingRow(a, now) \in InboxRow
    BY DEF PendingRow, InboxRow, Status
  <1>1. /\ EnqueueInbox(rows, m, a, now) \in [Msgs -> InboxRow]
        /\ UpsertInbox(rows, m, a, now) \in [Msgs -> InboxRow]
    BY DEF EnqueueInbox, UpsertInbox
  <1>2. ClaimInbox(rows, m, w) \in [Msgs -> InboxRow]
    <2> DEFINE r == [rows[m] EXCEPT !.status = "processing", !.claimed_by = w,
                                    !.lease = "live", !.attempts = rows[m].attempts + 1]
    <2>1. rows[m] \in InboxRow  OBVIOUS
    <2>2. rows[m].attempts + 1 \in Nat  BY <2>1 DEF InboxRow
    <2>3. r \in InboxRow  BY <2>1, <2>2 DEF InboxRow, Status
    <2>4. ClaimInbox(rows, m, w) = [rows EXCEPT ![m] = r]  BY DEF ClaimInbox
    <2> QED BY <2>3, <2>4
  <1>3. AckInbox(rows, m) \in [Msgs -> InboxRow]
    BY DEF AckInbox, InboxRow, Status
  <1>4. FailInbox(rows, m) \in [Msgs -> InboxRow]
    BY DEF FailInbox, InboxRow, Status
  <1>5. [rows EXCEPT ![m].lease = "expired"] \in [Msgs -> InboxRow]
    BY DEF InboxRow
  <1>6. QED BY <1>1, <1>2, <1>3, <1>4, <1>5

(* What each statement leaves in the row it names, and that it leaves every  *)
(* other row alone.                                                          *)
LEMMA RowEffects ==
    ASSUME NEW rows \in [Msgs -> InboxRow], NEW m \in Msgs, NEW w \in Workers
    PROVE  /\ LET c == ClaimInbox(rows, m, w) IN
                /\ c[m].status = "processing" /\ c[m].claimed_by = w
                /\ c[m].lease = "live" /\ c[m].agent_id = rows[m].agent_id
                /\ c[m].enqueued_at = rows[m].enqueued_at
                /\ \A n \in Msgs : n # m => c[n] = rows[n]
           /\ LET c == AckInbox(rows, m) IN
                /\ c[m].agent_id = rows[m].agent_id
                /\ c[m].attempts = rows[m].attempts
                /\ c[m].enqueued_at = rows[m].enqueued_at
                /\ c[m].status = IF rows[m].status = "processing"
                                 THEN "processed" ELSE rows[m].status
                /\ \A n \in Msgs : n # m => c[n] = rows[n]
           /\ LET c == FailInbox(rows, m) IN
                /\ c[m].agent_id = rows[m].agent_id
                /\ c[m].attempts = rows[m].attempts
                /\ c[m].enqueued_at = rows[m].enqueued_at
                /\ c[m].status = IF rows[m].attempts >= MaxAttempts
                                 THEN "dead" ELSE "pending"
                /\ \A n \in Msgs : n # m => c[n] = rows[n]
  <1>1. rows[m] \in InboxRow  OBVIOUS
  <1>2. LET c == ClaimInbox(rows, m, w) IN
          /\ c[m].status = "processing" /\ c[m].claimed_by = w
          /\ c[m].lease = "live" /\ c[m].agent_id = rows[m].agent_id
          /\ c[m].enqueued_at = rows[m].enqueued_at
          /\ \A n \in Msgs : n # m => c[n] = rows[n]
    BY <1>1 DEF ClaimInbox, InboxRow
  <1>3. LET c == AckInbox(rows, m) IN
          /\ c[m].agent_id = rows[m].agent_id
          /\ c[m].attempts = rows[m].attempts
          /\ c[m].enqueued_at = rows[m].enqueued_at
          /\ c[m].status = IF rows[m].status = "processing"
                           THEN "processed" ELSE rows[m].status
          /\ \A n \in Msgs : n # m => c[n] = rows[n]
    BY <1>1 DEF AckInbox, InboxRow
  <1>4. LET c == FailInbox(rows, m) IN
          /\ c[m].agent_id = rows[m].agent_id
          /\ c[m].attempts = rows[m].attempts
          /\ c[m].enqueued_at = rows[m].enqueued_at
          /\ c[m].status = IF rows[m].attempts >= MaxAttempts
                           THEN "dead" ELSE "pending"
          /\ \A n \in Msgs : n # m => c[n] = rows[n]
    BY <1>1 DEF FailInbox, InboxRow
  <1> QED BY <1>2, <1>3, <1>4

-----------------------------------------------------------------------------
LEMMA TypeInit == Init => TypeOK
  <1> SUFFICES ASSUME Init PROVE TypeOK  OBVIOUS
  <1>1. inbox \in [Msgs -> InboxRow]
    BY DEF Init, AbsentRow, InboxRow, Status
  <1>2. sidecar \in [Workers -> SidecarState]
    BY DEF Init, SidecarState
  <1>3. agents \in [Agents -> AgentRow]
    BY DEF Init, AgentRow
  <1>4. QED BY <1>1, <1>2, <1>3 DEF Init, TypeOK

LEMMA TypeNext == TypeOK /\ [Next]_vars => TypeOK'
  <1> SUFFICES ASSUME TypeOK, [Next]_vars PROVE TypeOK'  OBVIOUS
  <1> USE DEF TypeOK, agentVars, boundVars
  <1>1. CASE UNCHANGED vars  BY <1>1 DEF vars
  <1>2. ASSUME NEW m \in Msgs, NEW a \in Agents, Enqueue(m, a)  PROVE TypeOK'
    BY <1>2, SidecarAssumption DEF Enqueue, EnqueueInbox, PendingRow, InboxRow, Status
  <1>3. ASSUME NEW m \in Msgs, NEW a \in Agents, Upsert(m, a)  PROVE TypeOK'
    BY <1>3, SidecarAssumption DEF Upsert, UpsertInbox, PendingRow, InboxRow, Status
  <1>4. ASSUME NEW w \in Workers, SidecarStep(w)  PROVE TypeOK'
    <2> w[2] \in Agents  BY SidecarAssumption
    <2> sidecar[w] \in SidecarState  OBVIOUS
    <2>1. CASE Spawn(w)  BY <2>1 DEF Spawn, SidecarState
    <2>2. CASE Claim(w)
      <3> PICK m \in Msgs :
             /\ inbox' = ClaimInbox(inbox, m, w)
             /\ sidecar' = [sidecar EXCEPT ![w] = [pc |-> "driving", msg |-> m,
                                                   version |-> inbox[m].enqueued_at]]
        BY <2>2 DEF Claim, OldestClaimable
      <3>1. inbox[m].enqueued_at \in Nat  BY DEF InboxRow
      <3>2. inbox' \in [Msgs -> InboxRow]  BY RowOps
      <3>3. sidecar' \in [Workers -> SidecarState]  BY <3>1 DEF SidecarState
      <3>4. UNCHANGED <<agents, pane, respawning, killed, typed, clock, upserts, faults>>
        BY <2>2 DEF Claim
      <3> QED BY <3>2, <3>3, <3>4
    <2>3. Typed(w) \in [Msgs -> [count : Nat, agents : SUBSET Agents]]
      <3>1. CASE sidecar[w].msg \in Msgs
        BY <3>1 DEF Typed
      <3>2. CASE sidecar[w].msg \notin Msgs
        BY <3>2 DEF Typed
      <3> QED BY <3>1, <3>2
    <2>4. ASSUME sidecar[w].pc \in {"driving", "drove", "failed"}
          PROVE  sidecar[w] \in [pc : {"driving", "drove", "failed"}, msg : Msgs, version : Nat]
      BY <2>4 DEF SidecarState, Idle, NoSidecar
    <2>5. CASE DriveSucceeds(w)
      <3>1. sidecar' \in [Workers -> SidecarState]
        BY <2>5, <2>4 DEF DriveSucceeds, SidecarState
      <3> QED BY <2>5, <2>3, <3>1 DEF DriveSucceeds
    <2>6. CASE DriveErrs(w)
      <3>1. sidecar' \in [Workers -> SidecarState]
        BY <2>6, <2>4 DEF DriveErrs, SidecarState
      <3> QED BY <2>6, <2>3, <3>1 DEF DriveErrs
    <2>7. CASE DriveFindsNoWindow(w)
      <3>1. agents' \in [Agents -> AgentRow]
        BY <2>7 DEF DriveFindsNoWindow, AgentRow
      <3>2. sidecar' \in [Workers -> SidecarState]
        BY <2>7, <2>4 DEF DriveFindsNoWindow, SidecarState
      <3> QED BY <2>7, <3>1, <3>2 DEF DriveFindsNoWindow
    <2>8. CASE Settle(w)
      <3>1. sidecar[w].msg \in Msgs  BY <2>8, <2>4 DEF Settle
      <3>2. inbox' \in [Msgs -> InboxRow]  BY <2>8, <3>1, <2>4, RowOps DEF Settle
      <3>3. sidecar' \in [Workers -> SidecarState]  BY <2>8 DEF Settle, SidecarState
      <3> QED BY <2>8, <3>2, <3>3 DEF Settle
    <2>9. CASE SettleLost(w)  BY <2>9 DEF SettleLost, SidecarState
    <2> QED BY <1>4, <2>1, <2>2, <2>5, <2>6, <2>7, <2>8, <2>9 DEF SidecarStep
  <1>5. ASSUME NEW d \in Daemons, Crash(d)  PROVE TypeOK'
    BY <1>5 DEF Crash, SidecarState
  <1>6. ASSUME NEW m \in Msgs, LeaseExpires(m)  PROVE TypeOK'
    BY <1>6 DEF LeaseExpires, InboxRow
  <1>7. ASSUME NEW a \in Agents, PaneDies(a)  PROVE TypeOK'
    BY <1>7 DEF PaneDies
  <1>8. ASSUME NEW a \in Agents, RespawnBegins(a)  PROVE TypeOK'
    BY <1>8 DEF RespawnBegins
  <1>9. ASSUME NEW a \in Agents, RespawnPublishes(a)  PROVE TypeOK'
    BY <1>9 DEF RespawnPublishes, AgentRow
  <1>10. ASSUME NEW a \in Agents, AgentKill(a)  PROVE TypeOK'
    BY <1>10 DEF AgentKill, AgentRow
  <1>11. ASSUME NEW a \in Agents, RequestRespawn(a)  PROVE TypeOK'
    BY <1>11 DEF RequestRespawn, AgentRow
  <1> QED BY <1>1, <1>2, <1>3, <1>4, <1>5, <1>6, <1>7, <1>8, <1>9, <1>10, <1>11 DEF Next

\* Every reachable state is well typed: statuses, leases, attempt counters and
\* the sidecars' program counters stay in their ranges.
THEOREM TypeCorrect == Spec => []TypeOK
  BY TypeInit, TypeNext, PTL DEF Spec

-----------------------------------------------------------------------------
(* Exclusive holding.  A sidecar between claim and settle has the row's      *)
(* status, lease, claimer, addressee and payload on its side; nobody else    *)
(* can take the row away because a live lease is not claimable and - under   *)
(* the two operating conditions - neither expires nor is repointed.          *)
HoldsRow(w) ==
    Holding(w) => /\ inbox[sidecar[w].msg].status = "processing"
                  /\ inbox[sidecar[w].msg].lease = "live"
                  /\ inbox[sidecar[w].msg].claimed_by = w
                  /\ inbox[sidecar[w].msg].agent_id = w[2]
                  /\ inbox[sidecar[w].msg].enqueued_at = sidecar[w].version

DroveTyped(w) == sidecar[w].pc = "drove" => w[2] \in typed[sidecar[w].msg].agents

IInv == /\ TypeOK
        /\ \A w \in Workers : HoldsRow(w) /\ DroveTyped(w)
        /\ AckedWasTyped

LEMMA HoldingIsRecord ==
    ASSUME TypeOK, NEW w \in Workers, Holding(w)
    PROVE  /\ sidecar[w] \in [pc : {"driving", "drove", "failed"}, msg : Msgs, version : Nat]
           /\ sidecar[w].msg \in Msgs
  BY DEF TypeOK, SidecarState, Holding, Idle, NoSidecar

LEMMA IInvInit == Init => IInv
  <1> SUFFICES ASSUME Init PROVE IInv  OBVIOUS
  <1>1. \A w \in Workers : HoldsRow(w) /\ DroveTyped(w)
    BY DEF Init, HoldsRow, DroveTyped, Holding, NoSidecar
  <1>2. AckedWasTyped
    BY DEF Init, AckedWasTyped, AbsentRow
  <1> QED BY <1>1, <1>2, TypeInit DEF IInv

LEMMA IInvNext ==
    ASSUME ~SlowDrives, ~InFlightUpserts, IInv, [Next]_vars
    PROVE  IInv'
  <1> USE DEF IInv
  <1>1. TypeOK'  BY TypeNext
  <1>t. /\ inbox \in [Msgs -> InboxRow]
        /\ sidecar \in [Workers -> SidecarState]
        /\ typed \in [Msgs -> [count : Nat, agents : SUBSET Agents]]
    BY DEF TypeOK
  <1>2. SUFFICES (\A v \in Workers : HoldsRow(v)' /\ DroveTyped(v)') /\ AckedWasTyped'
    BY <1>1
  <1> DEFINE Goal == (\A v \in Workers : HoldsRow(v)' /\ DroveTyped(v)') /\ AckedWasTyped'
  <1>3. ASSUME UNCHANGED <<inbox, sidecar, typed>>  PROVE Goal
    BY <1>3 DEF HoldsRow, DroveTyped, Holding, AckedWasTyped
  <1>4. CASE UNCHANGED vars  BY <1>4, <1>3 DEF vars
  <1>5. ASSUME NEW m \in Msgs, NEW a \in Agents, Enqueue(m, a)  PROVE Goal
    <2>1. \A n \in Msgs : inbox[n].status # "absent" => inbox'[n] = inbox[n]
      BY <1>5, <1>t DEF Enqueue, EnqueueInbox
    <2>2. \A n \in Msgs : inbox'[n].status = "processed" => inbox'[n] = inbox[n]
      BY <1>5, <1>t DEF Enqueue, EnqueueInbox, PendingRow
    <2> QED BY <2>1, <2>2, <1>5, HoldingIsRecord
            DEF Enqueue, HoldsRow, DroveTyped, AckedWasTyped, Holding
  <1>6. ASSUME NEW m \in Msgs, NEW a \in Agents, Upsert(m, a)  PROVE Goal
    <2>1. \A v \in Workers : Holding(v) => sidecar[v].msg # m
      BY <1>6 DEF Upsert, Holders
    <2>2. \A n \in Msgs : n # m => inbox'[n] = inbox[n] /\ typed'[n] = typed[n]
      BY <1>6, <1>t DEF Upsert, UpsertInbox
    <2>3. inbox'[m].status = "pending"
      BY <1>6, <1>t DEF Upsert, UpsertInbox, PendingRow
    <2>4. sidecar' = sidecar  BY <1>6 DEF Upsert
    <2> QED BY <2>1, <2>2, <2>3, <2>4, HoldingIsRecord
            DEF HoldsRow, DroveTyped, AckedWasTyped, Holding
  <1>7. ASSUME NEW w \in Workers, SidecarStep(w)  PROVE Goal
    <2>1. CASE Spawn(w)
      BY <2>1, <1>t DEF Spawn, HoldsRow, DroveTyped, AckedWasTyped, Holding, Idle
    <2>2. CASE Claim(w)
      <3> PICK m \in Msgs :
             /\ Claimable(inbox[m], w[2])
             /\ inbox' = ClaimInbox(inbox, m, w)
             /\ sidecar' = [sidecar EXCEPT ![w] = [pc |-> "driving", msg |-> m,
                                                   version |-> inbox[m].enqueued_at]]
        BY <2>2 DEF Claim, OldestClaimable
      <3>1. \A v \in Workers : Holding(v) => sidecar[v].msg # m
        BY DEF Claimable, HoldsRow
      <3>2. /\ inbox'[m].status = "processing" /\ inbox'[m].claimed_by = w
            /\ inbox'[m].lease = "live" /\ inbox'[m].agent_id = inbox[m].agent_id
            /\ inbox'[m].enqueued_at = inbox[m].enqueued_at
            /\ \A n \in Msgs : n # m => inbox'[n] = inbox[n]
        BY <1>t, RowEffects
      <3>3. HoldsRow(w)' /\ DroveTyped(w)'
        BY <3>2, <1>t DEF HoldsRow, DroveTyped, Claimable
      <3>4. ASSUME NEW v \in Workers, v # w  PROVE HoldsRow(v)' /\ DroveTyped(v)'
        <4>1. sidecar'[v] = sidecar[v]  BY <3>4, <1>t
        <4>2. typed' = typed  BY <2>2 DEF Claim
        <4> QED BY <4>1, <4>2, <3>1, <3>2, HoldingIsRecord DEF HoldsRow, DroveTyped, Holding
      <3>5. AckedWasTyped'
        BY <3>2, <2>2 DEF Claim, AckedWasTyped
      <3> QED BY <3>3, <3>4, <3>5
    <2>3. ASSUME DriveSucceeds(w) \/ DriveErrs(w)  PROVE Goal
      <3> DEFINE m == sidecar[w].msg
      <3>1. Holding(w) /\ sidecar[w].pc = "driving"  BY <2>3 DEF DriveSucceeds, DriveErrs, Holding
      <3>2. m \in Msgs /\ sidecar[w] \in [pc : {"driving", "drove", "failed"}, msg : Msgs, version : Nat]
        BY <3>1, HoldingIsRecord
      <3>3. inbox[m].enqueued_at = sidecar[w].version  BY <3>1 DEF HoldsRow
      <3>4. /\ \A n \in Msgs : typed[n].agents \subseteq Typed(w)[n].agents
            /\ w[2] \in Typed(w)[m].agents
        BY <3>2, <3>3, <1>t DEF Typed
      <3>5. \A n \in Msgs : typed[n].agents \subseteq typed'[n].agents
        BY <3>4, <2>3 DEF DriveSucceeds, DriveErrs
      <3>6. inbox' = inbox  BY <2>3 DEF DriveSucceeds, DriveErrs
      <3>7. \A v \in Workers : /\ Holding(v)' <=> Holding(v)
                               /\ Holding(v) => /\ sidecar'[v].msg = sidecar[v].msg
                                                /\ sidecar'[v].version = sidecar[v].version
                               /\ v # w => sidecar'[v] = sidecar[v]
        BY <2>3, <3>1, <3>2, <1>t DEF DriveSucceeds, DriveErrs, Holding
      <3>8. \A v \in Workers : HoldsRow(v)'
        BY <3>6, <3>7 DEF HoldsRow
      <3>9. ASSUME NEW v \in Workers  PROVE DroveTyped(v)'
        <4>1. CASE v # w
          <5>1. sidecar'[v].pc = "drove" =>
                    sidecar[v].msg \in Msgs /\ w \in Workers /\ v[2] \in typed[sidecar[v].msg].agents
            BY <4>1, <3>7, HoldingIsRecord DEF DroveTyped, Holding
          <5> QED BY <5>1, <4>1, <3>5, <3>7 DEF DroveTyped
        <4>2. CASE v = w
          <5>1. CASE DriveSucceeds(w)
            <6>1. sidecar'[w].msg = m /\ typed' = Typed(w)
              BY <5>1, <3>7, <3>1 DEF DriveSucceeds
            <6> QED BY <6>1, <4>2, <3>4 DEF DroveTyped
          <5>2. CASE DriveErrs(w)
            <6>1. sidecar'[w].pc = "failed"
              BY <5>2, <3>2, <1>t DEF DriveErrs
            <6> QED BY <6>1, <4>2 DEF DroveTyped
          <5> QED BY <2>3, <5>1, <5>2
        <4> QED BY <4>1, <4>2
      <3>10. AckedWasTyped'  BY <3>5, <3>6 DEF AckedWasTyped
      <3> QED BY <3>8, <3>9, <3>10
    <2>4. CASE DriveFindsNoWindow(w)
      <3>1. sidecar[w] \in [pc : {"driving", "drove", "failed"}, msg : Msgs, version : Nat]
        BY <2>4, HoldingIsRecord DEF DriveFindsNoWindow, Holding
      <3>2. \A v \in Workers : /\ Holding(v)' => Holding(v)
                               /\ Holding(v) => /\ sidecar'[v].msg = sidecar[v].msg
                                                /\ sidecar'[v].version = sidecar[v].version
                               /\ sidecar'[v].pc = "drove" => sidecar[v].pc = "drove"
        BY <2>4, <3>1, <1>t DEF DriveFindsNoWindow, Holding
      <3> QED BY <2>4, <3>2 DEF DriveFindsNoWindow, HoldsRow, DroveTyped, AckedWasTyped, Holding
    <2>5. CASE Settle(w)
      <3> DEFINE m == sidecar[w].msg
      <3>1. Holding(w)  BY <2>5 DEF Settle, Holding
      <3>2. m \in Msgs  BY <3>1, HoldingIsRecord
      <3>3. \A v \in Workers : v # w /\ Holding(v) => sidecar[v].msg # m
        BY <3>1 DEF HoldsRow
      <3>4. \A n \in Msgs : n # m => inbox'[n] = inbox[n]
        BY <2>5, <3>2, <1>t, RowEffects DEF Settle
      <3>5. /\ sidecar'[w] = Idle /\ typed' = typed
            /\ \A v \in Workers : v # w => sidecar'[v] = sidecar[v]
        BY <2>5, <1>t DEF Settle
      <3>6. ASSUME NEW v \in Workers  PROVE HoldsRow(v)' /\ DroveTyped(v)'
        <4>1. CASE v = w  BY <4>1, <3>5 DEF HoldsRow, DroveTyped, Holding, Idle
        <4>2. CASE v # w
          BY <4>2, <3>3, <3>4, <3>5, HoldingIsRecord DEF HoldsRow, DroveTyped, Holding
        <4> QED BY <4>1, <4>2
      <3>7. AckedWasTyped'
        <4>1. CASE sidecar[w].pc = "drove"
          <5>1. inbox[m].agent_id = w[2] /\ w[2] \in typed[m].agents
            BY <4>1, <3>1 DEF HoldsRow, DroveTyped
          <5>2. inbox'[m].agent_id = inbox[m].agent_id
            BY <2>5, <4>1, <3>2, <1>t, RowEffects DEF Settle
          <5> QED BY <5>1, <5>2, <3>4, <3>5 DEF AckedWasTyped
        <4>2. CASE sidecar[w].pc = "failed"
          <5>1. inbox'[m].status \in {"dead", "pending"}
            BY <2>5, <4>2, <3>2, <1>t, RowEffects DEF Settle
          <5> QED BY <5>1, <3>4, <3>5 DEF AckedWasTyped
        <4> QED BY <2>5, <4>1, <4>2 DEF Settle
      <3> QED BY <3>6, <3>7
    <2>6. CASE SettleLost(w)
      BY <2>6, <1>t DEF SettleLost, HoldsRow, DroveTyped, AckedWasTyped, Holding, Idle
    <2> QED BY <1>7, <2>1, <2>2, <2>3, <2>4, <2>5, <2>6 DEF SidecarStep
  <1>8. ASSUME NEW d \in Daemons, Crash(d)  PROVE Goal
    BY <1>8, <1>t DEF Crash, HoldsRow, DroveTyped, AckedWasTyped, Holding, NoSidecar
  <1>9. ASSUME NEW m \in Msgs, LeaseExpires(m)  PROVE Goal
    <2>1. \A v \in Workers : Holding(v) => sidecar[v].msg # m
      BY <1>9 DEF LeaseExpires, Holders
    <2>2. \A n \in Msgs : n # m => inbox'[n] = inbox[n]
      BY <1>9, <1>t DEF LeaseExpires
    <2>3. inbox'[m].status = "processing"
      BY <1>9, <1>t DEF LeaseExpires, InboxRow
    <2>4. sidecar' = sidecar /\ typed' = typed  BY <1>9 DEF LeaseExpires
    <2> QED BY <2>1, <2>2, <2>3, <2>4, HoldingIsRecord
            DEF HoldsRow, DroveTyped, AckedWasTyped, Holding
  <1>10. ASSUME NEW a \in Agents,
                \/ PaneDies(a) \/ RespawnBegins(a) \/ RespawnPublishes(a)
                \/ AgentKill(a) \/ RequestRespawn(a)
         PROVE  Goal
    BY <1>10, <1>3 DEF PaneDies, RespawnBegins, RespawnPublishes, AgentKill, RequestRespawn
  <1> QED BY <1>4, <1>5, <1>6, <1>7, <1>8, <1>9, <1>10 DEF Next

\* However many daemons run, two sidecars never hold the same inbox row, as
\* long as drives end before their lease and nobody repoints a held row.
THEOREM ExclusiveHolding ==
    ASSUME ~SlowDrives, ~InFlightUpserts
    PROVE  Spec => []OneHolder
  <1>1. IInv => OneHolder
    BY DEF IInv, OneHolder, Holders, HoldsRow
  <1>2. IInv /\ [Next]_vars => IInv'  BY IInvNext
  <1> QED BY IInvInit, <1>1, <1>2, PTL DEF Spec

\* Under the same conditions no inbox row is marked processed unless its current
\* payload was typed into its addressee's pane.
THEOREM NothingLost ==
    ASSUME ~SlowDrives, ~InFlightUpserts
    PROVE  Spec => []AckedWasTyped
  <1>1. IInv => AckedWasTyped  BY DEF IInv
  <1>2. IInv /\ [Next]_vars => IInv'  BY IInvNext
  <1> QED BY IInvInit, <1>1, <1>2, PTL DEF Spec

-----------------------------------------------------------------------------
(* The retry budget, without operating conditions.                           *)
LEMMA BudgetNext == TypeOK /\ DeadSpentItsBudget /\ [Next]_vars => DeadSpentItsBudget'
  <1> SUFFICES ASSUME TypeOK, DeadSpentItsBudget, [Next]_vars PROVE DeadSpentItsBudget'
    OBVIOUS
  <1>t. inbox \in [Msgs -> InboxRow]  BY DEF TypeOK
  <1>1. CASE inbox' = inbox  BY <1>1 DEF DeadSpentItsBudget
  <1>2. ASSUME NEW m \in Msgs,
               \A n \in Msgs : n # m => inbox'[n] = inbox[n],
               inbox'[m].status = "dead" =>
                   \/ inbox'[m].attempts >= MaxAttempts
                   \/ inbox[m].status = "dead" /\ inbox'[m].attempts = inbox[m].attempts
        PROVE  DeadSpentItsBudget'
    BY <1>2 DEF DeadSpentItsBudget
  <1>3. ASSUME NEW m \in Msgs, NEW a \in Agents, Enqueue(m, a) \/ Upsert(m, a)
        PROVE  DeadSpentItsBudget'
    <2>1. /\ \A n \in Msgs : n # m => inbox'[n] = inbox[n]
          /\ inbox'[m].status = "dead" => inbox'[m] = inbox[m]
      BY <1>3, <1>t DEF Enqueue, Upsert, EnqueueInbox, UpsertInbox, PendingRow
    <2> QED BY <2>1, <1>2
  <1>4. ASSUME NEW w \in Workers, SidecarStep(w)  PROVE DeadSpentItsBudget'
    <2>1. CASE Claim(w)
      <3> PICK m \in Msgs : inbox' = ClaimInbox(inbox, m, w)
        BY <2>1 DEF Claim, OldestClaimable
      <3> QED BY <1>t, RowEffects, <1>2
    <2>2. CASE Settle(w)
      <3>1. sidecar[w].msg \in Msgs
        BY <2>2, HoldingIsRecord DEF Settle, Holding
      <3>2. MaxAttempts \in Nat /\ inbox[sidecar[w].msg].attempts \in Nat
        BY <3>1, <1>t, MailboxAssumption DEF InboxRow
      <3> QED BY <2>2, <3>1, <3>2, <1>t, RowEffects, <1>2 DEF Settle
    <2>3. CASE ~Claim(w) /\ ~Settle(w)
      BY <1>4, <2>3, <1>1 DEF SidecarStep, Spawn, DriveSucceeds, DriveErrs,
                              DriveFindsNoWindow, SettleLost
    <2> QED BY <2>1, <2>2, <2>3
  <1>5. ASSUME NEW m \in Msgs, LeaseExpires(m)  PROVE DeadSpentItsBudget'
    <2>1. /\ \A n \in Msgs : n # m => inbox'[n] = inbox[n]
          /\ inbox'[m].status = inbox[m].status /\ inbox'[m].attempts = inbox[m].attempts
      BY <1>5, <1>t DEF LeaseExpires, InboxRow
    <2> QED BY <2>1, <1>2
  <1>6. CASE UNCHANGED vars  BY <1>6, <1>1 DEF vars
  <1>7. CASE \E d \in Daemons : Crash(d)  BY <1>7, <1>1 DEF Crash
  <1>8. CASE \E a \in Agents : \/ PaneDies(a) \/ RespawnBegins(a) \/ RespawnPublishes(a)
                               \/ AgentKill(a) \/ RequestRespawn(a)
    BY <1>8, <1>1 DEF PaneDies, RespawnBegins, RespawnPublishes, AgentKill, RequestRespawn
  <1> QED BY <1>3, <1>4, <1>5, <1>6, <1>7, <1>8 DEF Next

\* A message is dead-lettered only with its whole retry budget spent, whatever
\* the leases, the repointing and the number of daemons.
THEOREM BudgetSpent == Spec => []DeadSpentItsBudget
  <1>1. Init => DeadSpentItsBudget
    BY DEF Init, DeadSpentItsBudget, AbsentRow
  <1> QED BY TypeInit, TypeNext, <1>1, BudgetNext, PTL DEF Spec

-----------------------------------------------------------------------------
(* What a drive leaves behind, and how often a payload was typed.            *)
LEMMA DriveEffects ==
    ASSUME IInv, NEW w \in Workers, DriveSucceeds(w) \/ DriveErrs(w)
    PROVE  /\ sidecar[w].msg \in Msgs /\ Holding(w) /\ sidecar[w].pc = "driving"
           /\ inbox' = inbox
           /\ \A n \in Msgs : n # sidecar[w].msg => typed'[n] = typed[n]
           /\ \/ typed' = typed /\ DriveErrs(w)
              \/ /\ typed'[sidecar[w].msg].count = typed[sidecar[w].msg].count + 1
                 /\ typed'[sidecar[w].msg].agents = typed[sidecar[w].msg].agents \cup {w[2]}
           /\ sidecar'[w].msg = sidecar[w].msg
           /\ sidecar'[w].pc = "drove" <=> DriveSucceeds(w)
           /\ \A v \in Workers : v # w => sidecar'[v] = sidecar[v]
  <1> DEFINE m == sidecar[w].msg
  <1>1. Holding(w) /\ sidecar[w].pc = "driving"  BY DEF DriveSucceeds, DriveErrs, Holding
  <1>2. /\ m \in Msgs
        /\ sidecar[w] \in [pc : {"driving", "drove", "failed"}, msg : Msgs, version : Nat]
    BY <1>1, HoldingIsRecord DEF IInv
  <1>3. /\ sidecar \in [Workers -> SidecarState]
        /\ typed \in [Msgs -> [count : Nat, agents : SUBSET Agents]]
    BY DEF IInv, TypeOK
  <1>4. inbox[m].enqueued_at = sidecar[w].version  BY <1>1 DEF IInv, HoldsRow
  <1>5. Typed(w) = [typed EXCEPT ![m] = [count |-> typed[m].count + 1,
                                         agents |-> typed[m].agents \cup {w[2]}]]
    BY <1>4 DEF Typed
  <1>6. /\ \A n \in Msgs : n # m => Typed(w)[n] = typed[n]
        /\ Typed(w)[m].count = typed[m].count + 1
        /\ Typed(w)[m].agents = typed[m].agents \cup {w[2]}
    BY <1>2, <1>3, <1>5
  <1>7. CASE DriveSucceeds(w)
    <2>1. /\ sidecar'[w].pc = "drove" /\ sidecar'[w].msg = m
          /\ \A v \in Workers : v # w => sidecar'[v] = sidecar[v]
      BY <1>7, <1>2, <1>3 DEF DriveSucceeds
    <2> QED BY <1>1, <1>2, <1>6, <1>7, <2>1 DEF DriveSucceeds
  <1>8. CASE DriveErrs(w)
    <2>1. /\ sidecar'[w].pc = "failed" /\ sidecar'[w].msg = m
          /\ \A v \in Workers : v # w => sidecar'[v] = sidecar[v]
      BY <1>8, <1>2, <1>3 DEF DriveErrs
    <2>2. ~DriveSucceeds(w)
      BY <1>8, <2>1, <1>2, <1>3 DEF DriveSucceeds
    <2> QED BY <1>1, <1>2, <1>6, <1>8, <2>1, <2>2 DEF DriveErrs
  <1> QED BY <1>7, <1>8

LEMMA SettleEffects ==
    ASSUME IInv, NEW w \in Workers, Settle(w)
    PROVE  /\ sidecar[w].msg \in Msgs /\ Holding(w)
           /\ \A n \in Msgs : n # sidecar[w].msg => inbox'[n] = inbox[n]
           /\ inbox'[sidecar[w].msg].agent_id = inbox[sidecar[w].msg].agent_id
           /\ inbox'[sidecar[w].msg].enqueued_at = inbox[sidecar[w].msg].enqueued_at
           /\ \/ sidecar[w].pc = "drove" /\ inbox'[sidecar[w].msg].status = "processed"
              \/ sidecar[w].pc = "failed" /\ inbox'[sidecar[w].msg].status \in {"dead", "pending"}
           /\ sidecar'[w] = Idle
           /\ \A v \in Workers : v # w => sidecar'[v] = sidecar[v] /\ (Holding(v) => sidecar[v].msg # sidecar[w].msg)
  <1> DEFINE m == sidecar[w].msg
  <1>1. Holding(w)  BY DEF Settle, Holding
  <1>2. m \in Msgs  BY <1>1, HoldingIsRecord DEF IInv
  <1>3. inbox \in [Msgs -> InboxRow] /\ sidecar \in [Workers -> SidecarState]
    BY DEF IInv, TypeOK
  <1>4. inbox[m].status = "processing"  BY <1>1 DEF IInv, HoldsRow
  <1>5. CASE sidecar[w].pc = "drove"
    <2>1. inbox' = AckInbox(inbox, m)  BY <1>5 DEF Settle
    <2>2. /\ \A n \in Msgs : n # m => inbox'[n] = inbox[n]
          /\ inbox'[m].agent_id = inbox[m].agent_id
          /\ inbox'[m].enqueued_at = inbox[m].enqueued_at
          /\ inbox'[m].status = "processed"
      BY <1>2, <1>3, <1>4, <2>1, RowEffects
    <2> QED BY <1>1, <1>2, <1>3, <1>5, <2>2 DEF Settle, IInv, HoldsRow
  <1>6. CASE sidecar[w].pc = "failed"
    <2>1. inbox' = FailInbox(inbox, m)  BY <1>6 DEF Settle
    <2>2. /\ \A n \in Msgs : n # m => inbox'[n] = inbox[n]
          /\ inbox'[m].agent_id = inbox[m].agent_id
          /\ inbox'[m].enqueued_at = inbox[m].enqueued_at
          /\ inbox'[m].status \in {"dead", "pending"}
      BY <1>2, <1>3, <2>1, RowEffects
    <2> QED BY <1>1, <1>2, <1>3, <1>6, <2>2 DEF Settle, IInv, HoldsRow
  <1> QED BY <1>5, <1>6 DEF Settle

(* The faults pay for every typing that did not lead to an ack: a payload    *)
(* that is not acked, and that no sidecar is about to ack, was typed at most *)
(* once per fault.                                                           *)
DroveOn(m) == \E w \in Workers : sidecar[w].pc = "drove" /\ sidecar[w].msg = m

Paid(m) ==
    /\ typed[m].count <= 1 + faults
    /\ inbox[m].status # "processed" /\ ~DroveOn(m) => typed[m].count <= faults

\* A key no row has yet was never typed, and what reached an agent was counted.
Counted(m) ==
    /\ inbox[m].status = "absent" => typed[m].count = 0
    /\ typed[m].agents # {} => typed[m].count > 0

CountInv == IInv /\ \A m \in Msgs : Paid(m) /\ Counted(m)

LEMMA CountInit == Init => CountInv
  <1> SUFFICES ASSUME Init PROVE CountInv  OBVIOUS
  <1>1. \A m \in Msgs : typed[m].count = 0 /\ typed[m].agents = {} /\ faults = 0
    BY DEF Init
  <1> QED BY <1>1, IInvInit DEF CountInv, Paid, Counted

LEMMA CountNext ==
    ASSUME ~SlowDrives, ~InFlightUpserts, CountInv, [Next]_vars
    PROVE  CountInv'
  <1>i. IInv /\ IInv'  BY IInvNext DEF CountInv
  <1>t. /\ inbox \in [Msgs -> InboxRow]
        /\ sidecar \in [Workers -> SidecarState]
        /\ typed \in [Msgs -> [count : Nat, agents : SUBSET Agents]]
        /\ typed' \in [Msgs -> [count : Nat, agents : SUBSET Agents]]
        /\ faults \in Nat /\ faults' \in Nat
    BY <1>i DEF IInv, TypeOK
  <1>f. 0 <= faults' /\ 0 <= 1 + faults'
    <2>1. PICK k \in Nat : faults' = k  BY <1>t
    <2> QED BY <2>1
  <1>p. \A n \in Msgs : Paid(n) /\ Counted(n)  BY DEF CountInv
  <1> SUFFICES ASSUME NEW n \in Msgs PROVE Paid(n)' /\ Counted(n)'
    BY <1>i DEF CountInv
  <1>n. /\ typed[n].count \in Nat /\ typed'[n].count \in Nat
        /\ typed[n].agents \in SUBSET Agents
    BY <1>t
  \* A step that touches neither the row nor its history, and keeps the sidecar
  \* that is about to ack it or costs a fault.
  <1>1. ASSUME inbox'[n].status = inbox[n].status, typed'[n] = typed[n],
               \/ faults' = faults /\ (DroveOn(n) => DroveOn(n)')
               \/ faults' = faults + 1
        PROVE  Paid(n)' /\ Counted(n)'
    <2>1. typed[n].count <= 1 + faults  BY <1>p DEF Paid
    <2>2. Counted(n)'  BY <1>1, <1>p DEF Counted
    <2>3. CASE faults' = faults + 1  BY <1>1, <1>n, <1>t, <2>1, <2>2, <2>3 DEF Paid
    <2>4. CASE faults' = faults /\ (DroveOn(n) => DroveOn(n)')
      BY <1>1, <1>p, <2>2, <2>4 DEF Paid
    <2> QED BY <1>1, <2>3, <2>4
  <1>2. ASSUME sidecar' = sidecar  PROVE DroveOn(n) => DroveOn(n)'
    BY <1>2 DEF DroveOn
  <1>3. CASE UNCHANGED vars  BY <1>3, <1>1, <1>2 DEF vars
  <1>4. ASSUME NEW m \in Msgs, NEW a \in Agents, Enqueue(m, a)  PROVE Paid(n)' /\ Counted(n)'
    <2>0. typed' = typed /\ faults' = faults /\ sidecar' = sidecar  BY <1>4 DEF Enqueue
    <2>1. CASE n # m
      <3>1. inbox'[n] = inbox[n]  BY <1>4, <1>t, <2>1 DEF Enqueue, EnqueueInbox
      <3> QED BY <3>1, <2>0, <1>1, <1>2
    <2>2. CASE n = m
      <3>1. typed[n].count = 0  BY <1>4, <1>p, <2>2 DEF Enqueue, Counted
      <3> QED BY <3>1, <2>0, <1>p, <1>t DEF Paid, Counted
    <2> QED BY <2>1, <2>2
  <1>5. ASSUME NEW m \in Msgs, NEW a \in Agents, Upsert(m, a)  PROVE Paid(n)' /\ Counted(n)'
    <2>0. faults' = faults /\ sidecar' = sidecar  BY <1>5 DEF Upsert
    <2>1. CASE n # m
      <3>1. inbox'[n] = inbox[n] /\ typed'[n] = typed[n]
        BY <1>5, <1>t, <2>1 DEF Upsert, UpsertInbox
      <3> QED BY <3>1, <2>0, <1>1, <1>2
    <2>2. CASE n = m
      <3>1. typed'[n].count = 0 /\ typed'[n].agents = {}
        BY <1>5, <1>t, <2>2 DEF Upsert
      <3>3. Paid(n)'  BY <3>1, <1>f DEF Paid
      <3>4. Counted(n)'  BY <3>1 DEF Counted
      <3> QED BY <3>3, <3>4
    <2> QED BY <2>1, <2>2
  <1>6. ASSUME NEW w \in Workers, SidecarStep(w)  PROVE Paid(n)' /\ Counted(n)'
    <2>1. CASE Spawn(w)
      <3>1. DroveOn(n) => DroveOn(n)'
        BY <2>1, <1>t DEF Spawn, DroveOn, NoSidecar
      <3> QED BY <2>1, <3>1, <1>1 DEF Spawn, boundVars
    <2>2. CASE Claim(w)
      <3> PICK m \in Msgs :
             /\ Claimable(inbox[m], w[2])
             /\ inbox' = ClaimInbox(inbox, m, w)
        BY <2>2 DEF Claim, OldestClaimable
      <3>1. /\ inbox'[m].status = "processing"
            /\ \A k \in Msgs : k # m => inbox'[k] = inbox[k]
        BY <1>t, RowEffects
      <3>2. inbox[m].status \in {"pending", "processing"}  BY DEF Claimable
      <3>3. DroveOn(n) => DroveOn(n)'
        BY <2>2, <1>t DEF Claim, DroveOn, Idle
      <3>4. typed' = typed /\ faults' = faults  BY <2>2 DEF Claim, boundVars
      <3>5. CASE n # m  BY <3>1, <3>3, <3>4, <3>5, <1>1
      <3>6. CASE n = m
        <4>1. /\ inbox'[n].status \notin {"processed", "absent"}
              /\ inbox[n].status \notin {"processed", "absent"}
          BY <3>1, <3>2, <3>6
        <4>2. /\ typed'[n].count = typed[n].count
              /\ typed'[n].agents = typed[n].agents
          BY <3>4
        <4>3. Paid(n)'  BY <4>1, <4>2, <3>3, <3>4, <1>p DEF Paid
        <4>4. Counted(n)'  BY <4>1, <4>2, <1>p DEF Counted
        <4> QED BY <4>3, <4>4
      <3> QED BY <3>5, <3>6
    <2>3. CASE DriveSucceeds(w)
      <3>1. /\ inbox' = inbox /\ faults' = faults
            /\ \A k \in Msgs : k # sidecar[w].msg => typed'[k] = typed[k]
            /\ \A v \in Workers : v # w => sidecar'[v] = sidecar[v]
            /\ sidecar[w].pc = "driving" /\ sidecar'[w].pc = "drove"
            /\ sidecar'[w].msg = sidecar[w].msg /\ Holding(w)
        BY <2>3, <1>i, DriveEffects DEF DriveSucceeds, boundVars
      <3>2. CASE n # sidecar[w].msg
        <4>1. DroveOn(n) => DroveOn(n)'  BY <3>1 DEF DroveOn
        <4> QED BY <3>1, <3>2, <4>1, <1>1
      <3>3. CASE n = sidecar[w].msg
        <4>1. \A v \in Workers : v # w /\ Holding(v) => sidecar[v].msg # n
          BY <3>1, <3>3, <1>i DEF IInv, HoldsRow
        <4>2. ~DroveOn(n)
          BY <4>1, <3>1, <3>3 DEF DroveOn, Holding
        <4>3. inbox[n].status = "processing"
          BY <3>1, <3>3, <1>i DEF IInv, HoldsRow
        <4>4. typed[n].count <= faults  BY <4>2, <4>3, <1>p DEF Paid
        <4>5. typed'[n].count = typed[n].count + 1 \/ typed'[n] = typed[n]
          BY <2>3, <1>i, <3>3, DriveEffects
        <4>6. DroveOn(n)'  BY <3>1, <3>3 DEF DroveOn
        <4>7. Paid(n)'  BY <4>4, <4>5, <4>6, <3>1, <1>n, <1>t DEF Paid
        <4>8. typed'[n].count = typed[n].count + 1 => Counted(n)'
          BY <4>3, <3>1, <1>n DEF Counted
        <4>9. typed'[n] = typed[n] => Counted(n)'
          BY <3>1, <1>p DEF Counted
        <4> QED BY <4>5, <4>7, <4>8, <4>9
      <3> QED BY <3>2, <3>3
    <2>4. CASE DriveErrs(w)
      <3>1. /\ inbox' = inbox /\ faults' = faults + 1
            /\ \A k \in Msgs : k # sidecar[w].msg => typed'[k] = typed[k]
            /\ sidecar[w].pc = "driving" /\ Holding(w)
        BY <2>4, <1>i, DriveEffects DEF DriveErrs
      <3>2. CASE n # sidecar[w].msg  BY <3>1, <3>2, <1>1
      <3>3. CASE n = sidecar[w].msg
        <4>1. \A v \in Workers : v # w /\ Holding(v) => sidecar[v].msg # n
          BY <3>1, <3>3, <1>i DEF IInv, HoldsRow
        <4>2. ~DroveOn(n)
          BY <4>1, <3>1, <3>3 DEF DroveOn, Holding
        <4>3. inbox[n].status = "processing"
          BY <3>1, <3>3, <1>i DEF IInv, HoldsRow
        <4>4. typed[n].count <= faults  BY <4>2, <4>3, <1>p DEF Paid
        <4>5. typed'[n].count = typed[n].count + 1 \/ typed'[n] = typed[n]
          BY <2>4, <1>i, <3>3, DriveEffects
        <4>7. Paid(n)'  BY <4>4, <4>5, <3>1, <1>n, <1>t DEF Paid
        <4>8. typed'[n].count = typed[n].count + 1 => Counted(n)'
          BY <4>3, <3>1, <1>n DEF Counted
        <4>9. typed'[n] = typed[n] => Counted(n)'
          BY <3>1, <1>p DEF Counted
        <4> QED BY <4>5, <4>7, <4>8, <4>9
      <3> QED BY <3>2, <3>3
    <2>5. CASE DriveFindsNoWindow(w)
      <3>1. DroveOn(n) => DroveOn(n)'
        BY <2>5, <1>t DEF DriveFindsNoWindow, DroveOn
      <3> QED BY <2>5, <3>1, <1>1 DEF DriveFindsNoWindow, boundVars
    <2>6. CASE Settle(w)
      <3>1. /\ typed' = typed /\ faults' = faults
            /\ \A v \in Workers : v # w => sidecar'[v] = sidecar[v]
            /\ Holding(w)
        BY <2>6, <1>i, SettleEffects DEF Settle, boundVars
      <3>2. CASE n # sidecar[w].msg
        <4>1. inbox'[n] = inbox[n]  BY <2>6, <3>2, <1>i, SettleEffects
        <4>2. DroveOn(n) => DroveOn(n)'  BY <3>1, <3>2 DEF DroveOn
        <4> QED BY <3>1, <4>1, <4>2, <1>1
      <3>3. CASE n = sidecar[w].msg
        <4>1. \/ sidecar[w].pc = "drove" /\ inbox'[n].status = "processed"
              \/ sidecar[w].pc = "failed" /\ inbox'[n].status \in {"dead", "pending"}
          BY <2>6, <3>3, <1>i, SettleEffects
        <4>2. inbox[n].status = "processing"
          BY <3>1, <3>3, <1>i DEF IInv, HoldsRow
        <4>3. \A v \in Workers : v # w /\ Holding(v) => sidecar[v].msg # n
          BY <3>1, <3>3, <1>i DEF IInv, HoldsRow
        <4>4. sidecar[w].pc = "failed" => ~DroveOn(n)
          BY <4>3 DEF DroveOn, Holding
        <4>5. Paid(n)'  BY <4>1, <4>2, <4>4, <3>1, <1>p DEF Paid
        <4>6. Counted(n)'  BY <4>1, <3>1, <1>p DEF Counted
        <4> QED BY <4>5, <4>6
      <3> QED BY <3>2, <3>3
    <2>7. CASE SettleLost(w)  BY <2>7, <1>1 DEF SettleLost
    <2> QED BY <1>6, <2>1, <2>2, <2>3, <2>4, <2>5, <2>6, <2>7 DEF SidecarStep
  <1>7. ASSUME NEW d \in Daemons, Crash(d)  PROVE Paid(n)' /\ Counted(n)'
    BY <1>7, <1>1 DEF Crash
  <1>8. ASSUME NEW m \in Msgs, LeaseExpires(m)  PROVE Paid(n)' /\ Counted(n)'
    <2>1. inbox'[n].status = inbox[n].status
      BY <1>8, <1>t DEF LeaseExpires, InboxRow
    <2> QED BY <2>1, <1>8, <1>1, <1>2 DEF LeaseExpires, boundVars
  <1>9. ASSUME NEW a \in Agents, PaneDies(a)  PROVE Paid(n)' /\ Counted(n)'
    BY <1>9, <1>1 DEF PaneDies
  <1>10. ASSUME NEW a \in Agents,
                RespawnBegins(a) \/ RespawnPublishes(a) \/ AgentKill(a) \/ RequestRespawn(a)
         PROVE  Paid(n)' /\ Counted(n)'
    BY <1>10, <1>1, <1>2
       DEF RespawnBegins, RespawnPublishes, AgentKill, RequestRespawn, boundVars
  <1> QED BY <1>3, <1>4, <1>5, <1>6, <1>7, <1>8, <1>9, <1>10 DEF Next

\* With drives that end before their lease and nobody repointing a held row, each
\* delivery beyond the first is paid for by a crash, a lost commit or a tmux error.
THEOREM DuplicatesArePaidFor ==
    ASSUME ~SlowDrives, ~InFlightUpserts
    PROVE  Spec => []DuplicatesNeedFaults
  <1>1. CountInv => DuplicatesNeedFaults
    BY DEF CountInv, Paid, DuplicatesNeedFaults
  <1>2. CountInv /\ [Next]_vars => CountInv'  BY CountNext
  <1> QED BY CountInit, <1>1, <1>2, PTL DEF Spec

-----------------------------------------------------------------------------
(* The refinement of Delivery.  Every step moves at most one message from    *)
(* one stage to the next, or leaves all stages as they are.                  *)
Hop(from, to) ==
    \/ from = "absent" /\ to = "queued"
    \/ from \in {"queued", "handed", "done", "dead"} /\ to = "queued"
    \/ from = "queued" /\ to = "handed"
    \/ from = "handed" /\ to = "done"
    \/ from \in {"queued", "handed"} /\ to = "dead"

LEMMA StagesStay ==
    ASSUME \A n \in Msgs : /\ inbox'[n].status = inbox[n].status
                           /\ typed'[n].count = typed[n].count
    PROVE  UNCHANGED [m \in Msgs |-> Stage(m)]
  <1>1. \A n \in Msgs : Stage(n)' = Stage(n)  BY DEF Stage
  <1> QED BY <1>1

LEMMA OneStageMoves ==
    ASSUME NEW k \in Msgs,
           \A n \in Msgs : n # k => inbox'[n].status = inbox[n].status
                                    /\ typed'[n].count = typed[n].count,
           Stage(k)' = Stage(k) \/ Hop(Stage(k), Stage(k)')
    PROVE  [D!Next]_([m \in Msgs |-> Stage(m)])
  <1>1. \A n \in Msgs : n # k => Stage(n)' = Stage(n)  BY DEF Stage
  <1>2. CASE Stage(k)' = Stage(k)
    <2>1. \A n \in Msgs : Stage(n)' = Stage(n)  BY <1>1, <1>2
    <2> QED BY <2>1
  <1>3. CASE Hop(Stage(k), Stage(k)')
    <2>1. [m \in Msgs |-> Stage(m)]' = [[m \in Msgs |-> Stage(m)] EXCEPT ![k] = Stage(k)']
      BY <1>1
    <2>2. [m \in Msgs |-> Stage(m)][k] = Stage(k)  OBVIOUS
    <2>3. D!Send(k) \/ D!Resend(k) \/ D!Hand(k) \/ D!Confirm(k) \/ D!Bury(k)
      BY <1>3, <2>1, <2>2
         DEF Hop, D!Send, D!Resend, D!Hand, D!Confirm, D!Bury, D!Move
    <2> QED BY <2>3 DEF D!Next
  <1> QED BY <1>2, <1>3

LEMMA StageInit == Init => D!Init
  <1> SUFFICES ASSUME Init PROVE D!Init  OBVIOUS
  <1>1. \A m \in Msgs : Stage(m) = "absent"
    BY DEF Init, Stage, AbsentRow
  <1> QED BY <1>1 DEF D!Init

LEMMA StageNext ==
    ASSUME CountInv, [Next]_vars
    PROVE  [D!Next]_([m \in Msgs |-> Stage(m)])
  <1> DEFINE Goal == [D!Next]_([m \in Msgs |-> Stage(m)])
  <1>i. IInv  BY DEF CountInv
  <1>t. /\ inbox \in [Msgs -> InboxRow]
        /\ sidecar \in [Workers -> SidecarState]
        /\ typed \in [Msgs -> [count : Nat, agents : SUBSET Agents]]
    BY <1>i DEF IInv, TypeOK
  <1>p. \A n \in Msgs : Counted(n)  BY DEF CountInv
  <1>s. \A n \in Msgs : inbox[n].status \in Status /\ typed[n].count \in Nat
    BY <1>t DEF InboxRow
  <1>1. ASSUME inbox' = inbox, typed' = typed  PROVE Goal
    BY <1>1, StagesStay
  <1>2. CASE UNCHANGED vars  BY <1>1, <1>2 DEF vars
  <1>3. ASSUME NEW m \in Msgs, NEW a \in Agents, Enqueue(m, a)  PROVE Goal
    <2>1. /\ inbox[m].status = "absent" /\ inbox'[m].status = "pending" /\ typed' = typed
          /\ \A n \in Msgs : n # m => inbox'[n] = inbox[n]
      BY <1>3, <1>t DEF Enqueue, EnqueueInbox, PendingRow
    <2>2. typed[m].count = 0  BY <2>1, <1>p DEF Counted
    <2>3. Stage(m) = "absent" /\ Stage(m)' = "queued"  BY <2>1, <2>2 DEF Stage
    <2> QED BY <2>1, <2>3, OneStageMoves DEF Hop
  <1>4. ASSUME NEW m \in Msgs, NEW a \in Agents, Upsert(m, a)  PROVE Goal
    <2>1. /\ inbox'[m].status = "pending" /\ typed'[m].count = 0
          /\ \A n \in Msgs : n # m => inbox'[n] = inbox[n] /\ typed'[n] = typed[n]
      BY <1>4, <1>t DEF Upsert, UpsertInbox, PendingRow
    <2>2. Stage(m)' = "queued"  BY <2>1 DEF Stage
    <2>3. Stage(m) \in {"absent", "dead", "done", "queued", "handed"}
      BY <1>s DEF Stage, Status
    <2> QED BY <2>1, <2>2, <2>3, OneStageMoves DEF Hop
  <1>5. ASSUME NEW w \in Workers, SidecarStep(w)  PROVE Goal
    <2>1. CASE Spawn(w)  BY <2>1, <1>1 DEF Spawn
    <2>2. CASE Claim(w)
      <3> PICK m \in Msgs : Claimable(inbox[m], w[2]) /\ inbox' = ClaimInbox(inbox, m, w)
        BY <2>2 DEF Claim, OldestClaimable
      <3>1. /\ inbox'[m].status = "processing"
            /\ \A n \in Msgs : n # m => inbox'[n] = inbox[n]
        BY <1>t, RowEffects
      <3> typed' = typed  BY <2>2 DEF Claim
      <3>2. Stage(m)' = Stage(m)  BY <3>1 DEF Stage, Claimable
      <3> QED BY <3>1, <3>2, OneStageMoves
    <2>3. CASE DriveSucceeds(w) \/ DriveErrs(w)
      <3>1. PICK m \in Msgs :
               /\ m = sidecar[w].msg /\ Holding(w) /\ inbox' = inbox
               /\ \A n \in Msgs : n # m => typed'[n] = typed[n]
               /\ typed' = typed \/ typed'[m].count = typed[m].count + 1
        BY <2>3, <1>i, DriveEffects
      <3>2. CASE typed' = typed  BY <3>1, <3>2, <1>1
      <3>3. CASE typed'[m].count = typed[m].count + 1
        <4>1. inbox[m].status = "processing"  BY <3>1, <1>i DEF IInv, HoldsRow
        <4>2. typed'[m].count # 0  BY <3>3, <1>s
        <4>3. Stage(m) \in {"queued", "handed"} /\ Stage(m)' = "handed"
          BY <3>1, <4>1, <4>2 DEF Stage
        <4> QED BY <3>1, <4>3, OneStageMoves DEF Hop
      <3> QED BY <3>1, <3>2, <3>3
    <2>4. CASE DriveFindsNoWindow(w)  BY <2>4, <1>1 DEF DriveFindsNoWindow
    <2>5. CASE Settle(w)
      <3>1. PICK m \in Msgs :
               /\ m = sidecar[w].msg /\ Holding(w)
               /\ \A n \in Msgs : n # m => inbox'[n] = inbox[n]
               /\ \/ sidecar[w].pc = "drove" /\ inbox'[m].status = "processed"
                  \/ sidecar[w].pc = "failed" /\ inbox'[m].status \in {"dead", "pending"}
        BY <2>5, <1>i, SettleEffects
      <3>2. typed' = typed  BY <2>5 DEF Settle
      <3>3. inbox[m].status = "processing"  BY <3>1, <1>i DEF IInv, HoldsRow
      <3>4. CASE sidecar[w].pc = "drove" /\ inbox'[m].status = "processed"
        <4>1. w[2] \in typed[m].agents  BY <3>1, <3>4, <1>i DEF IInv, DroveTyped
        <4>2. typed[m].count # 0  BY <4>1, <1>p, <1>s DEF Counted
        <4>3. Stage(m) = "handed" /\ Stage(m)' = "done"
          BY <3>3, <3>4, <4>2 DEF Stage
        <4> QED BY <3>1, <3>2, <4>3, OneStageMoves DEF Hop
      <3>5. CASE inbox'[m].status = "dead"
        <4>1. Stage(m) \in {"queued", "handed"} /\ Stage(m)' = "dead"
          BY <3>3, <3>5 DEF Stage
        <4> QED BY <3>1, <3>2, <4>1, OneStageMoves DEF Hop
      <3>6. CASE inbox'[m].status = "pending"
        <4>1. Stage(m)' = Stage(m)  BY <3>2, <3>3, <3>6 DEF Stage
        <4> QED BY <3>1, <3>2, <4>1, OneStageMoves
      <3> QED BY <3>1, <3>4, <3>5, <3>6
    <2>6. CASE SettleLost(w)  BY <2>6, <1>1 DEF SettleLost
    <2> QED BY <1>5, <2>1, <2>2, <2>3, <2>4, <2>5, <2>6 DEF SidecarStep
  <1>6. CASE \E d \in Daemons : Crash(d)  BY <1>6, <1>1 DEF Crash
  <1>7. ASSUME NEW m \in Msgs, LeaseExpires(m)  PROVE Goal
    <2>1. \A n \in Msgs : inbox'[n].status = inbox[n].status
      BY <1>7, <1>t DEF LeaseExpires, InboxRow
    <2>2. typed' = typed  BY <1>7 DEF LeaseExpires
    <2> QED BY <2>1, <2>2, StagesStay
  <1>8. CASE \E a \in Agents : \/ PaneDies(a) \/ RespawnBegins(a) \/ RespawnPublishes(a)
                               \/ AgentKill(a) \/ RequestRespawn(a)
    BY <1>8, <1>1 DEF PaneDies, RespawnBegins, RespawnPublishes, AgentKill, RequestRespawn
  <1> QED BY <1>2, <1>3, <1>4, <1>5, <1>6, <1>7, <1>8 DEF Next

\* What a producer sees of its message is the abstract at-least-once delivery:
\* done only after it was handed over, done and dead final until it is sent again.
THEOREM ImplementsDelivery ==
    ASSUME ~SlowDrives, ~InFlightUpserts
    PROVE  Spec => AtLeastOnce
  <1>1. CountInv /\ [Next]_vars => CountInv'  BY CountNext
  <1>2. CountInv /\ [Next]_vars => [D!Next]_([m \in Msgs |-> Stage(m)])  BY StageNext
  <1>3. Spec => D!Spec  BY CountInit, StageInit, <1>1, <1>2, PTL DEF Spec, D!Spec
  <1> QED BY <1>3 DEF AtLeastOnce

-----------------------------------------------------------------------------
(* In-order delivery by one daemon.  Until the first fault every row in      *)
(* 'processing' is in the hands of a sidecar, so the only sidecar of an      *)
(* agent claims the oldest of all its unsettled rows; later rows get later   *)
(* timestamps.                                                               *)
Unsettled(n, a) ==
    inbox[n].agent_id = a /\ inbox[n].status \in {"pending", "processing"}

OrderInv ==
    /\ IInv
    /\ \A m \in Msgs : inbox[m].enqueued_at <= clock
    /\ faults = 0 =>
        /\ \A m \in Msgs : inbox[m].status = "processing" => Holders(m) # {}
        /\ \A w \in Workers : Holding(w) =>
               \A n \in Msgs : Unsettled(n, w[2]) =>
                                   inbox[n].enqueued_at >= sidecar[w].version

LEMMA OrderInit == Init => OrderInv
  <1> SUFFICES ASSUME Init PROVE OrderInv  OBVIOUS
  <1>1. \A m \in Msgs : inbox[m].enqueued_at = 0 /\ inbox[m].status = "absent" /\ clock = 1
    BY DEF Init, AbsentRow
  <1>2. \A w \in Workers : ~Holding(w)
    BY DEF Init, Holding, NoSidecar
  <1> QED BY <1>1, <1>2, IInvInit DEF OrderInv

\* A step of which the order needs no more than this: unsettled rows of a sidecar
\* that keeps its row were unsettled before, or are newer than everything.
LEMMA OrderKept ==
    ASSUME OrderInv, IInv', clock' \in Nat, clock <= clock',
           \A m \in Msgs : inbox'[m].enqueued_at \in {inbox[m].enqueued_at, clock},
           faults' = 0 => faults = 0,
           faults' = 0 => \A m \in Msgs : inbox'[m].status = "processing" => Holders(m)' # {},
           \A w \in Workers : Holding(w)' => Holding(w) /\ sidecar'[w].version = sidecar[w].version,
           \A n \in Msgs, a \in Agents :
               Unsettled(n, a)' => \/ Unsettled(n, a) /\ inbox'[n].enqueued_at = inbox[n].enqueued_at
                                   \/ inbox'[n].enqueued_at = clock
    PROVE  OrderInv'
  <1>t. /\ inbox \in [Msgs -> InboxRow] /\ inbox' \in [Msgs -> InboxRow]
        /\ sidecar \in [Workers -> SidecarState] /\ clock \in Nat
    BY DEF OrderInv, IInv, TypeOK
  <1>e. \A m \in Msgs : inbox[m].enqueued_at \in Nat /\ inbox[m].enqueued_at <= clock
    BY <1>t DEF InboxRow, OrderInv
  <1>1. \A m \in Msgs : inbox'[m].enqueued_at <= clock'
    <2> TAKE m \in Msgs
    <2>1. PICK k \in Nat : clock' = k  OBVIOUS
    <2>2. inbox[m].enqueued_at <= k /\ clock <= k  BY <1>e, <1>t, <2>1
    <2> QED BY <2>1, <2>2
  <1>2. ASSUME faults' = 0, NEW w \in Workers, Holding(w)', NEW n \in Msgs, Unsettled(n, w[2])'
        PROVE  inbox'[n].enqueued_at >= sidecar'[w].version
    <2>1. w[2] \in Agents  BY SidecarAssumption
    <2>2. /\ Holding(w) /\ sidecar'[w].version = sidecar[w].version /\ faults = 0
      BY <1>2
    <2>3. sidecar[w].msg \in Msgs /\ sidecar[w].version = inbox[sidecar[w].msg].enqueued_at
      BY <2>2, HoldingIsRecord DEF OrderInv, IInv, HoldsRow
    <2>4. sidecar[w].version \in Nat /\ sidecar[w].version <= clock  BY <2>3, <1>e
    <2>5. CASE Unsettled(n, w[2]) /\ inbox'[n].enqueued_at = inbox[n].enqueued_at
      BY <2>2, <2>5 DEF OrderInv
    <2>6. CASE inbox'[n].enqueued_at = clock  BY <2>2, <2>4, <2>6, <1>t
    <2> QED BY <1>2, <2>1, <2>5, <2>6
  <1> QED BY <1>1, <1>2 DEF OrderInv

\* ... and what every step that only touches sidecars, panes or agents satisfies.
LEMMA HoldersKept ==
    ASSUME OrderInv, faults = 0, NEW n \in Msgs, inbox[n].status = "processing",
           \A w \in Workers : Holding(w) /\ sidecar[w].msg = n =>
                                  Holding(w)' /\ sidecar'[w].msg = n
    PROVE  Holders(n)' # {}
  <1>1. PICK w \in Workers : Holding(w) /\ sidecar[w].msg = n
    BY DEF OrderInv, Holders
  <1> QED BY <1>1 DEF Holders

LEMMA OrderNext ==
    ASSUME ~SlowDrives, ~InFlightUpserts, \A d, e \in Daemons : d = e,
           OrderInv, [Next]_vars
    PROVE  OrderInv'
  <1>i. IInv /\ IInv'  BY IInvNext DEF OrderInv
  <1>t. /\ inbox \in [Msgs -> InboxRow] /\ inbox' \in [Msgs -> InboxRow]
        /\ sidecar \in [Workers -> SidecarState]
        /\ clock \in Nat /\ clock' \in Nat /\ faults \in Nat
    BY <1>i DEF IInv, TypeOK
  <1>c. clock' = clock => clock <= clock'  BY <1>t
  <1>1. ASSUME inbox' = inbox, sidecar' = sidecar, clock' = clock, faults' = 0 => faults = 0
        PROVE  OrderInv'
    <2>1. \A n \in Msgs : faults = 0 /\ inbox[n].status = "processing" => Holders(n)' # {}
      BY <1>1, HoldersKept DEF Holding
    <2> QED BY <1>1, <2>1, <1>c, <1>i, <1>t, OrderKept DEF Holding, Unsettled
  <1>2. CASE UNCHANGED vars  BY <1>2, <1>1 DEF vars
  <1>3. ASSUME NEW m \in Msgs, NEW a \in Agents, Enqueue(m, a) \/ Upsert(m, a)
        PROVE  OrderInv'
    <2>1. /\ inbox'[m].status = "pending" /\ inbox'[m].enqueued_at = clock
          /\ \A n \in Msgs : n # m => inbox'[n] = inbox[n]
          /\ sidecar' = sidecar /\ clock' = clock + 1 /\ faults' = faults
      BY <1>3, <1>t DEF Enqueue, Upsert, EnqueueInbox, UpsertInbox, PendingRow
    <2>2. clock <= clock'  BY <2>1, <1>t
    <2>3. \A n \in Msgs : faults = 0 /\ inbox'[n].status = "processing" => Holders(n)' # {}
      BY <2>1, HoldersKept DEF Holding
    <2> QED BY <2>1, <2>2, <2>3, <1>i, <1>t, OrderKept DEF Holding, Unsettled
  <1>4. ASSUME NEW w \in Workers, Claim(w)  PROVE OrderInv'
    <2> PICK m \in Msgs :
           /\ m \in OldestClaimable(inbox, w[2])
           /\ inbox' = ClaimInbox(inbox, m, w)
           /\ sidecar' = [sidecar EXCEPT ![w] = [pc |-> "driving", msg |-> m,
                                                 version |-> inbox[m].enqueued_at]]
      BY <1>4 DEF Claim, OldestClaimable
    <2>1. /\ inbox'[m].status = "processing" /\ inbox'[m].agent_id = inbox[m].agent_id
          /\ inbox'[m].enqueued_at = inbox[m].enqueued_at
          /\ \A n \in Msgs : n # m => inbox'[n] = inbox[n]
      BY <1>t, RowEffects
    <2>2. /\ sidecar[w] = Idle /\ faults' = faults /\ clock' = clock
      BY <1>4 DEF Claim, boundVars
    <2>3. /\ Holding(w)' /\ sidecar'[w].msg = m /\ sidecar'[w].version = inbox[m].enqueued_at
          /\ \A v \in Workers : v # w => sidecar'[v] = sidecar[v] /\ (Holding(v)' <=> Holding(v))
          /\ ~Holding(w)
      BY <2>2, <1>t DEF Holding, Idle
    <2>4. \A n \in Msgs : inbox'[n].enqueued_at <= clock'
      BY <2>1, <2>2 DEF OrderInv
    <2>5. ASSUME faults' = 0, NEW n \in Msgs, inbox'[n].status = "processing"
          PROVE  Holders(n)' # {}
      <3>1. CASE n = m  BY <2>3, <3>1 DEF Holders
      <3>2. CASE n # m
        <4>1. PICK v \in Workers : Holding(v) /\ sidecar[v].msg = n
          BY <2>1, <2>2, <2>5, <3>2 DEF OrderInv, Holders
        <4> QED BY <4>1, <2>3 DEF Holders
      <3> QED BY <3>1, <3>2
    <2>6. \A n \in Msgs, a \in Agents : Unsettled(n, a)' => inbox[n].agent_id = a
                                           /\ inbox[n].status \in {"pending", "processing"}
      BY <2>1 DEF Unsettled, OldestClaimable, Claimable
    <2>7. \A n \in Msgs : inbox'[n].enqueued_at = inbox[n].enqueued_at
      BY <2>1
    <2>8. ASSUME faults' = 0, NEW v \in Workers, Holding(v)', NEW n \in Msgs, Unsettled(n, v[2])'
          PROVE  inbox'[n].enqueued_at >= sidecar'[v].version
      <3>0. v[2] \in Agents /\ w[2] \in Agents  BY SidecarAssumption
      <3>1. CASE v # w
        BY <2>2, <2>3, <2>6, <2>7, <2>8, <3>0, <3>1 DEF OrderInv, Unsettled
      <3>2. CASE v = w
        <4>1. inbox[n].agent_id = w[2] /\ inbox[n].status \in {"pending", "processing"}
          BY <2>6, <2>8, <3>0, <3>2
        <4>2. inbox[n].status # "processing"
          <5>1. SUFFICES ASSUME inbox[n].status = "processing" PROVE FALSE  OBVIOUS
          <5>2. PICK u \in Workers : Holding(u) /\ sidecar[u].msg = n
            BY <5>1, <2>2, <2>8 DEF OrderInv, Holders
          <5>3. u[2] = w[2]  BY <5>2, <4>1, <1>i DEF IInv, HoldsRow
          <5>4. u[1] = w[1]  BY SidecarAssumption
          <5>5. u = w  BY <5>3, <5>4, SidecarAssumption
          <5> QED BY <5>2, <5>5, <2>3
        <4>3. Claimable(inbox[n], w[2])  BY <4>1, <4>2 DEF Claimable
        <4>4. inbox[m].enqueued_at <= inbox[n].enqueued_at
          BY <4>3 DEF OldestClaimable
        <4>5. inbox[m].enqueued_at \in Nat /\ inbox[n].enqueued_at \in Nat
          BY <1>t DEF InboxRow
        <4> QED BY <4>4, <4>5, <2>3, <2>7, <3>2
      <3> QED BY <3>1, <3>2
    <2> QED BY <2>4, <2>5, <2>8, <1>i DEF OrderInv
  <1>5. ASSUME NEW w \in Workers, DriveSucceeds(w) \/ DriveErrs(w)  PROVE OrderInv'
    <2>1. /\ inbox' = inbox /\ clock' = clock /\ faults' \in {faults, faults + 1}
          /\ sidecar[w].msg \in Msgs /\ Holding(w)
      BY <1>5, <1>i, DriveEffects DEF DriveSucceeds, DriveErrs, boundVars
    <2>2. sidecar[w] \in [pc : {"driving", "drove", "failed"}, msg : Msgs, version : Nat]
      BY <2>1, <1>i, HoldingIsRecord DEF IInv
    <2>3. \A v \in Workers : /\ Holding(v)' <=> Holding(v)
                             /\ Holding(v) => sidecar'[v].msg = sidecar[v].msg
                                              /\ sidecar'[v].version = sidecar[v].version
      BY <1>5, <1>t, <2>2 DEF DriveSucceeds, DriveErrs, Holding
    <2>4. faults' = 0 => faults = 0  BY <2>1, <1>t
    <2>5. \A n \in Msgs : faults = 0 /\ inbox[n].status = "processing" => Holders(n)' # {}
      BY <2>3, HoldersKept
    <2> QED BY <2>1, <2>3, <2>4, <2>5, <1>c, <1>i, <1>t, OrderKept DEF Unsettled
  <1>6. ASSUME NEW w \in Workers, DriveFindsNoWindow(w)  PROVE OrderInv'
    <2>1. inbox' = inbox /\ clock' = clock /\ faults' = faults
      BY <1>6 DEF DriveFindsNoWindow, boundVars
    <2>2. sidecar[w] \in [pc : {"driving", "drove", "failed"}, msg : Msgs, version : Nat]
      BY <1>6, <1>i, HoldingIsRecord DEF IInv, DriveFindsNoWindow, Holding
    <2>3. \A v \in Workers : /\ Holding(v)' <=> Holding(v)
                             /\ Holding(v) => sidecar'[v].msg = sidecar[v].msg
                                              /\ sidecar'[v].version = sidecar[v].version
      BY <1>6, <1>t, <2>2 DEF DriveFindsNoWindow, Holding
    <2>5. \A n \in Msgs : faults = 0 /\ inbox[n].status = "processing" => Holders(n)' # {}
      BY <2>3, HoldersKept
    <2> QED BY <2>1, <2>3, <2>5, <1>c, <1>i, <1>t, OrderKept DEF Unsettled
  <1>7. ASSUME NEW w \in Workers, Settle(w)  PROVE OrderInv'
    <2>1. PICK m \in Msgs :
             /\ m = sidecar[w].msg /\ Holding(w)
             /\ \A n \in Msgs : n # m => inbox'[n] = inbox[n]
             /\ inbox'[m].agent_id = inbox[m].agent_id
             /\ inbox'[m].enqueued_at = inbox[m].enqueued_at
             /\ inbox'[m].status \in {"processed", "dead", "pending"}
             /\ sidecar'[w] = Idle
             /\ \A v \in Workers : v # w => sidecar'[v] = sidecar[v]
      BY <1>7, <1>i, SettleEffects
    <2>2. clock' = clock /\ faults' = faults  BY <1>7 DEF Settle, boundVars
    <2>3. inbox[m].status = "processing"  BY <2>1, <1>i DEF IInv, HoldsRow
    <2>4. \A v \in Workers : Holding(v)' => v # w  BY <2>1 DEF Holding, Idle
    <2>5. ASSUME faults' = 0, NEW n \in Msgs, inbox'[n].status = "processing"
          PROVE  Holders(n)' # {}
      <3>1. n # m /\ inbox[n].status = "processing"  BY <2>1, <2>5
      <3> QED BY <3>1, <2>1, <2>2, <2>5, HoldersKept DEF Holding
    <2>6. \A v \in Workers : Holding(v)' => Holding(v) /\ sidecar'[v].version = sidecar[v].version
      BY <2>1, <2>4 DEF Holding
    <2>7. \A n \in Msgs, a \in Agents : Unsettled(n, a)' =>
             Unsettled(n, a) /\ inbox'[n].enqueued_at = inbox[n].enqueued_at
      BY <2>1, <2>3 DEF Unsettled
    <2>8. \A n \in Msgs : inbox'[n].enqueued_at = inbox[n].enqueued_at  BY <2>1
    <2> QED BY <2>2, <2>5, <2>6, <2>7, <2>8, <1>c, <1>i, <1>t, OrderKept
  <1>8. ASSUME NEW w \in Workers, Spawn(w)  PROVE OrderInv'
    <2>1. inbox' = inbox /\ clock' = clock /\ faults' = faults
      BY <1>8 DEF Spawn, boundVars
    <2>2. \A v \in Workers : Holding(v) \/ Holding(v)' => sidecar'[v] = sidecar[v]
      BY <1>8, <1>t DEF Spawn, Holding, Idle, NoSidecar
    <2>3. \A n \in Msgs : faults = 0 /\ inbox[n].status = "processing" => Holders(n)' # {}
      BY <2>2, HoldersKept DEF Holding
    <2> QED BY <2>1, <2>2, <2>3, <1>c, <1>i, <1>t, OrderKept DEF Unsettled, Holding
  \* A fault step: nothing is promised any more.
  <1>9. ASSUME faults' = faults + 1, inbox' = inbox, clock' = clock  PROVE OrderInv'
    <2>1. faults' # 0  BY <1>9, <1>t
    <2> QED BY <1>9, <2>1, <1>i DEF OrderInv
  <1>10. ASSUME NEW m \in Msgs, LeaseExpires(m)  PROVE OrderInv'
    <2>1. \A n \in Msgs : /\ inbox'[n].status = inbox[n].status
                          /\ inbox'[n].agent_id = inbox[n].agent_id
                          /\ inbox'[n].enqueued_at = inbox[n].enqueued_at
      BY <1>10, <1>t DEF LeaseExpires, InboxRow
    <2>2. sidecar' = sidecar /\ clock' = clock /\ faults' = faults
      BY <1>10 DEF LeaseExpires, boundVars
    <2>3. \A n \in Msgs : faults = 0 /\ inbox[n].status = "processing" => Holders(n)' # {}
      BY <2>2, HoldersKept DEF Holding
    <2> QED BY <2>1, <2>2, <2>3, <1>c, <1>i, <1>t, OrderKept DEF Unsettled, Holding
  <1>11. ASSUME NEW a \in Agents,
                RespawnBegins(a) \/ RespawnPublishes(a) \/ AgentKill(a) \/ RequestRespawn(a)
         PROVE  OrderInv'
    BY <1>11, <1>1
       DEF RespawnBegins, RespawnPublishes, AgentKill, RequestRespawn, boundVars
  <1>12. ASSUME NEW w \in Workers, SidecarStep(w)  PROVE OrderInv'
    BY <1>12, <1>4, <1>5, <1>6, <1>7, <1>8, <1>9 DEF SidecarStep, SettleLost
  <1>13. CASE \E d \in Daemons : Crash(d)  BY <1>13, <1>9 DEF Crash
  <1>14. CASE \E a \in Agents : PaneDies(a)  BY <1>14, <1>9 DEF PaneDies
  <1> QED BY <1>2, <1>3, <1>10, <1>11, <1>12, <1>13, <1>14 DEF Next

LEMMA TypingIsADrive ==
    ASSUME IInv, [Next]_vars, NEW m \in Msgs, typed'[m].count > typed[m].count
    PROVE  \E w \in Workers : Holding(w) /\ sidecar[w].msg = m
  <1>t. typed \in [Msgs -> [count : Nat, agents : SUBSET Agents]]  BY DEF IInv, TypeOK
  <1>n. typed[m].count \in Nat  BY <1>t
  <1>1. typed'[m] # typed[m]
    <2>1. ~(typed[m].count > typed[m].count)  BY <1>n
    <2> QED BY <2>1
  <1>2. ASSUME NEW k \in Msgs, NEW a \in Agents, Upsert(k, a)  PROVE FALSE
    <2>1. typed'[m] = typed[m] \/ typed'[m].count = 0
      BY <1>2, <1>t DEF Upsert
    <2> QED BY <2>1, <1>1, <1>n
  <1>3. PICK w \in Workers : DriveSucceeds(w) \/ DriveErrs(w)
    BY <1>1, <1>2 DEF Next, vars, SidecarStep, Enqueue, Spawn, Claim, DriveFindsNoWindow,
                      Settle, SettleLost, Crash, LeaseExpires, PaneDies, RespawnBegins,
                      RespawnPublishes, AgentKill, RequestRespawn
  <1> QED BY <1>1, <1>3, DriveEffects

\* With the one daemon of the deployment, drives that end before their lease and
\* nobody repointing a held row, an agent's messages are typed in the order they
\* were queued until the first fault.
THEOREM DeliveryInOrder ==
    ASSUME ~SlowDrives, ~InFlightUpserts, \A d, e \in Daemons : d = e
    PROVE  Spec => InOrderUnlessFaulty
  <1>1. ASSUME OrderInv, [Next]_vars  PROVE [faults = 0 => InOrder]_vars
    <2> SUFFICES ASSUME faults = 0, NEW m \in Msgs, typed'[m].count > typed[m].count,
                        NEW n \in Msgs, inbox[n].agent_id = inbox[m].agent_id,
                        inbox[n].status \in {"pending", "processing"}
                 PROVE  inbox[n].enqueued_at >= inbox[m].enqueued_at
      BY DEF InOrder
    <2>1. PICK w \in Workers : Holding(w) /\ sidecar[w].msg = m
      BY <1>1, TypingIsADrive DEF OrderInv
    <2>2. inbox[m].agent_id = w[2] /\ inbox[m].enqueued_at = sidecar[w].version
      BY <2>1, <1>1 DEF OrderInv, IInv, HoldsRow
    <2> QED BY <2>1, <2>2, <1>1 DEF OrderInv, Unsettled
  <1>2. OrderInv /\ [Next]_vars => OrderInv'  BY OrderNext
  <1>3. OrderInv /\ [Next]_vars => [faults = 0 => InOrder]_vars  BY <1>1
  <1> QED BY OrderInit, <1>2, <1>3, PTL DEF Spec, InOrderUnlessFaulty
=============================================================================
