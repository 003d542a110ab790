------------------------------- MODULE Sidecar -------------------------------
(***************************************************************************)
(* Inbound delivery: the per-agent sidecars of internal/sidecar claim      *)
(* agent_inbox rows and type them into the agent's tmux pane, while the    *)
(* manager starts sidecars, the pane reconciler of cmd/maquinista respawns *)
(* lost panes, and operators kill and respawn agents.                      *)
(*                                                                         *)
(* A sidecar handles one row in three committed steps - claim, drive,      *)
(* ack or fail - and may stop between any two of them.  The lease is the   *)
(* only thing that brings an abandoned row back.                           *)
(***************************************************************************)
EXTENDS Mailbox

CONSTANTS Daemons,          \* processes running a sidecar manager (one in production)
          SlowDrives,       \* may a drive outlive its own lease?
          InFlightUpserts,  \* may a row be repointed while a sidecar drives it?
          MaxUpserts,       \* bound on UpsertInbox calls
          MaxFaults         \* bound on crashes, lost commits, tmux errors, lost panes

ASSUME SidecarAssumption ==
    /\ Workers = Daemons \X Agents
    /\ SlowDrives \in BOOLEAN /\ InFlightUpserts \in BOOLEAN
    /\ MaxUpserts \in Nat /\ MaxFaults \in Nat

VARIABLES
    inbox,       \* the agent_inbox table
    sidecar,     \* [Workers -> what the sidecar goroutine is doing]
    agents,      \* the columns of the agents table the sidecars read and write
    pane,        \* does the recorded tmux window exist?
    respawning,  \* agents reconcileAgentPanes listed and has not published yet
    killed,      \* history: the operator's last word on the agent was kill
    typed,       \* history: how often the current payload of a row was typed, and to whom
    clock,       \* source of enqueued_at
    upserts, faults  \* how much of the bounds is used

vars == <<inbox, sidecar, agents, pane, respawning, killed, typed, clock,
          upserts, faults>>
agentVars == <<agents, pane, respawning, killed>>
boundVars == <<clock, upserts, faults>>

AgentRow == [status : {"running", "stopped"},
             stop_requested : BOOLEAN,
             tmux_window : BOOLEAN]          \* tmux_window <> ''

\* pc "none": no goroutine; "driving": row claimed and committed; "drove" and
\* "failed": Drive has returned, the ack or fail transaction has not run yet.
Idle == [pc |-> "idle", msg |-> Nobody, version |-> 0]
NoSidecar == [pc |-> "none", msg |-> Nobody, version |-> 0]
SidecarState == {Idle, NoSidecar} \cup
    [pc : {"driving", "drove", "failed"}, msg : Msgs, version : Nat]

Holding(w) == sidecar[w].pc \in {"driving", "drove", "failed"}
Holders(m) == {w \in Workers : Holding(w) /\ sidecar[w].msg = m}

Init ==
    /\ inbox = [m \in Msgs |-> AbsentRow]
    /\ sidecar = [w \in Workers |-> NoSidecar]
    /\ agents = [a \in Agents |-> [status |-> "running", stop_requested |-> FALSE,
                                   tmux_window |-> TRUE]]
    /\ pane = [a \in Agents |-> TRUE]
    /\ respawning = {}
    /\ killed = {}
    /\ typed = [m \in Msgs |-> [count |-> 0, agents |-> {}]]
    /\ clock = 1
    /\ upserts = 0
    /\ faults = 0

-----------------------------------------------------------------------------
(* Producers: every component that sends to an agent.                      *)

Enqueue(m, a) ==
    /\ inbox[m].status = "absent"
    /\ inbox' = EnqueueInbox(inbox, m, a, clock)
    /\ clock' = clock + 1
    /\ UNCHANGED <<sidecar, agentVars, typed, upserts, faults>>

Upsert(m, a) ==
    /\ upserts < MaxUpserts
    /\ InFlightUpserts \/ Holders(m) = {}
    /\ inbox' = UpsertInbox(inbox, m, a, clock)
    /\ typed' = [typed EXCEPT ![m] = [count |-> 0, agents |-> {}]]
    /\ clock' = clock + 1
    /\ upserts' = upserts + 1
    /\ UNCHANGED <<sidecar, agentVars, faults>>

-----------------------------------------------------------------------------
(* The manager and the sidecar goroutine of agent w[2] in daemon w[1].     *)

\* Manager.Sync starts a sidecar for every live agent that has none.
Spawn(w) ==
    /\ sidecar[w] = NoSidecar
    /\ agents[w[2]].status = "running"
    /\ agents[w[2]].tmux_window
    /\ ~agents[w[2]].stop_requested
    /\ sidecar' = [sidecar EXCEPT ![w] = Idle]
    /\ UNCHANGED <<inbox, agentVars, typed, boundVars>>

\* First transaction of processOneInbox.
Claim(w) ==
    /\ sidecar[w] = Idle
    /\ \E m \in OldestClaimable(inbox, w[2]) :
           /\ inbox' = ClaimInbox(inbox, m, w)
           /\ sidecar' = [sidecar EXCEPT ![w] =
                  [pc |-> "driving", msg |-> m, version |-> inbox[m].enqueued_at]]
    /\ UNCHANGED <<agentVars, typed, boundVars>>

\* The text reached the agent's prompt; a text whose row was rewritten since
\* the claim is an old payload and does not count for the new one.
Typed(w) ==
    LET m == sidecar[w].msg IN
    IF inbox[m].enqueued_at = sidecar[w].version
    THEN [typed EXCEPT ![m] = [count |-> typed[m].count + 1,
                               agents |-> typed[m].agents \cup {w[2]}]]
    ELSE typed

DriveSucceeds(w) ==
    /\ sidecar[w].pc = "driving"
    /\ agents[w[2]].tmux_window /\ pane[w[2]]
    /\ typed' = Typed(w)
    /\ sidecar' = [sidecar EXCEPT ![w].pc = "drove"]
    /\ UNCHANGED <<inbox, agentVars, boundVars>>

\* send-keys types the text and then, after a delay, the Enter key: an error of
\* the second call comes after the text is already in the pane.
DriveErrs(w) ==
    /\ sidecar[w].pc = "driving"
    /\ faults < MaxFaults
    /\ agents[w[2]].tmux_window /\ pane[w[2]]
    /\ typed' \in {typed, Typed(w)}
    /\ sidecar' = [sidecar EXCEPT ![w].pc = "failed"]
    /\ faults' = faults + 1
    /\ UNCHANGED <<inbox, agentVars, clock, upserts>>

\* No window recorded, or tmux cannot find it: the latter marks the agent.
DriveFindsNoWindow(w) ==
    /\ sidecar[w].pc = "driving"
    /\ ~(agents[w[2]].tmux_window /\ pane[w[2]])
    /\ agents' = IF agents[w[2]].tmux_window
                 THEN [agents EXCEPT ![w[2]].status = "stopped",
                                     ![w[2]].stop_requested = TRUE]
                 ELSE agents
    /\ sidecar' = [sidecar EXCEPT ![w].pc = "failed"]
    /\ UNCHANGED <<inbox, pane, respawning, killed, typed, boundVars>>

SlipAckAlways(w) ==
    /\ sidecar[w].pc \in {"drove", "failed"}
    /\ inbox' = AckInbox(inbox, sidecar[w].msg)
    /\ sidecar' = [sidecar EXCEPT ![w] = Idle]
    /\ UNCHANGED <<agentVars, typed, boundVars>>
SlipMsgKept(w) ==
    /\ sidecar[w].pc \in {"drove", "failed"}
    /\ inbox' = IF sidecar[w].pc = "drove"
                THEN AckInbox(inbox, sidecar[w].msg)
                ELSE FailInbox(inbox, sidecar[w].msg)
    /\ sidecar' = [sidecar EXCEPT ![w].pc = "idle"]
    /\ UNCHANGED <<agentVars, typed, boundVars>>
\* Second transaction of processOneInbox.  An ack that matches no row is logged.
Settle(w) ==
    /\ sidecar[w].pc \in {"drove", "failed"}
    /\ inbox' = IF sidecar[w].pc = "drove"
                THEN AckInbox(inbox, sidecar[w].msg)
                ELSE FailInbox(inbox, sidecar[w].msg)
    /\ sidecar' = [sidecar EXCEPT ![w] = Idle]
    /\ UNCHANGED <<agentVars, typed, boundVars>>

\* The second transaction cannot begin or commit: the row stays 'processing'.
SettleLost(w) ==
    /\ sidecar[w].pc \in {"drove", "failed"}
    /\ faults < MaxFaults
    /\ sidecar' = [sidecar EXCEPT ![w] = Idle]
    /\ faults' = faults + 1
    /\ UNCHANGED <<inbox, agentVars, typed, clock, upserts>>

\* The daemon stops; its sidecars stop wherever they are.
Crash(d) ==
    /\ faults < MaxFaults
    /\ \E a \in Agents : sidecar[<<d, a>>] # NoSidecar
    /\ sidecar' = [w \in Workers |-> IF w[1] = d THEN NoSidecar ELSE sidecar[w]]
    /\ faults' = faults + 1
    /\ UNCHANGED <<inbox, agentVars, typed, clock, upserts>>

-----------------------------------------------------------------------------
(* Time, panes and operators.                                              *)

\* lease_expires < NOW().
LeaseExpires(m) ==
    /\ inbox[m].status = "processing" /\ inbox[m].lease = "live"
    /\ SlowDrives \/ Holders(m) = {}
    /\ inbox' = [inbox EXCEPT ![m].lease = "expired"]
    /\ UNCHANGED <<sidecar, agentVars, typed, boundVars>>

PaneDies(a) ==
    /\ pane[a]
    /\ faults < MaxFaults
    /\ pane' = [pane EXCEPT ![a] = FALSE]
    /\ faults' = faults + 1
    /\ UNCHANGED <<inbox, sidecar, agents, respawning, killed, typed, clock, upserts>>

\* reconcileAgentPanes lists an agent whose pane is absent ...
RespawnBegins(a) ==
    /\ a \notin respawning
    /\ ~agents[a].stop_requested
    /\ ~(agents[a].tmux_window /\ pane[a])
    /\ respawning' = respawning \cup {a}
    /\ UNCHANGED <<inbox, sidecar, agents, pane, killed, typed, boundVars>>

\* ... and, up to 15 s later, publishes the window it opened for it.
RespawnPublishes(a) ==
    /\ a \in respawning
    /\ agents' = [agents EXCEPT ![a].status = "running", ![a].tmux_window = TRUE]
    /\ pane' = [pane EXCEPT ![a] = TRUE]
    /\ respawning' = respawning \ {a}
    /\ UNCHANGED <<inbox, sidecar, killed, typed, boundVars>>

AgentKill(a) ==
    /\ a \notin killed
    /\ agents' = [agents EXCEPT ![a].stop_requested = TRUE]
    /\ killed' = killed \cup {a}
    /\ UNCHANGED <<inbox, sidecar, pane, respawning, typed, boundVars>>

\* Of any agent; of one with nothing to clear it changes nothing.
RequestRespawn(a) ==
    /\ agents[a].stop_requested \/ agents[a].tmux_window
    /\ agents' = [agents EXCEPT ![a].stop_requested = FALSE, ![a].tmux_window = FALSE]
    /\ killed' = killed \ {a}
    /\ UNCHANGED <<inbox, sidecar, pane, respawning, typed, boundVars>>

-----------------------------------------------------------------------------
SidecarStep(w) ==
    \/ Spawn(w) \/ Claim(w) \/ DriveSucceeds(w) \/ DriveErrs(w)
    \/ DriveFindsNoWindow(w) \/ Settle(w) \/ SettleLost(w)

Next ==
    \/ \E m \in Msgs, a \in Agents : Enqueue(m, a) \/ Upsert(m, a)
    \/ \E w \in Workers : SidecarStep(w)
    \/ \E d \in Daemons : Crash(d)
    \/ \E m \in Msgs : LeaseExpires(m)
    \/ \E a \in Agents : PaneDies(a) \/ RespawnBegins(a) \/ RespawnPublishes(a)
                         \/ AgentKill(a) \/ RequestRespawn(a)

\* The goroutines are always scheduled again (the LISTEN wait is bounded by a
\* 10 s poll, Sync and the pane reconciler tick every 5 s) and leases run out.
\* Producers, faults and operators owe nothing; an operator who keeps asking for
\* respawns is not in step with Sync for ever (SF).
Fairness ==
    /\ \A w \in Workers :
           /\ SF_vars(Spawn(w)) /\ WF_vars(Claim(w)) /\ WF_vars(Settle(w))
           /\ WF_vars(DriveSucceeds(w) \/ DriveErrs(w) \/ DriveFindsNoWindow(w))
    /\ \A m \in Msgs : WF_vars(LeaseExpires(m))
    /\ \A a \in Agents : WF_vars(RespawnBegins(a)) /\ WF_vars(RespawnPublishes(a))

Spec == Init /\ [][Next]_vars
FairSpec == Spec /\ Fairness

-----------------------------------------------------------------------------
\* Every table, sidecar and history variable keeps the shape the code gives it.
TypeOK ==
    /\ inbox \in [Msgs -> InboxRow]
    /\ sidecar \in [Workers -> SidecarState]
    /\ agents \in [Agents -> AgentRow]
    /\ pane \in [Agents -> BOOLEAN]
    /\ respawning \in SUBSET Agents
    /\ killed \in SUBSET Agents
    /\ typed \in [Msgs -> [count : Nat, agents : SUBSET Agents]]
    /\ clock \in Nat /\ upserts \in Nat /\ faults \in Nat

\* Two sidecars never work on the same row at once: between a claim and its ack
\* or fail nobody else claims the row.  (FOR UPDATE SKIP LOCKED only protects the
\* claim statement; afterwards it is the status and the lease.)
OneHolder == \A m \in Msgs : \A v, w \in Holders(m) : v = w

\* A row is acked only after its current payload was typed into the pane of the
\* agent it is addressed to: nothing is lost by marking it processed.
AckedWasTyped ==
    \A m \in Msgs : inbox[m].status = "processed" =>
                        inbox[m].agent_id \in typed[m].agents

\* Each delivery beyond the first is paid for by a fault: without crashes, lost
\* commits or tmux errors a payload is typed exactly once.
DuplicatesNeedFaults == \A m \in Msgs : typed[m].count <= 1 + faults

\* A row is dead-lettered only once it used up its attempts.
DeadSpentItsBudget ==
    \A m \in Msgs : inbox[m].status = "dead" => inbox[m].attempts >= MaxAttempts

\* Per-agent in-order delivery, as long as nothing went wrong: a payload is
\* never typed while an older row of the same agent is still unsettled.
InOrder ==
    \A m \in Msgs : typed'[m].count > typed[m].count =>
        \A n \in Msgs : (/\ inbox[n].agent_id = inbox[m].agent_id
                         /\ inbox[n].status \in {"pending", "processing"})
                        => inbox[n].enqueued_at >= inbox[m].enqueued_at
InOrderUnlessFaulty == [][faults = 0 => InOrder]_vars

\* Every message queued for an agent is settled in the end, unless it is
\* repointed to another agent or its own is stopped.
Queued(m, a) == inbox[m].agent_id = a /\ inbox[m].status \in {"pending", "processing"}
EventuallySettled ==
    \A m \in Msgs, a \in Agents :
        Queued(m, a) ~> (~Queued(m, a) \/ agents[a].stop_requested)

(* The abstract view: what a producer can tell about its message.           *)
Stage(m) ==
    IF inbox[m].status \in {"absent", "dead"} THEN inbox[m].status
    ELSE IF inbox[m].status = "processed" THEN "done"
    ELSE IF typed[m].count = 0 THEN "queued" ELSE "handed"

D == INSTANCE Delivery WITH stage <- [m \in Msgs |-> Stage(m)]

\* The sidecars implement at-least-once delivery: a row is never confirmed
\* unhanded, and a settled row never comes back by itself.
AtLeastOnce == D!Spec

=============================================================================
