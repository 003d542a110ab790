-------------------------------- MODULE Topics --------------------------------
(***************************************************************************)
(* Telegram topics, the agents that own them and the tmux windows these    *)
(* run in: the routing ladder (internal/routing, internal/bot), the spawn  *)
(* of a topic's agent (spawn_topic_agent.go), the reconciler that brings   *)
(* panes back (reconcile_agents.go), the topic provisioner, the status     *)
(* poller, and the boot sweep of window bindings (internal/agent).         *)
(* One user writes; the agent t-<chat>-<thread> of a topic is named by the *)
(* thread.  Window ids count from one again when the tmux server restarts. *)
(***************************************************************************)
EXTENDS Naturals, FiniteSets

CONSTANTS Threads,      \* forum topics; the first ones the user's, the rest to be created
          UserThreads,
          Guests,       \* agents made on the dashboard: rows that are stopped, without a window
          SessionCap,   \* MaxAgentsPerUser
          MaxWindows,   \* bound on windows of one tmux server
          TopicTrouble  \* bound on failures, deaths and what people do beside writing

ASSUME TopicAssumption ==
    /\ UserThreads \subseteq Threads /\ Threads \cap Guests = {}
    /\ SessionCap \in Nat /\ MaxWindows \in Nat /\ TopicTrouble \in Nat

TopicAgents == Threads \cup Guests
Nobody == "nobody"
NoWindow == 0

VARIABLES
    rowOf,      \* agents: [status, stop (stop_requested), window, fresh (a spawning row's last_seen)]
    pane,       \* tmux: the agent a window is named for
    lastWindow,
    owner,      \* topic_agent_bindings of type owner
    chatKnown,  \* those with a chat_id
    topic,      \* Telegram: "unused", "open" or "closed"
    handler,    \* the bot handles one update at a time
    recon,      \* the reconciler: its list, and the window it has opened
    prov,       \* the provisioner
    running,    \* the daemon
    torn,       \* the tmux server has died under a running daemon
    troubled

topicVars == <<rowOf, pane, lastWindow, owner, chatKnown, topic, handler, recon, prov, running, torn, troubled>>
tables == <<rowOf, owner, chatKnown>>
tmux == <<pane, lastWindow>>
bindings == <<owner, chatKnown>>
process == <<running, torn>>

IdleHandler == [at |-> "idle", thread |-> Nobody, window |-> NoWindow]
IdleRecon == [todo |-> {}, at |-> Nobody, window |-> NoWindow]
IdleProv == [at |-> "idle", agent |-> Nobody, thread |-> Nobody]
NoRowYet == [status |-> "none", stop |-> FALSE, window |-> NoWindow, fresh |-> FALSE]
NoPanes == [w \in 1..MaxWindows |-> Nobody]

TopicInit ==
    /\ \E made \in SUBSET Guests :
          rowOf = [a \in TopicAgents |-> IF a \in made THEN [NoRowYet EXCEPT !.status = "stopped"] ELSE NoRowYet]
    /\ pane = NoPanes /\ lastWindow = 0
    /\ owner = [t \in Threads |-> Nobody] /\ chatKnown = {}
    /\ topic = [t \in Threads |-> IF t \in UserThreads THEN "open" ELSE "unused"]
    /\ handler = IdleHandler /\ recon = IdleRecon /\ prov = IdleProv
    /\ running = TRUE /\ torn = FALSE /\ troubled = 0

Troubled == troubled < TopicTrouble /\ troubled' = troubled + 1
TmuxWindowExists(w) == w # NoWindow /\ pane[w] # Nobody
NewWindow(a) ==
    /\ lastWindow < MaxWindows /\ lastWindow' = lastWindow + 1
    /\ pane' = [pane EXCEPT ![lastWindow + 1] = a]
Known(a) == rowOf[a].status # "none"
Owned(a) == {t \in Threads : owner[t] = a}

-----------------------------------------------------------------------------
(* A text message                                                            *)

\* Looks the agent up by the window and upserts the owner; only a new row is
\* left without chat_id.
BindThread(t, w, bound, chats) ==
    \E b \in TopicAgents :
        /\ rowOf[b].window = w
        /\ owner' = [bound EXCEPT ![t] = b]
        /\ chatKnown' = IF bound[t] = Nobody THEN chats \ {t} ELSE chats

GetWindowForThread(t) == IF owner[t] = Nobody THEN NoWindow ELSE rowOf[owner[t]].window

SyncAgentState(t, a, bound, chats) ==
    IF rowOf[a].window = NoWindow THEN owner' = bound /\ chatKnown' = chats
    ELSE BindThread(t, rowOf[a].window, bound, chats)

Writes(t) == running /\ handler = IdleHandler /\ topic[t] = "open"

Mention(t, a) ==
    /\ Writes(t) /\ Known(a)
    /\ SyncAgentState(t, a, owner, chatKnown)
    /\ UNCHANGED <<rowOf, tmux, topic, handler, recon, prov, process, troubled>>

ToOwner(t) ==
    /\ Writes(t) /\ owner[t] # Nobody
    /\ SyncAgentState(t, owner[t], owner, chatKnown)
    /\ UNCHANGED <<rowOf, tmux, topic, handler, recon, prov, process, troubled>>

At(t, step) == handler.at = step /\ handler.thread = t
Goes(step) == handler' = [handler EXCEPT !.at = step]

\* No owner: reuse the topic's agent if it is live or being spawned, or
\* mark it stopped on the way to a new pane.
TopicSpawn(t) ==
    /\ Writes(t) /\ owner[t] = Nobody
    /\ LET reuse == \/ rowOf[t].status = "running" /\ TmuxWindowExists(rowOf[t].window)
                    \/ rowOf[t].status = "spawning"
       IN /\ handler' = [IdleHandler EXCEPT !.at = IF reuse THEN "bind" ELSE "cap", !.thread = t]
          /\ rowOf' = IF reuse \/ ~Known(t) THEN rowOf
                      ELSE [rowOf EXCEPT ![t].status = "stopped", ![t].stop = TRUE, ![t].fresh = FALSE]
    /\ UNCHANGED <<tmux, bindings, topic, recon, prov, process, troubled>>

LiveAgents == {a \in TopicAgents : Owned(a) # {} /\ rowOf[a].status \in {"running", "spawning"}}

\* The cap, then the row that says the agent is being spawned.
PreRegister(t) ==
    /\ At(t, "cap")
    /\ IF SessionCap > 0 /\ Cardinality(LiveAgents \ {t}) >= SessionCap
       THEN handler' = IdleHandler /\ UNCHANGED rowOf
       ELSE /\ rowOf' = [rowOf EXCEPT ![t] = [status |-> "spawning", stop |-> FALSE, window |-> @.window, fresh |-> TRUE]]
            /\ Goes("prebind")
    /\ UNCHANGED <<tmux, bindings, topic, recon, prov, process, troubled>>

BindIfFree(t, a) ==
    /\ owner' = IF owner[t] = Nobody THEN [owner EXCEPT ![t] = a] ELSE owner
    /\ chatKnown' = IF owner[t] = Nobody THEN chatKnown \cup {t} ELSE chatKnown

PreBind(t) ==
    /\ At(t, "prebind") /\ BindIfFree(t, t) /\ Goes("window")
    /\ UNCHANGED <<rowOf, tmux, topic, recon, prov, process, troubled>>

OpenTopicWindow(t) ==
    /\ At(t, "window")
    /\ \/ NewWindow(t) /\ handler' = [handler EXCEPT !.at = "publish", !.window = lastWindow'] /\ UNCHANGED troubled
       \/ Troubled /\ handler' = IdleHandler /\ UNCHANGED tmux     \* the row stays 'spawning'
    /\ UNCHANGED <<tables, topic, recon, prov, process>>

\* The UPDATE asks for nothing but the id; it may come after the handler's
\* thirty seconds.
PublishTopicWindow(t) ==
    /\ At(t, "publish")
    /\ \/ /\ rowOf' = [rowOf EXCEPT ![t].status = "running", ![t].window = handler.window, ![t].fresh = FALSE]
          /\ Goes("bind") /\ UNCHANGED troubled
       \/ Troubled /\ handler' = IdleHandler /\ UNCHANGED rowOf
    /\ UNCHANGED <<tmux, bindings, topic, recon, prov, process>>

WriteOwnerBinding(t) ==
    LET won == owner[t] = Nobody
        resolved == IF won THEN t ELSE owner[t]
    IN /\ At(t, "bind")
       /\ SyncAgentState(t, resolved, [owner EXCEPT ![t] = resolved], IF won THEN chatKnown \cup {t} ELSE chatKnown)
       /\ handler' = IdleHandler
       /\ UNCHANGED <<rowOf, tmux, topic, recon, prov, process, troubled>>

-----------------------------------------------------------------------------
(* The reconciler: a list read once, then one agent after the other          *)

SlipFreshSpawns(a) == ~rowOf[a].stop /\ rowOf[a].status \in {"running", "stopped"}
Listed(a) ==
    /\ ~rowOf[a].stop
    /\ \/ rowOf[a].status \in {"running", "stopped"}
       \/ rowOf[a].status = "spawning" /\ ~rowOf[a].fresh

\* Of the list those whose window is there already are left out: the pass
\* skips them, and one that dies meanwhile is on the next list.
ReconcileAgentPanes ==
    /\ running /\ recon = IdleRecon
    /\ LET todo == {<<a, rowOf[a].window>> : a \in {b \in TopicAgents : Listed(b) /\ ~TmuxWindowExists(rowOf[b].window)}}
       IN todo # {} /\ recon' = [recon EXCEPT !.todo = todo]
    /\ UNCHANGED <<tables, tmux, topic, handler, prov, process, troubled>>

RespawnAgent ==
    /\ recon.at = Nobody
    /\ \E entry \in recon.todo :
        LET rest == [recon EXCEPT !.todo = @ \ {entry}] IN
        IF TmuxWindowExists(entry[2]) THEN recon' = rest /\ UNCHANGED <<tmux, troubled>>
        ELSE \/ NewWindow(entry[1]) /\ UNCHANGED troubled
                /\ recon' = [rest EXCEPT !.at = entry[1], !.window = lastWindow']
             \/ Troubled /\ recon' = rest /\ UNCHANGED tmux
    /\ UNCHANGED <<tables, topic, handler, prov, process>>

RespawnIsPublished ==
    /\ recon.at # Nobody
    /\ rowOf' = [rowOf EXCEPT ![recon.at].status = "running", ![recon.at].window = recon.window, ![recon.at].fresh = FALSE]
    /\ recon' = [recon EXCEPT !.at = Nobody, !.window = NoWindow]
    /\ UNCHANGED <<bindings, tmux, topic, handler, prov, process, troubled>>

\* The handler is done in 30 s; a row it has left behind is stale after 60.
SpawningGoesStale(a) ==
    /\ rowOf[a].status = "spawning" /\ rowOf[a].fresh /\ handler.thread # a
    /\ rowOf' = [rowOf EXCEPT ![a].fresh = FALSE]
    /\ UNCHANGED <<bindings, tmux, topic, handler, recon, prov, process, troubled>>

-----------------------------------------------------------------------------
(* The topic provisioner and the status poller                               *)

ProvisionMissingTopics ==
    /\ running /\ prov.at = "idle" /\ \E t \in Threads : topic[t] = "unused"
    /\ \E a \in TopicAgents :
        /\ rowOf[a].status \notin {"none", "archived"} /\ ~rowOf[a].stop /\ Owned(a) = {}
        /\ prov' = [at |-> "create", agent |-> a, thread |-> Nobody]
    /\ UNCHANGED <<tables, tmux, topic, handler, recon, process, troubled>>

CreateForumTopic ==
    /\ prov.at = "create"
    /\ \/ \E t \in Threads :
            /\ topic[t] = "unused" /\ topic' = [topic EXCEPT ![t] = "open"]
            /\ prov' = [prov EXCEPT !.at = "bind", !.thread = t] /\ UNCHANGED troubled
       \/ Troubled /\ prov' = IdleProv /\ UNCHANGED topic
    /\ UNCHANGED <<tables, tmux, handler, recon, process>>

BindProvisioned ==
    /\ prov.at = "bind" /\ BindIfFree(prov.thread, prov.agent) /\ prov' = IdleProv
    /\ UNCHANGED <<rowOf, tmux, topic, handler, recon, process, troubled>>

SlipDeadOnly(t) == FALSE
Orphaned(t) == t \in chatKnown /\ owner[t] # Nobody /\ rowOf[owner[t]].status = "archived"

CloseOrphanedTopics ==
    /\ running /\ prov.at = "idle"
    /\ \E t \in Threads : Orphaned(t) /\ prov' = [at |-> "close", agent |-> owner[t], thread |-> t]
    /\ UNCHANGED <<tables, tmux, topic, handler, recon, process, troubled>>

Unbinds(a) ==
    /\ owner' = [t \in Threads |-> IF owner[t] = a THEN Nobody ELSE owner[t]]
    /\ chatKnown' = chatKnown \ Owned(a)

CloseForumTopic ==
    /\ prov.at = "close" /\ topic' = [topic EXCEPT ![prov.thread] = "closed"]
    /\ Unbinds(prov.agent) /\ prov' = IdleProv
    /\ UNCHANGED <<rowOf, tmux, handler, recon, process, troubled>>

Stops(w) == [a \in TopicAgents |-> IF Known(a) /\ rowOf[a].window = w THEN [rowOf[a] EXCEPT !.status = "stopped", !.fresh = FALSE] ELSE rowOf[a]]

\* The poller looks at the windows of live rows and at those the process has
\* bound since it started, whatever has become of their rows.
CleanupDeadWindow ==
    /\ running
    /\ \E w \in 1..MaxWindows : /\ pane[w] = Nobody /\ \E a \in TopicAgents : rowOf[a].window = w
                                /\ rowOf' = Stops(w)
    /\ UNCHANGED <<bindings, tmux, topic, handler, recon, prov, process, troubled>>

-----------------------------------------------------------------------------
(* What people do                                                            *)

\* The user closes a topic: the window of a user the process remembers is
\* killed and its row stopped, then the agents bound to the topic are archived.
HandleTopicClose(t) ==
    /\ Writes(t) /\ Troubled /\ topic' = [topic EXCEPT ![t] = "closed"]
    /\ LET w == GetWindowForThread(t) IN
       \/ w # NoWindow /\ pane' = [pane EXCEPT ![w] = Nobody] /\ rowOf' = Stops(w)
       \/ UNCHANGED <<pane, rowOf>>
    /\ handler' = [IdleHandler EXCEPT !.at = "archive", !.thread = t]
    /\ UNCHANGED <<lastWindow, bindings, recon, prov, process>>

Archived(a) == [rowOf EXCEPT ![a].status = "archived", ![a].stop = TRUE, ![a].fresh = FALSE]

ArchiveBound ==
    /\ handler.at = "archive" /\ handler' = IdleHandler
    /\ IF owner[handler.thread] = Nobody THEN UNCHANGED tables
       ELSE rowOf' = Archived(owner[handler.thread]) /\ Unbinds(owner[handler.thread])
    /\ UNCHANGED <<tmux, topic, recon, prov, process, troubled>>

AgentArchive(a) ==
    /\ Known(a) /\ Troubled /\ rowOf' = Archived(a)
    /\ UNCHANGED <<bindings, tmux, topic, handler, recon, prov, process>>

AgentCommand(a) ==   \* kill and respawn
    /\ Known(a) /\ Troubled
    /\ rowOf' \in {[rowOf EXCEPT ![a].stop = TRUE], [rowOf EXCEPT ![a].stop = FALSE, ![a].window = NoWindow]}
    /\ UNCHANGED <<bindings, tmux, topic, handler, recon, prov, process>>

SetUserDefault(t, a) ==
    /\ Writes(t) /\ Known(a) /\ Troubled
    /\ owner' = [owner EXCEPT ![t] = a] /\ chatKnown' = chatKnown \cup {t}
    /\ UNCHANGED <<rowOf, tmux, topic, handler, recon, prov, process>>

-----------------------------------------------------------------------------
(* The daemon and the tmux server                                            *)

\* The runner's SessionStart hook, at its start and at every /clear: AGENT_ID of
\* the pane names a row that is live again, whatever it was.
SessionStartHook ==
    /\ \E w \in 1..lastWindow :
        /\ pane[w] # Nobody
        /\ rowOf' = [rowOf EXCEPT ![pane[w]] = [status |-> "running", stop |-> FALSE, window |-> w, fresh |-> FALSE]]
    /\ UNCHANGED <<bindings, tmux, topic, handler, recon, prov, process, troubled>>

WindowCloses ==
    /\ Troubled /\ \E w \in 1..lastWindow : pane[w] # Nobody /\ pane' = [pane EXCEPT ![w] = Nobody]
    /\ UNCHANGED <<tables, lastWindow, topic, handler, recon, prov, process>>

Down == running' = FALSE /\ handler' = IdleHandler /\ recon' = IdleRecon /\ prov' = IdleProv

DaemonCrash ==   \* alone or with the machine
    /\ running /\ Troubled /\ Down
    /\ \/ UNCHANGED tmux
       \/ pane' = NoPanes /\ lastWindow' = 0
    /\ UNCHANGED <<tables, topic, torn>>

TmuxServerDies ==
    /\ lastWindow > 0 /\ Troubled /\ pane' = NoPanes /\ lastWindow' = 0 /\ torn' = (torn \/ running)
    /\ UNCHANGED <<tables, topic, handler, recon, prov, running>>

\* `maquinista stop`: the session is killed and KillAll parks every row.
KillAllAgents ==
    /\ running /\ Troubled /\ Down /\ pane' = NoPanes /\ lastWindow' = 0
    /\ rowOf' = [a \in TopicAgents |-> IF Known(a) THEN [status |-> "stopped", stop |-> FALSE, window |-> NoWindow, fresh |-> FALSE]
                                       ELSE rowOf[a]]
    /\ UNCHANGED <<bindings, topic, torn>>

SlipNoSession(a) == pane = NoPanes \/ (TmuxWindowExists(rowOf[a].window) /\ pane[rowOf[a].window] = a)   \* nothing swept without a session
Healthy(a) == TmuxWindowExists(rowOf[a].window) /\ pane[rowOf[a].window] = a

\* ReconcileState, the first thing at boot: no window is bound in memory yet;
\* what names a window that a live row has and tmux has not is marked stopped.
StaleWindows == {rowOf[a].window : a \in {b \in TopicAgents : rowOf[b].status = "running" /\ ~TmuxWindowExists(rowOf[b].window)}}

ReconcileState == [a \in TopicAgents |->
    IF Known(a) /\ rowOf[a].window \in StaleWindows \ {NoWindow}
    THEN [rowOf[a] EXCEPT !.status = "stopped", !.fresh = FALSE] ELSE rowOf[a]]

\* Boot: ReconcileState, which a failing list of windows skips, and then
\* SweepStaleWindowBindings, before anything opens a window.
SweepStaleWindowBindings ==
    /\ ~running /\ running' = TRUE /\ torn' = FALSE
    /\ \E rows \in {rowOf, ReconcileState} :
          rowOf' = [a \in TopicAgents |-> IF Healthy(a) THEN rows[a] ELSE [rows[a] EXCEPT !.window = NoWindow]]
    /\ UNCHANGED <<bindings, tmux, topic, handler, recon, prov, troubled>>

HandlerStep(t) ==
    PreRegister(t) \/ PreBind(t) \/ OpenTopicWindow(t) \/ PublishTopicWindow(t) \/ WriteOwnerBinding(t)
Handles == ArchiveBound \/ \E t \in Threads : HandlerStep(t)
Reconciles == ReconcileAgentPanes \/ RespawnAgent \/ RespawnIsPublished
Provisions == CreateForumTopic \/ BindProvisioned \/ CloseForumTopic

TopicNext ==
    \/ \E t \in Threads : \/ ToOwner(t) \/ TopicSpawn(t) \/ HandleTopicClose(t)
                          \/ \E a \in TopicAgents : Mention(t, a) \/ SetUserDefault(t, a)
    \/ \E a \in TopicAgents : SpawningGoesStale(a) \/ AgentArchive(a) \/ AgentCommand(a)
    \/ Handles \/ Reconciles \/ Provisions \/ ProvisionMissingTopics \/ CloseOrphanedTopics
    \/ CleanupDeadWindow \/ SessionStartHook \/ WindowCloses
    \/ DaemonCrash \/ TmuxServerDies \/ KillAllAgents \/ SweepStaleWindowBindings

\* The daemon is started again, time passes, the reconciler ticks every 5 s and
\* the provisioner every 15; a tick of the latter does all its three passes.
TopicFairness ==
    /\ WF_topicVars(SweepStaleWindowBindings) /\ WF_topicVars(Handles)
    /\ WF_topicVars(Reconciles) /\ WF_topicVars(Provisions) /\ SF_topicVars(CloseOrphanedTopics)
    /\ \A a \in TopicAgents : WF_topicVars(SpawningGoesStale(a))

TopicSpec == TopicInit /\ [][TopicNext]_topicVars
TopicFairSpec == TopicSpec /\ TopicFairness

-----------------------------------------------------------------------------
\* After the sweep of a boot, and until the tmux server dies under the daemon,
\* no two rows claim one window: replies and liveness are attributed by window.
WindowsApart ==
    (running /\ ~torn) =>
        \A a, b \in TopicAgents : (a # b /\ rowOf[a].window # NoWindow) => rowOf[a].window # rowOf[b].window

Unstopped(a) == rowOf[a].status \notin {"none", "archived"} /\ ~rowOf[a].stop

\* Whatever a crash, a failed window or a spawn that got no further has left of
\* it, an agent that nobody stops gets a pane of its own again, each time.
AgentsComeUp ==
    \A a \in TopicAgents : []<>(~Unstopped(a) \/ torn \/ Healthy(a))

\* The topic of an archived agent does not stay bound to it: it is closed and
\* given free, or the agent comes back.
OrphansAreFreed ==
    \A t \in Threads : []<>~(t \in chatKnown /\ owner[t] # Nobody /\ rowOf[owner[t]].status = "archived")
================================================================================
