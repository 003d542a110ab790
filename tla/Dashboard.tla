------------------------------- MODULE Dashboard -------------------------------
(***************************************************************************)
(* The dashboard daemon: the supervisor of the Node child                  *)
(* (internal/dashboard/supervisor.go), the search for who holds its port   *)
(* (portowner_linux.go) and the start and stop of the daemon around it     *)
(* (cmd_dashboard.go, daemonize.Stop).  A child is a process group: node,  *)
(* which the supervisor waits for, and the server it forks, which listens. *)
(***************************************************************************)
EXTENDS Naturals, Sequences, FiniteSets

CONSTANTS ListenPort,     \* 8900
          MaxRestarts, RestartWindow,
          MaxSpawns,      \* bound on children
          MaxSecond,      \* bound on time
          MaxRuns         \* bound on daemons

ASSUME DashboardAssumption ==
    /\ ListenPort \in 0..65535 /\ MaxRestarts \in Nat /\ RestartWindow \in Nat \ {0}
    /\ MaxSpawns \in Nat /\ MaxSecond \in Nat /\ MaxRuns \in Nat

NoKid == 0

VARIABLES
    second,     \* time
    sup,        \* [at, attempt, cancelled]; "off" without a daemon
    restarts,   \* Supervisor.restarts: <<child, when it exited>>
    node,       \* children whose node process lives
    server,     \* those whose server lives
    listener,   \* which of them holds ListenPort
    births      \* when each was spawned, and by how manieth daemon

dashVars == <<second, sup, restarts, node, server, listener, births>>
procs == <<node, server, listener>>

Off == [at |-> "off", attempt |-> 0, cancelled |-> FALSE, run |-> 0]

DashInit ==
    /\ second = 1 /\ sup = Off /\ restarts = {}
    /\ node = {} /\ server = {} /\ listener = NoKid /\ births = <<>>

Kid == Len(births)     \* the child of the supervisor, when it has one
SupGoes(step) == sup' = [sup EXCEPT !.at = step]

\* What a signal leaves of the two halves of a group.
Remain(nodes, servers) ==
    /\ node' = nodes /\ server' = servers
    /\ listener' = IF listener \in servers THEN listener ELSE NoKid

-----------------------------------------------------------------------------
(* Supervisor.Run                                                            *)

RunDashboardStart ==
    /\ sup.at = "off" /\ sup.run < MaxRuns /\ sup' = [Off EXCEPT !.at = "loop", !.run = sup.run + 1] /\ restarts' = {}
    /\ UNCHANGED <<second, procs, births>>

Recent == {r \in restarts : r[2] + RestartWindow > second}
SlipOneMore(rs) == sup.attempt > 0 /\ MaxRestarts > 0 /\ Cardinality(rs) > MaxRestarts
OverBudget(rs) == sup.attempt > 0 /\ MaxRestarts > 0 /\ Cardinality(rs) >= MaxRestarts

Run ==
    /\ sup.at = "loop"
    /\ IF sup.cancelled THEN SupGoes("returned") /\ UNCHANGED restarts
       ELSE restarts' = Recent /\ SupGoes(IF OverBudget(Recent) THEN "returned" ELSE "port")
    /\ UNCHANGED <<second, procs, births>>

\* /proc/net/tcp shows the port as four hex digits, most significant first;
\* what is looked for has its two bytes exchanged.
Want == (ListenPort % 256) * 256 + ListenPort \div 256
FindTCPPortInode == IF Want = ListenPort THEN listener ELSE NoKid

KillPortOwner ==
    /\ sup.at = "port" /\ SupGoes("spawn")
    /\ Remain(node, server \ {FindTCPPortInode})
    /\ UNCHANGED <<second, restarts, births>>

SpawnChild ==
    /\ sup.at = "spawn" /\ Kid < MaxSpawns
    /\ births' = Append(births, [at |-> second, run |-> sup.run])
    /\ node' = node \cup {Kid + 1} /\ SupGoes("wait")
    /\ UNCHANGED <<second, restarts, server, listener>>

\* cmd.Wait returns when node is gone, whatever else is left of the group.
WaitChild ==
    /\ sup.at \in {"wait", "term"} /\ Kid \notin node
    /\ IF sup.cancelled THEN SupGoes("returned") /\ UNCHANGED restarts
       ELSE /\ restarts' = restarts \cup {<<Kid, second>>}
            /\ IF MaxRestarts = 0 THEN SupGoes("returned")
               ELSE sup' = [sup EXCEPT !.at = "backoff", !.attempt = @ + 1]
    /\ UNCHANGED <<second, procs, births>>

Backoff ==
    /\ sup.at = "backoff" /\ SupGoes(IF sup.cancelled THEN "returned" ELSE "loop")
    /\ UNCHANGED <<second, restarts, procs, births>>

\* ctx is cancelled: each half of the group may end on SIGTERM or ignore it,
\* and ten seconds later, if node is still there, both are killed.
SignalGroup ==
    /\ sup.cancelled /\ Kid \in node
    /\ \/ /\ sup.at = "wait" /\ SupGoes("term")
          /\ \E n \in {{}, {Kid}}, s \in {{}, {Kid}} : Remain(node \ n, server \ s)
       \/ sup.at = "term" /\ Remain(node \ {Kid}, server \ {Kid}) /\ UNCHANGED sup
    /\ UNCHANGED <<second, restarts, births>>

-----------------------------------------------------------------------------
(* The child, the operator and the clock                                     *)

ServerListens ==   \* EADDRINUSE ends node
    /\ \E k \in node \ server :
        IF listener = NoKid THEN server' = server \cup {k} /\ listener' = k /\ UNCHANGED node
        ELSE node' = node \ {k} /\ UNCHANGED <<server, listener>>
    /\ UNCHANGED <<second, sup, restarts, births>>

NodeDies ==   \* "killing node server.js leaves next-server alive holding the port"
    /\ \E k \in node : Remain(node \ {k}, server) \/ Remain(node \ {k}, server \ {k})
    /\ UNCHANGED <<second, sup, restarts, births>>

\* daemonize.Stop: SIGTERM cancels ctx; SIGKILL after ten seconds, which are
\* also the ten the supervisor gives its child, leaves the group to itself.
StopDashboard ==
    /\ sup.at \notin {"off", "returned"} /\ sup' = IF sup.cancelled THEN [Off EXCEPT !.run = sup.run] ELSE [sup EXCEPT !.cancelled = TRUE]
    /\ restarts' = IF sup.cancelled THEN {} ELSE restarts
    /\ UNCHANGED <<second, procs, births>>

RunReturns ==
    /\ sup.at = "returned" /\ sup' = [Off EXCEPT !.run = sup.run] /\ restarts' = {}
    /\ UNCHANGED <<second, procs, births>>

Second ==
    /\ second < MaxSecond /\ second' = second + 1
    /\ UNCHANGED <<sup, restarts, procs, births>>

DashNext ==
    \/ RunDashboardStart \/ Run \/ KillPortOwner \/ SpawnChild \/ WaitChild \/ Backoff
    \/ SignalGroup \/ ServerListens \/ NodeDies \/ StopDashboard \/ RunReturns \/ Second

DashSpec == DashInit /\ [][DashNext]_dashVars

-----------------------------------------------------------------------------
\* However children die and whoever held their port, one daemon spawns at most
\* MaxRestarts of them in any RestartWindow: the loop cannot spin.
RestartsRationed ==
    MaxRestarts > 0 => \A k \in 1..Len(births) :
        Cardinality({j \in 1..k : births[j].run = births[k].run /\ births[j].at + RestartWindow > births[k].at}) <= MaxRestarts

\* "The supervisor kills any stale process holding the port before each spawn
\* attempt to prevent EADDRINUSE restart loops" (supervisor.go).
PortIsFreed == [][SpawnChild => listener = NoKid]_dashVars
================================================================================
