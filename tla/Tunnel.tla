-------------------------------- MODULE Tunnel ---------------------------------
(***************************************************************************)
(* The public tunnel to the dashboard: internal/tunnel/manager.go and the  *)
(* bot's commands around it (dashboard_commands.go).  One Manager owns at  *)
(* most one cloudflared process; beside the callers, a timer and a reaper  *)
(* per process take its mutex.  A duration passes at any time.             *)
(***************************************************************************)
EXTENDS Naturals

CONSTANT MaxTunnels     \* bound on processes started

ASSUME TunnelAssumption == MaxTunnels \in Nat

NoTunnel == 0
Tunnels == 1..MaxTunnels

VARIABLES
    tunnel,     \* [at, timed, timer, cancelled (its procCtx), waited (a goroutine waits for it)]
    opening,    \* Start waits for the URL of this one, with m.mu held
    managed,    \* m.cmd
    botIs       \* "up", then "stopping" (its context is done), then "down"

tunnelVars == <<tunnel, opening, managed, botIs>>

TunnelInit ==
    /\ tunnel = [i \in Tunnels |-> [at |-> "none", timed |-> FALSE, timer |-> FALSE, cancelled |-> FALSE, waited |-> FALSE]]
    /\ opening = NoTunnel /\ managed = NoTunnel /\ botIs = "up"

MuIsFree == opening = NoTunnel
Lives(i) == tunnel[i].at = "live"

\* Start refuses while there is one; the commands ask IsRunning before.
Start(timed) ==
    /\ MuIsFree /\ managed = NoTunnel
    /\ \E i \in Tunnels :
        /\ tunnel[i].at = "none" /\ \A j \in 1..(i - 1) : tunnel[j].at # "none"
        /\ tunnel' = [tunnel EXCEPT ![i].at = "live", ![i].timed = timed]
        /\ opening' = i
    /\ UNCHANGED <<managed, botIs>>

HandleDashboard == botIs = "up" /\ \E timed \in BOOLEAN : Start(timed)

\* At boot, with the context of the bot: the first process or none.
StartPersistentTunnel == botIs = "up" /\ tunnel[1].at = "none" /\ Start(FALSE)

\* The URL is on stderr within ten seconds: the timer and the reaper start.
UrlIsFound ==
    /\ ~MuIsFree /\ managed' = opening /\ opening' = NoTunnel
    /\ tunnel' = [tunnel EXCEPT ![opening].timer = tunnel[opening].timed, ![opening].waited = TRUE]
    /\ UNCHANGED botIs

\* No URL, or the context is done: the process is killed, nobody waits for it.
UrlIsMissing ==
    /\ ~MuIsFree /\ opening' = NoTunnel
    /\ tunnel' = [tunnel EXCEPT ![opening].at = "exited", ![opening].cancelled = TRUE]
    /\ UNCHANGED <<managed, botIs>>

\* Manager.Stop, by whoever calls it with these rows.
StopTunnel(rows) ==
    /\ MuIsFree /\ managed' = NoTunnel
    /\ tunnel' = IF managed = NoTunnel THEN rows ELSE [rows EXCEPT ![managed].cancelled = TRUE]

HandleDashboardStop == botIs = "up" /\ managed # NoTunnel /\ StopTunnel(tunnel) /\ UNCHANGED <<opening, botIs>>

\* The timer stops what is managed then.
Expires(i) ==
    /\ tunnel[i].timer /\ StopTunnel([tunnel EXCEPT ![i].timer = FALSE])
    /\ UNCHANGED <<opening, botIs>>

TimerIsCancelled(i) ==
    /\ tunnel[i].timer /\ tunnel[i].cancelled /\ tunnel' = [tunnel EXCEPT ![i].timer = FALSE]
    /\ UNCHANGED <<opening, managed, botIs>>

SlipClearsAny(i) == NoTunnel
Cleared(i) == IF managed = i THEN NoTunnel ELSE managed

Reap(i) ==
    /\ tunnel[i].at = "exited" /\ tunnel[i].waited /\ MuIsFree
    /\ tunnel' = [tunnel EXCEPT ![i].at = "reaped"] /\ managed' = Cleared(i)
    /\ UNCHANGED <<opening, botIs>>

\* os/exec kills a process whose context is done; others die by themselves.
ProcessExits(i) ==
    /\ Lives(i) /\ tunnel' = [tunnel EXCEPT ![i].at = "exited"]
    /\ UNCHANGED <<opening, managed, botIs>>

\* Bot.Run returns: its context is done, then it stops the tunnel.
BotStops ==
    \/ botIs = "up" /\ botIs' = "stopping" /\ UNCHANGED <<tunnel, opening, managed>>
    \/ botIs = "stopping" /\ botIs' = "down" /\ StopTunnel(tunnel) /\ UNCHANGED opening

TunnelNext ==
    \/ HandleDashboard \/ StartPersistentTunnel \/ UrlIsFound \/ UrlIsMissing
    \/ HandleDashboardStop \/ BotStops
    \/ \E i \in Tunnels : Expires(i) \/ TimerIsCancelled(i) \/ Reap(i) \/ ProcessExits(i)

TunnelSpec == TunnelInit /\ [][TunnelNext]_tunnelVars

-----------------------------------------------------------------------------
\* The dashboard is never public behind the manager's back: a live process is
\* the managed one, the one being opened, or about to be killed; and one with a
\* duration keeps the timer that closes it.
NoTunnelLeaks ==
    \A i \in Tunnels : Lives(i) =>
        /\ i \in {managed, opening} \/ tunnel[i].cancelled
        /\ (i = managed /\ tunnel[i].timed) => tunnel[i].timer
================================================================================
