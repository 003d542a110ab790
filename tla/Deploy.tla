-------------------------------- MODULE Deploy --------------------------------
(***************************************************************************)
(* `maquinista deploy` (cmd_deploy.go): pull, build beside the running     *)
(* binary, migrate, stop the unit, wait, swap, start, watch; and the PID   *)
(* file that keeps a second daemon out (internal/daemonize).  The daemon   *)
(* is the unit's, or one that somebody starts by hand.                     *)
(***************************************************************************)
EXTENDS Naturals

CONSTANTS MaxHead,      \* bound on commits pushed
          DeployTrouble \* bound on what fails and what people do meanwhile

ASSUME DeployAssumption == MaxHead \in Nat \ {0} /\ DeployTrouble \in Nat

Starters == {"unit", "hand"}
NoProcess == [at |-> "gone", ver |-> 0]

VARIABLES
    origin,     \* origin/main
    checkout,   \* HEAD of the runtime checkout
    staging,    \* what .maquinista.deploy-next was built from; 0 without the file
    binary,     \* the same of the binary the unit executes
    daemon,     \* the processes: [at, ver], ver the binary it was started from
    pidFile,    \* whose PID it holds
    busy,       \* agents that hold a task and are not dead
    errors,     \* error lines in the unit's journal since startAt
    deploy,     \* [at, commit]: the step that comes next; the head it announces
    meddled,    \* somebody started the unit while it was being deployed
    mishaps

deployVars == <<origin, checkout, staging, binary, daemon, pidFile, busy, errors, deploy, meddled, mishaps>>
repo == <<origin, checkout>>
files == <<staging, binary>>
box == <<daemon, pidFile, errors>>
around == <<busy, meddled>>

DeployInit ==
    /\ origin = 1 /\ checkout = 1 /\ staging = 0 /\ binary = 1
    /\ daemon = [s \in Starters |-> IF s = "unit" THEN [at |-> "running", ver |-> 1] ELSE NoProcess]
    /\ pidFile = "unit" /\ busy = FALSE /\ errors = FALSE
    /\ deploy = [at |-> "preflight", commit |-> 0] /\ meddled = FALSE /\ mishaps = 0

Mishap == mishaps < DeployTrouble /\ mishaps' = mishaps + 1
Alive(s) == daemon[s].at # "gone"
DeployGoes(step) == deploy' = [deploy EXCEPT !.at = step]

-----------------------------------------------------------------------------
(* daemonize: the PID file is read, later written, and removed on the way    *)
(* out by whoever leaves                                                      *)

Launch(s, procs) == [procs EXCEPT ![s] = [at |-> "checking", ver |-> binary]]
StartUnit(procs) == IF Alive("unit") THEN procs ELSE Launch("unit", procs)

RunForeground(s) ==
    /\ \/ /\ daemon[s].at = "checking"
          /\ IF pidFile \in Starters /\ Alive(pidFile) /\ pidFile # s   \* "already running"
             THEN daemon' = [daemon EXCEPT ![s] = NoProcess] /\ errors' = (errors \/ s = "unit") /\ UNCHANGED pidFile
             ELSE daemon' = [daemon EXCEPT ![s].at = "writing"] /\ pidFile' = "nobody" /\ UNCHANGED errors
       \/ /\ daemon[s].at = "writing"
          /\ pidFile' = s /\ daemon' = [daemon EXCEPT ![s].at = "running"] /\ UNCHANGED errors
    /\ UNCHANGED <<repo, files, around, deploy, mishaps>>

\* On a signal it removes the file, whatever PID it holds; a crash leaves it.
Leaves(s) ==
    /\ daemon' = [daemon EXCEPT ![s] = NoProcess]
    /\ pidFile' = IF daemon[s].at = "running" THEN "nobody" ELSE pidFile

DaemonCrashes(s) ==
    /\ Alive(s) /\ Mishap /\ daemon' = [daemon EXCEPT ![s] = NoProcess]
    /\ UNCHANGED <<repo, files, pidFile, errors, around, deploy>>

StartByHand ==   \* maquinista start
    /\ ~Alive("hand") /\ Mishap /\ daemon' = Launch("hand", daemon)
    /\ UNCHANGED <<repo, files, pidFile, errors, around, deploy>>

StopByHand ==    \* maquinista stop: the process whose PID the file holds
    /\ pidFile \in Starters /\ Alive(pidFile) /\ Mishap /\ Leaves(pidFile)
    /\ UNCHANGED <<repo, files, errors, around, deploy>>

-----------------------------------------------------------------------------
(* The deploy                                                                *)

\* Read minutes before the restart that kills them.
LiveWorkerAgents ==
    /\ busy' = ~busy /\ UNCHANGED <<repo, files, box, deploy, meddled, mishaps>>

Push ==
    /\ origin < MaxHead /\ origin' = origin + 1
    /\ UNCHANGED <<checkout, files, box, around, deploy, mishaps>>

RunDeploy ==
    /\ deploy.at = "preflight"
    /\ \/ ~busy /\ DeployGoes("pull") /\ UNCHANGED mishaps
       \/ Mishap /\ DeployGoes("refused")   \* a box pane, git state, or workers in mid-flight
       \/ busy /\ Mishap /\ DeployGoes("pull")   \* --yes
    /\ UNCHANGED <<repo, files, box, around>>

Fails == Mishap /\ DeployGoes("failed")

Pull ==
    /\ deploy.at = "pull"
    /\ \/ checkout' = origin /\ deploy' = [at |-> "build", commit |-> origin] /\ UNCHANGED mishaps
       \/ Fails /\ UNCHANGED checkout
    /\ UNCHANGED <<origin, files, box, around>>

BuildStaged ==   \* an older staging is removed first
    /\ deploy.at = "build"
    /\ \/ staging' = checkout /\ DeployGoes("migrate") /\ UNCHANGED mishaps
       \/ staging' = 0 /\ Fails
    /\ UNCHANGED <<repo, binary, box, around>>

Migrate ==
    /\ deploy.at = "migrate"
    /\ \/ DeployGoes("stop") /\ UNCHANGED mishaps
       \/ Fails
    /\ UNCHANGED <<repo, files, box, around>>

\* startAt is taken here; a unit that cannot be stopped is left as it is.
StopUnit ==
    /\ deploy.at = "stop" /\ errors' = FALSE
    /\ \/ /\ IF Alive("unit") THEN Leaves("unit") ELSE UNCHANGED <<daemon, pidFile>>
          /\ DeployGoes("wait") /\ UNCHANGED mishaps
       \/ Fails /\ UNCHANGED <<daemon, pidFile>>
    /\ UNCHANGED <<repo, files, around>>

\* Best effort: the unit back up on the old binary.
GivesUp == DeployGoes("failed") /\ daemon' = StartUnit(daemon)

WaitOrchestratorExit ==
    /\ deploy.at = "wait"
    /\ \/ (\A s \in Starters : ~Alive(s)) /\ DeployGoes("copy") /\ UNCHANGED <<daemon, mishaps>>
       \/ (\E s \in Starters : Alive(s)) /\ GivesUp /\ UNCHANGED mishaps   \* timeout
       \/ Mishap /\ GivesUp                                                \* pgrep
    /\ UNCHANGED <<repo, files, pidFile, errors, around>>

CopyBinary ==
    /\ deploy.at = "copy"
    /\ \/ binary' = staging /\ DeployGoes("start") /\ UNCHANGED <<daemon, mishaps>>
       \/ Mishap /\ GivesUp /\ UNCHANGED binary
    /\ UNCHANGED <<repo, staging, pidFile, errors, around>>

SystemctlStart ==
    /\ deploy.at = "start"
    /\ \/ daemon' = StartUnit(daemon) /\ staging' = 0 /\ DeployGoes("watch") /\ UNCHANGED mishaps
       \/ Fails /\ UNCHANGED <<daemon, staging>>
    /\ UNCHANGED <<repo, binary, pidFile, errors, around>>

\* The PID check takes milliseconds and the window 30 s: only a unit that keeps
\* exiting, which its journal shows, is seen in the middle of it.
Settled == daemon["unit"].at \notin {"checking", "writing"} \/ errors
SlipNoJournal == Alive("unit")
UnitHealthy == Alive("unit") /\ ~errors

HealthCheck ==
    /\ deploy.at = "watch" /\ Settled
    /\ IF UnitHealthy THEN DeployGoes("green") ELSE DeployGoes("failed")
    /\ UNCHANGED <<repo, files, box, around, mishaps>>

\* systemd, or a person with systemctl.
UnitIsStarted ==
    /\ ~Alive("unit") /\ Mishap /\ daemon' = Launch("unit", daemon)
    /\ meddled' = (meddled \/ deploy.at \in {"wait", "copy", "start"})
    /\ UNCHANGED <<repo, files, pidFile, errors, busy, deploy>>

DeployNext ==
    \/ RunDeploy \/ Pull \/ BuildStaged \/ Migrate \/ StopUnit \/ WaitOrchestratorExit
    \/ CopyBinary \/ SystemctlStart \/ HealthCheck
    \/ LiveWorkerAgents \/ Push \/ StartByHand \/ StopByHand \/ UnitIsStarted
    \/ \E s \in Starters : RunForeground(s) \/ DaemonCrashes(s)

DeploySpec == DeployInit /\ [][DeployNext]_deployVars

-----------------------------------------------------------------------------
\* "Exit 0 only on green" (cmd_deploy.go): when a deploy says OK, the unit is a
\* daemon past its PID check that runs the commit announced, whichever daemon
\* was started, stopped or crashed by hand beside it - except that somebody
\* started the unit itself before the swap, which `systemctl start` then skips.
GreenIsLive ==
    [][(deploy'.at = "green" /\ deploy.at # "green" /\ ~meddled)
          => (daemon["unit"].at = "running" /\ daemon["unit"].ver = deploy.commit)]_deployVars
================================================================================
