----------------------------- MODULE Parts_proofs -----------------------------
(***************************************************************************)
(* Proofs about the components of one or two loops each: the dashboard's   *)
(* tunnel, agents that spawn agents, comments on pull requests, what the   *)
(* pipeline says once, the ticket board, the deploy and the task store.    *)
(* Each section has the inductive invariant of a component and what        *)
(* follows from it.                                                        *)
(***************************************************************************)
EXTENDS Tunnel, Conversations, Comments, Notices, Tickets, Deploy, TaskStore, OrderLemmas, TLAPS

-----------------------------------------------------------------------------
(* The tunnel                                                                *)

TunnelRow == [at : {"none", "live", "exited", "reaped"}, timed : BOOLEAN,
              timer : BOOLEAN, cancelled : BOOLEAN, waited : BOOLEAN]
TunnelTyped ==
    /\ tunnel \in [Tunnels -> TunnelRow]
    /\ opening \in Tunnels \cup {NoTunnel} /\ managed \in Tunnels \cup {NoTunnel}
    /\ botIs \in {"up", "stopping", "down"}

\* With the mutex held for an opening nothing is managed, and a process that
\* the manager holds has not been cancelled.
MutexExcludes == opening # NoTunnel => managed = NoTunnel
HeldIsStarted ==
    \A i \in Tunnels :
        /\ i \in {managed, opening} => tunnel[i].at # "none" /\ ~tunnel[i].cancelled
        /\ tunnel[i].at = "none" => ~tunnel[i].cancelled
TunnelIInv == TunnelTyped /\ MutexExcludes /\ HeldIsStarted /\ NoTunnelLeaks

LEMMA TunnelInitial == TunnelInit => TunnelIInv
  BY DEF TunnelInit, TunnelIInv, TunnelTyped, MutexExcludes, HeldIsStarted, NoTunnelLeaks,
         Lives, Tunnels, NoTunnel, TunnelRow

LEMMA TunnelStep == TunnelIInv /\ [TunnelNext]_tunnelVars => TunnelIInv'
  <1> SUFFICES ASSUME TunnelIInv, [TunnelNext]_tunnelVars PROVE TunnelIInv'
    OBVIOUS
  <1> USE TunnelAssumption DEF TunnelIInv, TunnelTyped, MutexExcludes, HeldIsStarted,
          NoTunnelLeaks, Lives, MuIsFree
  <1>0. NoTunnel \notin Tunnels /\ Tunnels \subseteq Nat
    BY DEF NoTunnel, Tunnels
  <1>1. ASSUME NEW timed \in BOOLEAN, Start(timed), UNCHANGED botIs PROVE TunnelIInv'
    <2>1. PICK i \in Tunnels :
          /\ tunnel[i].at = "none"
          /\ tunnel' = [tunnel EXCEPT ![i].at = "live", ![i].timed = timed]
          /\ opening' = i
      BY <1>1 DEF Start
    <2>2. managed' = NoTunnel /\ opening = NoTunnel /\ managed = NoTunnel  BY <1>1 DEF Start
    <2>3. tunnel[i] \in TunnelRow /\ ~tunnel[i].cancelled  BY <2>1
    <2> DEFINE r == [tunnel[i] EXCEPT !.at = "live", !.timed = timed]
    <2>4. r \in TunnelRow /\ r.at = "live" /\ ~r.cancelled  BY <2>3 DEF TunnelRow
    <2>5. tunnel' = [tunnel EXCEPT ![i] = r]  BY <2>1
    <2> HIDE DEF r
    <2>p. \A j \in Tunnels : IF j = i THEN tunnel'[j] = r ELSE tunnel'[j] = tunnel[j]  BY <2>5
    <2>q. TunnelTyped' /\ MutexExcludes'
      <3>1. tunnel' \in [Tunnels -> TunnelRow]  BY <2>4, <2>5
      <3> QED BY <1>1, <2>1, <2>2, <3>1
    <2>r. HeldIsStarted'  BY <1>0, <2>1, <2>2, <2>4, <2>p
    <2>s. NoTunnelLeaks'  BY <1>0, <2>1, <2>2, <2>4, <2>p
    <2> QED BY <2>q, <2>r, <2>s
  <1>2. CASE UrlIsFound
    <2> DEFINE i == opening
               r == [tunnel[i] EXCEPT !.timer = tunnel[i].timed, !.waited = TRUE]
    <2>1. i \in Tunnels /\ managed' = i /\ opening' = NoTunnel /\ managed = NoTunnel
      BY <1>2 DEF UrlIsFound
    <2>2. tunnel' = [tunnel EXCEPT ![i] = r]  BY <1>2, <2>1 DEF UrlIsFound
    <2>3. r \in TunnelRow /\ r.at = tunnel[i].at /\ r.cancelled = tunnel[i].cancelled
          /\ (r.timed => r.timer)
      BY <2>1 DEF TunnelRow
    <2> HIDE DEF r
    <2>4. UNCHANGED botIs /\ tunnel[i].at # "none" /\ ~tunnel[i].cancelled
      BY <1>2, <2>1 DEF UrlIsFound, i
    <2>p. \A j \in Tunnels : IF j = i THEN tunnel'[j] = r ELSE tunnel'[j] = tunnel[j]  BY <2>2
    <2>q. TunnelTyped' /\ MutexExcludes'
      <3>1. tunnel' \in [Tunnels -> TunnelRow]  BY <2>2, <2>3
      <3> QED BY <2>1, <2>4, <3>1
    <2>r. HeldIsStarted'  BY <1>0, <2>1, <2>3, <2>4, <2>p
    <2>s. NoTunnelLeaks'  BY <1>0, <2>1, <2>3, <2>4, <2>p
    <2> QED BY <2>q, <2>r, <2>s
  <1>3. CASE UrlIsMissing
    <2> DEFINE i == opening
               r == [tunnel[i] EXCEPT !.at = "exited", !.cancelled = TRUE]
    <2>1. i \in Tunnels /\ managed' = NoTunnel /\ opening' = NoTunnel /\ managed = NoTunnel
      BY <1>3 DEF UrlIsMissing
    <2>2. tunnel' = [tunnel EXCEPT ![i] = r]  BY <1>3, <2>1 DEF UrlIsMissing
    <2>3. r \in TunnelRow /\ r.at = "exited"  BY <2>1 DEF TunnelRow
    <2> HIDE DEF r
    <2>4. UNCHANGED botIs  BY <1>3 DEF UrlIsMissing
    <2>p. \A j \in Tunnels : IF j = i THEN tunnel'[j] = r ELSE tunnel'[j] = tunnel[j]  BY <2>2
    <2>q. TunnelTyped' /\ MutexExcludes'
      <3>1. tunnel' \in [Tunnels -> TunnelRow]  BY <2>2, <2>3
      <3> QED BY <2>1, <2>4, <3>1
    <2>r. HeldIsStarted'  BY <1>0, <2>1, <2>3, <2>4, <2>p
    <2>s. NoTunnelLeaks'  BY <1>0, <2>1, <2>3, <2>4, <2>p
    <2> QED BY <2>q, <2>r, <2>s
  <1>4. ASSUME NEW after \in [Tunnels -> TunnelRow], StopTunnel(after), UNCHANGED opening,
               \A i \in Tunnels : /\ after[i].at = tunnel[i].at
                                  /\ after[i].cancelled = tunnel[i].cancelled,
               botIs' \in {"up", "stopping", "down"}
        PROVE  TunnelIInv'
    <2>1. CASE managed = NoTunnel
      <3>1. tunnel' = after /\ UNCHANGED managed  BY <1>4, <2>1 DEF StopTunnel
      <3>2. TunnelTyped' /\ MutexExcludes'  BY <1>4, <3>1
      <3>3. HeldIsStarted' /\ NoTunnelLeaks'  BY <1>0, <1>4, <2>1, <3>1
      <3> QED BY <3>2, <3>3
    <2>2. CASE managed # NoTunnel
      <3> DEFINE i == managed
                 r == [after[i] EXCEPT !.cancelled = TRUE]
      <3>0. i \in Tunnels /\ tunnel' = [after EXCEPT ![i].cancelled = TRUE]
            /\ managed' = NoTunnel /\ opening = NoTunnel
        BY <1>4, <2>2 DEF StopTunnel
      <3>1. tunnel' = [after EXCEPT ![i] = r] /\ managed' = NoTunnel /\ opening = NoTunnel /\ i \in Tunnels
        BY <3>0
      <3>a. after[i] \in TunnelRow /\ after[i].at = tunnel[i].at  BY <1>4, <3>0
      <3>2. r \in TunnelRow /\ r.at = tunnel[i].at /\ r.cancelled  BY <3>a DEF TunnelRow
      <3>3. \A j \in Tunnels \ {i} : j \notin {managed, opening}  BY <1>0, <3>1 DEF i
      <3>4. tunnel[i].at # "none"  BY <3>1
      <3> HIDE DEF r
      <3>5. \A j \in Tunnels : IF j = i THEN tunnel'[j] = r ELSE tunnel'[j] = after[j]  BY <3>1
      <3>6. TunnelTyped' /\ MutexExcludes'  BY <1>0, <1>4, <3>1, <3>2
      <3>7. HeldIsStarted' /\ NoTunnelLeaks'  BY <1>0, <1>4, <3>1, <3>2, <3>3, <3>4, <3>5
      <3> QED BY <3>6, <3>7
    <2> QED BY <2>1, <2>2
  <1>5. ASSUME NEW i \in Tunnels, NEW r \in TunnelRow, UNCHANGED <<opening, botIs>>,
               tunnel' = [tunnel EXCEPT ![i] = r],
               r.cancelled = tunnel[i].cancelled,
               \/ r.at = tunnel[i].at /\ r.cancelled /\ managed' = managed
               \/ /\ r.at \in {"exited", "reaped"} /\ tunnel[i].at \in {"live", "exited"}
                  /\ managed' = managed
               \/ /\ r.at = "reaped" /\ tunnel[i].at = "exited" /\ i = managed
                  /\ managed' = NoTunnel
        PROVE  TunnelIInv'
    <2>1. TunnelTyped' /\ MutexExcludes'  BY <1>5
    <2>2. \A j \in Tunnels : IF j = i THEN tunnel'[j] = r ELSE tunnel'[j] = tunnel[j]  BY <1>5
    <2>3. HeldIsStarted'  BY <1>0, <1>5, <2>2
    <2>4. NoTunnelLeaks'  BY <1>0, <1>5, <2>2
    <2> QED BY <2>1, <2>3, <2>4
  <1>6. ASSUME NEW i \in Tunnels, Expires(i) PROVE TunnelIInv'
    <2> DEFINE r == [tunnel[i] EXCEPT !.timer = FALSE]
               after == [tunnel EXCEPT ![i] = r]
    <2>1. r \in TunnelRow /\ r.at = tunnel[i].at /\ r.cancelled = tunnel[i].cancelled
      BY DEF TunnelRow
    <2>2. StopTunnel(after) /\ UNCHANGED <<opening, botIs>>  BY <1>6 DEF Expires
    <2> HIDE DEF r
    <2>3. after \in [Tunnels -> TunnelRow]
          /\ \A j \in Tunnels : after[j].at = tunnel[j].at /\ after[j].cancelled = tunnel[j].cancelled
      BY <2>1
    <2> HIDE DEF after
    <2> QED BY <1>4, <2>2, <2>3
  <1>7. ASSUME NEW i \in Tunnels, TimerIsCancelled(i) PROVE TunnelIInv'
    <2> DEFINE r == [tunnel[i] EXCEPT !.timer = FALSE]
    <2>1. r \in TunnelRow /\ r.at = tunnel[i].at /\ r.cancelled = tunnel[i].cancelled
      BY DEF TunnelRow
    <2>2. tunnel' = [tunnel EXCEPT ![i] = r] /\ tunnel[i].cancelled /\ UNCHANGED <<opening, managed, botIs>>
      BY <1>7 DEF TimerIsCancelled
    <2> HIDE DEF r
    <2> QED BY <1>5, <2>1, <2>2
  <1>8. ASSUME NEW i \in Tunnels, Reap(i) PROVE TunnelIInv'
    <2> DEFINE r == [tunnel[i] EXCEPT !.at = "reaped"]
    <2>1. r \in TunnelRow /\ r.at = "reaped" /\ r.cancelled = tunnel[i].cancelled
      BY DEF TunnelRow
    <2>2. tunnel' = [tunnel EXCEPT ![i] = r] /\ tunnel[i].at = "exited" /\ managed' = Cleared(i)
          /\ UNCHANGED <<opening, botIs>>
      BY <1>8 DEF Reap
    <2> HIDE DEF r
    <2> QED BY <1>5, <2>1, <2>2 DEF Cleared
  <1>9. ASSUME NEW i \in Tunnels, ProcessExits(i) PROVE TunnelIInv'
    <2> DEFINE r == [tunnel[i] EXCEPT !.at = "exited"]
    <2>1. r \in TunnelRow /\ r.at = "exited" /\ r.cancelled = tunnel[i].cancelled
      BY DEF TunnelRow
    <2>2. tunnel' = [tunnel EXCEPT ![i] = r] /\ tunnel[i].at = "live" /\ UNCHANGED <<opening, managed, botIs>>
      BY <1>9 DEF ProcessExits
    <2> HIDE DEF r
    <2> QED BY <1>5, <2>1, <2>2
  <1>10. CASE BotStops
    <2>1. CASE UNCHANGED <<tunnel, opening, managed>> /\ botIs' = "stopping"
      BY <2>1
    <2>2. CASE botIs' = "down" /\ StopTunnel(tunnel) /\ UNCHANGED opening
      BY <1>4, <2>2
    <2> QED BY <1>10, <2>1, <2>2 DEF BotStops
  <1>11. CASE UNCHANGED tunnelVars
    BY <1>11 DEF tunnelVars
  <1>12. CASE HandleDashboardStop
    BY <1>4, <1>12 DEF HandleDashboardStop
  <1>13. CASE HandleDashboard \/ StartPersistentTunnel
    BY <1>1, <1>13 DEF HandleDashboard, StartPersistentTunnel, Start
  <1> QED
    BY <1>2, <1>3, <1>6, <1>7, <1>8, <1>9, <1>10, <1>11, <1>12, <1>13 DEF TunnelNext

\* However many processes a manager starts and whatever order its timers, its
\* reapers and the bot's end come in, no cloudflared it has let go of lives on
\* uncancelled, and none with a duration outlives its timer.
THEOREM TunnelNeverLeaks == TunnelSpec => []NoTunnelLeaks
  <1>1. TunnelIInv => NoTunnelLeaks  BY DEF TunnelIInv
  <1> QED BY TunnelInitial, TunnelStep, <1>1, PTL DEF TunnelSpec

-----------------------------------------------------------------------------
(* Agents that spawn agents                                                  *)

\* A child's soul never allows delegation, whoever exists.
SoulsOfChildren == \A s \in Subs : soul[s] # "allows"
ConvoIInv ==
    /\ soul \in [Everybody -> {"none", "allows", "denies"}]
    /\ parent \in [Subs -> Everybody \cup {Nobody}]
    /\ SoulsOfChildren /\ SpawnedNeverSpawn

\* The tree of spawned agents is one level deep, however many agents,
\* conversations and questions there are: the souls the gate reads see to it,
\* not the depth of conversations it measures.
THEOREM ChildrenNeverSpawn == ConvoSpec => []SpawnedNeverSpawn
  <1> USE DEF ConvoIInv, SoulsOfChildren, SpawnedNeverSpawn, Everybody, Nobody
  <1>1. ConvoInit => ConvoIInv
    BY DEF ConvoInit
  <1>2. ConvoIInv /\ [ConvoNext]_convoVars => ConvoIInv'
    <2> SUFFICES ASSUME ConvoIInv, [ConvoNext]_convoVars PROVE ConvoIInv'
      OBVIOUS
    <2>1. ASSUME NEW a \in Everybody, SpawnSubagent(a) PROVE ConvoIInv'
      <3> PICK s \in Subs :
            /\ parent' = [parent EXCEPT ![s] = a]
            /\ soul' = [soul EXCEPT ![s] = ChildSoul(a)]
        BY <2>1 DEF SpawnSubagent
      <3>1. soul[a] = "allows"  BY <2>1 DEF SpawnSubagent, DelegationGate
      <3>2. a \in Roots  BY <3>1
      <3> QED BY <3>1, <3>2 DEF ChildSoul
    <2>2. CASE UNCHANGED <<soul, parent>>
      BY <2>2
    <2> QED
      BY <2>1, <2>2 DEF ConvoNext, convoVars, ResolveTarget, EnsureA2AConversation, PollReply, Answers
  <1>3. ConvoIInv => SpawnedNeverSpawn  OBVIOUS
  <1> QED BY <1>1, <1>2, <1>3, PTL DEF ConvoSpec
-----------------------------------------------------------------------------
(* Comments on pull requests                                                 *)

Statuses == {"pending_approval", "review", "ready_to_merge", "done"}
Pass == [at : {"idle", "fetch", "dispatch", "handler"}, left : SUBSET PRs, todo : SUBSET Comments,
         cursor : Nat, failed : BOOLEAN]
CommentTyped ==
    /\ now \in Nat /\ cursor \in Nat
    /\ status \in [PRs -> Statuses]
    /\ comment \in [Comments -> [pr : PRs, kind : Kinds, at : Nat]]
    /\ record \in [Comments -> {"none", "pending", "no_op", "ok", "error"}]
    /\ pass \in Pass /\ acting \in Comments \cup {NoComment}
    /\ transient \in SUBSET Comments
    /\ acted \in [Comments -> Nat]

\* What is not claimed, or claimed and being handled or given up by a crash,
\* has not been acted upon.
ClaimedBeforeActing ==
    /\ \A c \in Comments : record[c] \in {"none", "pending"} => acted[c] = 0
    /\ pass.at = "handler" => acting \in pass.todo /\ record[acting] = "pending"
    /\ ActsAtMostOnce

\* A pass that has not failed has yet to fetch or to dispatch every comment
\* that an earlier one failed on.
StillAhead ==
    \A c \in transient : (record[c] = "none" /\ comment[c].pr \in WatchedPRs) =>
        /\ comment[c].at > cursor
        /\ (pass.at # "idle" /\ ~pass.failed) => comment[c].pr \in pass.left \/ c \in pass.todo
Written ==
    /\ \A c \in transient : comment[c].at > 0
    /\ \A c \in pass.todo : comment[c].at > cursor
    /\ pass.at \in {"idle", "fetch"} => pass.todo = {}
CommentIInv == CommentTyped /\ ClaimedBeforeActing /\ StillAhead /\ Written

LEMMA MaxOfTwo ==
    ASSUME NEW a \in Nat, NEW b \in Nat
    PROVE  Max({a, b}) \in Nat
  <1>1. \E x \in {a, b} : \A y \in {a, b} : x >= y
    <2>1. CASE a >= b  BY <2>1
    <2>2. CASE b >= a  BY <2>2
    <2> QED BY <2>1, <2>2
  <1> QED BY <1>1 DEF Max

\* What a pass looks like after it has dealt with a comment.
LEMMA AfterDone ==
    ASSUME CommentIInv, NEW c \in pass.todo, NEW f \in BOOLEAN, Done(c, f)
    PROVE  /\ pass' \in Pass /\ pass'.at \in {"fetch", "dispatch"}
           /\ pass'.left = pass.left /\ pass'.todo = pass.todo \ {c}
           /\ pass'.at = "fetch" => pass'.todo = {}
           /\ pass'.failed = (pass.failed \/ f)
  <1>1. pass \in Pass /\ c \in Comments  BY DEF CommentIInv, CommentTyped, Pass
  <1>2. comment[c].at \in Nat /\ pass.cursor \in Nat
    BY <1>1 DEF CommentIInv, CommentTyped, Pass
  <1>3. Max({pass.cursor, comment[c].at}) \in Nat  BY <1>2, MaxOfTwo
  <1> QED BY <1>1, <1>3 DEF Done, Pass

LEMMA CommentInitial == CommentInit => CommentIInv
  <1> SUFFICES ASSUME CommentInit PROVE CommentIInv
    OBVIOUS
  <1>1. PICK q \in PRs : status = [p \in PRs |-> IF p = q THEN "pending_approval" ELSE "review"]
    BY DEF CommentInit
  <1>2. (CHOOSE p \in PRs : TRUE) \in PRs  BY <1>1
  <1>3. CommentTyped
    <2>1. comment \in [Comments -> [pr : PRs, kind : Kinds, at : Nat]]
      BY <1>2 DEF CommentInit, Kinds
    <2>2. status \in [PRs -> Statuses]  BY <1>1 DEF Statuses
    <2>3. pass \in Pass  BY DEF CommentInit, IdlePass, Pass
    <2> QED BY <2>1, <2>2, <2>3 DEF CommentInit, CommentTyped, NoComment
  <1> QED
    BY <1>3 DEF CommentInit, CommentIInv, ClaimedBeforeActing, ActsAtMostOnce, StillAhead, Written, IdlePass

LEMMA CommentStep == CommentIInv /\ [CommentNext]_commentVars => CommentIInv'
  <1> SUFFICES ASSUME CommentIInv, [CommentNext]_commentVars PROVE CommentIInv'
    OBVIOUS
  <1> USE CommentAssumption DEF CommentIInv
  <1>0. NoComment \notin Comments  BY DEF NoComment, Comments
  <1>d. DOMAIN acted = Comments  BY DEF CommentTyped
  <1>1. CASE Say
    <2>1. PICK c \in Comments, p \in PRs, k \in Kinds :
            comment[c].at = 0 /\ comment' = [comment EXCEPT ![c] = [pr |-> p, kind |-> k, at |-> now]]
      BY <1>1 DEF Say
    <2>2. UNCHANGED <<now, status, cursor, pass, acting, transient, record, acted>>
      BY <1>1 DEF Say, poller
    <2>3. c \notin transient /\ c \notin pass.todo
      BY <2>1 DEF Written, CommentTyped
    <2>4. CommentTyped'  BY <2>1, <2>2 DEF CommentTyped
    <2>5. \A d \in Comments : d # c => comment'[d] = comment[d]
      BY <2>1 DEF CommentTyped
    <2>6. StillAhead' /\ Written'
      BY <2>2, <2>3, <2>5 DEF StillAhead, Written, CommentTyped, WatchedPRs, Pass
    <2> QED BY <2>2, <2>4, <2>6 DEF ClaimedBeforeActing, ActsAtMostOnce
  <1>2. CASE CommentTick
    BY <1>2 DEF CommentTick, poller, CommentTyped, ClaimedBeforeActing, ActsAtMostOnce, StillAhead, Written, WatchedPRs
  <1>3. CASE PipelineMoves
    <2>1. PICK p \in PRs :
            /\ status[p] \in {"review", "ready_to_merge"}
            /\ status' = [status EXCEPT ![p] = CASE @ = "review" -> "ready_to_merge" [] OTHER -> "done"]
      BY <1>3 DEF PipelineMoves
    <2>2. UNCHANGED <<now, comment, cursor, pass, acting, transient, record, acted>>
      BY <1>3 DEF PipelineMoves, poller
    <2>3. CommentTyped' /\ WatchedPRs' \subseteq WatchedPRs
      BY <2>1, <2>2 DEF CommentTyped, Statuses, WatchedPRs
    <2> QED BY <2>2, <2>3 DEF ClaimedBeforeActing, ActsAtMostOnce, StillAhead, Written
  <1>4. CASE StartPass
    <2>1. /\ pass.at = "idle" /\ pass'.at = "fetch" /\ pass'.left = WatchedPRs /\ pass'.todo = {}
          /\ pass' \in Pass
      BY <1>4 DEF StartPass, Pass, CommentTyped, WatchedPRs
    <2>2. UNCHANGED <<now, status, comment, cursor, acting, transient, record, acted>>
      BY <1>4 DEF StartPass, people
    <2> QED
      BY <2>1, <2>2 DEF CommentTyped, ClaimedBeforeActing, ActsAtMostOnce, StillAhead, Written, WatchedPRs
  <1>5. CASE Fetch
    <2>1. UNCHANGED <<now, status, comment, cursor, acting, transient, record, acted>> /\ pass.at = "fetch"
      BY <1>5 DEF Fetch, people
    <2>2. PICK p \in pass.left :
            \/ pass' = [pass EXCEPT !.at = IF PRComments(p) = {} THEN "fetch" ELSE "dispatch",
                                    !.left = @ \ {p}, !.todo = PRComments(p)]
            \/ pass' = [pass EXCEPT !.left = @ \ {p}, !.failed = TRUE]
      BY <1>5 DEF Fetch
    <2>3. PRComments(p) \in SUBSET Comments  BY DEF PRComments
    <2>5. CASE pass' = [pass EXCEPT !.at = IF PRComments(p) = {} THEN "fetch" ELSE "dispatch",
                                    !.left = @ \ {p}, !.todo = PRComments(p)]
      <3>1. /\ pass'.left = pass.left \ {p} /\ pass'.todo = PRComments(p) /\ pass'.failed = pass.failed
            /\ pass'.at \in {"fetch", "dispatch"} /\ (pass'.at = "fetch" => PRComments(p) = {})
        BY <2>5 DEF CommentTyped, Pass
      <3>t. pass' \in Pass
        <4>1. CASE PRComments(p) = {}  BY <2>3, <2>5, <4>1 DEF CommentTyped, Pass
        <4>2. CASE PRComments(p) # {}  BY <2>3, <2>5, <4>2 DEF CommentTyped, Pass
        <4> QED BY <4>1, <4>2
      <3>2. pass.todo = {}  BY <2>1 DEF Written
      <3>3. StillAhead'
        BY <2>1, <3>1, <3>2 DEF StillAhead, PRComments, WatchedPRs, CommentTyped
      <3> QED
        BY <2>1, <3>1, <3>t, <3>3 DEF CommentTyped, ClaimedBeforeActing, ActsAtMostOnce, Written, PRComments
    <2>6. CASE pass' = [pass EXCEPT !.left = @ \ {p}, !.failed = TRUE]
      <3>1. pass'.at = "fetch" /\ pass'.todo = pass.todo /\ pass'.failed = TRUE /\ pass' \in Pass
        BY <2>1, <2>6 DEF CommentTyped, Pass
      <3> QED
        BY <2>1, <3>1 DEF CommentTyped, ClaimedBeforeActing, ActsAtMostOnce, StillAhead, Written, WatchedPRs
    <2> QED BY <2>2, <2>5, <2>6
  <1>6. CASE DispatchCommentCommand
    <2>1. pass.at = "dispatch" /\ UNCHANGED <<now, status, comment, cursor, acted>>
      BY <1>6 DEF DispatchCommentCommand, people
    <2>2. PICK c \in pass.todo : Claim(c) \/ DispatchErrs(c)
      BY <1>6 DEF DispatchCommentCommand, Oldest
    <2>3. c \in Comments /\ comment[c].at > cursor /\ comment[c].at > 0
      BY DEF CommentTyped, Pass, Written
    <2>4. CASE /\ Done(c, FALSE) /\ UNCHANGED <<transient, acting>>
               /\ \/ record' = [record EXCEPT ![c] = "no_op"]
                  \/ record[c] # "none" /\ UNCHANGED record
      <3>1. /\ pass' \in Pass /\ pass'.at \in {"fetch", "dispatch"}
            /\ pass'.left = pass.left /\ pass'.todo = pass.todo \ {c}
            /\ pass'.at = "fetch" => pass'.todo = {}
            /\ pass'.failed = pass.failed
        BY <2>4, AfterDone DEF CommentTyped, Pass
      <3>2. CommentTyped' /\ record'[c] # "none"  BY <2>1, <2>3, <2>4, <3>1 DEF CommentTyped
      <3>3. ClaimedBeforeActing'
        BY <2>1, <2>3, <2>4, <3>1 DEF ClaimedBeforeActing, ActsAtMostOnce, CommentTyped
      <3>4. \A d \in Comments : d # c => record'[d] = record[d]  BY <2>4 DEF CommentTyped
      <3>5. StillAhead'
        BY <2>1, <2>4, <3>1, <3>2, <3>4 DEF StillAhead, CommentTyped, WatchedPRs
      <3>6. Written'  BY <2>1, <2>4, <3>1 DEF Written
      <3> QED BY <3>2, <3>3, <3>5, <3>6
    <2>5. CASE /\ record[c] = "none" /\ record' = [record EXCEPT ![c] = "pending"] /\ acting' = c
               /\ pass' = [pass EXCEPT !.at = "handler"] /\ UNCHANGED transient
      <3>1. /\ pass' \in Pass /\ pass'.at = "handler" /\ pass'.left = pass.left
            /\ pass'.todo = pass.todo /\ pass'.failed = pass.failed
        BY <2>5 DEF CommentTyped, Pass
      <3>2. CommentTyped' /\ record'[c] = "pending"  BY <2>1, <2>3, <2>5, <3>1 DEF CommentTyped
      <3>3. \A d \in Comments : d # c => record'[d] = record[d]  BY <2>5 DEF CommentTyped
      <3>4. ClaimedBeforeActing'
        BY <2>1, <2>3, <2>5, <3>1, <3>2, <3>3 DEF ClaimedBeforeActing, ActsAtMostOnce, CommentTyped
      <3>5. StillAhead'
        BY <2>1, <2>5, <3>1, <3>2, <3>3 DEF StillAhead, CommentTyped, WatchedPRs
      <3>6. Written'  BY <2>1, <2>5, <3>1 DEF Written
      <3> QED BY <3>2, <3>4, <3>5, <3>6
    <2>6. CASE DispatchErrs(c)
      <3>0. Done(c, TRUE) /\ transient' = transient \cup {c} /\ UNCHANGED <<acting, record>>
        BY <2>6 DEF DispatchErrs
      <3>1. /\ pass' \in Pass /\ pass'.at \in {"fetch", "dispatch"}
            /\ pass'.todo = pass.todo \ {c} /\ (pass'.at = "fetch" => pass'.todo = {})
            /\ pass'.failed
        BY <3>0, AfterDone
      <3>2. CommentTyped'  BY <2>1, <2>3, <3>0, <3>1 DEF CommentTyped
      <3>3. ClaimedBeforeActing' /\ Written'
        BY <2>1, <2>3, <3>0, <3>1 DEF ClaimedBeforeActing, ActsAtMostOnce, Written
      <3>4. StillAhead'
        BY <2>1, <2>3, <3>0, <3>1 DEF StillAhead, WatchedPRs
      <3> QED BY <3>2, <3>3, <3>4
    <2> QED BY <2>2, <2>4, <2>5, <2>6 DEF Claim, Unclaimed
  <1>7. CASE RunHandler
    <2> DEFINE c == acting
    <2>1. /\ pass.at = "handler" /\ acting' = NoComment /\ UNCHANGED <<now, comment, cursor, transient>>
          /\ c \in pass.todo /\ record[c] = "pending" /\ acted[c] = 0 /\ c \in Comments
      BY <1>7 DEF RunHandler, ClaimedBeforeActing, CommentTyped, Pass
    <2>2. PICK f \in BOOLEAN, to \in {"no_op", "ok", "error"} :
             Done(c, f) /\ record' = [record EXCEPT ![c] = to]
      BY <1>7 DEF RunHandler
    <2>3. UNCHANGED acted \/ acted' = [acted EXCEPT ![c] = @ + 1]
      BY <1>7 DEF RunHandler, Acts
    <2>4. status' \in [PRs -> Statuses] /\ WatchedPRs' \subseteq WatchedPRs
      <3>1. UNCHANGED status \/ (Applicable(c) /\ status' = [status EXCEPT ![comment[c].pr] = After(c)])
        BY <1>7 DEF RunHandler
      <3>2. comment[c].pr \in PRs /\ comment[c].kind \in Kinds  BY <2>1 DEF CommentTyped
      <3>3. ASSUME Applicable(c)
            PROVE  After(c) \in Statuses /\ status[comment[c].pr] # "done"
        BY <3>2, <3>3 DEF Applicable, After, Statuses, CommentTyped, Kinds
      <3> QED BY <3>1, <3>2, <3>3 DEF CommentTyped, WatchedPRs
    <2>5. /\ pass' \in Pass /\ pass'.at \in {"fetch", "dispatch"}
          /\ pass'.left = pass.left /\ pass'.todo = pass.todo \ {c}
          /\ pass'.at = "fetch" => pass'.todo = {}
          /\ pass'.failed = (pass.failed \/ f)
      BY <2>1, <2>2, AfterDone
    <2>6. acted' \in [Comments -> Nat] /\ \A d \in Comments : d # c => acted'[d] = acted[d]
      BY <2>1, <2>3 DEF CommentTyped
    <2>7. acted'[c] <= 1  BY <2>1, <2>3 DEF CommentTyped
    <2>8. \A d \in Comments : d # c => record'[d] = record[d]  BY <2>2 DEF CommentTyped
    <2>9. record'[c] \notin {"none", "pending"}  BY <2>1, <2>2 DEF CommentTyped
    <2>10. CommentTyped'  BY <2>1, <2>2, <2>4, <2>5, <2>6 DEF CommentTyped
    <2>11. ClaimedBeforeActing'
      BY <2>1, <2>5, <2>6, <2>7, <2>8, <2>9, <2>10 DEF ClaimedBeforeActing, ActsAtMostOnce, CommentTyped
    <2>12. StillAhead'
      BY <2>1, <2>4, <2>5, <2>8, <2>9 DEF StillAhead, CommentTyped
    <2>13. Written'  BY <2>1, <2>5 DEF Written
    <2> QED BY <2>10, <2>11, <2>12, <2>13
  <1>8. CASE EndPass
    <2>1. /\ pass.at = "fetch" /\ pass.left = {} /\ cursor' = NextCursor
          /\ UNCHANGED <<now, status, comment, acting, transient, record, acted>>
      BY <1>8 DEF EndPass, people
    <2>2. pass' = IdlePass  BY <1>8 DEF EndPass
    <2>3. pass' \in Pass /\ pass'.at = "idle" /\ pass'.todo = {}  BY <2>2 DEF IdlePass, Pass
    <2>4. pass.todo = {}  BY <2>1 DEF Written
    <2>5. cursor' \in Nat  BY <2>1 DEF NextCursor, CommentTyped, Pass
    <2>6. StillAhead'
      BY <2>1, <2>3, <2>4 DEF StillAhead, NextCursor, WatchedPRs
    <2> QED BY <2>1, <2>3, <2>5, <2>6 DEF CommentTyped, ClaimedBeforeActing, ActsAtMostOnce, Written
  <1>9. CASE Restart
    <2>1. /\ transient' = {c \in transient : comment[c].at > cursor'} /\ acting' = NoComment
          /\ UNCHANGED <<now, status, comment, record, acted>>
      BY <1>9 DEF Restart, people
    <2>2. pass' \in Pass /\ pass'.at = "idle" /\ pass'.todo = {}  BY <1>9 DEF Restart, IdlePass, Pass
    <2>3. cursor' \in Nat  BY <1>9 DEF Restart, CommentTyped
    <2> QED
      BY <2>1, <2>2, <2>3
      DEF CommentTyped, ClaimedBeforeActing, ActsAtMostOnce, StillAhead, Written, WatchedPRs
  <1>10. CASE UNCHANGED commentVars
    BY <1>10
    DEF commentVars, CommentTyped, ClaimedBeforeActing, ActsAtMostOnce, StillAhead, Written, WatchedPRs
  <1> QED
    BY <1>1, <1>2, <1>3, <1>4, <1>5, <1>6, <1>7, <1>8, <1>9, <1>10 DEF CommentNext

\* For any number of pull requests, comments, transient errors and crashes and
\* any look-back window: no comment is acted upon twice, because the claim is
\* written before the effect and never taken back.
THEOREM CommentsActOnce == CommentSpec => []ActsAtMostOnce
  <1>1. CommentIInv => ActsAtMostOnce  BY DEF CommentIInv, ClaimedBeforeActing
  <1> QED BY CommentInitial, CommentStep, <1>1, PTL DEF CommentSpec

\* The cursor never passes a comment whose dispatch failed before the claim,
\* whatever else the pass read: a pass that ends without a failure has
\* dispatched every such comment of the pull requests it watched.
THEOREM FailedCommentsAreReread == CommentSpec => []FailedAreReread
  <1>1. CommentIInv => FailedAreReread  BY DEF CommentIInv, StillAhead, FailedAreReread
  <1> QED BY CommentInitial, CommentStep, <1>1, PTL DEF CommentSpec

-----------------------------------------------------------------------------
(* What the pipeline says once                                               *)

\* What stands for a guard: as long as it is open nothing was said, and while
\* somebody is between the guard and the words nothing was said either.
NudgeGuard ==
    /\ agent \in [Rounds -> [live : BOOLEAN, ended : BOOLEAN, nudged : BOOLEAN]]
    /\ nudges \in [Rounds -> 0..1] /\ nudging \subseteq Rounds
    /\ \A w \in Rounds : ~agent[w].nudged => nudges[w] = 0 /\ w \notin nudging
    /\ \A w \in nudging : nudges[w] = 0
FanoutGuard ==
    /\ rows \in Seq({"park", "note"}) /\ Len(rows) <= MaxContext
    /\ fanned \subseteq 1..MaxContext /\ telling \subseteq fanned
    /\ told \in [1..MaxContext -> 0..1]
    /\ \A i \in 1..MaxContext : i \notin fanned \/ i \in telling => told[i] = 0
NeedleGuard ==
    /\ needles \in [Rounds -> 0..1] /\ reading \subseteq Rounds
    /\ \A w \in reading : needles[w] = 0
NoticeIInv == NudgeGuard /\ FanoutGuard /\ NeedleGuard

\* One nudge for an agent's round, one fan-out for a park episode and one
\* pickup line for a round, for any number of rounds, rows and restarts: each
\* guard is consumed before the words, and a restart drops the words and never
\* reopens the guard; the pickup line is read for before every post.
THEOREM NoticesSaidOnce == NoticeSpec => []SaidOnce
  <1> USE NoticeAssumption
  <1>1. NoticeInit => NoticeIInv
    BY DEF NoticeInit, NoticeIInv, NudgeGuard, FanoutGuard, NeedleGuard
  <1>2. NoticeIInv /\ [NoticeNext]_noticeVars => NoticeIInv'
    <2> SUFFICES ASSUME NoticeIInv, [NoticeNext]_noticeVars PROVE NoticeIInv'
      OBVIOUS
    <2> USE DEF NoticeIInv
    <2>n. NudgeGuard'
      <3>1. ASSUME NEW w \in Rounds, TurnEnds(w) \/ Retired(w) PROVE NudgeGuard'
        <4> DEFINE AgentRow == [live : BOOLEAN, ended : BOOLEAN, nudged : BOOLEAN]
        <4>1. agent[w] \in AgentRow /\ agent \in [Rounds -> AgentRow]  BY DEF NudgeGuard
        <4>2. PICK r \in AgentRow : agent' = [agent EXCEPT ![w] = r] /\ r.nudged = agent[w].nudged
          <5>1. CASE TurnEnds(w)
            <6>1. [agent[w] EXCEPT !.ended = TRUE] \in AgentRow
                  /\ [agent[w] EXCEPT !.ended = TRUE].nudged = agent[w].nudged
              BY <4>1
            <6> QED BY <5>1, <6>1 DEF TurnEnds
          <5>2. CASE Retired(w)
            <6>1. [agent[w] EXCEPT !.live = FALSE] \in AgentRow
                  /\ [agent[w] EXCEPT !.live = FALSE].nudged = agent[w].nudged
              BY <4>1
            <6> QED BY <5>2, <6>1 DEF Retired
          <5> QED BY <3>1, <5>1, <5>2
        <4>3. agent' \in [Rounds -> AgentRow] /\ \A v \in Rounds : agent'[v].nudged = agent[v].nudged
          <5> HIDE DEF AgentRow
          <5> QED BY <4>1, <4>2
        <4> QED BY <3>1, <4>3 DEF TurnEnds, Retired, NudgeGuard
      <3>2. ASSUME NEW w \in Rounds, ConsumeTurnEnd(w) PROVE NudgeGuard'
        BY <3>2 DEF ConsumeTurnEnd, Nudgeable, NudgeGuard
      <3>3. ASSUME NEW w \in Rounds, EnqueueNudge(w) PROVE NudgeGuard'
        BY <3>3 DEF EnqueueNudge, NudgeGuard
      <3>4. CASE Stop  BY <3>4 DEF Stop, NudgeGuard
      <3>5. CASE UNCHANGED nudge  BY <3>5 DEF nudge, NudgeGuard
      <3> QED
        BY <3>1, <3>2, <3>3, <3>4, <3>5
        DEF NoticeNext, noticeVars, nudge, ReadsForNeedle, PostPickupComment, WriteContext, ClaimParkFanout,
            NotifyParkFanout, PRChanges, HandlePipelineReply
    <2>f. FanoutGuard'
      <3>1. ASSUME NEW kind \in {"park", "note"}, WriteContext(kind) PROVE FanoutGuard'
        BY <3>1 DEF WriteContext, FanoutGuard
      <3>2. CASE ClaimParkFanout
        <4>1. Anchor \in 1..MaxContext  BY <3>2 DEF ClaimParkFanout, Anchor, FanoutGuard
        <4>2. /\ Anchor \notin fanned /\ fanned' = fanned \cup {Anchor} /\ telling' = telling \cup {Anchor}
              /\ UNCHANGED <<rows, told>>
          BY <3>2 DEF ClaimParkFanout, FirstForEpisode
        <4> QED BY <4>1, <4>2 DEF FanoutGuard
      <3>3. ASSUME NEW i \in telling, NotifyParkFanout(i) PROVE FanoutGuard'
        <4>1. told[i] = 0 /\ i \in 1..MaxContext  BY DEF FanoutGuard
        <4>2. told' = [told EXCEPT ![i] = 1] \/ told' = told
          BY <3>3, <4>1 DEF NotifyParkFanout, FanoutGuard
        <4> QED BY <3>3, <4>1, <4>2 DEF NotifyParkFanout, FanoutGuard
      <3>4. CASE Stop  BY <3>4 DEF Stop, FanoutGuard
      <3>5. CASE UNCHANGED park  BY <3>5 DEF park, FanoutGuard
      <3> QED
        BY <3>1, <3>2, <3>3, <3>4, <3>5
        DEF NoticeNext, noticeVars, park, TurnEnds, Retired, ConsumeTurnEnd, EnqueueNudge, ReadsForNeedle,
            PostPickupComment, PRChanges, HandlePipelineReply
    <2>p. NeedleGuard'
      <3>1. ASSUME NEW w \in Rounds, ReadsForNeedle(w) PROVE NeedleGuard'
        BY <3>1 DEF ReadsForNeedle, NoNeedle, NeedleGuard
      <3>2. ASSUME NEW w \in Rounds, PostPickupComment(w) PROVE NeedleGuard'
        BY <3>2 DEF PostPickupComment, NeedleGuard
      <3>3. CASE Stop  BY <3>3 DEF Stop, NeedleGuard
      <3>4. CASE UNCHANGED pickup  BY <3>4 DEF pickup, NeedleGuard
      <3> QED
        BY <3>1, <3>2, <3>3, <3>4
        DEF NoticeNext, noticeVars, pickup, TurnEnds, Retired, ConsumeTurnEnd, EnqueueNudge, WriteContext,
            ClaimParkFanout, NotifyParkFanout, PRChanges, HandlePipelineReply
    <2> QED BY <2>n, <2>f, <2>p
  <1>3. NoticeIInv => SaidOnce
    BY DEF NoticeIInv, NudgeGuard, FanoutGuard, NeedleGuard, SaidOnce
  <1> QED BY <1>1, <1>2, <1>3, PTL DEF NoticeSpec

-----------------------------------------------------------------------------
(* The ticket board                                                          *)

\* The map row exists as long as there is a task: nothing the mirror writes to
\* it makes it look unclaimed.
MapRow == [pending : Columns \cup {NoColumn}, last : Columns \cup {NoColumn}, due : BOOLEAN, url : Nat]
PushRow == [at : {"idle", "column", "fill", "fillOnly", "columnSet", "link", "linkSet"},
            col : Columns \cup {NoColumn}, url : Nat]
BoardTyped ==
    /\ row \in MapRow /\ push \in PushRow /\ prURL \in Nat
    /\ push.at \in {"column", "fill", "fillOnly", "columnSet"} => push.col # NoColumn
OneTask ==
    /\ tasks \in Seq([worktree : BOOLEAN]) /\ Len(tasks) <= 1
    /\ Len(tasks) > 0 => row.pending # NoColumn
OneVerb ==
    /\ approved \in [Approvals -> 0..1] /\ ticketLog \subseteq Approvals
    /\ \A a \in Approvals : a \notin ticketLog => approved[a] = 0
    /\ verb # "none" => verb \in ticketLog /\ approved[verb] = 0
TicketIInv == BoardTyped /\ OneTask /\ OneVerb

LEMMA DerivedIsColumn == DerivedState \in Columns \cup {NoColumn}
  BY DEF DerivedState, Columns

\* One issue becomes one task, and one comment on the ticket runs the verb
\* once, for any number of daemons, comments, crashes and re-read windows.
THEOREM OneIssueOneTask == TicketSpec => []OneTaskOneVerb
  <1> USE TicketAssumption
  <1>1. TicketInit => TicketIInv
    BY DEF TicketInit, TicketIInv, BoardTyped, OneTask, OneVerb, NoRow, NoPush, MapRow, PushRow
  <1>2. TicketIInv /\ [TicketNext]_ticketVars => TicketIInv'
    <2> SUFFICES ASSUME TicketIInv, [TicketNext]_ticketVars PROVE TicketIInv'
      OBVIOUS
    <2> USE DEF TicketIInv
    <2>b. BoardTyped' /\ (tasks' = tasks => (row.pending # NoColumn => row'.pending # NoColumn))
      <3>1. CASE ClaimIssue
        <4>1. CASE row = NoRow
          <5> DEFINE r == [NoRow EXCEPT !.pending = "In Progress"]
          <5>1. r \in MapRow  BY DEF NoRow, MapRow, Columns, NoColumn
          <5>2. row' = r /\ UNCHANGED <<push, prURL>>
            BY <3>1, <4>1 DEF ClaimIssue, Unmapped, mirror
          <5>3. row.pending = NoColumn  BY <4>1 DEF NoRow
          <5> QED BY <5>1, <5>2, <5>3 DEF BoardTyped
        <4>2. CASE row # NoRow
          BY <3>1, <4>2 DEF ClaimIssue, Unmapped, mirror, BoardTyped
        <4> QED BY <4>1, <4>2
      <3>2. CASE TaskMoves
        BY <3>2 DEF TaskMoves, mirror, BoardTyped
      <3>3. CASE OperatorSets
        BY <3>3 DEF OperatorSets, mirror, BoardTyped, MapRow, Columns, NoColumn
      <3>4. CASE ReconcileReads
        <4>1. Wanted \in Columns /\ Wanted # NoColumn
          BY <3>4, DerivedIsColumn DEF ReconcileReads, Wanted, BoardTyped, MapRow
        <4>2. PICK at \in {"column", "fill", "fillOnly"} : push' = [push EXCEPT !.col = Wanted, !.at = at]
          BY <3>4 DEF ReconcileReads
        <4>3. push' \in PushRow /\ push'.col = Wanted
          BY <4>1, <4>2 DEF PushRow, BoardTyped
        <4> QED BY <3>4, <4>1, <4>3 DEF ReconcileReads, BoardTyped
      <3>5. CASE FillDerived
        <4>1. push.col \in Columns /\ push.col # NoColumn  BY <3>5 DEF FillDerived, BoardTyped, PushRow
        <4>2. push' \in PushRow /\ (push'.at = "column" => push'.col # NoColumn)
              /\ push'.at \in {"column", "idle"}
          BY <3>5, <4>1 DEF FillDerived, BoardTyped, PushRow, NoPush
        <4>3. row' \in MapRow /\ row'.pending # NoColumn
          BY <3>5, <4>1 DEF FillDerived, BoardTyped, MapRow
        <4> QED BY <3>5, <4>2, <4>3 DEF FillDerived, BoardTyped
      <3>6. CASE SetIssueColumn
        <4>1. \/ push' = NoPush
              \/ push' = [push EXCEPT !.at = "columnSet"] /\ push.at = "column"
          BY <3>6 DEF SetIssueColumn
        <4>2. push' \in PushRow /\ (push'.at # "idle" => push'.col # NoColumn)
          BY <4>1 DEF BoardTyped, PushRow, NoPush
        <4>3. row' \in MapRow /\ row'.pending = row.pending
          BY <3>6 DEF SetIssueColumn, BoardTyped, MapRow
        <4> QED BY <3>6, <4>2, <4>3 DEF SetIssueColumn, BoardTyped
      <3>7. CASE ColumnRecorded
        BY <3>7 DEF ColumnRecorded, BoardTyped, MapRow, PushRow, NoPush
      <3>8. CASE BackoffDelay
        BY <3>8 DEF BackoffDelay, mirror, BoardTyped, MapRow
      <3>9. CASE LinkReads
        BY <3>9 DEF LinkReads, BoardTyped, PushRow
      <3>10. CASE AddIssueLink
        BY <3>10 DEF AddIssueLink, BoardTyped, PushRow, NoPush
      <3>11. CASE LinkRecorded
        BY <3>11 DEF LinkRecorded, BoardTyped, PushRow, MapRow, NoPush
      <3>12. CASE BoardCrash
        BY <3>12 DEF BoardCrash, BoardTyped, PushRow, NoPush
      <3>13. CASE UNCHANGED <<row, push, prURL>>
        BY <3>13 DEF BoardTyped
      <3> QED
        BY <3>1, <3>2, <3>3, <3>4, <3>5, <3>6, <3>7, <3>8, <3>9, <3>10, <3>11, <3>12, <3>13
        DEF TicketNext, ticketVars, IntakeIssues, CommentApprovalsOnce, ApproveByTicket, mirror
    <2>t. OneTask'
      <3>1. CASE ClaimIssue /\ row = NoRow
        <4>1. row.pending = NoColumn  BY <3>1 DEF NoRow
        <4>2. Len(tasks) = 0  BY <4>1 DEF OneTask
        <4>3. tasks' = Append(tasks, [worktree |-> worktree' = "usable"]) /\ row' = [NoRow EXCEPT !.pending = "In Progress"]
          BY <3>1 DEF ClaimIssue, Unmapped
        <4>4. row'.pending = "In Progress"  BY <4>3 DEF NoRow
        <4> DEFINE t == [worktree |-> worktree' = "usable"]
        <4>5. t \in [worktree : BOOLEAN]
          <5>1. (worktree' = "usable") \in BOOLEAN  OBVIOUS
          <5> QED BY <5>1
        <4>6. tasks' = Append(tasks, t)  BY <4>3
        <4> HIDE DEF t
        <4>7. tasks' \in Seq([worktree : BOOLEAN]) /\ Len(tasks') = 1
          <5> DEFINE T == [worktree : BOOLEAN]
          <5>1. tasks \in Seq(T) /\ t \in T  BY <4>5 DEF OneTask
          <5> HIDE DEF T
          <5>2. tasks' \in Seq(T) /\ Len(tasks') = 1  BY <4>2, <4>6, <5>1
          <5> QED BY <5>2 DEF T
        <4>8. row'.pending # NoColumn  BY <4>4 DEF NoColumn
        <4>9. Len(tasks') <= 1  BY <4>7
        <4> QED BY <4>7, <4>8, <4>9 DEF OneTask
      <3>2. CASE UNCHANGED tasks
        BY <2>b, <3>2 DEF OneTask
      <3> QED
        BY <3>1, <3>2
        DEF TicketNext, ticketVars, intake, ClaimIssue, Unmapped, IntakeIssues, TaskMoves, OperatorSets,
            ReconcileReads, FillDerived, SetIssueColumn, ColumnRecorded, BackoffDelay, LinkReads,
            AddIssueLink, LinkRecorded, CommentApprovalsOnce, ApproveByTicket, BoardCrash
    <2>v. OneVerb'
      <3>1. CASE CommentApprovalsOnce
        <4>1. PICK a \in Approvals : a \notin ticketLog /\ ticketLog' = ticketLog \cup {a} /\ verb' = a
          BY <3>1 DEF CommentApprovalsOnce, Unlogged
        <4> QED BY <3>1, <4>1 DEF CommentApprovalsOnce, OneVerb
      <3>2. CASE ApproveByTicket
        <4>1. verb \in ticketLog /\ verb \in Approvals /\ approved[verb] = 0 /\ verb' = "none"
              /\ approved' = [approved EXCEPT ![verb] = @ + 1] /\ UNCHANGED ticketLog
          BY <3>2 DEF ApproveByTicket, OneVerb
        <4> QED BY <4>1 DEF OneVerb
      <3>3. CASE BoardCrash
        BY <3>3 DEF BoardCrash, OneVerb
      <3>4. CASE UNCHANGED approvals
        BY <3>4 DEF approvals, OneVerb
      <3> QED
        BY <3>1, <3>2, <3>3, <3>4
        DEF TicketNext, ticketVars, approvals, ClaimIssue, IntakeIssues, TaskMoves, OperatorSets,
            ReconcileReads, FillDerived, SetIssueColumn, ColumnRecorded, BackoffDelay, LinkReads,
            AddIssueLink, LinkRecorded
    <2> QED BY <2>b, <2>t, <2>v
  <1>3. TicketIInv => OneTaskOneVerb
    BY DEF TicketIInv, OneTask, OneVerb, OneTaskOneVerb
  <1> QED BY <1>1, <1>2, <1>3, PTL DEF TicketSpec

-----------------------------------------------------------------------------
(* The deploy                                                                *)

Process == [at : {"gone", "checking", "writing", "running"}, ver : Nat]
Steps == {"preflight", "pull", "build", "migrate", "stop", "wait", "copy", "start", "watch",
          "green", "failed", "refused"}
DeployTyped ==
    /\ origin \in Nat /\ checkout \in Nat /\ staging \in Nat /\ binary \in Nat
    /\ daemon \in [Starters -> Process]
    /\ errors \in BOOLEAN /\ meddled \in BOOLEAN
    /\ deploy \in [at : Steps, commit : Nat]

\* What is announced is what was checked out, built and swapped in, and unless
\* somebody meddled the unit is down from the wait to the start and afterwards
\* runs what was swapped in.
CarriesCommit ==
    /\ deploy.at = "build" => checkout = deploy.commit
    /\ deploy.at \in {"migrate", "stop", "wait", "copy"} => staging = deploy.commit
    /\ deploy.at \in {"start", "watch"} => binary = deploy.commit
UnitIsDown == (deploy.at \in {"copy", "start"} /\ ~meddled) => ~Alive("unit")
UnitRunsIt == (deploy.at = "watch" /\ ~meddled /\ Alive("unit")) => daemon["unit"].ver = deploy.commit
DeployIInv == DeployTyped /\ CarriesCommit /\ UnitIsDown /\ UnitRunsIt

LEMMA StepOfDeploy ==
    ASSUME DeployTyped, NEW step \in Steps, DeployGoes(step)
    PROVE  deploy' \in [at : Steps, commit : Nat] /\ deploy'.at = step /\ deploy'.commit = deploy.commit
  BY DEF DeployTyped, DeployGoes

\* A process is launched from the binary of the moment, or goes, or moves on.
LEMMA StepOfDaemon ==
    ASSUME DeployTyped, NEW s \in Starters,
           \/ daemon' = [daemon EXCEPT ![s] = NoProcess]
           \/ daemon' = Launch(s, daemon)
           \/ daemon' = [daemon EXCEPT ![s].at = "writing"] /\ Alive(s)
           \/ daemon' = [daemon EXCEPT ![s].at = "running"] /\ Alive(s)
    PROVE  /\ daemon' \in [Starters -> Process]
           /\ \A t \in Starters : t # s => daemon'[t] = daemon[t]
           /\ (Alive("unit")' /\ ~(s = "unit" /\ daemon' = Launch(s, daemon)))
                => Alive("unit") /\ daemon'["unit"].ver = daemon["unit"].ver
           /\ daemon' = Launch(s, daemon) => Alive(s)' /\ daemon'[s].ver = binary
  <1> DEFINE L == [at |-> "checking", ver |-> binary]
  <1>1. L \in Process /\ L.at = "checking" /\ L.ver = binary  BY DEF DeployTyped, Process
  <1>2. NoProcess \in Process /\ NoProcess.at = "gone"  BY DEF NoProcess, Process
  <1>3. Launch(s, daemon) = [daemon EXCEPT ![s] = L]  BY DEF Launch
  <1> HIDE DEF L
  <1>4. CASE daemon' = [daemon EXCEPT ![s] = NoProcess]
    <2>1. ~Alive(s)'  BY <1>2, <1>4 DEF Alive, DeployTyped
    <2>2. daemon' # Launch(s, daemon)  BY <1>1, <1>2, <1>3, <1>4 DEF DeployTyped
    <2> QED BY <1>2, <1>4, <2>1, <2>2 DEF Alive, DeployTyped, Starters
  <1>5. CASE daemon' = Launch(s, daemon)
    BY <1>1, <1>3, <1>5 DEF Alive, DeployTyped, Starters
  <1>6. ASSUME NEW at \in {"writing", "running"}, daemon' = [daemon EXCEPT ![s].at = at], Alive(s)
        PROVE  /\ daemon' \in [Starters -> Process]
               /\ \A t \in Starters : t # s => daemon'[t] = daemon[t]
               /\ Alive("unit")' => Alive("unit") /\ daemon'["unit"].ver = daemon["unit"].ver
               /\ daemon' # Launch(s, daemon)
    <2> DEFINE r == [daemon[s] EXCEPT !.at = at]
    <2>1. r \in Process /\ r.at = at /\ r.ver = daemon[s].ver  BY <1>6 DEF DeployTyped, Process
    <2>2. daemon' = [daemon EXCEPT ![s] = r]  BY <1>6
    <2> HIDE DEF r
    <2>3. daemon' # Launch(s, daemon)  BY <1>1, <1>3, <2>1, <2>2 DEF DeployTyped
    <2> QED BY <1>6, <2>1, <2>2, <2>3 DEF Alive, DeployTyped, Starters
  <1> QED BY <1>4, <1>5, <1>6

\* Bringing the unit up, when it is not: what it then runs is the binary.
LEMMA StepOfUnit ==
    ASSUME DeployTyped, daemon' = StartUnit(daemon)
    PROVE  /\ daemon' \in [Starters -> Process]
           /\ ~Alive("unit") => daemon'["unit"].ver = binary
  <1>1. CASE Alive("unit")  BY <1>1 DEF StartUnit, DeployTyped
  <1>2. CASE ~Alive("unit")
    <2>1. daemon' = Launch("unit", daemon) /\ "unit" \in Starters  BY <1>2 DEF StartUnit, Starters
    <2> QED BY <2>1, StepOfDaemon
  <1> QED BY <1>1, <1>2

LEMMA DeployInitial == DeployInit => DeployIInv
  <1> SUFFICES ASSUME DeployInit PROVE DeployIInv
    OBVIOUS
  <1>1. daemon \in [Starters -> Process]
    <2>1. NoProcess \in Process /\ [at |-> "running", ver |-> 1] \in Process  BY DEF NoProcess, Process
    <2> QED BY <2>1 DEF DeployInit
  <1>2. deploy \in [at : Steps, commit : Nat] /\ deploy.at = "preflight"  BY DEF DeployInit, Steps
  <1> QED
    BY <1>1, <1>2 DEF DeployInit, DeployIInv, DeployTyped, CarriesCommit, UnitIsDown, UnitRunsIt

LEMMA DeployStep == DeployIInv /\ [DeployNext]_deployVars => DeployIInv'
  <1> SUFFICES ASSUME DeployIInv, [DeployNext]_deployVars PROVE DeployIInv'
    OBVIOUS
  <1> USE DEF DeployIInv
  <1> DEFINE Inv == CarriesCommit /\ UnitIsDown /\ UnitRunsIt
  <1>0. "unit" \in Starters /\ "hand" \in Starters  BY DEF Starters
  (* The processes come and go beside the deploy. *)
  <1>1. ASSUME NEW s \in Starters, UNCHANGED <<repo, files, deploy>>, errors' \in BOOLEAN,
               \/ daemon' = [daemon EXCEPT ![s] = NoProcess]
               \/ daemon' = [daemon EXCEPT ![s].at = "writing"] /\ Alive(s)
               \/ daemon' = [daemon EXCEPT ![s].at = "running"] /\ Alive(s)
               \/ daemon' = Launch(s, daemon)
                  /\ (s = "unit" /\ deploy.at \in {"copy", "start"} => meddled'),
               meddled' \in BOOLEAN, meddled => meddled'
        PROVE  DeployIInv'
    <2>1. /\ daemon' \in [Starters -> Process]
          /\ \A t \in Starters : t # s => daemon'[t] = daemon[t]
          /\ (Alive("unit")' /\ ~(s = "unit" /\ daemon' = Launch(s, daemon)))
               => Alive("unit") /\ daemon'["unit"].ver = daemon["unit"].ver
          /\ daemon' = Launch(s, daemon) => Alive(s)' /\ daemon'[s].ver = binary
      BY <1>1, StepOfDaemon
    <2>2. UNCHANGED <<origin, checkout, staging, binary, deploy>>  BY <1>1 DEF repo, files
    <2>3. DeployTyped' /\ CarriesCommit'  BY <1>1, <2>1, <2>2 DEF DeployTyped, CarriesCommit
    <2>4. CASE s = "unit" /\ daemon' = Launch(s, daemon)
      <3>1. deploy.at \in {"copy", "start"} => meddled'
        <4>1. ~(daemon' = [daemon EXCEPT ![s] = NoProcess])
          BY <1>0, <2>1, <2>4 DEF Alive, NoProcess, DeployTyped
        <4>2. Launch(s, daemon)[s].at = "checking"  BY DEF Launch, DeployTyped
        <4>3. daemon'[s].at = "checking"  BY <2>4, <4>2
        <4>4. ASSUME NEW at \in {"writing", "running"}, daemon' = [daemon EXCEPT ![s].at = at] PROVE FALSE
          BY <4>3, <4>4 DEF DeployTyped, Process
        <4> QED BY <1>1, <2>4, <4>1, <4>4
      <3> QED BY <1>1, <2>1, <2>2, <2>3, <2>4, <3>1 DEF UnitIsDown, UnitRunsIt, CarriesCommit
    <2>5. CASE ~(s = "unit" /\ daemon' = Launch(s, daemon))
      BY <1>1, <2>1, <2>2, <2>3, <2>5 DEF UnitIsDown, UnitRunsIt
    <2> QED BY <2>4, <2>5
  <1>2. ASSUME NEW s \in Starters, RunForeground(s) PROVE DeployIInv'
    <2>1. Alive(s) /\ UNCHANGED <<repo, files, deploy, meddled>>
      BY <1>2 DEF RunForeground, Alive, around
    <2>2. errors' \in BOOLEAN
      <3>1. errors' = errors \/ errors' = (errors \/ s = "unit")  BY <1>2 DEF RunForeground
      <3> QED BY <3>1 DEF DeployTyped
    <2>3. \/ daemon' = [daemon EXCEPT ![s] = NoProcess]
          \/ daemon' = [daemon EXCEPT ![s].at = "writing"]
          \/ daemon' = [daemon EXCEPT ![s].at = "running"]
      BY <1>2 DEF RunForeground
    <2>4. meddled' \in BOOLEAN /\ (meddled => meddled')  BY <2>1 DEF DeployTyped
    <2> QED BY <1>1, <2>1, <2>2, <2>3, <2>4
  <1>3. CASE \/ \E s \in Starters : DaemonCrashes(s)
             \/ StartByHand \/ StopByHand \/ UnitIsStarted
    <2>1. UNCHANGED <<repo, files, deploy>> /\ errors' = errors
      BY <1>3 DEF DaemonCrashes, StartByHand, StopByHand, UnitIsStarted
    <2>2. meddled' \in BOOLEAN /\ (meddled => meddled')
      <3>1. \/ meddled' = meddled
            \/ meddled' = (meddled \/ deploy.at \in {"wait", "copy", "start"})
        BY <1>3 DEF DaemonCrashes, StartByHand, StopByHand, UnitIsStarted, around
      <3> QED BY <3>1 DEF DeployTyped
    <2>3. CASE \E s \in Starters : DaemonCrashes(s)
      BY <1>1, <2>1, <2>2, <2>3 DEF DaemonCrashes, DeployTyped
    <2>4. CASE StartByHand
      BY <1>0, <1>1, <2>1, <2>2, <2>4 DEF StartByHand, DeployTyped
    <2>5. CASE StopByHand
      BY <1>1, <2>1, <2>2, <2>5 DEF StopByHand, Leaves, DeployTyped
    <2>6. CASE UnitIsStarted
      BY <1>0, <1>1, <2>1, <2>2, <2>6 DEF UnitIsStarted, DeployTyped
    <2> QED BY <1>3, <2>3, <2>4, <2>5, <2>6
  (* The steps of the deploy. *)
  <1>4. CASE RunDeploy
    <2>1. PICK step \in {"pull", "refused"} : DeployGoes(step)
      BY <1>4 DEF RunDeploy
    <2>2. step \in Steps  BY DEF Steps
    <2>3. UNCHANGED <<origin, checkout, staging, binary, daemon, errors, meddled>>
      BY <1>4 DEF RunDeploy, repo, files, box, around
    <2> QED
      BY <2>1, <2>2, <2>3, StepOfDeploy DEF DeployTyped, CarriesCommit, UnitIsDown, UnitRunsIt
  <1>5. CASE Pull
    <2>1. UNCHANGED <<origin, staging, binary, daemon, errors, meddled>>
      BY <1>5 DEF Pull, files, box, around
    <2>2. CASE checkout' = origin /\ deploy' = [at |-> "build", commit |-> origin]
      BY <2>1, <2>2 DEF DeployTyped, CarriesCommit, UnitIsDown, UnitRunsIt, Steps
    <2>3. CASE DeployGoes("failed") /\ UNCHANGED checkout
      <3>1. "failed" \in Steps  BY DEF Steps
      <3> QED
        BY <2>1, <2>3, <3>1, StepOfDeploy DEF DeployTyped, CarriesCommit, UnitIsDown, UnitRunsIt
    <2> QED BY <1>5, <2>2, <2>3 DEF Pull, Fails
  <1>6. CASE BuildStaged \/ Migrate
    <2>1. PICK step \in {"migrate", "stop", "failed"} : DeployGoes(step)
      BY <1>6 DEF BuildStaged, Migrate, Fails
    <2>2. step \in Steps  BY DEF Steps
    <2>3. UNCHANGED <<origin, checkout, binary, daemon, errors, meddled>> /\ staging' \in Nat
      BY <1>6 DEF BuildStaged, Migrate, Fails, repo, files, box, around, DeployTyped
    <2>4. step # "failed" => staging' = deploy.commit
      <3>1. ASSUME Fails, step # "failed" PROVE FALSE
        <4>1. "failed" \in Steps  BY DEF Steps
        <4>2. deploy'.at = "failed"  BY <3>1, <4>1, StepOfDeploy DEF Fails
        <4>3. deploy'.at = step  BY <2>1, <2>2, StepOfDeploy
        <4> QED BY <3>1, <4>2, <4>3
      <3> QED BY <1>6, <3>1 DEF BuildStaged, Migrate, CarriesCommit, files
    <2> QED
      BY <2>1, <2>2, <2>3, <2>4, StepOfDeploy DEF DeployTyped, CarriesCommit, UnitIsDown, UnitRunsIt
  <1>7. CASE StopUnit
    <2>1. PICK step \in {"wait", "failed"} : DeployGoes(step)
      BY <1>7 DEF StopUnit, Fails
    <2>2. step \in Steps  BY DEF Steps
    <2>3. UNCHANGED <<origin, checkout, staging, binary, meddled>> /\ errors' = FALSE /\ deploy.at = "stop"
      BY <1>7 DEF StopUnit, repo, files, around
    <2>4. daemon' \in [Starters -> Process]
      <3>1. daemon' = [daemon EXCEPT !["unit"] = NoProcess] \/ daemon' = daemon
        BY <1>7 DEF StopUnit, Leaves
      <3> QED BY <1>0, <3>1, StepOfDaemon DEF DeployTyped
    <2> QED
      BY <2>1, <2>2, <2>3, <2>4, StepOfDeploy DEF DeployTyped, CarriesCommit, UnitIsDown, UnitRunsIt
  <1>8. CASE GivesUp /\ UNCHANGED <<repo, files, errors, meddled>>
    <2>1. daemon' \in [Starters -> Process]  BY <1>8, StepOfUnit DEF GivesUp
    <2>2. "failed" \in Steps  BY DEF Steps
    <2>3. deploy' \in [at : Steps, commit : Nat] /\ deploy'.at = "failed"
      BY <1>8, <2>2, StepOfDeploy DEF GivesUp
    <2> QED
      BY <1>8, <2>1, <2>3 DEF DeployTyped, CarriesCommit, UnitIsDown, UnitRunsIt, repo, files
  <1>9. CASE WaitOrchestratorExit
    <2>1. CASE (\A s \in Starters : ~Alive(s)) /\ DeployGoes("copy") /\ UNCHANGED daemon
      <3>1. "copy" \in Steps  BY DEF Steps
      <3>2. deploy' \in [at : Steps, commit : Nat] /\ deploy'.at = "copy" /\ deploy'.commit = deploy.commit
        BY <2>1, <3>1, StepOfDeploy
      <3>3. UNCHANGED <<origin, checkout, staging, binary, errors, meddled>> /\ deploy.at = "wait"
        BY <1>9 DEF WaitOrchestratorExit, repo, files, around
      <3> QED
        BY <1>0, <2>1, <3>2, <3>3 DEF DeployTyped, CarriesCommit, UnitIsDown, UnitRunsIt, Alive
    <2>2. CASE GivesUp
      BY <1>8, <1>9, <2>2 DEF WaitOrchestratorExit, around
    <2> QED BY <1>9, <2>1, <2>2 DEF WaitOrchestratorExit
  <1>10. CASE CopyBinary
    <2>1. CASE binary' = staging /\ DeployGoes("start") /\ UNCHANGED daemon
      <3>1. "start" \in Steps  BY DEF Steps
      <3>2. deploy' \in [at : Steps, commit : Nat] /\ deploy'.at = "start" /\ deploy'.commit = deploy.commit
        BY <2>1, <3>1, StepOfDeploy
      <3>3. UNCHANGED <<origin, checkout, staging, errors, meddled>> /\ deploy.at = "copy"
        BY <1>10 DEF CopyBinary, repo, around
      <3> QED
        BY <2>1, <3>2, <3>3 DEF DeployTyped, CarriesCommit, UnitIsDown, UnitRunsIt, Alive
    <2>2. CASE GivesUp /\ UNCHANGED binary
      BY <1>8, <1>10, <2>2 DEF CopyBinary, files, around
    <2> QED BY <1>10, <2>1, <2>2 DEF CopyBinary
  <1>11. CASE SystemctlStart
    <2>0. UNCHANGED <<origin, checkout, binary, errors, meddled>> /\ deploy.at = "start"
      BY <1>11 DEF SystemctlStart, repo, around
    <2>1. CASE daemon' = StartUnit(daemon) /\ staging' = 0 /\ DeployGoes("watch")
      <3>1. "watch" \in Steps  BY DEF Steps
      <3>2. deploy' \in [at : Steps, commit : Nat] /\ deploy'.at = "watch" /\ deploy'.commit = deploy.commit
        BY <2>1, <3>1, StepOfDeploy
      <3>3. daemon' \in [Starters -> Process] /\ (~Alive("unit") => daemon'["unit"].ver = binary)
        BY <2>1, StepOfUnit
      <3> QED
        BY <2>0, <2>1, <3>2, <3>3 DEF DeployTyped, CarriesCommit, UnitIsDown, UnitRunsIt
    <2>2. CASE DeployGoes("failed") /\ UNCHANGED <<daemon, staging>>
      <3>1. "failed" \in Steps  BY DEF Steps
      <3> QED
        BY <2>0, <2>2, <3>1, StepOfDeploy DEF DeployTyped, CarriesCommit, UnitIsDown, UnitRunsIt
    <2> QED BY <1>11, <2>1, <2>2 DEF SystemctlStart, Fails
  <1>12. CASE HealthCheck
    <2>1. PICK step \in {"green", "failed"} : DeployGoes(step)
      BY <1>12 DEF HealthCheck
    <2>2. step \in Steps  BY DEF Steps
    <2>3. UNCHANGED <<origin, checkout, staging, binary, daemon, errors, meddled>>
      BY <1>12 DEF HealthCheck, repo, files, box, around
    <2> QED
      BY <2>1, <2>2, <2>3, StepOfDeploy DEF DeployTyped, CarriesCommit, UnitIsDown, UnitRunsIt
  <1>13. CASE LiveWorkerAgents \/ Push \/ UNCHANGED deployVars
    BY <1>13
    DEF LiveWorkerAgents, Push, deployVars, repo, files, box, around, DeployTyped, CarriesCommit,
        UnitIsDown, UnitRunsIt, Alive
  <1> QED
    BY <1>2, <1>3, <1>4, <1>5, <1>6, <1>7, <1>9, <1>10, <1>11, <1>12, <1>13 DEF DeployNext

\* However many commits are pushed, builds and migrations fail and daemons
\* crash or are started and stopped by hand meanwhile, a deploy that says OK
\* leaves the unit past its PID check on the commit it announced.
THEOREM DeployGreenIsLive == DeploySpec => GreenIsLive
  <1>1. DeployIInv /\ [DeployNext]_deployVars
          => [(deploy'.at = "green" /\ deploy.at # "green" /\ ~meddled)
                => (daemon["unit"].at = "running" /\ daemon["unit"].ver = deploy.commit)]_deployVars
    <2> SUFFICES ASSUME DeployIInv, DeployNext, deploy'.at = "green", deploy.at # "green", ~meddled
                 PROVE  daemon["unit"].at = "running" /\ daemon["unit"].ver = deploy.commit
      OBVIOUS
    <2>1. ASSUME NEW step \in Steps, step # "green", DeployGoes(step) PROVE FALSE
      BY <2>1, StepOfDeploy DEF DeployIInv
    <2>2. HealthCheck
      <3>1. ASSUME UNCHANGED deploy PROVE FALSE  BY <3>1
      <3>2. Steps \ {"green"} = {"preflight", "pull", "build", "migrate", "stop", "wait", "copy",
                                 "start", "watch", "failed", "refused"}
        BY DEF Steps
      <3>3. ~Pull
        <4> SUFFICES ASSUME Pull PROVE FALSE
          OBVIOUS
        <4>1. deploy' = [at |-> "build", commit |-> origin] \/ DeployGoes("failed")  BY DEF Pull, Fails
        <4> QED BY <2>1, <3>2, <4>1
      <3>4. ~RunDeploy /\ ~BuildStaged /\ ~Migrate /\ ~StopUnit /\ ~WaitOrchestratorExit
            /\ ~CopyBinary /\ ~SystemctlStart
        BY <2>1, <3>2
        DEF RunDeploy, BuildStaged, Migrate, StopUnit, WaitOrchestratorExit, CopyBinary, SystemctlStart,
            Fails, GivesUp
      <3> QED
        BY <3>1, <3>3, <3>4
        DEF DeployNext, LiveWorkerAgents, Push, StartByHand, StopByHand, UnitIsStarted, RunForeground, DaemonCrashes
    <2>3. deploy.at = "watch" /\ Settled /\ UnitHealthy
      <3>1. "failed" \in Steps  BY DEF Steps
      <3>2. ~DeployGoes("failed")  BY <2>1, <3>1
      <3> QED BY <2>2, <3>2 DEF HealthCheck
    <2>4. daemon["unit"] \in Process  BY DEF DeployIInv, DeployTyped, Starters
    <2> QED BY <2>3, <2>4 DEF DeployIInv, UnitRunsIt, Settled, UnitHealthy, Alive, Process
  <1> QED BY DeployInitial, DeployStep, <1>1, PTL DEF DeploySpec, GreenIsLive

-----------------------------------------------------------------------------
(* Tasks.  The argument follows what was read before a write: whoever is     *)
(* about to let a task go, in a command, a sweep of the drafts, a trigger or  *)
(* a pane, holds a reading under which its dependencies were done, and what   *)
(* was done once stays in finished.                                          *)

TaskRow == [status : {"none", "pending", "ready", "claimed", "review", "done", "draft",
                      "pending_approval", "rejected", "failed"},
            by : Workers \cup {Nil}, attempt : Nat]
WorkerRow == [row : {"live", "stopped", "gone"}, task : Tasks \cup {Nil}, pane : BOOLEAN,
              doing : Tasks \cup {Nil}]
Finishing == [task : Tasks, to : {"review", "done"}, wakes : SUBSET Tasks, who : Workers \cup {Nil}]
Command == [at : {"none", "add", "draft", "settle", "release"}, unmet : BOOLEAN]
StoreTyped ==
    /\ task \in [Tasks -> TaskRow] /\ worker \in [Workers -> WorkerRow]
    /\ finishing \in SUBSET Finishing /\ adding \in [Tasks -> Command]
    /\ sweeping \in BOOLEAN

\* A task that may go: its dependencies were all done, or it is excepted.
MayGo(t) == t \in sneaked \/ Needs(t) \subseteq finished
LetGo == {"ready", "claimed", "review", "done", "pending_approval"}
EarnedIt ==
    /\ \A t \in Tasks : task[t].status \in LetGo => MayGo(t)
    /\ \A t \in Tasks : Is(t, "done") => t \in finished

\* The readings that somebody still acts upon.
ReadingsHold ==
    /\ \A t \in Tasks : (adding[t].at \in {"settle", "release"} /\ ~adding[t].unmet) => MayGo(t)
    /\ \A t \in Tasks : (sweeping /\ Is(t, "draft")) => MayGo(t)
PanesHold == \A w \in Workers : worker[w].doing # Nil => MayGo(worker[w].doing)
CommitsHold ==
    \A f \in finishing : /\ MayGo(f.task)
                         /\ \A d \in f.wakes : /\ f.to = "done" /\ d # f.task
                                               /\ Needs(d) \subseteq finished \cup {f.task}
StoreIInv == StoreTyped /\ EarnedIt /\ ReadingsHold /\ PanesHold /\ CommitsHold

\* What was let go stays let go: a step keeps the invariant when all it adds is
\* something whose dependencies were done.
LEMMA Carries ==
    ASSUME StoreIInv, StoreTyped', sneaked \subseteq sneaked', finished \subseteq finished',
           \A t \in Tasks : task'[t].status \in LetGo => task[t].status \in LetGo \/ MayGo(t)',
           \A t \in Tasks : Is(t, "done")' => Is(t, "done") \/ t \in finished',
           \A t \in Tasks : (adding'[t].at \in {"settle", "release"} /\ ~adding'[t].unmet)
                              => adding'[t] = adding[t] \/ MayGo(t)',
           \A t \in Tasks : (sweeping' /\ Is(t, "draft")') => (sweeping /\ Is(t, "draft")) \/ MayGo(t)',
           \A w \in Workers : worker'[w].doing # Nil
                                => \/ worker'[w].doing = worker[w].doing
                                   \/ \E t \in Tasks : t = worker'[w].doing /\ MayGo(t),
           \A f \in finishing' : \/ f \in finishing
                                 \/ /\ MayGo(f.task)'
                                    /\ \A d \in f.wakes : /\ f.to = "done" /\ d # f.task
                                                          /\ Needs(d) \subseteq finished' \cup {f.task}
    PROVE  StoreIInv'
  <1>0. \A t : MayGo(t) => MayGo(t)'  BY DEF MayGo
  <1>1. EarnedIt'  BY <1>0 DEF StoreIInv, EarnedIt
  <1>2. ReadingsHold'  BY <1>0 DEF StoreIInv, ReadingsHold
  <1>3. PanesHold'
    <2> SUFFICES ASSUME NEW w \in Workers, worker'[w].doing # Nil PROVE MayGo(worker[w].doing)'
      BY DEF PanesHold
    <2>1. CASE worker'[w].doing = worker[w].doing
      BY <2>1 DEF StoreIInv, PanesHold, MayGo
    <2>2. CASE \E t \in Tasks : t = worker'[w].doing /\ MayGo(t)
      BY <2>2 DEF MayGo
    <2> QED BY <2>1, <2>2
  <1>4. CommitsHold'  BY <1>0 DEF StoreIInv, CommitsHold
  <1> QED BY <1>1, <1>2, <1>3, <1>4 DEF StoreIInv

LEMMA StatusSet ==
    ASSUME StoreTyped, NEW t \in Tasks,
           NEW s \in {"none", "pending", "ready", "claimed", "review", "done", "draft",
                      "pending_approval", "rejected", "failed"},
           Sets(t, s)
    PROVE  /\ task' \in [Tasks -> TaskRow] /\ task'[t].status = s
           /\ \A u \in Tasks : u # t => task'[u] = task[u]
  <1> DEFINE r == [task[t] EXCEPT !.status = s]
  <1>1. r \in TaskRow /\ r.status = s  BY DEF StoreTyped, TaskRow
  <1>2. task' = [task EXCEPT ![t] = r]  BY DEF Sets
  <1> HIDE DEF r
  <1> QED BY <1>1, <1>2 DEF StoreTyped

LEMMA StatusFreed ==
    ASSUME StoreTyped, NEW t \in Tasks, Frees(t)
    PROVE  /\ task' \in [Tasks -> TaskRow] /\ task'[t].status = "ready"
           /\ \A u \in Tasks : u # t => task'[u] = task[u]
  <1> DEFINE r == [task[t] EXCEPT !.status = "ready", !.by = Nil]
  <1>1. r \in TaskRow /\ r.status = "ready"  BY DEF StoreTyped, TaskRow
  <1>2. task' = [task EXCEPT ![t] = r]  BY DEF Frees
  <1> HIDE DEF r
  <1> QED BY <1>1, <1>2 DEF StoreTyped

\* Whoever finds no unmet dependency saw all of them done.
LEMMA ReadsDone ==
    ASSUME StoreIInv, NEW t \in Tasks, ~HasUnmetDeps(t)
    PROVE  MayGo(t)
  BY DEF StoreIInv, EarnedIt, HasUnmetDeps, MayGo, Needs

\* The pane that is rid of its task keeps nothing else.
LEMMA PaneFreed ==
    ASSUME StoreTyped, NEW w \in Workers, worker' = [Released(w) EXCEPT ![w].doing = Nil]
    PROVE  /\ worker' \in [Workers -> WorkerRow]
           /\ \A v \in Workers : worker'[v].doing # Nil => worker'[v].doing = worker[v].doing
  <1> DEFINE a == IF worker[w].row = "gone" THEN "gone" ELSE "live"
             r == [worker[w] EXCEPT !.row = a, !.task = Nil]
             q == [r EXCEPT !.doing = Nil]
  <1>1. a \in {"live", "stopped", "gone"} /\ worker[w] \in WorkerRow  BY DEF StoreTyped
  <1>2. Released(w) = [worker EXCEPT ![w] = r]  BY DEF Released
  <1> HIDE DEF a
  <1>3. r \in WorkerRow  BY <1>1 DEF WorkerRow
  <1> HIDE DEF r
  <1>4. q \in WorkerRow /\ q.doing = Nil  BY <1>3 DEF WorkerRow
  <1>5. worker' = [worker EXCEPT ![w] = q]  BY <1>2, <1>3 DEF StoreTyped
  <1> HIDE DEF q
  <1> QED BY <1>4, <1>5 DEF StoreTyped

LEMMA RowReleased ==
    ASSUME StoreTyped, NEW w \in Workers, worker' = Released(w)
    PROVE  /\ worker' \in [Workers -> WorkerRow]
           /\ \A v \in Workers : worker'[v].doing = worker[v].doing
  <1> DEFINE a == IF worker[w].row = "gone" THEN "gone" ELSE "live"
             r == [worker[w] EXCEPT !.row = a, !.task = Nil]
  <1>1. a \in {"live", "stopped", "gone"} /\ worker[w] \in WorkerRow  BY DEF StoreTyped
  <1>2. worker' = [worker EXCEPT ![w] = r]  BY DEF Released
  <1> HIDE DEF a
  <1>3. r \in WorkerRow /\ r.doing = worker[w].doing  BY <1>1 DEF WorkerRow
  <1> HIDE DEF r
  <1> QED BY <1>2, <1>3 DEF StoreTyped

LEMMA StoreInitial == TaskInit => StoreIInv
  <1> SUFFICES ASSUME TaskInit PROVE StoreIInv
    OBVIOUS
  <1> USE DEF TaskInit
  <1>1. task \in [Tasks -> TaskRow] /\ \A t \in Tasks : task[t].status = "none"
    BY DEF TaskRow
  <1>2. worker \in [Workers -> WorkerRow] /\ \A w \in Workers : worker[w].doing = Nil
    BY DEF WorkerRow
  <1>3. adding \in [Tasks -> Command] /\ \A t \in Tasks : adding[t].at = "none"
    BY DEF Command, NoCommand
  <1> QED
    BY <1>1, <1>2, <1>3
    DEF StoreIInv, StoreTyped, EarnedIt, ReadingsHold, PanesHold, CommitsHold, LetGo, Is

LEMMA StoreStep == StoreIInv /\ [TaskNext]_taskVars => StoreIInv'
  <1> SUFFICES ASSUME StoreIInv, [TaskNext]_taskVars PROVE StoreIInv'
    OBVIOUS
  <1>t. StoreTyped  BY DEF StoreIInv
  (* The commands. *)
  <1>1. ASSUME NEW t \in Tasks, AddTask(t) PROVE StoreIInv'
    <2>1. Sets(t, "pending") /\ UNCHANGED <<worker, finishing, sweeping, finished, sneaked>>
      BY <1>1 DEF AddTask
    <2>2. PICK how \in {"add", "draft"} : adding' = [adding EXCEPT ![t].at = how]
      BY <1>1 DEF AddTask
    <2>3. /\ task' \in [Tasks -> TaskRow] /\ task'[t].status = "pending"
          /\ \A u \in Tasks : u # t => task'[u] = task[u]
      BY <1>t, <2>1, StatusSet
    <2>4. /\ adding' \in [Tasks -> Command] /\ adding'[t].at = how
          /\ \A u \in Tasks : u # t => adding'[u] = adding[u]
      BY <1>t, <2>2 DEF StoreTyped, Command
    <2>5. StoreTyped'  BY <1>t, <2>1, <2>3, <2>4 DEF StoreTyped
    <2> QED BY <2>1, <2>3, <2>4, <2>5, Carries DEF LetGo, Is
  <1>2. ASSUME NEW t \in Tasks, AddReads(t) PROVE StoreIInv'
    <2>1. UNCHANGED <<task, worker, finishing, sweeping, finished, sneaked>>  BY <1>2 DEF AddReads
    <2>2. PICK at \in {"settle", "release"} :
             adding' = [adding EXCEPT ![t] = [at |-> at, unmet |-> HasUnmetDeps(t)]]
      BY <1>2 DEF AddReads
    <2>3. HasUnmetDeps(t) \in BOOLEAN  BY DEF HasUnmetDeps
    <2>4. adding' \in [Tasks -> Command]  BY <1>t, <2>2, <2>3 DEF StoreTyped, Command
    <2>5. \A u \in Tasks : u # t => adding'[u] = adding[u]  BY <1>t, <2>2 DEF StoreTyped
    <2>6. ~adding'[t].unmet => MayGo(t)'
      <3>1. adding'[t].unmet = HasUnmetDeps(t)  BY <1>t, <2>2 DEF StoreTyped
      <3> QED BY <2>1, <3>1, ReadsDone DEF MayGo
    <2>7. StoreTyped'  BY <1>t, <2>1, <2>4 DEF StoreTyped
    <2> QED BY <2>1, <2>5, <2>6, <2>7, Carries DEF Is
  <1>3. ASSUME NEW t \in Tasks, AddSettles(t) \/ DraftRelease(t) PROVE StoreIInv'
    <2>1. /\ UNCHANGED <<worker, finishing, sweeping, finished>> /\ sneaked \subseteq sneaked'
          /\ adding' = [adding EXCEPT ![t] = NoCommand]
      BY <1>3 DEF AddSettles, DraftRelease
    <2>2. /\ adding' \in [Tasks -> Command] /\ adding'[t].at = "none"
          /\ \A u \in Tasks : u # t => adding'[u] = adding[u]
      BY <1>t, <2>1 DEF StoreTyped, Command, NoCommand
    <2>3. CASE /\ adding[t].at = "draft" /\ Sets(t, "draft") /\ (sweeping => t \in sneaked')
      <3>1. /\ task' \in [Tasks -> TaskRow] /\ task'[t].status = "draft"
            /\ \A u \in Tasks : u # t => task'[u] = task[u]
        BY <1>t, <2>3, StatusSet
      <3>2. StoreTyped'  BY <1>t, <2>1, <2>2, <3>1 DEF StoreTyped
      <3> QED BY <2>1, <2>2, <2>3, <3>1, <3>2, Carries DEF LetGo, Is, MayGo
    <2>4. CASE adding[t].at \in {"settle", "release"} /\ ~adding[t].unmet /\ Sets(t, "ready")
      <3>1. /\ task' \in [Tasks -> TaskRow] /\ task'[t].status = "ready"
            /\ \A u \in Tasks : u # t => task'[u] = task[u]
        BY <1>t, <2>4, StatusSet
      <3>2. StoreTyped'  BY <1>t, <2>1, <2>2, <3>1 DEF StoreTyped
      <3>3. MayGo(t)'  BY <2>1, <2>4 DEF StoreIInv, ReadingsHold, MayGo
      <3> QED BY <2>1, <2>2, <3>1, <3>2, <3>3, Carries DEF LetGo, Is
    <2>5. CASE Sets(t, "pending")
      <3>1. /\ task' \in [Tasks -> TaskRow] /\ task'[t].status = "pending"
            /\ \A u \in Tasks : u # t => task'[u] = task[u]
        BY <1>t, <2>5, StatusSet
      <3>2. StoreTyped'  BY <1>t, <2>1, <2>2, <3>1 DEF StoreTyped
      <3> QED BY <2>1, <2>2, <3>1, <3>2, Carries DEF LetGo, Is
    <2>6. CASE UNCHANGED task
      <3>1. StoreTyped'  BY <1>t, <2>1, <2>2, <2>6 DEF StoreTyped
      <3> QED BY <2>1, <2>2, <2>6, <3>1, Carries DEF Is
    <2> QED BY <1>3, <2>3, <2>4, <2>5, <2>6 DEF AddSettles, DraftRelease
  <1>4. CASE DraftReleaseAll
    <2>1. UNCHANGED <<worker, finishing, adding, finished, sneaked>> /\ sweeping' = ~sweeping
      BY <1>4 DEF DraftReleaseAll
    <2>2. CASE /\ ~sweeping
               /\ task' = [t \in Tasks |-> IF Is(t, "draft") /\ HasUnmetDeps(t)
                                           THEN [task[t] EXCEPT !.status = "pending"] ELSE task[t]]
      <3>1. \A t \in Tasks : [task[t] EXCEPT !.status = "pending"] \in TaskRow
                             /\ [task[t] EXCEPT !.status = "pending"].status = "pending"
        BY <1>t DEF StoreTyped, TaskRow
      <3>2. task' \in [Tasks -> TaskRow]  BY <1>t, <2>2, <3>1 DEF StoreTyped
      <3>3. \A t \in Tasks : \/ task'[t] = task[t] /\ (Is(t, "draft") => ~HasUnmetDeps(t))
                             \/ task'[t].status = "pending"
        BY <2>2, <3>1
      <3>4. \A t \in Tasks : Is(t, "draft")' => MayGo(t)'
        BY <2>1, <3>3, ReadsDone DEF Is, MayGo
      <3>5. StoreTyped'  BY <1>t, <2>1, <3>2 DEF StoreTyped
      <3> QED BY <2>1, <3>3, <3>4, <3>5, Carries DEF LetGo, Is
    <2>3. CASE /\ sweeping
               /\ task' = [t \in Tasks |-> IF Is(t, "draft") THEN [task[t] EXCEPT !.status = "ready"] ELSE task[t]]
      <3>1. \A t \in Tasks : [task[t] EXCEPT !.status = "ready"] \in TaskRow
                             /\ [task[t] EXCEPT !.status = "ready"].status = "ready"
        BY <1>t DEF StoreTyped, TaskRow
      <3>2. task' \in [Tasks -> TaskRow]  BY <1>t, <2>3, <3>1 DEF StoreTyped
      <3>3. \A t \in Tasks : \/ task'[t] = task[t]
                             \/ task'[t].status = "ready" /\ Is(t, "draft")
        BY <2>3, <3>1
      <3>4. \A t \in Tasks : Is(t, "draft") => MayGo(t)'
        BY <2>1, <2>3 DEF StoreIInv, ReadingsHold, MayGo
      <3>5. StoreTyped'  BY <1>t, <2>1, <3>2 DEF StoreTyped
      <3> QED BY <2>1, <2>3, <3>3, <3>4, <3>5, Carries DEF Is
    <2> QED BY <1>4, <2>2, <2>3 DEF DraftReleaseAll
  <1>5. ASSUME NEW t \in Tasks, ApproveTask(t) \/ RejectTask(t) PROVE StoreIInv'
    <2>1. UNCHANGED <<worker, finishing, adding, sweeping, finished, sneaked>> /\ Is(t, "pending_approval")
      BY <1>5 DEF ApproveTask, RejectTask
    <2>2. PICK s \in {"ready", "rejected"} : Sets(t, s)  BY <1>5 DEF ApproveTask, RejectTask
    <2>3. /\ task' \in [Tasks -> TaskRow] /\ task'[t].status = s
          /\ \A u \in Tasks : u # t => task'[u] = task[u]
      BY <1>t, <2>2, StatusSet
    <2>4. StoreTyped'  BY <1>t, <2>1, <2>3 DEF StoreTyped
    <2> QED BY <2>1, <2>3, <2>4, Carries DEF LetGo, Is
  <1>6. ASSUME NEW t \in Tasks, Unclaim(t) PROVE StoreIInv'
    <2>1. UNCHANGED <<worker, finishing, adding, sweeping, finished, sneaked>> /\ Is(t, "claimed") /\ Frees(t)
      BY <1>6 DEF Unclaim
    <2>2. /\ task' \in [Tasks -> TaskRow] /\ task'[t].status = "ready"
          /\ \A u \in Tasks : u # t => task'[u] = task[u]
      BY <1>t, <2>1, StatusFreed
    <2>3. StoreTyped'  BY <1>t, <2>1, <2>2 DEF StoreTyped
    <2> QED BY <2>1, <2>2, <2>3, Carries DEF LetGo, Is
  (* The agents. *)
  <1>7. ASSUME NEW w \in Workers, NEW t \in Tasks, TakesOn(w, t) PROVE StoreIInv'
    <2>1. UNCHANGED <<finishing, adding, sweeping, finished, sneaked>> /\ Is(t, "ready")
      BY <1>7 DEF TakesOn
    <2> DEFINE r == [status |-> "claimed", by |-> w, attempt |-> task[t].attempt + 1]
               q == [worker[w] EXCEPT !.row = "live", !.task = t, !.doing = t]
    <2>2. r \in TaskRow /\ r.status = "claimed"  BY <1>t DEF StoreTyped, TaskRow
    <2>3. q \in WorkerRow /\ q.doing = t  BY <1>t DEF StoreTyped, WorkerRow
    <2>4. task' = [task EXCEPT ![t] = r] /\ worker' = [worker EXCEPT ![w] = q]
      BY <1>7 DEF TakesOn
    <2> HIDE DEF r, q
    <2>5. /\ task' \in [Tasks -> TaskRow] /\ task'[t].status = "claimed"
          /\ \A u \in Tasks : u # t => task'[u] = task[u]
      BY <1>t, <2>2, <2>4 DEF StoreTyped
    <2>6. /\ worker' \in [Workers -> WorkerRow] /\ worker'[w].doing = t
          /\ \A v \in Workers : v # w => worker'[v] = worker[v]
      BY <1>t, <2>3, <2>4 DEF StoreTyped
    <2>7. MayGo(t) /\ MayGo(t)'  BY <2>1 DEF StoreIInv, EarnedIt, LetGo, Is, MayGo
    <2>8. StoreTyped'  BY <1>t, <2>1, <2>5, <2>6 DEF StoreTyped
    <2>9. \A v \in Workers : worker'[v].doing # Nil
                               => \/ worker'[v].doing = worker[v].doing
                                  \/ \E u \in Tasks : u = worker'[v].doing /\ MayGo(u)
      BY <2>6, <2>7
    <2>10. \A u \in Tasks : /\ task'[u].status \in LetGo => task[u].status \in LetGo
                            /\ Is(u, "done")' => Is(u, "done")
                            /\ Is(u, "draft")' => Is(u, "draft")
      BY <2>1, <2>5 DEF LetGo, Is
    <2> QED BY <2>1, <2>8, <2>9, <2>10, Carries
  <1>8. ASSUME NEW w \in Workers, AtomicClaim(w) PROVE StoreIInv'
    <2>1. Able \in SUBSET Nat /\ Able # {} /\ Able \subseteq Tasks
      BY <1>8, TaskAssumption DEF AtomicClaim, Able
    <2>2. \E i \in Able : \A j \in Able : i <= j  BY <2>1, HasLeast
    <2>3. Min(Able) \in Tasks  BY <2>1, <2>2 DEF Min
    <2> QED BY <1>7, <1>8, <2>3 DEF AtomicClaim
  <1>9. ASSUME NEW t \in Tasks, NEW to \in {"review", "done"}, NEW w \in Workers \cup {Nil}, MayGo(t),
               Finishes(t, to, w), UNCHANGED <<task, adding, sweeping, finished, sneaked>>,
               worker' \in [Workers -> WorkerRow],
               \A v \in Workers : worker'[v].doing # Nil => worker'[v].doing = worker[v].doing
        PROVE  StoreIInv'
    <2> DEFINE wakes == IF to = "done" THEN Wakes(t) ELSE {}
               f == [task |-> t, to |-> to, wakes |-> wakes, who |-> w]
    <2>1. finishing' = finishing \cup {f}  BY <1>9 DEF Finishes
    <2>2. wakes \in SUBSET Tasks  BY DEF Wakes
    <2>3. \A d \in wakes : to = "done" /\ d # t /\ Needs(d) \subseteq finished \cup {t}
      <3>1. \A d \in Tasks : t \in Needs(d) => d # t  BY TaskAssumption DEF Needs
      <3> QED BY <3>1 DEF Wakes, StoreIInv, EarnedIt, Needs
    <2> HIDE DEF wakes
    <2>f. f \in Finishing /\ f.task = t /\ f.wakes = wakes /\ f.to = to  BY <2>2 DEF Finishing
    <2> HIDE DEF f
    <2>4. PICK g \in Finishing : finishing' = finishing \cup {g} /\ g.task = t /\ g.wakes = wakes /\ g.to = to
      BY <2>1, <2>f
    <2>5. StoreTyped'  BY <1>t, <1>9, <2>4 DEF StoreTyped
    <2>6. MayGo(g.task)' /\ \A d \in g.wakes : /\ g.to = "done" /\ d # g.task
                                              /\ Needs(d) \subseteq finished' \cup {g.task}
      BY <1>9, <2>3, <2>4 DEF MayGo
    <2> QED BY <1>9, <2>4, <2>5, <2>6, Carries DEF Is
  <1>10. ASSUME NEW w \in Workers, MarkDone(w) PROVE StoreIInv'
    <2>1. PICK t \in Tasks : t = worker[w].doing /\ t # Nil /\ MayGo(t)
      BY <1>t, <1>10 DEF MarkDone, StoreTyped, WorkerRow, StoreIInv, PanesHold
    <2>2. UNCHANGED <<task, adding, sweeping, finished, sneaked>>  BY <1>10 DEF MarkDone
    <2>3. CASE /\ Finishes(t, IF t \in Ticketed THEN "review" ELSE "done", w)
               /\ worker' = [worker EXCEPT ![w].doing = Nil]
      <3> DEFINE q == [worker[w] EXCEPT !.doing = Nil]
      <3>1. q \in WorkerRow /\ q.doing = Nil  BY <1>t DEF StoreTyped, WorkerRow
      <3>2. worker' = [worker EXCEPT ![w] = q]  BY <2>3
      <3> HIDE DEF q
      <3>3. /\ worker' \in [Workers -> WorkerRow]
            /\ \A v \in Workers : worker'[v].doing # Nil => worker'[v].doing = worker[v].doing
        BY <1>t, <3>1, <3>2 DEF StoreTyped
      <3> QED BY <1>9, <2>1, <2>2, <2>3, <3>3
    <2>4. CASE worker' = [Released(w) EXCEPT ![w].doing = Nil] /\ UNCHANGED finishing
      <3>1. /\ worker' \in [Workers -> WorkerRow]
            /\ \A v \in Workers : worker'[v].doing # Nil => worker'[v].doing = worker[v].doing
        BY <1>t, <2>4, PaneFreed
      <3>2. StoreTyped'  BY <1>t, <2>2, <2>4, <3>1 DEF StoreTyped
      <3> QED BY <2>2, <2>4, <3>1, <3>2, Carries DEF Is
    <2> QED BY <1>10, <2>1, <2>3, <2>4 DEF MarkDone
  <1>11. ASSUME NEW t \in Tasks, MarkMerged(t) PROVE StoreIInv'
    <2>1. MayGo(t)  BY <1>11 DEF MarkMerged, StoreIInv, EarnedIt, LetGo
    <2> QED BY <1>t, <1>9, <1>11, <2>1 DEF MarkMerged, StoreTyped
  <1>12. CASE DoneCommits
    <2>1. PICK f \in finishing :
            /\ finishing' = finishing \ {f}
            /\ task' = [t \in Tasks |->
                 CASE t = f.task  -> [task[t] EXCEPT !.status = f.to, !.by = IF f.who = Nil THEN @ ELSE Nil]
                   [] t \in f.wakes -> [task[t] EXCEPT !.status = IF t \in Gated THEN "pending_approval" ELSE "ready"]
                   [] OTHER -> task[t]]
            /\ worker' = IF f.who = Nil THEN worker ELSE Released(f.who)
            /\ finished' = IF f.to = "done" THEN finished \cup {f.task} ELSE finished
      BY <1>12 DEF DoneCommits
    <2>2. UNCHANGED <<adding, sweeping, sneaked>>  BY <1>12 DEF DoneCommits
    <2>3. f \in Finishing  BY <1>t DEF StoreTyped
    <2>4. f.task \in Tasks /\ f.to \in {"review", "done"} /\ f.who \in Workers \cup {Nil}
      BY <2>3 DEF Finishing
    <2>w. f.task \notin f.wakes  BY DEF StoreIInv, CommitsHold
    <2> DEFINE by(t) == IF f.who = Nil THEN task[t].by ELSE Nil
               woken(t) == IF t \in Gated THEN "pending_approval" ELSE "ready"
               new(t) == CASE t = f.task -> [task[t] EXCEPT !.status = f.to, !.by = by(t)]
                           [] t \in f.wakes -> [task[t] EXCEPT !.status = woken(t)]
                           [] OTHER -> task[t]
    <2>a. task' = [t \in Tasks |-> new(t)]  BY <2>1
    <2> HIDE DEF by, woken
    <2>5. ASSUME NEW t \in Tasks
          PROVE  /\ new(t) \in TaskRow
                 /\ t = f.task => new(t).status = f.to
                 /\ (t # f.task /\ t \in f.wakes) => new(t).status \in {"ready", "pending_approval"}
                 /\ (t # f.task /\ t \notin f.wakes) => new(t) = task[t]
      <3>0. task[t] \in TaskRow  BY <1>t DEF StoreTyped
      <3>1. CASE t = f.task
        <4>1. new(t) = [task[t] EXCEPT !.status = f.to, !.by = by(t)]  BY <2>w, <3>1
        <4>2. by(t) \in Workers \cup {Nil}  BY <3>0 DEF TaskRow, by
        <4> HIDE DEF new
        <4> QED BY <2>4, <3>0, <3>1, <4>1, <4>2 DEF TaskRow
      <3>2. CASE t # f.task /\ t \in f.wakes
        <4>1. new(t) = [task[t] EXCEPT !.status = woken(t)]  BY <3>2
        <4>2. woken(t) \in {"ready", "pending_approval"}  BY DEF woken
        <4> HIDE DEF new
        <4> QED BY <3>0, <3>2, <4>1, <4>2 DEF TaskRow
      <3>3. CASE t # f.task /\ t \notin f.wakes
        BY <3>0, <3>3
      <3> QED BY <3>1, <3>2, <3>3
    <2> HIDE DEF new
    <2>6. task' \in [Tasks -> TaskRow] /\ \A t \in Tasks : task'[t] = new(t)
      BY <2>a, <2>5
    <2>7. /\ worker' \in [Workers -> WorkerRow]
          /\ \A v \in Workers : worker'[v].doing = worker[v].doing
      <3>1. CASE f.who = Nil  BY <1>t, <2>1, <3>1 DEF StoreTyped
      <3>2. CASE f.who # Nil  BY <1>t, <2>1, <2>4, <3>2, RowReleased
      <3> QED BY <3>1, <3>2
    <2>8. finished \subseteq finished' /\ (f.to = "done" => f.task \in finished')  BY <2>1
    <2>9. MayGo(f.task)' /\ \A d \in f.wakes : MayGo(d)'
      <3>1. MayGo(f.task) /\ \A d \in f.wakes : f.to = "done" /\ Needs(d) \subseteq finished \cup {f.task}
        BY DEF StoreIInv, CommitsHold
      <3> QED BY <2>2, <2>8, <3>1 DEF MayGo
    <2>10. StoreTyped'  BY <1>t, <2>1, <2>2, <2>6, <2>7 DEF StoreTyped
    <2>11. \A t \in Tasks : task'[t].status \in LetGo => task[t].status \in LetGo \/ MayGo(t)'
      BY <2>5, <2>6, <2>9
    <2>12. \A t \in Tasks : Is(t, "done")' => Is(t, "done") \/ t \in finished'
      BY <2>4, <2>5, <2>6, <2>8 DEF Is
    <2>13. \A t \in Tasks : Is(t, "draft")' => Is(t, "draft")
      BY <2>4, <2>5, <2>6 DEF Is
    <2> QED BY <2>1, <2>2, <2>7, <2>8, <2>10, <2>11, <2>12, <2>13, Carries
  <1>13. ASSUME NEW w \in Workers, RecordFailure(w) PROVE StoreIInv'
    <2>1. PICK t \in Tasks : t = worker[w].doing /\ t # Nil /\ MayGo(t)
      BY <1>t, <1>13 DEF RecordFailure, StoreTyped, WorkerRow, StoreIInv, PanesHold
    <2>2. UNCHANGED <<finishing, adding, sweeping, finished, sneaked>>
          /\ worker' = [Released(w) EXCEPT ![w].doing = Nil]
      BY <1>13 DEF RecordFailure
    <2>3. /\ worker' \in [Workers -> WorkerRow]
          /\ \A v \in Workers : worker'[v].doing # Nil => worker'[v].doing = worker[v].doing
      BY <1>t, <2>2, PaneFreed
    <2>4. Sets(t, "failed") \/ Frees(t) \/ UNCHANGED task  BY <1>13, <2>1 DEF RecordFailure
    <2>5. /\ task' \in [Tasks -> TaskRow]
          /\ task' = task \/ task'[t].status \in {"failed", "ready"}
          /\ \A u \in Tasks : u # t => task'[u] = task[u]
      BY <1>t, <2>1, <2>4, StatusSet, StatusFreed DEF StoreTyped
    <2>6. StoreTyped'  BY <1>t, <2>2, <2>3, <2>5 DEF StoreTyped
    <2>7. MayGo(t)'  BY <2>1, <2>2 DEF MayGo
    <2> QED BY <2>1, <2>2, <2>3, <2>5, <2>6, <2>7, Carries DEF Is
  \* Claimed tasks of agents that go are free again.
  <1>14. ASSUME NEW S \in SUBSET Tasks, \A t \in S : Is(t, "claimed"),
                task' = [t \in Tasks |-> IF t \in S THEN [task[t] EXCEPT !.status = "ready", !.by = Nil] ELSE task[t]],
                worker' \in [Workers -> WorkerRow],
                \A v \in Workers : worker'[v].doing # Nil => worker'[v].doing = worker[v].doing,
                UNCHANGED <<finishing, adding, sweeping, finished, sneaked>>
         PROVE  StoreIInv'
    <2>1. ASSUME NEW t \in Tasks
          PROVE  /\ [task[t] EXCEPT !.status = "ready", !.by = Nil] \in TaskRow
                 /\ [task[t] EXCEPT !.status = "ready", !.by = Nil].status = "ready"
      BY <1>t DEF StoreTyped, TaskRow
    <2>2. task' \in [Tasks -> TaskRow]  BY <1>t, <1>14, <2>1 DEF StoreTyped
    <2>3. \A t \in Tasks : task'[t] = task[t] \/ (Is(t, "claimed") /\ task'[t].status = "ready")
      BY <1>14, <2>1
    <2>4. StoreTyped'  BY <1>t, <1>14, <2>2 DEF StoreTyped
    <2> QED BY <1>14, <2>3, <2>4, Carries DEF LetGo, Is
  <1>15. ASSUME NEW w \in Workers, Kill(w) PROVE StoreIInv'
    <2> DEFINE S == {t \in Tasks : task[t].by = w /\ Is(t, "claimed")}
    <2>1. task' = [t \in Tasks |-> IF t \in S THEN [task[t] EXCEPT !.status = "ready", !.by = Nil] ELSE task[t]]
      BY <1>15 DEF Kill
    <2>2. Gone \in WorkerRow /\ Gone.doing = Nil  BY DEF Gone, WorkerRow, Nil
    <2>3. /\ worker' \in [Workers -> WorkerRow]
          /\ \A v \in Workers : worker'[v].doing # Nil => worker'[v].doing = worker[v].doing
      BY <1>t, <1>15, <2>2 DEF Kill, StoreTyped
    <2>4. UNCHANGED <<finishing, adding, sweeping, finished, sneaked>>  BY <1>15 DEF Kill
    <2>5. S \in SUBSET Tasks /\ \A t \in S : Is(t, "claimed")  OBVIOUS
    <2> HIDE DEF S
    <2> QED BY <1>14, <2>1, <2>3, <2>4, <2>5
  <1>16. CASE KillAll
    <2> DEFINE having == {w \in Workers : Registered(w) /\ worker[w].task # Nil}
               S == {t \in Tasks : task[t].by \in having /\ Is(t, "claimed")}
               parked(w) == [worker[w] EXCEPT !.row = "stopped", !.pane = FALSE, !.doing = Nil]
    <2>1. task' = [t \in Tasks |-> IF t \in S THEN [task[t] EXCEPT !.status = "ready", !.by = Nil] ELSE task[t]]
      BY <1>16 DEF KillAll
    <2>2. worker' = [w \in Workers |-> CASE w \in having -> Gone
                                         [] Registered(w) /\ w \notin having -> parked(w)
                                         [] OTHER -> worker[w]]
      BY <1>16 DEF KillAll
    <2>3. Gone \in WorkerRow /\ Gone.doing = Nil  BY DEF Gone, WorkerRow, Nil
    <2>4. \A w \in Workers : parked(w) \in WorkerRow /\ parked(w).doing = Nil
      BY <1>t DEF StoreTyped, WorkerRow
    <2>5. S \in SUBSET Tasks /\ \A t \in S : Is(t, "claimed")  OBVIOUS
    <2> HIDE DEF parked, having, S
    <2>6. \A w \in Workers : worker'[w] = Gone \/ worker'[w] = parked(w) \/ worker'[w] = worker[w]
      BY <2>2
    <2>7. \A w \in Workers : worker'[w] \in WorkerRow
      BY <1>t, <2>3, <2>4, <2>6 DEF StoreTyped
    <2>8. worker' \in [Workers -> WorkerRow]
      <3>1. worker' = [w \in Workers |-> worker'[w]]  BY <2>2
      <3> QED BY <2>7, <3>1
    <2>9. \A v \in Workers : worker'[v].doing # Nil => worker'[v].doing = worker[v].doing
      BY <2>3, <2>4, <2>6
    <2>10. UNCHANGED <<finishing, adding, sweeping, finished, sneaked>>  BY <1>16 DEF KillAll
    <2> QED BY <1>14, <2>1, <2>5, <2>8, <2>9, <2>10
  <1>17. ASSUME NEW w \in Workers, PaneDies(w) \/ SpawnWithLayout(w) PROVE StoreIInv'
    <2>1. UNCHANGED <<task, finishing, adding, sweeping, finished, sneaked>>
      BY <1>17 DEF PaneDies, SpawnWithLayout
    <2>2. PICK q \in WorkerRow : /\ worker' = [worker EXCEPT ![w] = q]
                                 /\ q.doing # Nil => q.doing = worker[w].doing
      <3>1. CASE PaneDies(w)
        <4> DEFINE q == [worker[w] EXCEPT !.pane = FALSE, !.doing = Nil]
        <4>1. q \in WorkerRow /\ q.doing = Nil  BY <1>t DEF StoreTyped, WorkerRow
        <4> QED BY <3>1, <4>1 DEF PaneDies
      <3>2. CASE SpawnWithLayout(w)
        <4> DEFINE q == [worker[w] EXCEPT !.row = "live", !.pane = TRUE]
        <4>1. q \in WorkerRow /\ q.doing = worker[w].doing  BY <1>t DEF StoreTyped, WorkerRow
        <4> QED BY <3>2, <4>1 DEF SpawnWithLayout
      <3> QED BY <1>17, <3>1, <3>2
    <2>3. /\ worker' \in [Workers -> WorkerRow]
          /\ \A v \in Workers : worker'[v].doing # Nil => worker'[v].doing = worker[v].doing
      BY <1>t, <2>2 DEF StoreTyped
    <2>4. StoreTyped'  BY <1>t, <2>1, <2>3 DEF StoreTyped
    <2> QED BY <2>1, <2>3, <2>4, Carries DEF Is
  <1>18. CASE UNCHANGED taskVars
    <2>1. StoreTyped'  BY <1>t, <1>18 DEF taskVars, StoreTyped
    <2> QED BY <1>18, <2>1, Carries DEF taskVars, Is
  <1> QED
    BY <1>1, <1>2, <1>3, <1>4, <1>5, <1>6, <1>7, <1>8, <1>10, <1>11, <1>12, <1>13, <1>15, <1>16, <1>17, <1>18
    DEF TaskNext, ClaimByID, ApproveCommands, KillCommands, SpawnCommand, Reconcile

\* A task is handed out only when every task it depends on was done at some
\* time, for any graph of tasks and any interleaving of the commands, the
\* trigger, the panes, the failures and the kills (a draft made during a
\* release of all drafts excepted).
THEOREM DependenciesFirst == TaskSpec => []DepsFirst
  <1>1. StoreIInv => DepsFirst
    BY DEF StoreIInv, EarnedIt, DepsFirst, MayGo, LetGo
  <1> QED BY StoreInitial, StoreStep, <1>1, PTL DEF TaskSpec
===============================================================================
