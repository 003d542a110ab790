------------------------------- MODULE Notices -------------------------------
(***************************************************************************)
(* What the pipeline says once: the completion nudge of a turn that ended  *)
(* (internal/pipeline/nudge.go, taskscheduler/nudge.go), the fan-out of a  *)
(* park (parkfanout.go), the pickup line of a round (pickup.go), and what  *)
(* comes back as a reply in the Telegram topic (telegram_comment.go,       *)
(* bot/pipeline_reply.go).  Each is guarded by a row or a needle written   *)
(* before or after it is said; the process may stop in between.            *)
(***************************************************************************)
EXTENDS Naturals, FiniteSets, Sequences

CONSTANTS Rounds,      \* rounds: each mints one agent for the task
          MaxContext,      \* bound on task_context rows
          Notes,        \* delivered notifications in the Pipeline topic
          Replies,      \* replies people write to them
          MaxStops      \* bound on restarts

ASSUME NoticeAssumption == MaxContext \in Nat /\ MaxStops \in Nat

VARIABLES
    agent,     \* agents, by round: [live, ended, nudged]
    nudging,   \* agents whose guard is consumed, the prompt not yet queued
    nudges,    \* prompts "nudge:<task>:<agent>" ever queued, by round
    rows,      \* task_context: "park" for what a park writes, else "note"
    fanned,    \* 'parkfanout' markers, by the row they anchor
    telling,   \* fan-outs claimed and not yet posted
    told,      \* comments posted, by anchor
    needles,   \* pickup lines on the pull request, by round
    reading,   \* rounds whose pickup leg read the comments without a needle
    prOpen,
    noteOf,    \* the notification a reply quotes
    replyClaims,   \* telegram_pr_comments, keyed by what the bot passes as message
    said,      \* what became of each reply: "posted", "answered", "dropped"
    stops

noticeVars == <<agent, nudging, nudges, rows, fanned, telling, told, needles, reading, prOpen, noteOf,
                replyClaims, said, stops>>
nudge == <<agent, nudging, nudges>>
park == <<rows, fanned, telling, told>>
pickup == <<needles, reading>>
reply == <<noteOf, replyClaims, said>>

NoticeInit ==
    /\ agent = [w \in Rounds |-> [live |-> TRUE, ended |-> FALSE, nudged |-> FALSE]]
    /\ nudging = {} /\ nudges = [w \in Rounds |-> 0]
    /\ rows = <<>> /\ fanned = {} /\ telling = {} /\ told = [i \in 1..MaxContext |-> 0]
    /\ needles = [w \in Rounds |-> 0] /\ reading = {}
    /\ prOpen \in BOOLEAN
    /\ noteOf \in [Replies -> Notes] /\ replyClaims = {} /\ said = [r \in Replies |-> {}]
    /\ stops = 0

-----------------------------------------------------------------------------
(* The nudge                                                                 *)

TurnEnds(w) ==
    /\ agent[w].live /\ ~agent[w].ended /\ agent' = [agent EXCEPT ![w].ended = TRUE]
    /\ UNCHANGED <<nudging, nudges, park, pickup, prOpen, reply, stops>>

Retired(w) ==
    /\ agent[w].live /\ agent' = [agent EXCEPT ![w].live = FALSE]
    /\ UNCHANGED <<nudging, nudges, park, pickup, prOpen, reply, stops>>

\* The guarded UPDATE has one winner among the passes that read the flag.
Nudgeable(w) == agent[w].live /\ agent[w].ended /\ ~agent[w].nudged

ConsumeTurnEnd(w) ==
    /\ Nudgeable(w) /\ agent' = [agent EXCEPT ![w].nudged = TRUE] /\ nudging' = nudging \cup {w}
    /\ UNCHANGED <<nudges, park, pickup, prOpen, reply, stops>>

EnqueueNudge(w) ==
    /\ w \in nudging /\ nudging' = nudging \ {w} /\ nudges' = [nudges EXCEPT ![w] = @ + 1]
    /\ UNCHANGED <<agent, park, pickup, prOpen, reply, stops>>

-----------------------------------------------------------------------------
(* The park and its fan-out                                                  *)

WriteContext(kind) ==
    /\ Len(rows) < MaxContext /\ rows' = Append(rows, kind)
    /\ UNCHANGED <<nudge, fanned, telling, told, pickup, prOpen, reply, stops>>

\* The anchor is the newest row that is no marker; the marker is the claim.
Anchor == Len(rows)
SlipClaimsAgain == TRUE
FirstForEpisode == Anchor \notin fanned

ClaimParkFanout ==
    /\ Anchor > 0 /\ \E i \in DOMAIN rows : rows[i] = "park"
    /\ FirstForEpisode /\ fanned' = fanned \cup {Anchor} /\ telling' = telling \cup {Anchor}
    /\ UNCHANGED <<nudge, rows, told, pickup, prOpen, reply, stops>>

NotifyParkFanout(i) ==   \* best effort: a failed post is only logged
    /\ i \in telling /\ telling' = telling \ {i}
    /\ told' = [told EXCEPT ![i] = @ + 1] \/ UNCHANGED told
    /\ UNCHANGED <<nudge, rows, fanned, pickup, prOpen, reply, stops>>

-----------------------------------------------------------------------------
(* The pickup line                                                           *)

NoNeedle(w) == needles[w] = 0 /\ w \notin reading

ReadsForNeedle(w) ==
    /\ prOpen /\ NoNeedle(w) /\ reading' = reading \cup {w}
    /\ UNCHANGED <<nudge, park, needles, prOpen, reply, stops>>

PostPickupComment(w) ==
    /\ w \in reading /\ reading' = reading \ {w}
    /\ needles' = [needles EXCEPT ![w] = @ + 1] \/ UNCHANGED needles
    /\ UNCHANGED <<nudge, park, prOpen, reply, stops>>

-----------------------------------------------------------------------------
(* Replies                                                                   *)

PRChanges ==
    /\ prOpen' = ~prOpen /\ UNCHANGED <<nudge, park, pickup, reply, stops>>

\* The update may be delivered again.  The bot passes the replied-to message,
\* not the reply, as the key of the claim.
ClaimKey(r) == noteOf[r]

HandlePipelineReply(r) ==
    /\ said' = [said EXCEPT ![r] = @ \cup {
          IF ClaimKey(r) \in replyClaims THEN "dropped" ELSE IF prOpen THEN "posted" ELSE "answered"}]
    /\ replyClaims' = replyClaims \cup {ClaimKey(r)}
    /\ UNCHANGED <<nudge, park, pickup, prOpen, noteOf, stops>>

-----------------------------------------------------------------------------
Stop ==
    /\ stops < MaxStops /\ stops' = stops + 1
    /\ nudging' = {} /\ telling' = {} /\ reading' = {}
    /\ UNCHANGED <<agent, nudges, rows, fanned, told, needles, prOpen, reply>>

NoticeNext ==
    \/ \E w \in Rounds : \/ TurnEnds(w) \/ Retired(w) \/ ConsumeTurnEnd(w) \/ EnqueueNudge(w)
                          \/ ReadsForNeedle(w) \/ PostPickupComment(w)
    \/ \E kind \in {"park", "note"} : WriteContext(kind)
    \/ ClaimParkFanout \/ \E i \in telling : NotifyParkFanout(i)
    \/ PRChanges \/ \E r \in Replies : HandlePipelineReply(r)
    \/ Stop

NoticeSpec == NoticeInit /\ [][NoticeNext]_noticeVars

-----------------------------------------------------------------------------
\* One nudge for an agent's round, one fan-out for a park episode and one
\* pickup line for a round, whenever the process stops between the guard and
\* the words.
SaidOnce ==
    /\ \A w \in Rounds : nudges[w] <= 1 /\ needles[w] <= 1
    /\ \A i \in DOMAIN told : told[i] <= 1
=============================================================================
