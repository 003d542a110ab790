------------------------------ MODULE Comments ------------------------------
(***************************************************************************)
(* What people say on pull requests, and how often the pipeline acts on it *)
(* (internal/pipeline/comments.go, the dispatch half of reround.go).  The  *)
(* poller claims a comment in gh_comment_commands before it acts, and      *)
(* keeps a cursor in memory.  GitHub's created_at has whole seconds: a     *)
(* tick.                                                                   *)
(***************************************************************************)
EXTENDS Naturals, FiniteSets, FiniteSetsExt

CONSTANTS PRs,
          MaxComments,  \* bound on pull request comments
          MaxClock,     \* bound on time
          Catchup,      \* how far a restart looks back, in ticks
          MaxHitches    \* bound on transient errors and crashes

ASSUME CommentAssumption ==
    /\ MaxComments \in Nat /\ MaxClock \in Nat \ {0} /\ Catchup \in Nat /\ MaxHitches \in Nat

Comments == 1..MaxComments
Kinds == {"approve", "resolve", "talk", "unheard"}
    \* "unheard": a bot, a login that is not allowed, an unknown verb

VARIABLES
    now,
    status,     \* tasks.status, by pull request
    comment,    \* comments on GitHub: [pr, kind, at]; at = 0: not written yet
    record,     \* gh_comment_commands.disposition; "none" without a row
    cursor,     \* RunCommentCommands
    pass,       \* PollPRCommands: [at, left, todo, cursor, failed]
    acting,     \* the comment whose handler runs
    transient,  \* comments whose dispatch ended in an error that claimed nothing,
                \* without those a restart no longer looks back at
    acted,      \* how often each comment was acted upon
    hitches

commentVars == <<now, status, comment, record, cursor, pass, acting, transient, acted, hitches>>
people == <<now, status, comment>>
poller == <<cursor, pass, acting, transient, record>>

IdlePass == [at |-> "idle", left |-> {}, todo |-> {}, cursor |-> 0, failed |-> FALSE]
NoComment == 0

CommentInit ==
    /\ now = 1 /\ \E q \in PRs : status = [p \in PRs |-> IF p = q THEN "pending_approval" ELSE "review"]
    /\ comment = [c \in Comments |-> [pr |-> CHOOSE p \in PRs : TRUE, kind |-> "talk", at |-> 0]]
    /\ record = [c \in Comments |-> "none"]
    /\ cursor = 0 /\ pass = IdlePass /\ acting = NoComment /\ transient = {}
    /\ acted = [x \in Comments |-> 0]
    /\ hitches = 0

Hitch == hitches < MaxHitches /\ hitches' = hitches + 1
Acts(x) == acted' = [acted EXCEPT ![x] = @ + 1]

-----------------------------------------------------------------------------
(* People and the rest of the pipeline                                      *)

Say ==
    /\ \E c \in Comments, p \in PRs, k \in Kinds :
        /\ comment[c].at = 0 /\ \A b \in 1..(c - 1) : comment[b].at > 0
        /\ comment' = [comment EXCEPT ![c] = [pr |-> p, kind |-> k, at |-> now]]
    /\ UNCHANGED <<now, status, poller, acted, hitches>>

CommentTick == /\ now < MaxClock /\ now' = now + 1
               /\ UNCHANGED <<status, comment, poller, acted, hitches>>

PipelineMoves ==
    /\ \E p \in PRs : /\ status[p] \in {"review", "ready_to_merge"}
                      /\ status' = [status EXCEPT ![p] = CASE @ = "review" -> "ready_to_merge" [] OTHER -> "done"]
    /\ UNCHANGED <<now, comment, poller, acted, hitches>>

-----------------------------------------------------------------------------
(* The poller of pull request comments                                      *)

WatchedPRs == {p \in PRs : status[p] # "done"}

StartPass ==
    /\ pass.at = "idle"
    /\ pass' = [at |-> "fetch", left |-> WatchedPRs, todo |-> {}, cursor |-> cursor, failed |-> FALSE]
    /\ UNCHANGED <<people, cursor, acting, transient, record, acted, hitches>>

\* One pull request after the other, each fetched when its turn comes.
PRComments(p) == {c \in Comments : comment[c].at > cursor /\ comment[c].pr = p}
Fetch ==
    /\ pass.at = "fetch"
    /\ \E p \in pass.left :
        \/ /\ pass' = [pass EXCEPT !.at = IF PRComments(p) = {} THEN "fetch" ELSE "dispatch",
                                   !.left = @ \ {p}, !.todo = PRComments(p)]
           /\ UNCHANGED hitches
        \/ Hitch /\ pass' = [pass EXCEPT !.left = @ \ {p}, !.failed = TRUE]
    /\ UNCHANGED <<people, cursor, acting, transient, record, acted>>

Oldest(S) == {c \in S : \A d \in S : comment[c].at <= comment[d].at}
Done(c, failed) ==
    pass' = [pass EXCEPT !.todo = @ \ {c}, !.at = IF pass.todo = {c} THEN "fetch" ELSE "dispatch",
                         !.cursor = Max({@, comment[c].at}), !.failed = @ \/ failed]

\* A login cannot be checked, or the task cannot be looked up.
DispatchErrs(c) ==
    /\ Hitch /\ Done(c, TRUE) /\ transient' = transient \cup {c}
    /\ UNCHANGED <<acting, record>>

SlipNoRowNeeded(c) == TRUE
Unclaimed(c) == record[c] = "none"

Claim(c) ==
    /\ UNCHANGED <<transient, hitches>>
    /\ IF comment[c].kind = "unheard"
       THEN record' = [record EXCEPT ![c] = "no_op"] /\ Done(c, FALSE) /\ UNCHANGED acting
       ELSE IF ~Unclaimed(c) THEN Done(c, FALSE) /\ UNCHANGED <<acting, record>>
       ELSE /\ record' = [record EXCEPT ![c] = "pending"] /\ acting' = c
            /\ pass' = [pass EXCEPT !.at = "handler"]

DispatchCommentCommand ==
    /\ pass.at = "dispatch"
    /\ \E c \in Oldest(pass.todo) : Claim(c) \/ DispatchErrs(c)
    /\ UNCHANGED <<people, cursor, acted>>

\* approve merges a ready task, resolve spawns a merger for a parked one, and
\* anything else from a person opens a round (ReopenReview elsewhere).
Applicable(c) ==
    CASE comment[c].kind = "approve" -> status[comment[c].pr] = "ready_to_merge"
      [] comment[c].kind = "resolve" -> status[comment[c].pr] = "pending_approval"
      [] OTHER -> status[comment[c].pr] # "done"
After(c) == CASE comment[c].kind = "approve" -> "done"
              [] comment[c].kind = "resolve" -> "pending_approval"
              [] OTHER -> IF status[comment[c].pr] = "ready_to_merge" THEN "review" ELSE status[comment[c].pr]

RunHandler ==
    /\ pass.at = "handler"
    /\ LET c == acting IN
       \/ /\ ~Applicable(c) /\ record' = [record EXCEPT ![c] = "no_op"] /\ Done(c, FALSE)
          /\ UNCHANGED <<acted, status, hitches>>
       \/ /\ Applicable(c) /\ Acts(c) /\ record' = [record EXCEPT ![c] = "ok"] /\ Done(c, FALSE)
          /\ status' = [status EXCEPT ![comment[c].pr] = After(c)]
          /\ UNCHANGED hitches
       \* The claim stays, the cursor does not pass it: a re-read finds the claim.
       \/ /\ Applicable(c) /\ Hitch /\ Acts(c)
          /\ record' = [record EXCEPT ![c] = "error"] /\ Done(c, TRUE) /\ UNCHANGED status
    /\ acting' = NoComment
    /\ UNCHANGED <<now, comment, cursor, transient>>

SlipForgetsErrors == pass.cursor
NextCursor == IF pass.failed THEN cursor ELSE pass.cursor
EndPass ==
    /\ pass.at = "fetch" /\ pass.left = {}
    /\ cursor' = NextCursor /\ pass' = IdlePass
    /\ UNCHANGED <<people, acting, transient, record, acted, hitches>>

\* The cursor is in memory; RunCommentCommands starts over from Catchup ago,
\* and what is older than that is given up.
Restart ==
    /\ Hitch
    /\ cursor' = IF now > Catchup THEN now - Catchup ELSE 0
    /\ transient' = {c \in transient : comment[c].at > cursor'}
    /\ pass' = IdlePass /\ acting' = NoComment
    /\ UNCHANGED <<people, record, acted>>

CommentNext ==
    \/ Say \/ CommentTick \/ PipelineMoves
    \/ StartPass \/ Fetch \/ DispatchCommentCommand \/ RunHandler \/ EndPass \/ Restart

CommentSpec == CommentInit /\ [][CommentNext]_commentVars

-----------------------------------------------------------------------------
\* "Exactly once": whatever is fetched again after an error, a restart or an
\* overlapping window, no comment is acted upon twice.
ActsAtMostOnce == \A x \in DOMAIN acted : acted[x] <= 1

\* "It must be re-read next pass or it is silently swallowed": a comment whose
\* dispatch failed before the claim stays ahead of the cursor, whatever else
\* the same pass read, as long as its pull request is polled and no restart
\* finds it older than Catchup.
FailedAreReread ==
    \A c \in transient : (record[c] = "none" /\ comment[c].pr \in WatchedPRs) => comment[c].at > cursor
=============================================================================
