------------------------------- MODULE Tickets -------------------------------
(***************************************************************************)
(* The ticket board and the pipeline: intake (internal/pipeline/bridge.go, *)
(* worktree.go), the mirror of the task's status on the board (sync.go)    *)
(* and approvals written on the ticket (approve.go).  One issue; two       *)
(* daemons may poll it when a restart overlaps.  The board and the         *)
(* provider's API are external.                                            *)
(***************************************************************************)
EXTENDS Naturals, FiniteSets, Sequences

CONSTANTS Bridges,          \* daemons that run RunBridge
          Approvals,        \* approve comments on the ticket
          MaxURLs,          \* bound on pull requests opened for the task
          MaxBoardTrouble   \* bound on failed calls, crashes and operator edits

ASSUME TicketAssumption == MaxURLs \in Nat /\ MaxBoardTrouble \in Nat

Columns == {"Todo", "In Progress", "In Review", "Changes Requested", "Needs Human", "Ready to Merge", "Done"}
NoColumn == ""
NoRow == [pending |-> NoColumn, last |-> NoColumn, due |-> TRUE, url |-> 0]
NoPush == [at |-> "idle", col |-> NoColumn, url |-> 0]

VARIABLES
    fetched,     \* bridges that hold an intake list with the issue in it
    worktree,    \* what is at the sibling path: "none" or "usable"
    tasks,       \* the tasks inserted for the issue, as [worktree]
    taskStatus,      \* tasks.status; "none" before the claim
    row,         \* ticket_issue_map
    board,       \* the column the board shows
    shown,       \* how often each pr_url was written to the issue
    prURL,
    push,        \* the transition and the link RunSync holds
    ticketLog, verb,   \* ticket_comment_log; the comment Approve runs for
    approved,    \* how often Approve ran for each comment
    trouble

ticketVars == <<fetched, worktree, tasks, taskStatus, row, board, shown, prURL, push, ticketLog, verb,
                approved, trouble>>
intake == <<fetched, worktree, tasks>>
mirror == <<board, shown, push>>
approvals == <<ticketLog, verb, approved>>

TicketInit ==
    /\ fetched = {} /\ worktree = "none" /\ tasks = <<>> /\ taskStatus = "none"
    /\ row = NoRow /\ board = "Todo" /\ shown = [u \in 1..MaxURLs |-> 0] /\ prURL = 0 /\ push = NoPush
    /\ ticketLog = {} /\ verb = "none" /\ approved = [a \in Approvals |-> 0]
    /\ trouble = 0

BoardTrouble == trouble < MaxBoardTrouble /\ trouble' = trouble + 1

-----------------------------------------------------------------------------
(* Intake                                                                    *)

IntakeIssues ==
    /\ \E b \in Bridges : b \notin fetched /\ board = "Todo" /\ fetched' = fetched \cup {b}
    /\ UNCHANGED <<worktree, tasks, taskStatus, row, prURL, mirror, approvals, trouble>>

\* An existing worktree is reused, a kept branch attached; failing is allowed.
EnsureIssueWorktree ==
    \/ worktree' = "usable" /\ UNCHANGED trouble
    \/ worktree = "none" /\ BoardTrouble /\ UNCHANGED worktree

SlipUnmapped == TRUE
Unmapped == row = NoRow

\* Task and map row in one transaction; the map row's key makes the claim.
ClaimIssue ==
    /\ \E b \in fetched : fetched' = fetched \ {b}
    /\ EnsureIssueWorktree
    /\ IF Unmapped
       THEN /\ tasks' = Append(tasks, [worktree |-> worktree' = "usable"])
            /\ taskStatus' = "ready" /\ row' = [NoRow EXCEPT !.pending = "In Progress"]
       ELSE UNCHANGED <<tasks, taskStatus, row>>
    /\ UNCHANGED <<prURL, mirror, approvals>>

-----------------------------------------------------------------------------
(* The rest of the pipeline, and an operator who edits the map row           *)

NextStatuses ==
    CASE taskStatus = "ready" -> {"claimed"}
      [] taskStatus = "claimed" -> {"review", "pending_approval"}
      [] taskStatus = "review" -> {"ready_to_merge", "changes_requested", "pending_approval"}
      [] taskStatus = "changes_requested" -> {"review"}
      [] taskStatus = "ready_to_merge" -> {"done", "pending_approval"}
      [] taskStatus = "pending_approval" -> {"ready", "done"}
      [] OTHER -> {}

TaskMoves ==
    /\ taskStatus' \in NextStatuses
    /\ prURL' = IF taskStatus' = "review" /\ prURL < MaxURLs THEN prURL + 1 ELSE prURL
    /\ UNCHANGED <<intake, row, mirror, approvals, trouble>>

OperatorSets ==
    /\ row # NoRow /\ BoardTrouble /\ row' = [row EXCEPT !.pending = "Needs Human"]
    /\ UNCHANGED <<intake, taskStatus, prURL, mirror, approvals>>

-----------------------------------------------------------------------------
(* The mirror                                                                *)

DerivedState ==
    CASE taskStatus \in {"ready", "claimed"} -> "In Progress"
      [] taskStatus = "review" -> "In Review"
      [] taskStatus = "changes_requested" -> "Changes Requested"
      [] taskStatus \in {"pending_approval", "failed"} -> "Needs Human"
      [] taskStatus = "ready_to_merge" -> "Ready to Merge"
      [] taskStatus = "done" -> "Done"
      [] OTHER -> NoColumn

SlipExplicitForGood == row.pending = NoColumn
NothingExplicit == row.pending \in {NoColumn, row.last}

Wanted == IF NothingExplicit THEN DerivedState ELSE row.pending

ReconcileReads ==
    /\ push.at = "idle" /\ row # NoRow /\ Wanted \notin {NoColumn, row.last}
    /\ NothingExplicit \/ row.due
    /\ push' = [push EXCEPT !.col = Wanted,
                 !.at = IF ~NothingExplicit THEN "column" ELSE IF row.due THEN "fill" ELSE "fillOnly"]
    /\ UNCHANGED <<intake, taskStatus, row, prURL, board, shown, approvals, trouble>>

\* Unguarded: an operator's edit since the rows were read is overwritten.
FillDerived ==
    /\ push.at \in {"fill", "fillOnly"} /\ row' = [row EXCEPT !.pending = push.col]
    /\ push' = IF push.at = "fill" THEN [push EXCEPT !.at = "column"] ELSE NoPush
    /\ UNCHANGED <<intake, taskStatus, prURL, board, shown, approvals, trouble>>

SetIssueColumn ==
    /\ push.at = "column"
    /\ \/ board' = push.col /\ push' = [push EXCEPT !.at = "columnSet"] /\ UNCHANGED <<row, trouble>>
       \/ BoardTrouble /\ row' = [row EXCEPT !.due = FALSE] /\ push' = NoPush /\ UNCHANGED board
       \/ BoardTrouble /\ push' = NoPush /\ UNCHANGED <<row, board>>   \* the list of columns failed
    /\ UNCHANGED <<intake, taskStatus, prURL, shown, approvals>>

ColumnRecorded ==
    /\ push.at = "columnSet" /\ push' = NoPush
    /\ row' = [row EXCEPT !.last = push.col, !.due = TRUE]
    /\ UNCHANGED <<intake, taskStatus, prURL, board, shown, approvals, trouble>>

BackoffDelay ==   \* 15 s doubling, at most 10 min
    /\ ~row.due /\ row' = [row EXCEPT !.due = TRUE]
    /\ UNCHANGED <<intake, taskStatus, prURL, mirror, approvals, trouble>>

LinkReads ==
    /\ push.at = "idle" /\ row # NoRow /\ prURL \notin {0, row.url}
    /\ push' = [push EXCEPT !.at = "link", !.url = prURL]
    /\ UNCHANGED <<intake, taskStatus, row, prURL, board, shown, approvals, trouble>>

AddIssueLink ==
    /\ push.at = "link"
    /\ \/ shown' = [shown EXCEPT ![push.url] = @ + 1] /\ push' = [push EXCEPT !.at = "linkSet"] /\ UNCHANGED trouble
       \/ BoardTrouble /\ push' = NoPush /\ UNCHANGED shown
    /\ UNCHANGED <<intake, taskStatus, row, prURL, board, approvals>>

LinkRecorded ==
    /\ push.at = "linkSet" /\ push' = NoPush /\ row' = [row EXCEPT !.url = push.url]
    /\ UNCHANGED <<intake, taskStatus, prURL, board, shown, approvals, trouble>>

-----------------------------------------------------------------------------
(* Approvals on the ticket                                                   *)

\* Every pass reads the last twenty minutes of comments again.
Unlogged(a) == a \notin ticketLog

CommentApprovalsOnce ==
    /\ verb = "none" /\ taskStatus = "ready_to_merge"
    /\ \E a \in Approvals : Unlogged(a) /\ ticketLog' = ticketLog \cup {a} /\ verb' = a
    /\ UNCHANGED <<intake, taskStatus, row, prURL, mirror, approved, trouble>>

\* ApproveRef: a no-op unless the task is still ready_to_merge; it may fail.
ApproveByTicket ==
    /\ verb # "none" /\ verb' = "none" /\ approved' = [approved EXCEPT ![verb] = @ + 1]
    /\ \/ taskStatus = "ready_to_merge" /\ taskStatus' = "done" /\ UNCHANGED trouble
       \/ taskStatus # "ready_to_merge" /\ UNCHANGED <<taskStatus, trouble>>
       \/ BoardTrouble /\ UNCHANGED taskStatus
    /\ UNCHANGED <<intake, row, prURL, mirror, ticketLog>>

BoardCrash ==
    /\ BoardTrouble /\ fetched' = {} /\ push' = NoPush /\ verb' = "none"
    /\ UNCHANGED <<worktree, tasks, taskStatus, row, board, shown, prURL, ticketLog, approved>>

TicketNext ==
    \/ IntakeIssues \/ ClaimIssue \/ TaskMoves \/ OperatorSets
    \/ ReconcileReads \/ FillDerived \/ SetIssueColumn \/ ColumnRecorded \/ BackoffDelay
    \/ LinkReads \/ AddIssueLink \/ LinkRecorded
    \/ CommentApprovalsOnce \/ ApproveByTicket \/ BoardCrash

\* RunSync ticks for ever, and time passes.
TicketFairness ==
    /\ WF_ticketVars(ReconcileReads) /\ WF_ticketVars(FillDerived)
    /\ WF_ticketVars(SetIssueColumn) /\ WF_ticketVars(ColumnRecorded)
    /\ WF_ticketVars(BackoffDelay)
    /\ WF_ticketVars(AddIssueLink) /\ WF_ticketVars(LinkRecorded) /\ SF_ticketVars(LinkReads)

TicketSpec == TicketInit /\ [][TicketNext]_ticketVars
TicketFairSpec == TicketSpec /\ TicketFairness

-----------------------------------------------------------------------------
\* One issue becomes one task however many daemons poll, and one comment on it
\* runs the verb once, over crashes and re-read windows.
OneTaskOneVerb == Len(tasks) <= 1 /\ \A a \in Approvals : approved[a] <= 1

\* Once the task stops moving the board shows its column, through failed
\* pushes, an operator's explicit column and a crash between a push and its
\* bookkeeping: nothing stale is left pending for good.
MirrorSettles == [](taskStatus = "done" => <>(board = "Done"))
=============================================================================
