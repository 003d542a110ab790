------------------------------- MODULE Mailbox -------------------------------
(***************************************************************************)
(* The row operations of the agent_inbox table, one operator per function  *)
(* of internal/mailbox/mailbox.go.  A table is a function from message     *)
(* keys - the pair (origin_channel, external_msg_id) that the UNIQUE       *)
(* constraint deduplicates on - to rows; a key no row has yet maps to a    *)
(* row of status "absent".  Every operator below is what one statement     *)
(* does to the table, so a component that calls it inside a transaction    *)
(* applies it in the action that models that transaction.                  *)
(*                                                                         *)
(* Payload columns are abstracted: enqueued_at doubles as the identity of  *)
(* the payload, because both INSERT and UPSERT restamp it together with    *)
(* the content.                                                            *)
(***************************************************************************)
EXTENDS Naturals

CONSTANTS Msgs,         \* message keys
          Agents,       \* agents.id values
          Workers,      \* claimers: the worker ids passed to ClaimInbox
          Nobody,       \* NULL in claimed_by, and the agent_id of no row
          MaxAttempts   \* agent_inbox.max_attempts

ASSUME MailboxAssumption ==
    /\ Nobody \notin Workers
    /\ Nobody \notin Agents
    /\ MaxAttempts \in Nat \ {0}

Status == {"absent", "pending", "processing", "processed", "dead"}

InboxRow == [status      : Status,
             agent_id    : Agents \cup {Nobody},
             claimed_by  : Workers \cup {Nobody},
             lease       : {"none", "live", "expired"},
             attempts    : Nat,
             enqueued_at : Nat]

AbsentRow == [status |-> "absent", agent_id |-> Nobody, claimed_by |-> Nobody,
              lease |-> "none", attempts |-> 0, enqueued_at |-> 0]

\* The row an INSERT leaves: pending, unclaimed, with a full retry budget.
PendingRow(a, now) ==
    [status |-> "pending", agent_id |-> a, claimed_by |-> Nobody,
     lease |-> "none", attempts |-> 0, enqueued_at |-> now]

\* INSERT ... ON CONFLICT DO NOTHING: a key in use keeps its row.
EnqueueInbox(rows, m, a, now) ==
    IF rows[m].status = "absent"
    THEN [rows EXCEPT ![m] = PendingRow(a, now)]
    ELSE rows

\* INSERT ... ON CONFLICT DO UPDATE: the row is repointed whatever its status,
\* claimed or not.
UpsertInbox(rows, m, a, now) == [rows EXCEPT ![m] = PendingRow(a, now)]

\* A definition named Slip... is a plausible slip in the code of the definition
\* after it, which a property must catch; nothing else uses it.
SlipLeaseIgnored(row, a) ==
    row.agent_id = a /\ row.status \in {"pending", "processing"}
SlipNeverReclaimed(row, a) == row.agent_id = a /\ row.status = "pending"
Claimable(row, a) ==
    /\ row.agent_id = a
    /\ \/ row.status = "pending"
       \/ row.status = "processing" /\ row.lease = "expired"

SlipUnordered(rows, a) == {m \in Msgs : Claimable(rows[m], a)}
\* ORDER BY enqueued_at LIMIT 1.
OldestClaimable(rows, a) ==
    {m \in Msgs : /\ Claimable(rows[m], a)
                  /\ \A n \in Msgs : Claimable(rows[n], a) =>
                         rows[m].enqueued_at <= rows[n].enqueued_at}

\* The attempt is counted when the row is claimed, not when it fails.
ClaimInbox(rows, m, w) ==
    [rows EXCEPT ![m] = [rows[m] EXCEPT !.status = "processing",
                                        !.claimed_by = w,
                                        !.lease = "live",
                                        !.attempts = rows[m].attempts + 1]]

\* WHERE id = $1 AND status = 'processing': the claimer is not compared.
AckInbox(rows, m) ==
    IF rows[m].status = "processing"
    THEN [rows EXCEPT ![m] = [rows[m] EXCEPT !.status = "processed",
                                             !.claimed_by = Nobody,
                                             !.lease = "none"]]
    ELSE rows

SlipDeadEarly(rows, m) ==
    [rows EXCEPT ![m] =
        [rows[m] EXCEPT !.status = IF rows[m].attempts + 1 >= MaxAttempts
                                   THEN "dead" ELSE "pending",
                        !.claimed_by = Nobody,
                        !.lease = "none"]]
\* WHERE id = $1: neither the status nor the claimer is compared.
FailInbox(rows, m) ==
    [rows EXCEPT ![m] =
        [rows[m] EXCEPT !.status = IF rows[m].attempts >= MaxAttempts
                                   THEN "dead" ELSE "pending",
                        !.claimed_by = Nobody,
                        !.lease = "none"]]

=============================================================================
