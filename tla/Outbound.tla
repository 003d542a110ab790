------------------------------ MODULE Outbound ------------------------------
(***************************************************************************)
(* From agent_outbox and dashboard messages to Telegram topics.            *)
(*                                                                         *)
(* internal/relay routes an outbox row to channel_deliveries and mentions  *)
(* in one transaction; internal/inboxecho fans a dashboard message out to  *)
(* inbox_echoes; internal/dispatcher and inboxecho's own dispatcher claim  *)
(* such a row, commit, call Telegram, and commit the outcome.  The two     *)
(* tables have the same columns, so a row here is a message and a topic.   *)
(***************************************************************************)
EXTENDS Naturals, Sequences, FiniteSets, SequencesExt, FiniteSetsExt

CONSTANTS Chats, Agents,
          MaxItems,      \* bound on messages
          MaxAttempts,   \* Config.MaxAttempts
          OutTrouble,    \* bound on calls that fail, are limited, or answer too late
          MaxCrashes     \* bound on deaths of a dispatcher; also on rebindings

ASSUME OutboundAssumption ==
    /\ MaxItems \in Nat /\ MaxAttempts \in Nat \ {0}
    /\ OutTrouble \in Nat /\ MaxCrashes \in Nat

Items == 1..MaxItems                \* in order of created_at
Dispatchers == {"reply", "echo"}        \* dispatcher.Run, inboxecho.RunDispatch
NoTopic == "no topic"
NoSender == "nobody"

VARIABLES
    items,      \* agent_outbox rows and dashboard rows of agent_inbox
    binding,    \* topic_agent_bindings: the owner or observer of a topic
    mail,       \* agent_inbox rows made of mentions: <<outbox row, target>>
    deliv,      \* channel_deliveries and inbox_echoes
    worker,     \* where each dispatcher is, and the row it claimed
    posted,     \* what each topic shows
    history,    \* rows "late": posted although the call erred, or "deferred"
    outTrouble, outCrashes

outVars == <<items, binding, mail, deliv, worker, posted, history, outTrouble, outCrashes>>

Delivery == [status : {"absent", "pending", "sending", "sent", "failed"},
             attempts : Nat, due : 0..MaxItems, waiting : BOOLEAN]
NoDelivery == [status |-> "absent", attempts |-> 0, due |-> 0, waiting |-> FALSE]
NoItem == [kind |-> "none"]
IdleWorker == [at |-> "idle", row |-> <<0, NoTopic>>]

OutInit ==
    /\ items = [i \in Items |-> NoItem]
    /\ binding \in [Chats -> [agent : Agents, type : {"owner", "observer"}]]
    /\ mail = {} /\ history = {}
    /\ deliv = [r \in Items \X Chats |-> NoDelivery]
    /\ worker = [w \in Dispatchers |-> IdleWorker]
    /\ posted = [t \in Chats |-> <<>>]
    /\ outTrouble = 0 /\ outCrashes = 0

-----------------------------------------------------------------------------
Made == {i \in Items : items[i].kind # "none"}
Clock == Cardinality(Made)
Queued(k) == {i \in Made : items[i].kind = k /\ ~items[i].routed}
Creates(item) == Clock < MaxItems /\ items' = [items EXCEPT ![Clock + 1] = item]

\* The monitor's sink, or NotifyTask for the pipeline: an answer may have the
\* topic of the inbox row it replies to, and mentions of agents by id or handle.
AppendOutbox ==
    /\ \E a \in Agents, o \in Chats \cup {NoTopic}, s \in {{}, Agents \cup {NoSender}} :
        Creates([kind |-> "reply", agent |-> a, origin |-> o, says |-> s, routed |-> FALSE])
    /\ UNCHANGED <<binding, mail, deliv, worker, posted, history, outTrouble, outCrashes>>

DashboardMessage ==
    /\ \E a \in Agents :
        Creates([kind |-> "echo", agent |-> a, origin |-> NoTopic, says |-> {}, routed |-> FALSE])
    /\ UNCHANGED <<binding, mail, deliv, worker, posted, history, outTrouble, outCrashes>>

\* INSERT ... ON CONFLICT DO NOTHING, for the topics of one message.
FansOut(i, topics) ==
    /\ items' = [items EXCEPT ![i].routed = TRUE]
    /\ deliv' = [r \in Items \X Chats |->
                   IF r[1] = i /\ r[2] \in topics /\ deliv[r].status = "absent"
                   THEN [NoDelivery EXCEPT !.status = "pending"] ELSE deliv[r]]

\* fanoutDeliveries: the origin, whatever it is bound to, and the subscribers.
Subscribers(a, types) == {t \in Chats : binding[t].agent = a /\ binding[t].type \in types}
FanoutDeliveries(i) == ({items[i].origin} \cap Chats) \cup Subscribers(items[i].agent, {"owner", "observer"})

\* enqueueMentions: unknown tokens and the speaker itself are dropped.
EnqueueMentions(i) == {<<i, a>> : a \in (items[i].says \cap Agents) \ {items[i].agent}}

Relay ==
    /\ Queued("reply") # {}
    /\ LET i == Min(Queued("reply")) IN
        /\ FansOut(i, FanoutDeliveries(i))
        /\ mail' = mail \cup EnqueueMentions(i)
    /\ UNCHANGED <<binding, worker, posted, history, outTrouble, outCrashes>>

EchoFanout ==
    /\ Queued("echo") # {}
    /\ LET i == Min(Queued("echo")) IN FansOut(i, Subscribers(items[i].agent, {"owner"}))
    /\ UNCHANGED <<binding, mail, worker, posted, history, outTrouble, outCrashes>>

-----------------------------------------------------------------------------
(* The dispatchers.  A definition named Slip... is a plausible slip in the  *)
(* code of the definition after it; nothing else uses it.                   *)

SlipSendingToo(r) == deliv[r].status \in {"pending", "sending"} /\ ~deliv[r].waiting
SlipNeverDue(r) == deliv[r].status = "pending" /\ deliv[r].due = 0
Eligible(r) == deliv[r].status = "pending" /\ ~deliv[r].waiting

\* COALESCE(next_attempt_at, created_at): a deferral loses a row its place.
SlipByAttempts(r) == deliv[r].attempts
Place(r) == IF deliv[r].due > 0 THEN deliv[r].due ELSE r[1]

Table(w) == {r \in Items \X Chats : items[r[1]].kind = w}

ClaimDelivery(w) ==
    /\ worker[w].at = "idle"
    /\ \E r \in {q \in Table(w) : Eligible(q)} :
        /\ \A q \in Table(w) : Eligible(q) => Place(r) <= Place(q)
        /\ deliv' = [deliv EXCEPT ![r].status = "sending", ![r].attempts = @ + 1]
        /\ worker' = [worker EXCEPT ![w] = [at |-> "claimed", row |-> r]]
    /\ UNCHANGED <<items, binding, mail, posted, history, outTrouble, outCrashes>>

Shows(r) == posted' = [posted EXCEPT ![r[2]] = Append(@, r[1])]

SendMessage(w) ==
    /\ worker[w].at = "claimed"
    /\ \/ Shows(worker[w].row) /\ worker' = [worker EXCEPT ![w].at = "sent"]
          /\ UNCHANGED <<history, outTrouble>>
       \/ /\ outTrouble < OutTrouble /\ outTrouble' = outTrouble + 1
          /\ \/ worker' = [worker EXCEPT ![w].at = "limited"] /\ UNCHANGED <<posted, history>>
             \/ worker' = [worker EXCEPT ![w].at = "error"] /\ UNCHANGED <<posted, history>>
             \/ /\ worker' = [worker EXCEPT ![w].at = "error"]
                /\ Shows(worker[w].row) /\ history' = history \cup {<<worker[w].row, "late">>}
    /\ UNCHANGED <<items, binding, mail, deliv, outCrashes>>

Settles(w, d) == /\ deliv' = [deliv EXCEPT ![worker[w].row] = d]
                 /\ worker' = [worker EXCEPT ![w] = IdleWorker]
                 /\ history' = IF d.waiting THEN history \cup {<<worker[w].row, "deferred">>} ELSE history
                 /\ UNCHANGED <<items, binding, mail, posted, outTrouble, outCrashes>>

Current(w) == deliv[worker[w].row]
Deferred(d) == [d EXCEPT !.status = "pending", !.due = Clock, !.waiting = TRUE]

MarkSent(w) == worker[w].at = "sent" /\ Settles(w, [Current(w) EXCEPT !.status = "sent", !.due = 0])

\* 429, outbox only: back to pending before the attempts are looked at.
RateLimited == worker["reply"].at = "limited" /\ Settles("reply", Deferred(Current("reply")))

Exhausted(w) == Current(w).attempts >= MaxAttempts
SendFailed ==
    /\ worker["reply"].at = "error"
    /\ Settles("reply", [Current("reply") EXCEPT !.status = IF Exhausted("reply") THEN "failed" ELSE "pending"])

\* The echo dispatcher knows no 429 and defers every error.
EchoFailed ==
    /\ worker["echo"].at \in {"limited", "error"}
    /\ Settles("echo", IF Exhausted("echo") THEN [Current("echo") EXCEPT !.status = "failed"]
                       ELSE Deferred(Current("echo")))

DeferralEnds(r) ==
    /\ deliv[r].waiting /\ deliv' = [deliv EXCEPT ![r].waiting = FALSE]
    /\ UNCHANGED <<items, binding, mail, worker, posted, history, outTrouble, outCrashes>>

\* The claim is committed: nothing picks a 'sending' row up again.
DispatcherDies(w) ==
    /\ worker[w].at # "idle" /\ outCrashes < MaxCrashes /\ outCrashes' = outCrashes + 1
    /\ worker' = [worker EXCEPT ![w] = IdleWorker]
    /\ UNCHANGED <<items, binding, mail, deliv, posted, history, outTrouble>>

Rebind ==
    /\ outCrashes < MaxCrashes /\ outCrashes' = outCrashes + 1
    /\ \E t \in Chats, a \in Agents : binding' = [binding EXCEPT ![t].agent = a]
    /\ UNCHANGED <<items, mail, deliv, worker, posted, history, outTrouble>>

DispatcherStep(w) == ClaimDelivery(w) \/ SendMessage(w) \/ MarkSent(w)
OutcomeStep == RateLimited \/ SendFailed \/ EchoFailed

OutNext ==
    \/ AppendOutbox \/ DashboardMessage \/ Relay \/ EchoFanout \/ Rebind
    \/ \E w \in Dispatchers : DispatcherStep(w) \/ DispatcherDies(w)
    \/ OutcomeStep
    \/ \E r \in Items \X Chats : DeferralEnds(r)

\* Every loop polls after 10 s even when no NOTIFY comes; a deferral is finite.
OutFairness ==
    /\ WF_outVars(Relay) /\ WF_outVars(EchoFanout) /\ WF_outVars(OutcomeStep)
    /\ \A w \in Dispatchers : WF_outVars(DispatcherStep(w))
    /\ \A r \in Items \X Chats : WF_outVars(DeferralEnds(r))

OutSpec == OutInit /\ [][OutNext]_outVars /\ OutFairness

-----------------------------------------------------------------------------
\* A topic never shows a message twice unless Telegram posted it and the call
\* still erred: a crash before the outcome is written costs the update of the
\* row, never a second post (dispatcher.ProcessOne, inboxecho.DispatchOne).
Times(i, t) == Cardinality({n \in 1..Len(posted[t]) : posted[t][n] = i})
PostedOnce == \A i \in Items, t \in Chats : <<<<i, t>>, "late">> \notin history => Times(i, t) <= 1

\* Answers reach a topic in the order they were given, unless a rate limit
\* deferred the one that was overtaken: a plain error keeps its place.
AnswersInOrder ==
    \A t \in Chats : \A m, n \in 1..Len(posted[t]) :
        LET i == posted[t][m]  j == posted[t][n] IN
        (m < n /\ j < i /\ items[i].kind = "reply" /\ items[j].kind = "reply")
            => <<<<j, t>>, "deferred">> \in history \/ \E k \in 1..m : posted[t][k] = j

\* Every delivery is settled in the end, whatever Telegram answers and with
\* or without notifications, unless a dispatcher dies.
DeliveriesSettle ==
    \A r \in Items \X Chats :
        (deliv[r].status = "pending") ~> (deliv[r].status \in {"sent", "failed"} \/ outCrashes > 0)
=============================================================================
