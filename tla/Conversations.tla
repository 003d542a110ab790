--------------------------- MODULE Conversations ----------------------------
(***************************************************************************)
(* One agent asking another and waiting, and agents that spawn subagents   *)
(* (internal/a2a).  conversations rows are only ever added: nothing sets   *)
(* closed_at.  No writer of agent_outbox sets conversation_id, so a reply  *)
(* is found by the inbox row it is stamped with.                           *)
(***************************************************************************)
EXTENDS Naturals, Sequences, FiniteSets, FiniteSetsExt

CONSTANTS Roots,        \* agents that exist from the start
          MaxSubs,      \* bound on subagents
          MaxConvos,    \* bound on conversations
          MaxAsks       \* bound on questions

ASSUME ConvoAssumption == MaxSubs \in Nat /\ MaxConvos \in Nat /\ MaxAsks \in Nat

MaxSpawnDepth == 2      \* subagent.go
Subs == 1..MaxSubs
Everybody == Roots \cup Subs
NoConvo == 0

VARIABLES
    soul,       \* agent_souls.allow_delegation: "none", "allows", "denies"
    parent,     \* who spawned a subagent; 0 for one that does not exist
    convos,     \* conversations: [who, parent]
    asks,       \* calls of AskAgent: [from, to, at, convo]
    replied     \* asks whose inbox row some outbox row is stamped with

convoVars == <<soul, parent, convos, asks, replied>>

ConvoInit ==
    /\ soul \in [Everybody -> {"none", "allows", "denies"}] /\ \A s \in Subs : soul[s] = "none"
    /\ parent = [s \in Subs |-> 0]
    /\ convos = <<>> /\ asks = <<>> /\ replied = {}

Nobody == 0
Exists(a) == a \in Roots \cup {s \in Subs : parent[s] # Nobody}
NewestOf(S) == IF S = {} THEN NoConvo ELSE Max(S)
ConvosOf(a) == {c \in DOMAIN convos : a \in convos[c].who}

-----------------------------------------------------------------------------
(* AskAgent                                                                 *)

\* The lookup and the insert of a transaction that others do not see yet.
ResolveTarget(from, to) ==
    /\ Len(asks) < MaxAsks /\ from # to
    /\ asks' = Append(asks, [from |-> from, to |-> to, at |-> "looked_up",
                convo |-> NewestOf({c \in DOMAIN convos : convos[c].who = {from, to}})])
    /\ UNCHANGED <<soul, parent, convos, replied>>

EnsureA2AConversation(i) ==
    /\ asks[i].at = "looked_up"
    /\ IF asks[i].convo # NoConvo
       THEN asks' = [asks EXCEPT ![i].at = "waiting"] /\ UNCHANGED convos
       ELSE /\ Len(convos) < MaxConvos
            /\ convos' = Append(convos, [who |-> {asks[i].from, asks[i].to}, parent |-> NoConvo])
            /\ asks' = [asks EXCEPT ![i].at = "waiting", ![i].convo = Len(convos) + 1]
    /\ UNCHANGED <<soul, parent, replied>>

PollReply(i) ==
    /\ asks[i].at = "waiting"
    /\ \/ i \in replied /\ asks' = [asks EXCEPT ![i].at = "answered"]
       \/ asks' = [asks EXCEPT ![i].at = "timed_out"]
    /\ UNCHANGED <<soul, parent, convos, replied>>

Answers(i) ==
    /\ asks[i].at # "looked_up" /\ replied' = replied \cup {i}
    /\ UNCHANGED <<soul, parent, convos, asks>>

-----------------------------------------------------------------------------
(* SpawnSubagent                                                            *)

\* The depth of an agent is that of its newest conversation, of any kind.
Depth(a) ==
    LET up[n \in 0..(MaxSpawnDepth + 1), c \in 0..Len(convos)] ==
          IF n = 0 \/ c = NoConvo \/ convos[c].parent = NoConvo THEN 0
          ELSE 1 + up[n - 1, convos[c].parent]
    IN up[MaxSpawnDepth + 1, NewestOf(ConvosOf(a))]

DelegationGate(a) == soul[a] = "allows" /\ Depth(a) < MaxSpawnDepth

\* The child's row starts 'stopped'; its conversation hangs under the newest
\* one of the parent; its soul is the parent's, without delegation.
SlipClonesDelegation(a) == soul[a]
ChildSoul(a) == IF soul[a] = "none" THEN "none" ELSE "denies"

SpawnSubagent(a) ==
    /\ Exists(a) /\ DelegationGate(a) /\ Len(convos) < MaxConvos
    /\ \E s \in Subs :
        /\ ~Exists(s) /\ \A r \in Subs : r < s => Exists(r)
        /\ parent' = [parent EXCEPT ![s] = a]
        /\ soul' = [soul EXCEPT ![s] = ChildSoul(a)]
        /\ convos' = Append(convos, [who |-> {a, s}, parent |-> NewestOf(ConvosOf(a))])
    /\ UNCHANGED <<asks, replied>>

ConvoNext ==
    \/ \E a, b \in Everybody : Exists(a) /\ Exists(b) /\ ResolveTarget(a, b)
    \/ \E i \in DOMAIN asks : EnsureA2AConversation(i) \/ PollReply(i) \/ Answers(i)
    \/ \E a \in Everybody : SpawnSubagent(a)

ConvoSpec == ConvoInit /\ [][ConvoNext]_convoVars

-----------------------------------------------------------------------------
\* "Max depth" (subagent.go): the tree of spawned agents is one level deep,
\* although the gate measures conversations, which asking a new agent resets.
SpawnedNeverSpawn == \A s \in Subs : parent[s] \in Roots \cup {Nobody}
=============================================================================
