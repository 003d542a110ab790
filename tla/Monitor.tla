------------------------------ MODULE Monitor -------------------------------
(***************************************************************************)
(* The transcript monitor (internal/monitor): one window, whose runner     *)
(* writes a transcript while the monitor polls it and turns new entries    *)
(* into agent_outbox rows.                                                 *)
(*                                                                         *)
(* A JSONL transcript is a file of lines four units long: half a line, the *)
(* byte after it, the whole text, the newline.  Its size can be seen at    *)
(* any unit but the second.  OpenCode keeps parts with a time_updated in   *)
(* milliseconds instead, and its offset is such a time.                    *)
(***************************************************************************)
EXTENDS Naturals, FiniteSets, FiniteSetsExt

CONSTANTS MaxLines, MonRows,
          MonTime,      \* bound on OpenCode's clock
          MonTrouble,   \* bound on crashes and database errors together
          Text, Tool    \* an assistant message that ends a turn, and one that does not

ASSUME MonitorAssumption == MaxLines \in Nat \ {0} /\ MonRows \in Nat /\ MonTime \in Nat /\ MonTrouble \in Nat

Lines == 1..MaxLines
NoLine == 0

VARIABLES
    runner,     \* agents.runner_type
    long,       \* a line that exceeds the scanner's 1 MB buffer, or NoLine
    size,       \* of the transcript
    updated,    \* part.time_updated, 0 for none
    clock,
    kind,       \* of each entry
    about,      \* the inbox row the agent answered when it wrote it
    turn,       \* the inbox row the agent is working on
    active,     \* ActiveInboxMap: the row claimed last, 0 for none
    claimed,    \* agent_inbox rows claimed so far
    offset,     \* TrackedSession.LastByteOffset, in memory
    saved,      \* and in monitor_state.json
    mtime,      \* ClaudeSource.fileMtimes, as the size it stands for
    poll,       \* [at, batch]: where the poll is, and OutboxSink.buffers
    turnEnd,    \* turnEnds: the closing message fired last
    outbox,     \* <<entry, in_reply_to>>
    lost,       \* entries in a batch whose outbox row could not be written
    troubles

monVars == <<runner, long, size, updated, clock, kind, about, turn, active, claimed,
             offset, saved, mtime, poll, turnEnd, outbox, lost, troubles>>
written == <<runner, long, size, updated, clock, kind, about>>
inbox == <<turn, active, claimed>>

Between == [at |-> "between", batch |-> {}]
Unseen == 4 * MaxLines + 1

MonInit ==
    /\ runner \in {"claude", "pi", "opencode"} /\ long \in {NoLine, MaxLines}
    /\ size = 0 /\ updated = [k \in Lines |-> 0] /\ clock = 1
    /\ kind = [k \in Lines |-> Text] /\ about = [k \in Lines |-> 0]
    /\ turn = 0 /\ active = 0 /\ claimed = 0
    /\ offset = 0 /\ saved = 0 /\ mtime = Unseen
    /\ poll = Between /\ turnEnd = NoLine
    /\ outbox = {} /\ lost = {} /\ troubles = 0

-----------------------------------------------------------------------------
(* The runner and the sidecar                                               *)

Begins(k) == kind' \in [Lines -> {Text, Tool}] /\ (\A j \in Lines \ {k} : kind'[j] = kind[j])
             /\ about' = [about EXCEPT ![k] = turn]

\* Appended in pieces: half, whole, terminated.
RunnerAppends ==
    /\ runner # "opencode" /\ size < 4 * MaxLines
    /\ \E s \in (size + 1)..(size + 4 - (size % 4)) : s % 4 # 2 /\ size' = s
    /\ IF size % 4 = 0 THEN Begins(size \div 4 + 1) ELSE UNCHANGED <<kind, about>>
    /\ UNCHANGED <<runner, long, updated, clock, inbox, offset, saved, mtime, poll, turnEnd, outbox, lost, troubles>>

\* A part appears, or a streaming one is updated.
RunnerUpdatesPart ==
    /\ runner = "opencode"
    /\ \E k \in Lines :
        /\ \A j \in 1..(k - 1) : updated[j] > 0
        /\ updated' = [updated EXCEPT ![k] = clock]
        /\ IF updated[k] = 0 THEN Begins(k) ELSE UNCHANGED <<kind, about>>
    /\ UNCHANGED <<runner, long, size, clock, inbox, offset, saved, mtime, poll, turnEnd, outbox, lost, troubles>>

MonTick ==
    /\ runner = "opencode" /\ clock < MonTime /\ clock' = clock + 1
    /\ UNCHANGED <<runner, long, size, updated, kind, about, inbox, offset, saved, mtime, poll, turnEnd, outbox, lost, troubles>>

\* The sidecar records the row it claimed, types it and acks at once; the
\* runner comes to it when it has finished the one before.
SidecarClaims ==
    /\ claimed < MonRows /\ claimed' = claimed + 1 /\ active' = claimed + 1
    /\ UNCHANGED <<written, turn, offset, saved, mtime, poll, turnEnd, outbox, lost, troubles>>

NextTurn ==
    /\ turn < claimed /\ turn' = turn + 1 /\ size % 4 = 0
    /\ UNCHANGED <<written, active, claimed, offset, saved, mtime, poll, turnEnd, outbox, lost, troubles>>

-----------------------------------------------------------------------------
(* poll                                                                     *)

\* A terminated or complete last line parses; what starts in mid-line does not.
SlipSkipsFirst(o) == {k \in Lines : 4 * (k - 1) > o /\ size + 1 >= 4 * k}
Parsed(o) == {k \in Lines : 4 * (k - 1) >= o /\ size + 1 >= 4 * k}
TooLong(o) == long # NoLine /\ 4 * (long - 1) >= o /\ size + 1 >= 4 * long

\* An offset beyond the end of the file is taken for a truncation.
Start == IF offset > size THEN 0 ELSE offset

\* claude counts a newline after every line, also after an unterminated one.
ClaudeOffset == IF size % 4 = 0 THEN size ELSE size + 1
\* pi holds the offset at the start of an unterminated line.
SlipNotHeld == ClaudeOffset
PiOffset == size - (size % 4)

\* The last message entry a completed line holds.
Closing == LET n == size \div 4 IN IF n > 0 /\ kind[n] = Text THEN n ELSE NoLine
DetectTurnEnd == turnEnd' = IF runner = "pi" /\ Closing # NoLine THEN Closing ELSE turnEnd

Reads(entries, o) ==
    /\ offset' = o
    /\ poll' = [at |-> IF entries = {} THEN "saving" ELSE "flushing", batch |-> entries]
    /\ IF o > offset THEN DetectTurnEnd ELSE UNCHANGED turnEnd

ReadClaude ==
    /\ runner = "claude" /\ mtime # size
    /\ mtime' = size
    /\ IF TooLong(Start) \/ Start = size
       THEN poll' = [Between EXCEPT !.at = "saving"] /\ UNCHANGED <<offset, turnEnd>>
       ELSE Reads(Parsed(Start), ClaudeOffset)

ReadPi ==
    /\ runner = "pi" /\ UNCHANGED mtime
    /\ ~TooLong(Start) /\ PiOffset # offset
    /\ Reads(Parsed(Start), PiOffset)

ReadOpenCode ==
    /\ runner = "opencode" /\ UNCHANGED mtime
    /\ \E k \in Lines : updated[k] > offset
    \* An update of a tool part is a new status; a text part is emitted again.
    /\ Reads({k \in Lines : updated[k] > offset},
             Max({updated[k] : k \in Lines}))

ReadNewEntries ==
    /\ poll.at = "between"
    /\ ReadClaude \/ ReadPi \/ ReadOpenCode
    /\ UNCHANGED <<written, inbox, saved, outbox, lost, troubles>>

\* One row for the batch, in reply to the row claimed last by now.
FlushSession ==
    /\ poll.at = "flushing"
    /\ \/ outbox' = outbox \cup (poll.batch \X {active}) /\ UNCHANGED <<lost, troubles>>
       \/ /\ troubles < MonTrouble /\ troubles' = troubles + 1
          /\ lost' = lost \cup poll.batch /\ UNCHANGED outbox
    /\ poll' = [Between EXCEPT !.at = "saving"]
    /\ UNCHANGED <<written, inbox, offset, saved, mtime, turnEnd>>

SaveIfDirty ==
    /\ poll.at = "saving"
    /\ saved' = offset /\ poll' = Between
    /\ UNCHANGED <<written, inbox, offset, mtime, turnEnd, outbox, lost, troubles>>

Crash ==
    /\ troubles < MonTrouble /\ troubles' = troubles + 1
    /\ offset' = saved /\ mtime' = Unseen /\ poll' = Between
    /\ turnEnd' = NoLine /\ active' = 0
    /\ UNCHANGED <<written, turn, claimed, saved, outbox, lost>>

MonNext ==
    \/ RunnerAppends \/ RunnerUpdatesPart \/ MonTick \/ SidecarClaims \/ NextTurn
    \/ ReadNewEntries \/ FlushSession \/ SaveIfDirty \/ Crash

Poll == ReadNewEntries \/ FlushSession \/ SaveIfDirty
MonSpec == MonInit /\ [][MonNext]_monVars
MonFairSpec == MonSpec /\ WF_monVars(Poll)

-----------------------------------------------------------------------------
Relayed(k) == \E r \in 0..MonRows : <<k, r>> \in outbox

\* "The completed line is read on a later pass, instead of resuming mid-line
\* and silently losing it" (source_pi.go): whatever pieces a pi line was
\* written in, and whenever the monitor died, nothing behind the saved offset
\* was left out.
PiNeverSkips ==
    runner = "pi" => \A k \in Lines : 4 * k <= saved => Relayed(k) \/ k \in lost

\* Every entry that is complete and ahead of the offset reaches the outbox,
\* unless its batch failed or some line is more than the scanner can hold.
Ahead(k) ==
    IF runner = "opencode" THEN updated[k] > offset
    ELSE 4 * (k - 1) >= offset /\ size >= 4 * k /\ long = NoLine
EntriesRelayed == \A k \in Lines : Ahead(k) ~> (Relayed(k) \/ k \in lost)
=============================================================================
