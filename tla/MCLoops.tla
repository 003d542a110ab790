------------------------------- MODULE MCLoops --------------------------------
(* The components whose loops owe something in the end, one at a time: part    *)
(* says which one runs, and the others stay at an initial state.               *)
EXTENDS Outbound, Monitor, Tickets

VARIABLE part
vars == <<outVars, monVars, ticketVars, part>>

Init ==
    /\ part \in {"outbound", "monitor", "tickets"}
    /\ OutInit /\ (part # "outbound" => binding = [t \in Chats |-> [agent |-> CHOOSE a \in Agents : TRUE, type |-> "owner"]])
    /\ MonInit /\ (part # "monitor" => runner = "pi" /\ long = NoLine)
    /\ TicketInit

Next ==
    /\ part' = part
    /\ \/ part = "outbound" /\ OutNext /\ UNCHANGED <<monVars, ticketVars>>
       \/ part = "monitor" /\ MonNext /\ UNCHANGED <<outVars, ticketVars>>
       \/ part = "tickets" /\ TicketNext /\ UNCHANGED <<outVars, monVars>>

\* Each component's own fairness, when it is the one that runs.
Fairness ==
    /\ WF_outVars(part = "outbound" /\ Relay) /\ WF_outVars(part = "outbound" /\ EchoFanout)
    /\ WF_outVars(part = "outbound" /\ OutcomeStep)
    /\ \A w \in Dispatchers : WF_outVars(part = "outbound" /\ DispatcherStep(w))
    /\ \A r \in Items \X Chats : WF_outVars(part = "outbound" /\ DeferralEnds(r))
    /\ WF_monVars(part = "monitor" /\ Poll)
    /\ WF_ticketVars(part = "tickets" /\ ReconcileReads) /\ WF_ticketVars(part = "tickets" /\ FillDerived)
    /\ WF_ticketVars(part = "tickets" /\ SetIssueColumn) /\ WF_ticketVars(part = "tickets" /\ ColumnRecorded)
    /\ WF_ticketVars(part = "tickets" /\ BackoffDelay)
    /\ WF_ticketVars(part = "tickets" /\ AddIssueLink) /\ WF_ticketVars(part = "tickets" /\ LinkRecorded)
    /\ SF_ticketVars(part = "tickets" /\ LinkReads)

Spec == Init /\ [][Next]_vars /\ Fairness
===============================================================================
