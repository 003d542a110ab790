------------------------------ MODULE Delivery ------------------------------
(***************************************************************************)
(* What the inbox promises its producers: at-least-once delivery with a    *)
(* dead-letter exit.  A message that was sent is handed over at least once *)
(* before it counts as done, done and dead are final, and only sending it  *)
(* again (UpsertInbox) starts over.                                        *)
(***************************************************************************)
CONSTANT Msgs

VARIABLE stage   \* [Msgs -> {"absent", "queued", "handed", "done", "dead"}]

Init == stage = [m \in Msgs |-> "absent"]

Move(m, from, to) == stage[m] \in from /\ stage' = [stage EXCEPT ![m] = to]

Send(m)    == Move(m, {"absent"}, "queued")
Resend(m)  == Move(m, {"queued", "handed", "done", "dead"}, "queued")
Hand(m)    == Move(m, {"queued"}, "handed")
Confirm(m) == Move(m, {"handed"}, "done")
Bury(m)    == Move(m, {"queued", "handed"}, "dead")

Next == \E m \in Msgs : Send(m) \/ Resend(m) \/ Hand(m) \/ Confirm(m) \/ Bury(m)

Spec == Init /\ [][Next]_stage
=============================================================================
