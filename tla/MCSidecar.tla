------------------------------ MODULE MCSidecar ------------------------------
(* Small instances of Sidecar for TLC. *)
EXTENDS Sidecar, TLC

CONSTANTS d1, d2, a1, a2, m1, m2

MCDaemons1 == {d1}
MCDaemons2 == {d1, d2}
MCAgents1 == {a1}
MCAgents2 == {a1, a2}
MCWorkers == Daemons \X Agents
Symm == Permutations(Msgs) \cup Permutations(Agents)
=============================================================================
