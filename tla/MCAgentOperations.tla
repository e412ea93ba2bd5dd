------------------------- MODULE MCAgentOperations -------------------------
(* Instances of AgentOperations for TLC: one computer on a host with one or *)
(* two VMIDs, up to two recovery sweeps.                                    *)
EXTENDS AgentOperations, TLC

CONSTANTS v1, v2, s1, s2, p1, p2

(* VMIDs, sweeps and restore points are interchangeable.                    *)
Symmetric == Permutations(Slots) \cup Permutations(Sweepers) \cup Permutations(Snapshots)
=============================================================================
