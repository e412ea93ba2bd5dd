------------------------- MODULE MCInfraConnection -------------------------
(* Instances of InfraConnection for TLC: two runs compete for the lease of  *)
(* one connection, over which agents come and go.                           *)
EXTENDS InfraConnection, TLC

CONSTANTS a1, a2, r1, r2, t1, t2

(* Agents, runs and targets are interchangeable: no definition names one.   *)
Symmetric == Permutations(Agents) \cup Permutations(Runs) \cup Permutations(Targets)
=============================================================================
