------------------------- MODULE MCCapacityLifecycle -------------------------
(* Instances of CapacityLifecycle for TLC.                                   *)
EXTENDS CapacityLifecycle, TLC

CONSTANTS w1, w2, ipv4, ipv6

Sym == Permutations(Workers)
==============================================================================
