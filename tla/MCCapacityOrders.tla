--------------------------- MODULE MCCapacityOrders ---------------------------
(* Instances of CapacityOrders for TLC.                                       *)
EXTENDS CapacityOrders, TLC

CONSTANTS o1, o2, w1, w2

OrderSymmetry == Permutations({o1, o2})
===============================================================================
