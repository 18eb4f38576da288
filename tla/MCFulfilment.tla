---------------------------- MODULE MCFulfilment ----------------------------
(* Values of the constants for TLC: o1 orders both products, o2 only p1,   *)
(* and there is one piece of each.                                         *)
EXTENDS Fulfilment, TLC

CONSTANTS o1, o2, p1, p2

MCQuantity == [o \in Orders |-> [p \in Products |-> IF o = o2 /\ p = p2 THEN 0 ELSE 1]]
MCSymmetry == Permutations(Runs)
MCTotalStock == [p \in Products |-> 1]
=============================================================================
