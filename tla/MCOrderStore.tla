---------------------------- MODULE MCOrderStore ----------------------------
(* One order, concurrent handlers: values of the constants for TLC.        *)
EXTENDS OrderStore, TLC

CONSTANTS h1, h2, o1

MCHandlers == {h1, h2}
MCAggregates == {o1}
MCSymmetry == Permutations(MCHandlers)
=============================================================================
