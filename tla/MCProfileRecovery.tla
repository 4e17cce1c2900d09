------------------------- MODULE MCProfileRecovery -------------------------
(* Instances of ProfileRecovery for TLC.                                   *)
EXTENDS ProfileRecovery, TLC

CONSTANTS bp, hp, bc, hc, bb, hb

MCBrowser == [pod |-> bp, container |-> bc, binding |-> bb]
MCHelper == [pod |-> hp, container |-> hc, binding |-> hb]
Symmetric == Permutations(Node)
=============================================================================
