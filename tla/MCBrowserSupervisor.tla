------------------------- MODULE MCBrowserSupervisor -------------------------
(* Instances of BrowserSupervisor for TLC.                                 *)
EXTENDS BrowserSupervisor, TLC

CONSTANTS bp, hp, bc, hc, bb, hb

MCBrowser == [pod |-> bp, container |-> bc, binding |-> bb]
MCHelper == [pod |-> hp, container |-> hc, binding |-> hb]
Symmetric == Permutations(Task)
=============================================================================
