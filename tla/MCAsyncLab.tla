----------------------------- MODULE MCAsyncLab -----------------------------
(***************************************************************************)
(* Instances of AsyncLab for TLC: one and two submit the same webhook, and *)
(* all runs share one target.                                              *)
(***************************************************************************)
EXTENDS AsyncLab

CONSTANTS u, v, one, two, other, hook, app

MCKey == [q \in Request |-> IF q = other THEN None ELSE hook]
MCTarget == [q \in Request |-> app]

\* One webhook delivered twice, whose run is cancelled, with one fault; a run
\* with two faults; and two runs that compete for their target.
MCScenario ==
    {[made |-> {one, two}, cancelled |-> {one}, faults |-> 1],
     [made |-> {one}, cancelled |-> {}, faults |-> 2],
     [made |-> {one, other}, cancelled |-> {}, faults |-> 0]}

\* One run, cancelled, and no fault: what refutes CancelledUnexecuted.
CancelScenario == {[made |-> {one}, cancelled |-> {one}, faults |-> 0]}
=============================================================================
