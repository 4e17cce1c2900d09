---------------------------- MODULE MCWorkloads ----------------------------
(* Instances of Workloads for TLC.                                          *)
EXTENDS Workloads

CONSTANTS u, v, c, d

\* Overlapping calls with a fault; a call with a run by hand or a stage; and a
\* run by hand or a stage with a fault.
MCScenario ==
    {[calls |-> Client, past |-> Run \ Slot, faults |-> 0],
     [calls |-> {c}, past |-> {}, faults |-> MaxFaults],
     [calls |-> {}, past |-> {}, faults |-> 0]}

\* The owner and no fault.
OwnerScenario == {[calls |-> Client, past |-> {}, faults |-> 0]}
=============================================================================
