-------------------------- MODULE MCComputerLease --------------------------
(***************************************************************************)
(* Instances of ComputerLease for TLC.  Pods, containers, bindings and     *)
(* observations are interchangeable, and so are the volumes.               *)
(***************************************************************************)
EXTENDS ComputerLease, TLC

Identities ==
    Permutations(Pod) \cup Permutations(Binding) \cup Permutations(Seen)
        \cup Permutations(Pvc) \cup Permutations(Pin)
=============================================================================
