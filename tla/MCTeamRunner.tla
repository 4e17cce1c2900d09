---------------------------- MODULE MCTeamRunner ----------------------------
(***************************************************************************)
(* Instances of TeamRunner for TLC.  The teammates' work never collides:   *)
(* what is at stake is who executes it and who frees its slot.             *)
(***************************************************************************)
EXTENDS TeamRunner, TLC

CONSTANTS ann, bob, cid, c1, p, q

MCAnn == {ann}
MCThree == {ann, bob, cid}
Plain(a) == [agent |-> a, targets |-> {}, reviewer |-> None, required |-> FALSE]
MCAssignment == {Plain(a) : a \in Agent}
MCEffect == [c \in Call |-> c]

\* The code never compares teammates but for equality.
Teammates == Permutations(Agent)
=============================================================================
