---------------------------- MODULE MCTeamTasks ----------------------------
(***************************************************************************)
(* Instances of TeamTasks for TLC: two specialists and one reviewer.  The  *)
(* admission instance gives them work that collides on the path src; the   *)
(* journal instance gives one of them three calls, two for one effect.     *)
(***************************************************************************)
EXTENDS TeamTasks

CONSTANTS ann, bob, rev, c1, c2, c3, e1, e2

MCAgent == {ann, bob, rev}
MCReviewer == {rev}
MCReviewers == {bob, rev}

Work(a, targets, reviewer, required) ==
    [agent |-> a, targets |-> targets, reviewer |-> reviewer,
     required |-> required]

AdmissionAssignment ==
    {Work(ann, {<<"src">>}, None, FALSE),
     Work(bob, {<<"src", "app">>}, None, FALSE),
     Work(ann, {<<"docs">>}, None, FALSE),
     Work(rev, {}, None, FALSE)}

JournalAssignment == {Work(ann, {}, None, TRUE)}

MCEffect == [c \in Call |-> IF c = c3 THEN e2 ELSE e1]
=============================================================================
