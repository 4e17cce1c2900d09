----------------------------- MODULE WorkSlots -----------------------------
(***************************************************************************)
(* What a team promises about its capacity, whoever claims, executes or    *)
(* recovers: a task is given a slot once, is launched at most once while   *)
(* it holds the slot, and gives the slot back only when nothing executes   *)
(* it any more.  TeamRunner implements this specification.                 *)
(***************************************************************************)
EXTENDS Integers, FiniteSets

CONSTANTS
    Task,
    Capacity    \* how many slots there are

VARIABLES
    held,       \* tasks that occupy a slot
    launched,   \* tasks whose execution has begun at some time
    executing,  \* tasks that somebody may be executing now
    freed       \* tasks that have given their slot back

slotVars == <<held, launched, executing, freed>>

Init == held = {} /\ launched = {} /\ executing = {} /\ freed = {}

Admit(S) ==
    /\ S \cap (held \cup freed) = {}
    /\ Cardinality(held \cup S) <= Capacity
    /\ held' = held \cup S
    /\ UNCHANGED <<launched, executing, freed>>

Launch(S) ==
    /\ S \subseteq held \ launched
    /\ launched' = launched \cup S
    /\ executing' = executing \cup S
    /\ UNCHANGED <<held, freed>>

End(t) ==
    /\ t \in executing
    /\ executing' = executing \ {t}
    /\ UNCHANGED <<held, launched, freed>>

Free(t) ==
    /\ t \in held \ executing
    /\ held' = held \ {t}
    /\ freed' = freed \cup {t}
    /\ UNCHANGED <<launched, executing>>

Next ==
    \/ \E S \in SUBSET Task : Admit(S) \/ Launch(S)
    \/ \E t \in Task : End(t) \/ Free(t)

Spec == Init /\ [][Next]_slotVars
=============================================================================
