---------------------------- MODULE BrowserTurn ----------------------------
(***************************************************************************)
(* One teammate and its private browser, as the two parts of the row that  *)
(* know of them must agree: the tasks, which are admitted and released,    *)
(* and the lease, which is reserved and closed.  The teammate works at one *)
(* task at a time; in its turn a task may open the browser once, unless it *)
(* was asked to stop before; and the turn passes on for good, with the     *)
(* browser closed.  TeamTasks implements this specification for every      *)
(* teammate with a browser that is open or not, and ComputerLease for the  *)
(* one that owns its leases with the whole record.                         *)
(***************************************************************************)
CONSTANT Task

VARIABLES
    turn,       \* the task in its turn, if there is one
    past,       \* those that had theirs
    browser,    \* none, open or closed, per task
    stopped     \* tasks that were asked to stop

turnVars == <<turn, past, browser, stopped>>

Init ==
    /\ turn = {} /\ past = {} /\ stopped = {}
    /\ browser = [t \in Task |-> "none"]

Take(t) ==
    /\ turn = {} /\ t \notin past
    /\ turn' = {t}
    /\ UNCHANGED <<past, browser, stopped>>

Open(t) ==
    /\ turn = {t} /\ t \notin stopped /\ browser[t] = "none"
    /\ browser' = [browser EXCEPT ![t] = "open"]
    /\ UNCHANGED <<turn, past, stopped>>

Close(t) ==
    /\ turn = {t} /\ browser[t] = "open"
    /\ browser' = [browser EXCEPT ![t] = "closed"]
    /\ UNCHANGED <<turn, past, stopped>>

Stop ==
    /\ stopped' = stopped \cup turn
    /\ UNCHANGED <<turn, past, browser>>

Pass(t) ==
    /\ turn = {t} /\ browser[t] # "open"
    /\ turn' = {} /\ past' = past \cup {t}
    /\ UNCHANGED <<browser, stopped>>

Next == Stop \/ \E t \in Task : Take(t) \/ Open(t) \/ Close(t) \/ Pass(t)

Spec == Init /\ [][Next]_turnVars
=============================================================================
