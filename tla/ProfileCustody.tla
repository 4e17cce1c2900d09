--------------------------- MODULE ProfileCustody ---------------------------
(***************************************************************************)
(* What a teammate may rely on about its one persistent browser profile,   *)
(* whatever happens to leases, Pods and requests.  The profile is in the   *)
(* custody of one task at a time, from the reservation of its browser to   *)
(* the closure of its lease.  In that time the task's browser, and after   *)
(* it the helper that settles the profile, may each be started once, never *)
(* both at once; and the task gives custody up for good, with the lock     *)
(* that its browser left in the profile taken away.  BrowserSupervisor     *)
(* implements this specification.                                          *)
(***************************************************************************)
CONSTANTS Task

VARIABLES
    custody,    \* the tasks that have the profile
    past,       \* those that had it
    writers,    \* the containers that can write it
    started,    \* those that ever could
    locked      \* the tasks whose lock is in it

custodyVars == <<custody, past, writers, started, locked>>

BrowserOf(t) == <<"browser", t>>
HelperOf(t) == <<"helper", t>>

Init == custody = {} /\ past = {} /\ writers = {} /\ started = {} /\ locked = {}

Receive(t) ==
    /\ custody = {} /\ t \notin past
    /\ custody' = {t}
    /\ UNCHANGED <<past, writers, started, locked>>

Surrender(t) ==
    /\ custody = {t} /\ writers = {} /\ locked = {}
    /\ custody' = {} /\ past' = past \cup {t}
    /\ UNCHANGED <<writers, started, locked>>

Enter(c) ==
    /\ writers = {} /\ c \notin started
    /\ writers' = {c} /\ started' = started \cup {c}
    /\ UNCHANGED <<custody, past, locked>>

\* A browser finds a profile without a lock, and is the first to use it.
StartBrowser(t) ==
    /\ custody = {t} /\ locked = {} /\ HelperOf(t) \notin started
    /\ Enter(BrowserOf(t))

StartHelper(t) == custody = {t} /\ Enter(HelperOf(t))

Leave(c) ==
    /\ c \in writers /\ writers' = writers \ {c}
    /\ UNCHANGED <<custody, past, started, locked>>

Lock(t) ==
    /\ writers = {BrowserOf(t)} /\ locked = {}
    /\ locked' = {t}
    /\ UNCHANGED <<custody, past, writers, started>>

\* By the browser that took it, or by the helper that settles after it.
Unlock(t) ==
    /\ locked = {t} /\ writers \in {{BrowserOf(t)}, {HelperOf(t)}}
    /\ locked' = {}
    /\ UNCHANGED <<custody, past, writers, started>>

Next ==
    \E t \in Task :
        \/ Receive(t) \/ Surrender(t)
        \/ StartBrowser(t) \/ StartHelper(t)
        \/ Leave(BrowserOf(t)) \/ Leave(HelperOf(t))
        \/ Lock(t) \/ Unlock(t)

Spec == Init /\ [][Next]_custodyVars
=============================================================================
