--------------------------- MODULE ComputerLease ---------------------------
(***************************************************************************)
(* The durable lease of a teammate's private browser: the record that      *)
(* agent-teams/computer-lease.js keeps on a task, with the recovery helper *)
(* (agent-computer/recovery-helper.js) that settles its profile.           *)
(*                                                                         *)
(* Every action is one transaction of TeamService on the locked team row,  *)
(* called by a trusted supervisor, observer or controller with whatever it *)
(* has seen; a refused call changes nothing.  One teammate is modelled:    *)
(* leases of different teammates never meet.  The tasks are those assigned *)
(* to it, and of their life only what the lease depends on is kept (the    *)
(* whole of it is TeamTasks).                                              *)
(*                                                                         *)
(* Replays of a call return the stored record: they are the no-change case *)
(* of each action.  Timestamps and reasons are left out, and so are the    *)
(* fields of a lease that its reservation fixes for good (image, names,    *)
(* identity hash, claim and boot).  X_Y states a plausible bug of X.       *)
(***************************************************************************)
EXTENDS Integers, FiniteSets

CONSTANTS
    Task,           \* tasks assigned to the teammate
    Pod,            \* Pod uids a caller may report
    Pvc,            \* PVC uids
    Container,      \* container ids
    Binding,        \* node bindings: node, host boot, init process, cgroup
    Seen,           \* observations a receipt may carry
    Pin,            \* root, mount and volume a recovery write may be bound to
    None

Receipt == [of : Binding, seen : Seen]

ASSUME LeaseAssumption ==
    None \notin Pod \cup Pvc \cup Container \cup Binding \cup Pin \cup Receipt

VARIABLES
    status,             \* of each task: queued, running, reconciling, released
    executionEnabled,
    cancelRequested,
    lease,              \* task.computerLease without its recoveryHelper
    helper,             \* task.computerLease.recoveryHelper
    profile,            \* pvcUid of the teammate in team.computerProfiles
    launches,           \* history: launches granted with dispatch = true
    writes              \* history: recovery writes granted with dispatch = true

work == <<status, executionEnabled, cancelRequested>>
granted == <<launches, writes>>
vars == <<work, lease, helper, profile, granted>>

Maybe(S) == S \cup {None}

NoLease == [phase |-> "none", pod |-> None, pvc |-> None, container |-> None,
            binding |-> None, stop |-> None, recovery |-> None]
Leases == [phase : {"none", "reserved", "provisioning", "ready", "closing",
                    "reconciliation", "closed"},
           pod : Maybe(Pod), pvc : Maybe(Pvc), container : Maybe(Container),
           binding : Maybe(Binding), stop : Maybe(Receipt),
           recovery : Maybe(Receipt)]

NoHelper == [phase |-> "none", launched |-> FALSE, pod |-> None,
             container |-> None, binding |-> None, stop |-> None,
             write |-> None]
Helpers == [phase : {"none", "reserved", "provisioning", "ready", "closing",
                     "reconciliation", "closed"},
            launched : BOOLEAN, pod : Maybe(Pod), container : Maybe(Container),
            binding : Maybe(Binding), stop : Maybe(Receipt), write : Maybe(Pin)]

TypeOK ==
    /\ status \in [Task -> {"queued", "running", "reconciling", "released"}]
    /\ executionEnabled \in BOOLEAN
    /\ cancelRequested \subseteq Task
    /\ lease \in [Task -> Leases]
    /\ helper \in [Task -> Helpers]
    /\ profile \in Maybe(Pvc)
    /\ launches \in [Task -> Nat] /\ writes \in [Task -> Nat]

Init ==
    /\ status = [t \in Task |-> "queued"]
    /\ executionEnabled = TRUE
    /\ cancelRequested = {}
    /\ lease = [t \in Task |-> NoLease]
    /\ helper = [t \in Task |-> NoHelper]
    /\ profile = None
    /\ launches = [t \in Task |-> 0] /\ writes = [t \in Task |-> 0]

-----------------------------------------------------------------------------
(* Which records are valid, and which are closed.                          *)

\* normalizeBrowserStopEvidence: a receipt for exactly the bound container.
StopProven(l) == l.binding # None /\ l.stop # None /\ l.stop.of = l.binding
\* normalizeProfileRecoveryEvidence: a retirement after that very stop.
RecoveryProven(l) ==
    StopProven(l) /\ l.recovery # None /\ l.recovery.of = l.binding

HelperStopProven(h) ==
    /\ h.pod # None /\ h.container # None /\ h.binding # None
    /\ h.stop # None /\ h.stop.of = h.binding

HelperClosed(h) ==
    \/ h.phase = "none"
    \/ h.phase = "closed" /\ (~h.launched \/ HelperStopProven(h))

\* isBrowserLeaseClosed.
Closed(l, h) ==
    /\ l.phase = "closed"
    /\ HelperClosed(h)
    /\ l.binding # None => RecoveryProven(l)
Open(t) == lease[t].phase # "none" /\ ~Closed(lease[t], helper[t])

\* engineTask, with and without cleanup.
MayAct(t) == status[t] = "running" /\ t \notin cancelRequested /\ executionEnabled
MayReport(t) == status[t] \in {"running", "reconciling"}

-----------------------------------------------------------------------------
(* The life of the tasks, as far as their leases go.                       *)

ConfigureExecution(on) ==
    /\ executionEnabled' = on
    /\ UNCHANGED <<status, cancelRequested, lease, helper, profile, granted>>

Claim(t) ==
    /\ status[t] = "queued" /\ executionEnabled
    /\ \A u \in Task : status[u] \notin {"running", "reconciling"} /\ ~Open(u)
    /\ status' = [status EXCEPT ![t] = "running"]
    /\ UNCHANGED <<executionEnabled, cancelRequested, lease, helper, profile,
                   granted>>

StopAgent ==
    /\ cancelRequested' = cancelRequested \cup {t \in Task : status[t] = "running"}
    /\ UNCHANGED <<status, executionEnabled, lease, helper, profile, granted>>

Unobserved(t) ==
    /\ status[t] = "running"
    /\ status' = [status EXCEPT ![t] = "reconciling"]
    /\ UNCHANGED <<executionEnabled, cancelRequested, lease, helper, profile,
                   granted>>

\* recordResult or finishReconciliation.
ReleaseTask_Closing(t) ==
    /\ MayReport(t)
    /\ lease[t].phase \in {"none", "closing", "closed"}
    /\ status' = [status EXCEPT ![t] = "released"]
    /\ UNCHANGED <<executionEnabled, cancelRequested, lease, helper, profile,
                   granted>>
ReleaseTask(t) ==
    /\ MayReport(t)
    /\ ~Open(t)
    /\ status' = [status EXCEPT ![t] = "released"]
    /\ UNCHANGED <<executionEnabled, cancelRequested, lease, helper, profile,
                   granted>>

-----------------------------------------------------------------------------
(* The lease.                                                              *)

Reservation_NewProfile == [NoLease EXCEPT !.phase = "reserved"]
Reservation == [NoLease EXCEPT !.phase = "reserved", !.pvc = profile]

ReserveComputer(t) ==
    /\ MayAct(t)
    /\ lease[t] = NoLease
    /\ \A u \in Task : ~Open(u)
    /\ lease' = [lease EXCEPT ![t] = Reservation]
    /\ UNCHANGED <<work, helper, profile, granted>>

LeaseStep == [none |-> {},
    reserved |-> {"reserved", "provisioning", "closing", "reconciliation"},
    provisioning |-> {"provisioning", "ready", "closing", "reconciliation"},
    ready |-> {"ready", "closing", "reconciliation"},
    closing |-> {"closing", "closed", "reconciliation"},
    reconciliation |-> {"reconciliation", "closing"},
    closed |-> {}]

Updates == [phase : {"reserved", "provisioning", "ready", "closing",
                     "reconciliation", "closed"},
            pod : Maybe(Pod), pvc : Maybe(Pvc), container : Maybe(Container),
            binding : Maybe(Binding)]

\* A field that is absent keeps its value; one that is set never changes.
Attach_Blank(old, new) == new
Attach(old, new) == IF new = None THEN old ELSE new
Keeps(old, new) == new = None \/ old = None \/ old = new

\* The profile is the teammate's for good, whichever lease saw it first.
SameProfile(pvc) == pvc = None \/ profile \in {None, pvc}

Closable_ByClaim(l, h) == TRUE
Closable(l, h) == l.phase = "closed" => Closed(l, h)

Updated(l, u) ==
    [l EXCEPT !.phase = u.phase, !.pod = Attach(@, u.pod),
              !.pvc = Attach(@, u.pvc), !.container = Attach(@, u.container),
              !.binding = Attach(@, u.binding)]

AdvanceComputer(t, u) ==
    LET l == lease[t]
        next == Updated(l, u)
        identified == next.pod # None /\ next.pvc # None /\ next.container # None
    IN  /\ MayReport(t)
        /\ u.phase \in LeaseStep[l.phase]
        /\ Keeps(l.pod, u.pod) /\ Keeps(l.pvc, u.pvc)
        /\ Keeps(l.container, u.container) /\ Keeps(l.binding, u.binding)
        /\ u.binding # None => identified
        /\ next.phase = "ready" => identified
        /\ Closable(next, helper[t])
        /\ SameProfile(next.pvc)
        /\ lease' = [lease EXCEPT ![t] = next]
        /\ profile' = Attach(profile, next.pvc)
        /\ UNCHANGED <<work, helper, granted>>

\* The first receipt is kept, and a closed lease takes none.
KeepFirst(old, new) == Attach(new, old)

RecordStop(t, r) ==
    LET l == lease[t] IN
    /\ MayReport(t)
    /\ l.binding # None /\ r.of = l.binding
    /\ l.stop = None => l.phase # "closed"
    /\ lease' = [lease EXCEPT ![t].stop = KeepFirst(@, r)]
    /\ UNCHANGED <<work, helper, profile, granted>>

RecordRecovery(t, r) ==
    LET l == lease[t] IN
    /\ MayReport(t)
    /\ StopProven(l) /\ r.of = l.binding
    /\ IF l.recovery = None THEN l.phase \in {"closing", "reconciliation"}
                            ELSE l.recovery = r
    /\ lease' = [lease EXCEPT ![t].recovery = r]
    /\ UNCHANGED <<work, helper, profile, granted>>

-----------------------------------------------------------------------------
(* The recovery helper.                                                    *)

Settling(t) == lease[t].phase \in {"closing", "reconciliation"}

ReserveHelper(t) ==
    /\ MayReport(t) /\ Settling(t)
    /\ StopProven(lease[t])
    /\ helper[t] = NoHelper /\ lease[t].recovery = None
    /\ helper' = [helper EXCEPT ![t].phase = "reserved"]
    /\ UNCHANGED <<work, lease, profile, granted>>

HelperStep == [none |-> {},
    reserved |-> {"reserved", "provisioning", "closed", "reconciliation"},
    provisioning |-> {"provisioning", "ready", "closing", "reconciliation"},
    ready |-> {"ready", "closing", "reconciliation"},
    closing |-> {"closing", "closed", "reconciliation"},
    reconciliation |-> {"reconciliation", "closing"},
    closed |-> {}]

HelperUpdates == [phase : {"reserved", "provisioning", "ready", "closing",
                           "reconciliation", "closed"},
                  pod : Maybe(Pod), container : Maybe(Container),
                  binding : Maybe(Binding), stop : Maybe(Receipt)]

\* A helper that never had an object needs no stop to be closed.
HelperClosable(old, h) ==
    h.phase = "closed" =>
        \/ old.phase = "reserved" /\ ~h.launched
        \/ HelperStopProven(h)

Advanced(h, u) ==
    [h EXCEPT !.phase = u.phase,
              !.launched = @ \/ u.phase = "provisioning",
              !.pod = Attach(@, u.pod), !.container = Attach(@, u.container),
              !.binding = Attach(@, u.binding), !.stop = KeepFirst(@, u.stop)]

AdvanceHelper(t, u) ==
    LET h == helper[t]
        next == Advanced(h, u)
    IN  /\ MayReport(t) /\ Settling(t)
        /\ u.phase \in HelperStep[h.phase]
        /\ u.pod # None \/ u.container # None => next.launched
        /\ Keeps(h.pod, u.pod) /\ Keeps(h.container, u.container)
        /\ Keeps(h.binding, u.binding)
        /\ u.binding # None => next.pod # None /\ next.container # None
        /\ u.stop # None => next.binding # None /\ u.stop.of = next.binding
        /\ next.phase = "ready" => next.binding # None
        /\ HelperClosable(h, next)
        /\ helper' = [helper EXCEPT ![t] = next]
        /\ UNCHANGED <<work, lease, profile, granted>>

\* Only the transaction that makes the transition may create the Pod.
GrantsLaunch(h) == h.phase = "reserved" /\ ~h.launched

BeginLaunch(t) ==
    /\ MayReport(t) /\ Settling(t)
    /\ GrantsLaunch(helper[t])
    /\ helper' = [helper EXCEPT ![t].phase = "provisioning", ![t].launched = TRUE]
    /\ launches' = [launches EXCEPT ![t] = @ + 1]
    /\ UNCHANGED <<work, lease, profile, writes>>

\* Only the transaction that inserts the intent may dispatch the write.
GrantsWrite(h, pin) == h.write = None

ReserveWrite(t, pin) ==
    LET h == helper[t] IN
    /\ MayReport(t) /\ Settling(t)
    /\ h.phase = "ready" /\ h.stop = None
    /\ GrantsWrite(h, pin)
    /\ lease[t].recovery = None
    /\ helper' = [helper EXCEPT ![t].write = pin]
    /\ writes' = [writes EXCEPT ![t] = @ + 1]
    /\ UNCHANGED <<work, lease, profile, launches>>

-----------------------------------------------------------------------------
Next ==
    \/ \E on \in BOOLEAN : ConfigureExecution(on)
    \/ StopAgent
    \/ \E t \in Task :
          \/ Claim(t) \/ Unobserved(t) \/ ReleaseTask(t)
          \/ ReserveComputer(t)
          \/ \E u \in Updates : AdvanceComputer(t, u)
          \/ \E r \in Receipt : RecordStop(t, r) \/ RecordRecovery(t, r)
          \/ ReserveHelper(t) \/ BeginLaunch(t)
          \/ \E u \in HelperUpdates : AdvanceHelper(t, u)
          \/ \E pin \in Pin : ReserveWrite(t, pin)

Spec == Init /\ [][Next]_vars

-----------------------------------------------------------------------------
(* What the record promises.                                               *)

\* reserveComputer and claimTasks (computer-lease.js:31, domain.js:361): of all
\* the teammate's leases, old and new, at most one is not closed, and it
\* belongs to the task that is still in its slot.
OneOpenLease ==
    \A t \in Task : Open(t) =>
        /\ MayReport(t)
        /\ \A u \in Task : Open(u) => u = t

\* reserveComputer and advanceComputer (computer-lease.js:38, 87): no lease of
\* the teammate ever had a volume but its one persistent profile, and an open
\* lease knows which that is as soon as any lease has found out.
ProfileContinuity ==
    \A t \in Task :
        /\ lease[t].pvc \in {None, profile}
        /\ Open(t) => lease[t].pvc = profile

\* advanceComputer (computer-lease.js:82): a lease in phase closed is closed for
\* good to all who ask: if a browser could have run, its stop and its
\* profile's retirement are on record, and a helper that could have run has
\* been seen to stop.
ClosedIsProven ==
    \A t \in Task : lease[t].phase = "closed" =>
        /\ lease[t].binding # None => RecoveryProven(lease[t])
        /\ helper[t].launched => HelperStopProven(helper[t])
        /\ helper[t].phase \in {"none", "closed"}

\* reserveRecoveryHelper (recovery-helper.js:71): a helper, which mounts the
\* profile for writing, exists only for a browser that is proven stopped and
\* whose lease can never be used again.
HelperAfterStop ==
    \A t \in Task : helper[t] # NoHelper =>
        /\ StopProven(lease[t])
        /\ lease[t].phase \in {"closing", "reconciliation", "closed"}

\* beginRecoveryHelperLaunch (recovery-launch.js:13): however many controllers
\* ask, and however often, only one is ever told to create the Pod, and once one
\* was told so the helper is not closed without a stop.
LaunchedOnce ==
    \A t \in Task :
        /\ launches[t] <= 1
        /\ launches[t] = 1 /\ helper[t].phase = "closed" =>
                HelperStopProven(helper[t])

\* reserveRecoveryWrite (recovery-write.js:31): one caller is told to write, and
\* only where a launched helper was ready.
WrittenOnce ==
    \A t \in Task :
        /\ writes[t] <= 1
        /\ writes[t] = 1 => helper[t].launched /\ helper[t].binding # None

KeptLease(l, n) ==
    \A f \in {"pod", "pvc", "container", "binding", "stop", "recovery"} :
        l[f] # None => n[f] = l[f]
KeptHelper(h, n) ==
    \A f \in {"pod", "container", "binding", "stop", "write"} :
        h[f] # None => n[f] = h[f]
Kept(t) ==
    /\ KeptLease(lease[t], lease'[t])
    /\ KeptHelper(helper[t], helper'[t])
    /\ lease[t].phase = "closed" => lease'[t] = lease[t] /\ helper'[t] = helper[t]

\* advanceComputer, recordComputerStop, recordComputerRecovery and the helper's
\* record: what identifies an object or proves its end is never replaced, and a
\* closed lease is never touched again.
RecordsLast == [][\A t \in Task : Kept(t)]_vars

\* What of a lease the rest of the row is concerned with.
BrowserState(t) ==
    IF lease[t].phase = "none" THEN "none"
    ELSE IF Open(t) THEN "open" ELSE "closed"

Turn == INSTANCE BrowserTurn WITH
    turn    <- {t \in Task : MayReport(t)},
    past    <- {t \in Task : status[t] = "released"},
    browser <- [t \in Task |-> BrowserState(t)],
    stopped <- cancelRequested

\* reserveComputer, requireClosedComputer (computer-lease.js:31, 95; domain.js:361):
\* whatever supervisors, observers and controllers report, the browser is opened
\* in its task's turn, once and before a stop, and nothing but its closure, with
\* all that a closure needs, lets the turn pass.
TurnHonored == Turn!Spec
=============================================================================
