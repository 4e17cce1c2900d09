------------------------- MODULE BrowserSupervisor -------------------------
(***************************************************************************)
(* The backend's side of a private browser: the factory in                 *)
(* agent-computer/kubernetes-supervisor.js with the node callbacks it is   *)
(* configured with (browser-node-adapter.js, stop-archive.js), around      *)
(* ProfileRecovery and ComputerLease.                                      *)
(*                                                                         *)
(* A supervisor provisions the volume and the Pod of one lease, binds the  *)
(* container to its node, starts the browser in it and, whatever happens,  *)
(* stops and settles it once.  A step goes from one await to the next.     *)
(* `record` is what the supervisor believes is in the row: the last answer *)
(* it got.  The loss of an answer, a failed call, a timeout of the         *)
(* clean-up, a recovery run given up and a removal of a Pod by force count *)
(* as faults.  The teammate is not stopped and execution stays enabled.    *)
(* X_Y states a plausible bug of X.                                        *)
(***************************************************************************)
EXTENDS ProfileRecovery

CONSTANTS
    Volume,     \* what the cluster calls the teammate's volume
    MaxFaults   \* bound on faults

ASSUME SupervisorAssumption == Volume \in Pvc /\ MaxFaults \in Nat

VARIABLES
    place,          \* where the supervisor of a task waits
    record,         \* its copy of the lease
    memory,         \* its flags (podAttempted, uncertainPod, ...)
    aborted,        \* tasks whose signal has fired
    volume,         \* the PVC: absent, asked (no answer yet), present
    browserPod,     \* the Pod object: absent, present, deleting
    browserRuns,    \* its container: none, running, exited, forgotten
    podInFlight,    \* create requests that got no answer and may still land
    used,           \* history: tasks whose browser was started
    faults

browserCluster == <<volume, browserPod, browserRuns, podInFlight>>
supervisor == <<place, record, memory, aborted, used, faults>>
systemVars == <<vars, recoveryVars, browserCluster, supervisor>>

Provisioning == {"begin", "volume", "readback", "adoptVolume", "create",
                 "bindPod", "wait", "identify", "bindNode", "saveBinding",
                 "markReady", "verify", "exec"}
CleaningUp == {"closing", "lookup", "bindFound", "decide", "capture", "delete",
               "observe", "close", "unconfirmed"}

NoMemory == [attempted |-> FALSE, podUnknown |-> FALSE, volumeUnknown |-> FALSE,
             found |-> FALSE, unsaved |-> FALSE]

SystemInit ==
    /\ Init
    /\ NoRecovery
    /\ lock = [t \in Task |-> "none"]
    /\ place = [t \in Task |-> "none"]
    /\ record = [t \in Task |-> NoLease]
    /\ memory = [t \in Task |-> NoMemory]
    /\ aborted = {}
    /\ volume = "absent"
    /\ browserPod = [t \in Task |-> "absent"]
    /\ browserRuns = [t \in Task |-> "none"]
    /\ podInFlight = {}
    /\ used = {}
    /\ faults = 0

Fault == faults < MaxFaults /\ faults' = faults + 1
Moves(t, p) == place' = [place EXCEPT ![t] = p]
Recalls(t, m) == memory' = [memory EXCEPT ![t] = m]

-----------------------------------------------------------------------------
(* persist(): a transaction on the row, and its answer.                    *)

NoChange == [phase |-> "provisioning", pod |-> None, pvc |-> None,
             container |-> None, binding |-> None]

Refused(t, u) ==
    \/ u.phase \notin LeaseStep[lease[t].phase]
    \/ ~Closable(Updated(lease[t], u), helper[t])

Saves(t, u) ==
    /\ AdvanceComputer(t, u)
    /\ record' = [record EXCEPT ![t] = lease'[t]]
    /\ UNCHANGED faults
\* The call is refused, fails, or commits without an answer.
Unsaved(t, u) ==
    /\ \/ Refused(t, u) /\ UNCHANGED <<vars, faults>>
       \/ UNCHANGED vars /\ Fault
       \/ AdvanceComputer(t, u) /\ Fault
    /\ UNCHANGED record

\* What a step of persist() leaves alone.
Rest == <<recoveryVars, browserCluster, aborted, used>>
\* What a step that only looks or asks leaves alone.
Quiet == <<vars, recoveryVars, record, aborted, used>>

-----------------------------------------------------------------------------
(* Provisioning.  Each step checks the signal before and after it.         *)

\* An intent without an answer is never cleaned up: nothing else was created.
Enter(t) ==
    /\ place[t] = "none"
    /\ ReserveComputer(t)
    /\ \/ /\ record' = [record EXCEPT ![t] = lease'[t]]
          /\ Moves(t, "begin")
          /\ UNCHANGED faults
       \/ Fault /\ Moves(t, "failed") /\ UNCHANGED record
    /\ UNCHANGED <<memory, Rest>>

At(t, p) == place[t] = p /\ t \notin aborted

\* A step of provisioning that persists u and goes on, or fails.
Persists(t, p, u, next) ==
    /\ At(t, p)
    /\ \/ Saves(t, u) /\ Moves(t, next)
       \/ Unsaved(t, u) /\ Moves(t, "closing")
    /\ UNCHANGED Rest

Provision(t) ==
    /\ Persists(t, "begin", NoChange, "volume")
    /\ UNCHANGED memory

FindVolume(t) ==
    /\ At(t, "volume")
    /\ \/ /\ volume = "present"
          /\ Moves(t, "adoptVolume") /\ UNCHANGED <<memory, volume, faults>>
       \/ /\ volume # "present" /\ record[t].pvc = None
          /\ \/ /\ volume' = "present" /\ Moves(t, "adoptVolume")
                /\ UNCHANGED <<memory, faults>>
             \/ /\ Fault /\ volume' = "asked" /\ Moves(t, "readback")
                /\ Recalls(t, [memory[t] EXCEPT !.volumeUnknown = TRUE])
    /\ UNCHANGED <<Quiet, browserPod, browserRuns, podInFlight>>

ReadBackVolume(t) ==
    /\ At(t, "readback") /\ volume = "present"
    /\ Moves(t, "adoptVolume")
    /\ UNCHANGED <<Quiet, memory, browserCluster, faults>>

AdoptVolume(t) ==
    /\ Persists(t, "adoptVolume", [NoChange EXCEPT !.pvc = Volume], "create")
    /\ Recalls(t, [memory[t] EXCEPT !.volumeUnknown = FALSE])

\* The one request that creates the Pod; a rejection leaves nothing uncertain.
CreatePod(t) ==
    /\ At(t, "create") /\ browserPod[t] = "absent"
    /\ \/ /\ browserPod' = [browserPod EXCEPT ![t] = "present"]
          /\ Recalls(t, [memory[t] EXCEPT !.attempted = TRUE, !.podUnknown = TRUE])
          /\ Moves(t, "bindPod")
          /\ UNCHANGED <<podInFlight, faults>>
       \/ /\ Recalls(t, [memory[t] EXCEPT !.attempted = TRUE])
          /\ Moves(t, "closing")
          /\ UNCHANGED <<browserPod, podInFlight, faults>>
       \/ /\ Fault
          /\ podInFlight' = podInFlight \cup {t}
          /\ Recalls(t, [memory[t] EXCEPT !.attempted = TRUE, !.podUnknown = TRUE])
          /\ Moves(t, "closing")
          /\ UNCHANGED browserPod
    /\ UNCHANGED <<Quiet, volume, browserRuns>>

BindPod(t) ==
    LET u == [NoChange EXCEPT !.pod = Browser.pod] IN
    /\ At(t, "bindPod")
    /\ \/ /\ Saves(t, u) /\ Moves(t, "wait")
          /\ Recalls(t, [memory[t] EXCEPT !.podUnknown = FALSE])
       \/ Unsaved(t, u) /\ Moves(t, "closing") /\ UNCHANGED memory
    /\ UNCHANGED Rest

Up(t) == browserPod[t] = "present" /\ browserRuns[t] = "running"

\* A look at the Pod that must find it running.
Finds(t, p, next) ==
    /\ At(t, p) /\ Up(t)
    /\ Moves(t, next)
    /\ UNCHANGED <<Quiet, memory, browserCluster, faults>>

AwaitReady(t) == Finds(t, "wait", "identify")

Identify(t) ==
    /\ Persists(t, "identify", [NoChange EXCEPT !.pod = Browser.pod,
                                  !.container = Browser.container], "bindNode")
    /\ UNCHANGED memory

BindNode(t) == Finds(t, "bindNode", "saveBinding")

SaveBinding(t) ==
    /\ Persists(t, "saveBinding", [NoChange EXCEPT !.binding = Browser.binding],
                "markReady")
    /\ UNCHANGED memory

MarkReady(t) ==
    Persists(t, "markReady", [NoChange EXCEPT !.phase = "ready"], "verify")
        /\ UNCHANGED memory

Verify(t) == Finds(t, "verify", "exec")

\* The container may have gone since it was verified.
Exec(t) ==
    /\ At(t, "exec")
    /\ used' = IF browserRuns[t] = "running" THEN used \cup {t} ELSE used
    /\ Moves(t, "open")
    /\ UNCHANGED <<vars, recoveryVars, browserCluster, record, memory, aborted,
                   faults>>

\* A check that throws, a failed look, the ready timeout: provisioning ends.
Fails(t) ==
    /\ place[t] \in Provisioning
    /\ Moves(t, "closing")
    /\ UNCHANGED <<Quiet, memory, browserCluster, faults>>

-----------------------------------------------------------------------------
(* stop(): once, after provisioning failed, on an abort, or at release.    *)

Release(t) ==
    /\ place[t] = "open"
    /\ Moves(t, "closing")
    /\ UNCHANGED <<Quiet, memory, browserCluster, faults>>

SaveClosing(t) ==
    LET u == [NoChange EXCEPT !.phase = "closing"] IN
    /\ place[t] = "closing"
    /\ \/ Saves(t, u) /\ UNCHANGED memory
       \/ Unsaved(t, u) /\ Recalls(t, [memory[t] EXCEPT !.unsaved = TRUE])
    /\ Moves(t, "lookup")
    /\ UNCHANGED Rest

LookUp(t) ==
    /\ place[t] = "lookup"
    /\ Moves(t, IF memory[t].attempted /\ browserPod[t] # "absent"
                THEN "bindFound" ELSE "decide")
    /\ UNCHANGED <<Quiet, memory, browserCluster, faults>>

\* The Pod that is found is recorded with the phase the supervisor remembers.
BindFound(t) ==
    LET u == [NoChange EXCEPT !.phase = record[t].phase, !.pod = Browser.pod,
                 !.container = IF browserRuns[t] = "none" THEN None
                               ELSE Browser.container]
        m == [memory[t] EXCEPT !.found = TRUE]
    IN  /\ place[t] = "bindFound"
        /\ \/ Saves(t, u) /\ Recalls(t, [m EXCEPT !.podUnknown = FALSE])
           \/ /\ Unsaved(t, u)
              /\ Recalls(t, [m EXCEPT !.unsaved = TRUE,
                            !.podUnknown = @ /\ record[t].pod = None])
        /\ Moves(t, IF record'[t].pod = None THEN "unconfirmed" ELSE "decide")
        /\ UNCHANGED Rest

Uncertain_Forgotten(m) == m.volumeUnknown
Uncertain(m) == m.podUnknown \/ m.volumeUnknown

MustArchive_Confirmed(t) == record[t].binding # None /\ browserRuns[t] = "running"
MustArchive(t) == record[t].binding # None

\* An object that may exist, or an update that may be missing, stops here.
Decide(t) ==
    /\ place[t] = "decide"
    /\ \/ /\ Uncertain(memory[t]) \/ (MustArchive(t) /\ memory[t].unsaved)
          /\ Moves(t, "unconfirmed") /\ UNCHANGED record
       \/ /\ ~Uncertain(memory[t]) /\ MustArchive(t) /\ ~memory[t].unsaved
          /\ record' = [record EXCEPT ![t] = lease[t]]
          /\ Moves(t, IF lease[t].stop = None THEN "capture" ELSE "delete")
       \/ /\ ~Uncertain(memory[t]) /\ ~MustArchive(t)
          /\ Moves(t, "delete") /\ UNCHANGED record
    /\ UNCHANGED <<vars, recoveryVars, browserCluster, memory, aborted, used, faults>>

\* requestStop signals the container; captureStop archives what the runtime, that
\* must still know the container, says of it.
ExitSeen_Requested(t) == TRUE
ExitSeen(t) == browserRuns[t] = "exited"

CaptureStop(t) ==
    /\ place[t] = "capture" /\ ExitSeen(t)
    /\ \E seen \in Seen : RecordStop(t, [of |-> lease[t].binding, seen |-> seen])
    /\ record' = [record EXCEPT ![t] = lease'[t]]
    /\ Moves(t, "delete")
    /\ UNCHANGED <<memory, faults, Rest>>

AfterDelete(t) ==
    IF memory[t].attempted /\ record[t].pod # None THEN "observe" ELSE "close"

DeletePod(t) ==
    /\ place[t] = "delete"
    /\ browserPod' = [browserPod EXCEPT
            ![t] = IF memory[t].found /\ @ = "present" THEN "deleting" ELSE @]
    /\ Moves(t, AfterDelete(t))
    /\ UNCHANGED <<Quiet, memory, volume, browserRuns, podInFlight, faults>>

\* observeTermination has a node to ask only if the lease is bound to one.
CallRecover(n, t) ==
    /\ place[t] = "observe" /\ record[t].binding # None
    /\ Settling(t) /\ StopProven(lease[t])
    /\ Begin(n, t)
    /\ UNCHANGED <<browserCluster, supervisor>>

NobodyToAsk(t) ==
    /\ place[t] = "observe" /\ record[t].binding = None
    /\ Moves(t, "unconfirmed")
    /\ UNCHANGED <<Quiet, memory, browserCluster, faults>>

Observe(t) ==
    /\ place[t] = "observe" /\ browserPod[t] = "absent"
    /\ helper[t].phase = "closed" /\ RecoveryProven(lease[t])
    /\ Moves(t, "close")
    /\ UNCHANGED <<Quiet, memory, browserCluster, faults>>

CloseLease(t) ==
    LET u == [NoChange EXCEPT !.phase = "closed"] IN
    /\ place[t] = "close"
    /\ \/ /\ ~memory[t].unsaved
          /\ Saves(t, u) /\ Moves(t, "closed")
       \/ /\ ~memory[t].unsaved
          /\ Unsaved(t, u) /\ Moves(t, "unconfirmed")
       \/ /\ memory[t].unsaved
          /\ Moves(t, "unconfirmed")
          /\ UNCHANGED <<vars, record, faults>>
    /\ UNCHANGED <<memory, Rest>>

\* A call of the clean-up fails or takes too long.
CleanupFails(t) ==
    /\ place[t] \in {"lookup", "decide", "capture", "delete", "observe"}
    /\ Fault
    /\ Moves(t, "unconfirmed")
    /\ UNCHANGED <<Quiet, memory, browserCluster>>

Reconcile(t) ==
    LET u == [NoChange EXCEPT !.phase = "reconciliation"] IN
    /\ place[t] = "unconfirmed"
    /\ Saves(t, u) \/ Unsaved(t, u)
    /\ Moves(t, "failed")
    /\ UNCHANGED <<memory, Rest>>

\* The backend process ends.  Its answers, its flags and its timers are gone.
BackendEnds(t) ==
    /\ place[t] \in Provisioning \cup CleaningUp \cup {"open"}
    /\ Fault
    /\ Moves(t, "failed")
    /\ UNCHANGED <<Quiet, memory, browserCluster>>

SupervisorSteps(t) ==
    \/ Enter(t) \/ Provision(t) \/ FindVolume(t) \/ ReadBackVolume(t)
    \/ AdoptVolume(t) \/ CreatePod(t) \/ BindPod(t) \/ AwaitReady(t)
    \/ Identify(t) \/ BindNode(t) \/ SaveBinding(t) \/ MarkReady(t)
    \/ Verify(t) \/ Exec(t) \/ Release(t) \/ SaveClosing(t) \/ LookUp(t)
    \/ BindFound(t) \/ Decide(t) \/ CaptureStop(t) \/ DeletePod(t)
    \/ NobodyToAsk(t) \/ Observe(t) \/ CloseLease(t) \/ Reconcile(t)

-----------------------------------------------------------------------------
(* The cluster, as far as the browser's objects go.                        *)

LateVolume ==
    /\ volume = "asked"
    /\ volume' = "present"
    /\ UNCHANGED <<vars, recoveryVars, supervisor, browserPod, browserRuns,
                   podInFlight>>

LatePod(t) ==
    /\ t \in podInFlight /\ browserPod[t] = "absent"
    /\ browserPod' = [browserPod EXCEPT ![t] = "present"]
    /\ podInFlight' = podInFlight \ {t}
    /\ UNCHANGED <<vars, recoveryVars, supervisor, volume, browserRuns>>

BrowserPodGoes(t) ==
    /\ \/ browserPod[t] = "deleting" /\ UNCHANGED faults
       \/ browserPod[t] = "present" /\ Fault
    /\ browserPod' = [browserPod EXCEPT ![t] = "absent"]
    /\ UNCHANGED <<vars, recoveryVars, place, record, memory, aborted, used,
                   volume, browserRuns, podInFlight>>

Runs(t, from, to) ==
    /\ browserRuns[t] = from
    /\ browserRuns' = [browserRuns EXCEPT ![t] = to]
    /\ UNCHANGED <<vars, recoveryVars, supervisor, volume, browserPod, podInFlight>>

ContainerStarts(t) == browserPod[t] = "present" /\ Runs(t, "none", "running")
ContainerExits(t) == Runs(t, "running", "exited")
ContainerForgotten(t) == browserPod[t] = "absent" /\ Runs(t, "exited", "forgotten")

\* The browser takes the profile when it is first opened, and retires its lock
\* when it closes in good order.
TakesProfile(t) ==
    /\ t \in used /\ browserRuns[t] = "running" /\ lock[t] = "none"
    /\ \A u \in Task : lock[u] # "active"
    /\ lock' = [lock EXCEPT ![t] = "active"]
    /\ UNCHANGED <<vars, at, grant, cluster, command, history, browserCluster,
                   supervisor>>
GivesUpProfile(t) ==
    /\ browserRuns[t] = "running" /\ lock[t] = "active"
    /\ lock' = [lock EXCEPT ![t] = "retired"]
    /\ UNCHANGED <<vars, at, grant, cluster, command, history, browserCluster,
                   supervisor>>

ClusterSteps(t) ==
    \/ LatePod(t) \/ BrowserPodGoes(t) \/ ContainerStarts(t) \/ ContainerExits(t)
    \/ ContainerForgotten(t) \/ TakesProfile(t) \/ GivesUpProfile(t)

-----------------------------------------------------------------------------
\* The signal of the claim's scope fires; an open browser is then released.
Aborts(t) ==
    /\ place[t] \in Provisioning /\ t \notin aborted
    /\ aborted' = aborted \cup {t}
    /\ UNCHANGED <<vars, recoveryVars, browserCluster, place, record, memory,
                   used, faults>>

TeamStep(t) ==
    /\ Claim(t) \/ Unobserved(t) \/ ReleaseTask(t)
    /\ UNCHANGED <<recoveryVars, browserCluster, supervisor>>

NodeStep(n, t) ==
    \/ CallRecover(n, t)
    \/ /\ at[n][t] # "idle" /\ RecoverStep(n, t)
       /\ UNCHANGED <<browserCluster, supervisor>>
    \/ /\ Abandon(n, t) /\ Fault
       /\ UNCHANGED <<browserCluster, place, record, memory, aborted, used>>

HelperClusterStep(t) == ClusterStep(t) /\ UNCHANGED <<browserCluster, supervisor>>

SystemNext ==
    \/ LateVolume
    \/ \E t \in Task :
          \/ TeamStep(t) \/ Aborts(t)
          \/ SupervisorSteps(t) \/ Fails(t) \/ CleanupFails(t) \/ BackendEnds(t)
          \/ ClusterSteps(t) \/ HelperClusterStep(t)
          \/ \E n \in Node : NodeStep(n, t)

SystemSpec == SystemInit /\ [][SystemNext]_systemVars

-----------------------------------------------------------------------------
(* Properties.                                                             *)

\* kubernetes-supervisor.js:98: a Pod in which a browser was started is deleted
\* only after the stop of its container is archived, however many answers the
\* supervisor has missed.
UsedPodArchived ==
    \A t \in Task : t \in used /\ browserPod[t] = "deleting" =>
        StopProven(lease[t])

\* kubernetes-supervisor.js:191: behind a closed lease nothing is left of the
\* browser: no Pod now or later, no container, no hold on the profile.
ClosedMeansGone ==
    \A t \in Task : lease[t].phase = "closed" =>
        /\ browserPod[t] = "absent" /\ t \notin podInFlight
        /\ browserRuns[t] # "running"
        /\ lock[t] # "active"

\* A browser that was started, or a helper: whoever can write the profile.
Writers ==
    {<<"browser", t>> : t \in {u \in used : browserRuns[u] = "running"}}
      \cup {<<"helper", t>> : t \in {u \in Task : helperRuns[u] = "running"}}

\* computer-lease.js:31, recovery-helper.js:71: the profile of a teammate has one
\* writer, across its leases and between a browser and its recovery.
OneWriter == \A a, b \in Writers : a = b

Started ==
    {<<"browser", t>> : t \in used}
      \cup {<<"helper", t>> : t \in {u \in Task : helperRuns[u] # "none"}}

Custody == INSTANCE ProfileCustody WITH
    custody <- {t \in Task : Open(t)},
    past    <- {t \in Task : lease[t].phase # "none" /\ ~Open(t)},
    writers <- Writers,
    started <- Started,
    locked  <- {t \in Task : lock[t] = "active"}

\* The whole of it: supervisors, recovery runs and the row implement
\* ProfileCustody.
ProfileInCustody == Custody!Spec

\* kubernetes-supervisor.js:148: "Startup failures before any node-bound exec
\* retain the original never-used-container cleanup path": with no call lost, a
\* Pod whose lease was never bound to a node is cleaned up and its lease closed.
NeverUsedIsClosed ==
    \A t \in Task :
        place[t] = "failed" /\ lease[t].binding = None /\ faults = 0 =>
            lease[t].phase = "closed"
=============================================================================
