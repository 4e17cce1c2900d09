-------------------------- MODULE ProfileRecovery --------------------------
(***************************************************************************)
(* How the profile of a stopped browser is settled: recover() of           *)
(* agent-computer/recovery-supervisor.js, with the controller it calls     *)
(* (recovery-controller.js), the command that runs in the helper's         *)
(* container (recovery-worker.js, profile-recovery.js) and the node        *)
(* callbacks (recovery-node-adapter.js), around the transactions of        *)
(* ComputerLease.                                                          *)
(*                                                                         *)
(* Each boot of the node service runs recover() for a task at most once at *)
(* a time (`pending`), and any number of times in a row.  A step goes from *)
(* one await to the next.  At any of them the run may be given up: an      *)
(* error, the time limit, an abort, the end of the process.  What it asked *)
(* of the cluster may still happen then.                                   *)
(*                                                                         *)
(* The cluster is modelled from what the code asks of it: Pods are created *)
(* and deleted by request, containers exit when they like, a Pod object    *)
(* may vanish while its container runs on, and the container runtime       *)
(* forgets an exited container once its Pod object is gone.  X_Y states a  *)
(* plausible bug of X.                                                     *)
(***************************************************************************)
EXTENDS ComputerLease

CONSTANTS
    Node,       \* boots of the node service
    Browser,    \* what the cluster will call the browser's objects
    Helper      \* and those of the helper

Objects == [pod : Pod, container : Container, binding : Binding]

\* The browser had a volume, and somebody saw it stop.
ASSUME RecoveryAssumption ==
    /\ Browser \in Objects /\ Helper \in Objects
    /\ Pvc # {} /\ Seen # {}

VARIABLES
    at,         \* where the run of a boot for a task waits
    grant,      \* whether it was told to dispatch
    helperPod,  \* the Pod object: absent, present, deleting
    helperRuns, \* its container: none, running, exited, forgotten
    inFlight,   \* tasks whose create request got no answer and may still land
    posts,      \* history: create requests sent
    command,    \* the recovery command: none, sent, done
    lock,       \* directory of the lease in the profile: none, active, retired
    dispatches  \* history: recovery commands sent

cluster == <<helperPod, helperRuns, inFlight>>
history == <<posts, dispatches>>
recoveryVars == <<at, grant, cluster, command, lock, history>>

Place == {"idle", "reserve", "route", "launch", "lookup", "create", "adopt",
          "wait", "container", "bind", "ready", "settle", "intent", "dispatch",
          "await", "inspect", "acknowledge", "recovered", "stop", "capture",
          "delete", "gone"}

NoRecovery ==
    /\ at = [n \in Node |-> [t \in Task |-> "idle"]]
    /\ grant = [n \in Node |-> [t \in Task |-> FALSE]]
    /\ helperPod = [t \in Task |-> "absent"]
    /\ helperRuns = [t \in Task |-> "none"]
    /\ inFlight = {}
    /\ command = [t \in Task |-> "none"]
    /\ posts = [t \in Task |-> 0] /\ dispatches = [t \in Task |-> 0]

Goto(n, t, place) == at' = [at EXCEPT ![n][t] = place]
Granted(n, t, yes) == grant' = [grant EXCEPT ![n][t] = yes]

\* Two kinds of step: one that commits a transaction, one that does not.
Reads(n, t, place) ==
    /\ Goto(n, t, place)
    /\ UNCHANGED <<vars, grant, cluster, command, lock, history>>
Commits(n, t, place) ==
    /\ Goto(n, t, place)
    /\ UNCHANGED <<grant, cluster, command, lock, history>>

\* update(): a call that fails counts if the stored helper says what it should.
Change == [phase |-> "provisioning", pod |-> None, container |-> None,
           binding |-> None, stop |-> None]
Stored(t, u) ==
    /\ helper[t].phase = u.phase
    /\ \A f \in {"pod", "container", "binding", "stop"} :
          u[f] # None => helper[t][f] = u[f]
Update(t, u) ==
    \/ AdvanceHelper(t, u)
    \/ Stored(t, u) /\ UNCHANGED vars

Live(t) == helperPod[t] = "present" /\ helperRuns[t] = "running"

-----------------------------------------------------------------------------
(* The helper is reserved, created and bound.                              *)

\* A profile that is already settled needs nothing (the call returns).
Begin(n, t) ==
    /\ at[n][t] = "idle" /\ lease[t].phase # "none"
    /\ IF helper[t] = NoHelper
       THEN lease[t].recovery = None /\ Reads(n, t, "reserve")
       ELSE Reads(n, t, "route")

\* A refusal, and a lost reply, are resolved by the read that follows.
Reserve(n, t) ==
    /\ at[n][t] = "reserve"
    /\ ReserveHelper(t) \/ UNCHANGED vars
    /\ Commits(n, t, "route")

Route(n, t) ==
    /\ at[n][t] = "route"
    /\ helper[t] # NoHelper
    /\ Reads(n, t, IF helper[t].phase \in {"reserved", "provisioning"} THEN "launch"
                   ELSE IF helper[t].phase = "closed" THEN "idle"
                   ELSE "settle")

\* The grant is the answer: a lost one, a refusal or a failure grants nothing.
Launch(n, t) ==
    /\ at[n][t] = "launch"
    /\ \/ BeginLaunch(t) /\ \E answered \in BOOLEAN : Granted(n, t, answered)
       \/ UNCHANGED vars /\ Granted(n, t, FALSE)
    /\ Goto(n, t, "lookup")
    /\ UNCHANGED <<cluster, command, lock, history>>

MayCreate_Unseen(n, t) == TRUE
MayCreate(n, t) == grant[n][t]

Lookup(n, t) ==
    /\ at[n][t] = "lookup"
    /\ IF helperPod[t] = "absent"
       THEN MayCreate(n, t) /\ Reads(n, t, "create")
       ELSE Reads(n, t, "adopt")

\* The request succeeds, or gets no answer: then one more look decides.
Create(n, t) ==
    /\ at[n][t] = "create"
    /\ posts' = [posts EXCEPT ![t] = @ + 1]
    /\ \/ /\ helperPod[t] = "absent"
          /\ helperPod' = [helperPod EXCEPT ![t] = "present"]
          /\ Goto(n, t, "adopt")
          /\ UNCHANGED <<grant, inFlight>>
       \/ /\ inFlight' = inFlight \cup {t}
          /\ Goto(n, t, "lookup") /\ Granted(n, t, FALSE)
          /\ UNCHANGED helperPod
    /\ UNCHANGED <<vars, helperRuns, command, lock, dispatches>>

Adopt(n, t) ==
    /\ at[n][t] = "adopt"
    /\ Update(t, [Change EXCEPT !.pod = Helper.pod])
    /\ Commits(n, t, "wait")

SeesRunning(n, t) ==
    /\ at[n][t] = "wait" /\ Live(t)
    /\ Reads(n, t, "container")

NamesContainer(n, t) ==
    /\ at[n][t] = "container"
    /\ Update(t, [Change EXCEPT !.container = Helper.container])
    /\ Commits(n, t, "bind")

Bind(n, t) ==
    /\ at[n][t] = "bind" /\ Live(t)
    /\ Reads(n, t, "ready")

Ready(n, t) ==
    /\ at[n][t] = "ready"
    /\ Update(t, [Change EXCEPT !.phase = "ready", !.binding = Helper.binding])
    /\ Commits(n, t, "settle")

-----------------------------------------------------------------------------
(* The controller: one dispatch of the recovery command.                   *)

\* recover() of the controller, called for a ready helper that is still up.
Settle(n, t) ==
    /\ at[n][t] = "settle"
    /\ \/ /\ helper[t].phase = "ready" /\ Live(t)
          /\ IF lease[t].recovery = None
             THEN helper[t].stop = None /\ Reads(n, t, "intent")
             ELSE Reads(n, t, "recovered")
       \/ /\ helper[t].phase \in {"closing", "reconciliation"}
          /\ RecoveryProven(lease[t])
          /\ Reads(n, t, "stop")

Intent(n, t) ==
    /\ at[n][t] = "intent"
    /\ \/ /\ \E pin \in Pin : ReserveWrite(t, pin)
          /\ \E answered \in BOOLEAN : Granted(n, t, answered)
       \/ UNCHANGED vars /\ Granted(n, t, FALSE)
    /\ Goto(n, t, "dispatch")
    /\ UNCHANGED <<cluster, command, lock, history>>

\* Without the grant the command may only look.
Mode_Intended(n, t) == "recover"
Mode(n, t) == IF grant[n][t] THEN "recover" ELSE "inspect"

Dispatch(n, t) ==
    /\ at[n][t] = "dispatch"
    /\ helper[t].phase = "ready" /\ helper[t].stop = None /\ helper[t].write # None
    /\ Live(t)
    /\ IF Mode(n, t) = "recover"
       THEN /\ command' = [command EXCEPT ![t] = "sent"]
            /\ dispatches' = [dispatches EXCEPT ![t] = @ + 1]
            /\ Goto(n, t, "await")
            /\ UNCHANGED <<vars, grant, cluster, lock, posts>>
       ELSE Reads(n, t, "inspect")

\* settleProfile in the helper, under flock on the root: the lease's directory is
\* moved away, or found moved.  It does not need its caller to be still there.
Retires(t) ==
    /\ command[t] = "sent"
    /\ helperRuns[t] = "running"
    /\ lock[t] # "none"
    /\ lock' = [lock EXCEPT ![t] = "retired"]
    /\ command' = [command EXCEPT ![t] = "done"]
    /\ UNCHANGED <<vars, at, grant, cluster, history>>

Answered(n, t) ==
    /\ at[n][t] = "await" /\ command[t] = "done"
    /\ Reads(n, t, "acknowledge")

SeesRetired_Presumed(t) == helper[t].write # None
SeesRetired(t) == lock[t] = "retired"

Inspect(n, t) ==
    /\ at[n][t] = "inspect" /\ helperRuns[t] = "running"
    /\ SeesRetired(t)
    /\ Reads(n, t, "acknowledge")

\* Both answers are checked against the live mount before they are recorded; a
\* call that fails is resolved by reading back.
Acknowledge(n, t) ==
    /\ at[n][t] = "acknowledge"
    /\ \/ /\ Live(t)
          /\ \E seen \in Seen :
                RecordRecovery(t, [of |-> lease[t].binding, seen |-> seen])
       \/ RecoveryProven(lease[t]) /\ UNCHANGED vars
    /\ Commits(n, t, "recovered")

Recovered(n, t) ==
    /\ at[n][t] = "recovered"
    /\ RecoveryProven(lease[t])
    /\ Update(t, [Change EXCEPT !.phase = "closing"])
    /\ Commits(n, t, "stop")

-----------------------------------------------------------------------------
(* The helper is stopped, its stop archived, its Pod deleted.              *)

\* requestStop signals a container it still finds in its Pod; whether that exits
\* is up to HelperExits.
RequestStop(n, t) ==
    /\ at[n][t] = "stop"
    /\ RecoveryProven(lease[t])
    /\ IF helper[t].stop = None
       THEN (Live(t) \/ helperRuns[t] = "exited") /\ Reads(n, t, "capture")
       ELSE Reads(n, t, "delete")

\* observeRecoveryHelperStop: seen as exited by the runtime that still knows it.
StopSeen_NoPod(t) == helperRuns[t] = "exited" \/ helperPod[t] = "absent"
StopSeen(t) == helperRuns[t] = "exited"

Capture(n, t) ==
    /\ at[n][t] = "capture"
    /\ \/ /\ StopSeen(t)
          /\ \E seen \in Seen :
                Update(t, [Change EXCEPT !.phase = "closing",
                             !.stop = [of |-> helper[t].binding, seen |-> seen]])
       \/ HelperStopProven(helper[t]) /\ UNCHANGED vars
    /\ Commits(n, t, "delete")

Delete(n, t) ==
    /\ at[n][t] = "delete"
    /\ helperPod' = [helperPod EXCEPT
                        ![t] = IF @ = "present" THEN "deleting" ELSE @]
    /\ Goto(n, t, "gone")
    /\ UNCHANGED <<vars, grant, helperRuns, inFlight, command, lock, history>>

Close(n, t) ==
    /\ at[n][t] = "gone" /\ helperPod[t] = "absent"
    /\ Update(t, [Change EXCEPT !.phase = "closed"])
    /\ Commits(n, t, "idle")

\* Any error, the time limit, an abort, the end of the node service.
Abandon(n, t) ==
    /\ at[n][t] # "idle"
    /\ Reads(n, t, "idle")

RecoverStep(n, t) ==
    \/ Begin(n, t) \/ Reserve(n, t) \/ Route(n, t) \/ Launch(n, t)
    \/ Lookup(n, t) \/ Create(n, t) \/ Adopt(n, t) \/ SeesRunning(n, t)
    \/ NamesContainer(n, t) \/ Bind(n, t) \/ Ready(n, t) \/ Settle(n, t)
    \/ Intent(n, t) \/ Dispatch(n, t) \/ Answered(n, t) \/ Inspect(n, t)
    \/ Acknowledge(n, t) \/ Recovered(n, t) \/ RequestStop(n, t)
    \/ Capture(n, t) \/ Delete(n, t) \/ Close(n, t)

-----------------------------------------------------------------------------
(* The cluster.                                                            *)

PodLands(t) ==
    /\ t \in inFlight /\ helperPod[t] = "absent"
    /\ helperPod' = [helperPod EXCEPT ![t] = "present"]
    /\ inFlight' = inFlight \ {t}
    /\ UNCHANGED <<vars, at, grant, helperRuns, command, lock, history>>

HelperStarts(t) ==
    /\ helperPod[t] = "present" /\ helperRuns[t] = "none"
    /\ helperRuns' = [helperRuns EXCEPT ![t] = "running"]
    /\ UNCHANGED <<vars, at, grant, helperPod, inFlight, command, lock, history>>

HelperExits(t) ==
    /\ helperRuns[t] = "running"
    /\ helperRuns' = [helperRuns EXCEPT ![t] = "exited"]
    /\ UNCHANGED <<vars, at, grant, helperPod, inFlight, command, lock, history>>

\* A deleted Pod goes; a present one may be removed by force, container or not.
PodGoes(t) ==
    /\ helperPod[t] # "absent"
    /\ helperPod' = [helperPod EXCEPT ![t] = "absent"]
    /\ UNCHANGED <<vars, at, grant, helperRuns, inFlight, command, lock, history>>

RuntimeForgets(t) ==
    /\ helperPod[t] = "absent" /\ helperRuns[t] = "exited"
    /\ helperRuns' = [helperRuns EXCEPT ![t] = "forgotten"]
    /\ UNCHANGED <<vars, at, grant, helperPod, inFlight, command, lock, history>>

ClusterStep(t) ==
    \/ PodLands(t) \/ HelperStarts(t) \/ HelperExits(t) \/ PodGoes(t)
    \/ RuntimeForgets(t) \/ Retires(t)

-----------------------------------------------------------------------------
(* Recovery by itself: a browser that ran was stopped and its stop         *)
(* archived; its supervisor may close the lease whenever the row allows.   *)

Stopped == [phase |-> "closing", pod |-> Browser.pod,
            pvc |-> CHOOSE p \in Pvc : TRUE, container |-> Browser.container,
            binding |-> Browser.binding,
            stop |-> [of |-> Browser.binding, seen |-> CHOOSE s \in Seen : TRUE],
            recovery |-> None]

RecoveryInit ==
    /\ status = [t \in Task |-> "running"]
    /\ executionEnabled = TRUE
    /\ cancelRequested = {}
    /\ lease = [t \in Task |-> Stopped]
    /\ helper = [t \in Task |-> NoHelper]
    /\ profile = Stopped.pvc
    /\ launches = [t \in Task |-> 0] /\ writes = [t \in Task |-> 0]
    /\ NoRecovery
    /\ lock \in [Task -> {"active", "retired"}]

SupervisorStep(t) ==
    /\ \/ \E phase \in {"closing", "closed", "reconciliation"} :
             AdvanceComputer(t, [phase |-> phase, pod |-> None, pvc |-> None,
                                 container |-> None, binding |-> None])
       \/ ReleaseTask(t)
    /\ UNCHANGED recoveryVars

RecoveryNext ==
    \E t \in Task :
        \/ \E n \in Node : RecoverStep(n, t) \/ Abandon(n, t)
        \/ ClusterStep(t)
        \/ SupervisorStep(t)

RecoverySpec == RecoveryInit /\ [][RecoveryNext]_<<vars, recoveryVars>>

-----------------------------------------------------------------------------
(* Properties.                                                             *)

\* recovery-supervisor.js:118: whatever is lost, however many boots try, the
\* creation of a helper Pod is requested once.
HelperPostedOnce == \A t \in Task : posts[t] <= 1

\* recovery-controller.js:71: one recovery command is ever sent for a lease; all
\* others only look.
RecoveredOnce == \A t \in Task : dispatches[t] <= 1

\* recovery-controller.js:79: a receipt of retirement, which releases the profile
\* to the next browser, is not on record before the directory has moved.
ReceiptIsTrue ==
    \A t \in Task : lease[t].recovery # None => lock[t] = "retired"

\* recovery-supervisor.js:165: once a launched helper counts as closed nothing of
\* it is left that could touch the profile, now or later.
ClosedIsQuiet ==
    \A t \in Task : helper[t].phase = "closed" \/ lease[t].phase = "closed" =>
        /\ helperPod[t] = "absent" /\ t \notin inFlight
        /\ helperRuns[t] # "running"
=============================================================================
