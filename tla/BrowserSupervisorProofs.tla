---------------------- MODULE BrowserSupervisorProofs ----------------------
(***************************************************************************)
(* The system of supervisor, recovery runs and cluster keeps the promises  *)
(* of the record and of recovery (SystemSpec implements Spec, and Tokens,  *)
(* Evidence and Remains carry over), and so keeps its own, for any number  *)
(* of tasks, boots and faults.  Managed says what a supervisor may rely on *)
(* at each of its steps, with answers missing.                             *)
(***************************************************************************)
EXTENDS BrowserSupervisor, ComputerLeaseProofs, ProfileRecoveryProofs

Flags == [attempted : BOOLEAN, podUnknown : BOOLEAN, volumeUnknown : BOOLEAN,
          found : BOOLEAN, unsaved : BOOLEAN]

SupervisorTypes ==
    /\ place \in [Task -> Provisioning \cup CleaningUp
                            \cup {"none", "open", "closed", "failed"}]
    /\ record \in [Task -> Leases]
    /\ memory \in [Task -> Flags]
    /\ browserPod \in [Task -> {"absent", "present", "deleting"}]
    /\ browserRuns \in [Task -> {"none", "running", "exited", "forgotten"}]
    /\ podInFlight \subseteq Task /\ used \subseteq Task

\* The supervisor's copy is an earlier state of the row.
Remembers(r, l) ==
    /\ r.pod # None => l.pod # None
    /\ r.binding # None => l.binding # None /\ r.pod # None
    /\ r.phase = "closed" => l.phase = "closed"

\* No Pod was ever there, or will be.
Untouched(t) ==
    /\ browserPod[t] = "absent" /\ browserRuns[t] = "none"
    /\ t \notin podInFlight /\ t \notin used

\* What its flags tell of the Pod.
Known(t) ==
    /\ ~memory[t].attempted => Untouched(t)
    /\ record[t].pod = None /\ ~memory[t].podUnknown => Untouched(t)
    /\ t \in podInFlight => memory[t].podUnknown /\ browserPod[t] = "absent"

\* Where it is, and what that implies.
Placed(t) ==
    /\ place[t] \in Provisioning \cup {"none"} =>
            /\ t \notin podInFlight /\ browserPod[t] # "deleting"
            /\ lease[t].phase # "closed"
    /\ place[t] = "bindFound" => t \notin podInFlight
    /\ place[t] \in {"capture", "delete", "observe", "close"} =>
            ~memory[t].podUnknown

\* A used browser is bound, and given up only with its stop on record.
Archived(t) ==
    /\ t \in used \/ place[t] \in {"markReady", "verify", "exec"} =>
            record[t].binding # None
    /\ t \in used /\ (place[t] = "delete" \/ browserPod[t] = "deleting") =>
            lease[t].stop # None
    /\ lease[t].stop # None => browserRuns[t] \in {"exited", "forgotten"}
    /\ lock[t] # "none" => t \in used

\* What is closed, or about to be, is gone.
Gone(t) ==
    place[t] = "close" \/ lease[t].phase = "closed" =>
        /\ browserPod[t] = "absent" /\ t \notin podInFlight
        /\ Untouched(t) \/ RecoveryProven(lease[t])

Managed(t) ==
    /\ Remembers(record[t], lease[t]) /\ Known(t) /\ Placed(t)
    /\ Archived(t) /\ Gone(t)

Supervised == SupervisorTypes /\ \A t \in Task : Managed(t)

-----------------------------------------------------------------------------
(* Every step of the system is a step of the record (ComputerLease).       *)

\* What the supervisor asks an update to say is well formed.
LEMMA RequestsAreUpdates ==
    /\ NoChange \in Updates
    /\ [NoChange EXCEPT !.pvc = Volume] \in Updates
    /\ [NoChange EXCEPT !.pod = Browser.pod] \in Updates
    /\ [NoChange EXCEPT !.pod = Browser.pod,
                        !.container = Browser.container] \in Updates
    /\ [NoChange EXCEPT !.binding = Browser.binding] \in Updates
    /\ [NoChange EXCEPT !.phase = "ready"] \in Updates
    /\ [NoChange EXCEPT !.phase = "closing"] \in Updates
    /\ [NoChange EXCEPT !.phase = "closed"] \in Updates
    /\ [NoChange EXCEPT !.phase = "reconciliation"] \in Updates
  BY RecoveryAssumption, SupervisorAssumption
  DEF NoChange, Updates, Maybe, Objects

\* A found Pod is recorded with a phase that some lease may step to.
LEMMA FoundIsUpdate ==
    ASSUME NEW l \in Leases, NEW phase \in LeaseStep[l.phase],
           NEW c \in {None, Browser.container}
    PROVE  [NoChange EXCEPT !.phase = phase, !.pod = Browser.pod,
                            !.container = c] \in Updates
<1>1. phase \in {"reserved", "provisioning", "ready", "closing",
                 "reconciliation", "closed"}
  BY DEF LeaseStep, Leases
<1>. QED
  BY <1>1, RecoveryAssumption DEF NoChange, Updates, Maybe, Objects

\* One transaction of the supervisor of t, or none.
Transacts(t) ==
    \/ UNCHANGED vars
    \/ ReserveComputer(t)
    \/ \E u \in Updates : AdvanceComputer(t, u)
    \/ \E r \in Receipt : RecordStop(t, r)

LEMMA PersistTransacts ==
    ASSUME NEW t, NEW u \in Updates, Saves(t, u) \/ Unsaved(t, u)
    PROVE  Transacts(t)
  BY DEF Saves, Unsaved, Transacts

LEMMA SupervisorTransacts ==
    ASSUME IInv, NEW t \in Task,
           SupervisorSteps(t) \/ Fails(t) \/ CleanupFails(t) \/ BackendEnds(t)
    PROVE  Transacts(t) /\ UNCHANGED recoveryVars
<1>0. lease[t] \in Leases
  BY DEF IInv, TypeOK
<1>1. CASE \/ FindVolume(t) \/ ReadBackVolume(t) \/ CreatePod(t)
           \/ AwaitReady(t) \/ BindNode(t) \/ Verify(t) \/ Exec(t)
           \/ Release(t) \/ LookUp(t) \/ Decide(t) \/ DeletePod(t)
           \/ NobodyToAsk(t) \/ Observe(t) \/ Fails(t) \/ CleanupFails(t)
           \/ BackendEnds(t)
  BY <1>1
  DEF FindVolume, ReadBackVolume, CreatePod, AwaitReady, BindNode, Verify,
      Finds, Exec, Release, LookUp, Decide, DeletePod, NobodyToAsk, Observe,
      Fails, CleanupFails, BackendEnds, Quiet, Transacts
<1>2. CASE Enter(t)
  BY <1>2 DEF Enter, Rest, Transacts
<1>3. CASE Provision(t) \/ AdoptVolume(t) \/ Identify(t) \/ SaveBinding(t)
           \/ MarkReady(t)
  <2>1. PICK u \in Updates : Saves(t, u) \/ Unsaved(t, u)
    BY <1>3, RequestsAreUpdates
    DEF Provision, AdoptVolume, Identify, SaveBinding, MarkReady, Persists
  <2>2. UNCHANGED recoveryVars
    BY <1>3 DEF Provision, AdoptVolume, Identify, SaveBinding, MarkReady,
                Persists, Rest
  <2>. QED
    BY <2>1, <2>2, PersistTransacts
<1>4. CASE BindPod(t) \/ SaveClosing(t) \/ Reconcile(t)
  <2>1. PICK u \in Updates : Saves(t, u) \/ Unsaved(t, u)
    BY <1>4, RequestsAreUpdates DEF BindPod, SaveClosing, Reconcile
  <2>2. UNCHANGED recoveryVars
    BY <1>4 DEF BindPod, SaveClosing, Reconcile, Rest
  <2>. QED
    BY <2>1, <2>2, PersistTransacts
<1>5. CASE BindFound(t)
  <2>. DEFINE c == IF browserRuns[t] = "none" THEN None ELSE Browser.container
              u == [NoChange EXCEPT !.phase = record[t].phase,
                                    !.pod = Browser.pod, !.container = c]
  <2>1. Saves(t, u) \/ Unsaved(t, u)
    BY <1>5 DEF BindFound
  <2>2. UNCHANGED vars \/ AdvanceComputer(t, u)
    BY <2>1 DEF Saves, Unsaved
  <2>3. ASSUME AdvanceComputer(t, u) PROVE u \in Updates
    <3>1. u.phase = record[t].phase
      BY DEF NoChange
    <3>2. record[t].phase \in LeaseStep[lease[t].phase]
      BY <2>3, <3>1 DEF AdvanceComputer
    <3>3. c \in {None, Browser.container}
      OBVIOUS
    <3>. QED
      BY <1>0, <3>2, <3>3, FoundIsUpdate
  <2>4. UNCHANGED recoveryVars
    BY <1>5 DEF BindFound, Rest
  <2>. HIDE DEF u
  <2>. QED
    BY <2>2, <2>3, <2>4 DEF Transacts
<1>6. CASE CaptureStop(t)
  <2>1. UNCHANGED recoveryVars
    BY <1>6 DEF CaptureStop, Rest
  <2>2. PICK seen \in Seen :
            RecordStop(t, [of |-> lease[t].binding, seen |-> seen])
    BY <1>6 DEF CaptureStop
  <2>3. lease[t].binding \in Binding
    BY <1>0, <2>2 DEF RecordStop, Leases, Maybe
  <2>4. [of |-> lease[t].binding, seen |-> seen] \in Receipt
    BY <2>3 DEF Receipt
  <2>. QED
    BY <2>1, <2>2, <2>4 DEF Transacts
<1>7. CASE CloseLease(t)
  <2>1. UNCHANGED recoveryVars
    BY <1>7 DEF CloseLease, Rest
  <2>2. \/ UNCHANGED vars
        \/ \E u \in Updates : Saves(t, u) \/ Unsaved(t, u)
    BY <1>7, RequestsAreUpdates DEF CloseLease
  <2>. QED
    BY <2>1, <2>2, PersistTransacts DEF Transacts
<1>. QED
  BY <1>1, <1>2, <1>3, <1>4, <1>5, <1>6, <1>7 DEF SupervisorSteps

\* One transaction of a recovery run of t, or none.
Settles(t) ==
    \/ UNCHANGED vars
    \/ ReserveHelper(t) \/ BeginLaunch(t)
    \/ \E u \in HelperUpdates : AdvanceHelper(t, u)
    \/ \E pin \in Pin : ReserveWrite(t, pin)
    \/ \E r \in Receipt : RecordRecovery(t, r)

LEMMA RunSettles ==
    ASSUME IInv, NEW n \in Node, NEW t \in Task,
           RecoverStep(n, t) \/ Abandon(n, t)
    PROVE  Settles(t)
<1>0. lease[t] \in Leases /\ helper[t] \in Helpers
  BY DEF IInv, TypeOK
<1>1. CASE \/ Begin(n, t) \/ Route(n, t) \/ Lookup(n, t) \/ Create(n, t)
           \/ SeesRunning(n, t) \/ Bind(n, t) \/ Settle(n, t)
           \/ Dispatch(n, t) \/ Answered(n, t) \/ Inspect(n, t)
           \/ RequestStop(n, t) \/ Delete(n, t) \/ Abandon(n, t)
  BY <1>1
  DEF Begin, Route, Lookup, Create, SeesRunning, Bind, Settle, Dispatch,
      Answered, Inspect, RequestStop, Delete, Abandon, Reads, Settles
<1>2. CASE Reserve(n, t) \/ Launch(n, t) \/ Intent(n, t)
  BY <1>2 DEF Reserve, Launch, Intent, Settles
<1>3. CASE \/ Adopt(n, t) \/ NamesContainer(n, t) \/ Ready(n, t)
           \/ Recovered(n, t) \/ Close(n, t)
  <2>1. PICK u \in HelperUpdates : Update(t, u)
    BY <1>3, ChangesAreUpdates
    DEF Adopt, NamesContainer, Ready, Recovered, Close
  <2>. QED
    BY <2>1 DEF Update, Settles
<1>4. CASE Capture(n, t)
  <2>1. CASE UNCHANGED vars
    BY <2>1 DEF Settles
  <2>2. ASSUME NEW seen \in Seen,
               NEW u, u = [Change EXCEPT !.phase = "closing",
                             !.stop = [of |-> helper[t].binding, seen |-> seen]],
               Update(t, u)
        PROVE  Settles(t)
    BY <1>0, <2>2, StopTyped DEF Update, Settles
  <2>. QED
    BY <1>4, <2>1, <2>2 DEF Capture
<1>5. CASE Acknowledge(n, t)
  <2>1. CASE UNCHANGED vars
    BY <2>1 DEF Settles
  <2>2. ASSUME NEW seen \in Seen,
               RecordRecovery(t, [of |-> lease[t].binding, seen |-> seen])
        PROVE  Settles(t)
    <3>1. lease[t].binding \in Binding
      BY <1>0, <2>2 DEF RecordRecovery, StopProven, Leases, Maybe
    <3>2. [of |-> lease[t].binding, seen |-> seen] \in Receipt
      BY <3>1 DEF Receipt
    <3>. QED
      BY <2>2, <3>2 DEF Settles
  <2>. QED
    BY <1>5, <2>1, <2>2 DEF Acknowledge
<1>. QED
  BY <1>1, <1>2, <1>3, <1>4, <1>5 DEF RecoverStep

\* The rest of the system touches no record.
LEMMA ClustersSpareRow ==
    /\ LateVolume => UNCHANGED <<vars, recoveryVars>>
    /\ \A t \in Task :
          /\ ClusterSteps(t) => UNCHANGED <<vars, at, grant, cluster, command,
                                            history>>
          /\ Aborts(t) => UNCHANGED <<vars, recoveryVars>>
          /\ ClusterStep(t) => UNCHANGED vars
<1>1. LateVolume => UNCHANGED <<vars, recoveryVars>>
  BY DEF LateVolume
<1>2. ASSUME NEW t \in Task, ClusterSteps(t)
      PROVE  UNCHANGED <<vars, at, grant, cluster, command, history>>
  BY <1>2 DEF ClusterSteps, LatePod, BrowserPodGoes, ContainerStarts,
              ContainerExits, ContainerForgotten, Runs, TakesProfile,
              GivesUpProfile, recoveryVars
<1>3. ASSUME NEW t \in Task, Aborts(t)
      PROVE  UNCHANGED <<vars, recoveryVars>>
  BY <1>3 DEF Aborts
<1>4. ASSUME NEW t \in Task, ClusterStep(t)
      PROVE  UNCHANGED vars
  BY <1>4 DEF ClusterStep, PodLands, HelperStarts, HelperExits, PodGoes,
              RuntimeForgets, Retires
<1>. QED
  BY <1>1, <1>2, <1>3, <1>4

LEMMA SystemStepsRecord ==
    ASSUME IInv, SystemNext
    PROVE  [Next]_vars
<1>1. CASE LateVolume
  BY <1>1, ClustersSpareRow
<1>2. ASSUME NEW t \in Task, TeamStep(t)
      PROVE  [Next]_vars
  BY <1>2 DEF TeamStep, Next
<1>3. ASSUME NEW t \in Task,
             Aborts(t) \/ ClusterSteps(t) \/ HelperClusterStep(t)
      PROVE  [Next]_vars
  BY <1>3, ClustersSpareRow DEF HelperClusterStep
<1>4. ASSUME NEW t \in Task,
             SupervisorSteps(t) \/ Fails(t) \/ CleanupFails(t) \/ BackendEnds(t)
      PROVE  [Next]_vars
  <2>1. Transacts(t)
    BY <1>4, SupervisorTransacts
  <2>. QED
    BY <2>1 DEF Transacts, Next
<1>5. ASSUME NEW t \in Task, NEW n \in Node, NodeStep(n, t)
      PROVE  [Next]_vars
  <2>1. RecoverStep(n, t) \/ Abandon(n, t)
    BY <1>5 DEF NodeStep, CallRecover, RecoverStep
  <2>2. Settles(t)
    BY <2>1, RunSettles
  <2>. QED
    BY <2>2 DEF Settles, Next
<1>. QED
  BY <1>1, <1>2, <1>3, <1>4, <1>5 DEF SystemNext

-----------------------------------------------------------------------------
(* The invariants of the parts hold of the whole.                          *)

Carried == IInv /\ Tokens /\ Evidence /\ Remains

\* Steps that leave the runs and what they use alone.
LEMMA CarriedApart ==
    ASSUME Carried, IInv', UNCHANGED <<at, grant, cluster, command, history>>,
           UNCHANGED helper,
           \A t \in Task : lease'[t].recovery = lease[t].recovery,
           lock' \in [Task -> {"none", "active", "retired"}],
           \A t \in Task : lock[t] = "retired" => lock'[t] = "retired"
    PROVE  Carried'
<1>1. Tokens'
  <2>1. Grown
    BY DEF Carried, Tokens, Typed, Grown
  <2>. QED
    BY <2>1, Unmoved DEF Carried
<1>2. Evidence'
  BY DEF Carried, Evidence, Places, Earned, IInv, TypeOK
<1>3. ASSUME NEW t \in Task, lease'[t].phase = "closed"
      PROVE  helper[t].phase \in {"none", "closed"}
  BY <1>3 DEF IInv, Sound, Closed, HelperClosed
<1>4. Remains'
  BY <1>3 DEF Carried, Remains, Cluster, Accounted, Nothing, HasExited,
              cluster, history
<1>. QED
  BY <1>1, <1>2, <1>4 DEF Carried

LEMMA TransactsApart ==
    ASSUME IInv, NEW t \in Task, Transacts(t)
    PROVE  /\ UNCHANGED helper
           /\ \A u \in Task : lease'[u].recovery = lease[u].recovery
<1>0. lease \in [Task -> Leases] /\ lease[t] \in Leases
  BY DEF IInv, TypeOK
<1>1. CASE UNCHANGED vars
  BY <1>1 DEF vars
<1>2. CASE ReserveComputer(t)
  BY <1>0, <1>2 DEF ReserveComputer, Reservation, NoLease
<1>3. ASSUME NEW u \in Updates, AdvanceComputer(t, u)
      PROVE  /\ UNCHANGED helper
             /\ \A v \in Task : lease'[v].recovery = lease[v].recovery
  <2>1. Updated(lease[t], u).recovery = lease[t].recovery
    BY <1>0 DEF Updated, Leases
  <2>. QED
    BY <1>0, <1>3, <2>1 DEF AdvanceComputer
<1>4. ASSUME NEW r \in Receipt, RecordStop(t, r)
      PROVE  /\ UNCHANGED helper
             /\ \A v \in Task : lease'[v].recovery = lease[v].recovery
  BY <1>0, <1>4 DEF RecordStop, Leases
<1>. QED
  BY <1>1, <1>2, <1>3, <1>4 DEF Transacts

LEMMA CarriedOn ==
    ASSUME Carried, [SystemNext]_systemVars
    PROVE  Carried'
<1>0. IInv' /\ lock \in [Task -> {"none", "active", "retired"}]
  <2>1. [Next]_vars
    BY SystemStepsRecord DEF Carried, systemVars, vars
  <2>. QED
    BY <2>1, LeaseStepKeeps DEF Carried, Evidence, Places
<1>1. ASSUME UNCHANGED <<vars, recoveryVars>> PROVE Carried'
  BY <1>0, <1>1, CarriedApart DEF vars, recoveryVars
<1>2. CASE LateVolume \/ UNCHANGED systemVars
  BY <1>1, <1>2, ClustersSpareRow DEF systemVars
<1>3. ASSUME NEW t \in Task, TeamStep(t) PROVE Carried'
  <2>1. UNCHANGED <<lease, helper, recoveryVars>>
    BY <1>3 DEF TeamStep, Claim, Unobserved, ReleaseTask
  <2>. QED
    BY <1>0, <2>1, CarriedApart DEF recoveryVars
<1>4. ASSUME NEW t \in Task, Aborts(t) PROVE Carried'
  BY <1>1, <1>4, ClustersSpareRow
<1>5. ASSUME NEW t \in Task, ClusterSteps(t) PROVE Carried'
  <2>1. UNCHANGED <<lease, helper, at, grant, cluster, command, history>>
    BY <1>5, ClustersSpareRow DEF vars
  <2>2. \/ UNCHANGED lock
        \/ lock[t] = "none" /\ lock' = [lock EXCEPT ![t] = "active"]
        \/ lock' = [lock EXCEPT ![t] = "retired"]
    BY <1>5 DEF ClusterSteps, LatePod, BrowserPodGoes, ContainerStarts,
                ContainerExits, ContainerForgotten, Runs, TakesProfile,
                GivesUpProfile, recoveryVars
  <2>3. /\ lock' \in [Task -> {"none", "active", "retired"}]
        /\ \A u \in Task : lock[u] = "retired" => lock'[u] = "retired"
    BY <1>0, <2>2
  <2>. QED
    BY <1>0, <2>1, <2>3, CarriedApart
<1>6. ASSUME NEW t \in Task,
             SupervisorSteps(t) \/ Fails(t) \/ CleanupFails(t) \/ BackendEnds(t)
      PROVE  Carried'
  <2>1. Transacts(t) /\ UNCHANGED recoveryVars
    BY <1>6, SupervisorTransacts DEF Carried
  <2>2. /\ UNCHANGED helper
        /\ \A u \in Task : lease'[u].recovery = lease[u].recovery
    BY <2>1, TransactsApart DEF Carried
  <2>. QED
    BY <1>0, <2>1, <2>2, CarriedApart DEF recoveryVars
<1>7. ASSUME NEW t \in Task, HelperClusterStep(t) PROVE Carried'
  BY <1>0, <1>7, OthersKeep, OthersKeepEvidence, OthersRemain
  DEF HelperClusterStep, Carried
<1>8. ASSUME NEW t \in Task, NEW n \in Node, NodeStep(n, t) PROVE Carried'
  <2>1. RecoverStep(n, t) \/ Abandon(n, t)
    BY <1>8 DEF NodeStep, CallRecover, RecoverStep
  <2>2. Tokens'
    BY <2>1, RecoverStepKeeps, LooksKeep DEF Carried
  <2>3. Evidence'
    BY <2>1, RunKeepsEvidence DEF Carried
  <2>4. Remains'
    BY <2>1, RunRemains DEF Carried
  <2>. QED
    BY <1>0, <2>2, <2>3, <2>4 DEF Carried
<1>. QED
  BY <1>2, <1>3, <1>4, <1>5, <1>6, <1>7, <1>8 DEF SystemNext

LEMMA CarriedInit == SystemInit => Carried
<1>. SUFFICES ASSUME SystemInit PROVE Carried
  OBVIOUS
<1>1. IInv
  BY Initial DEF SystemInit
<1>2. \A t \in Task : lease[t] = NoLease /\ helper[t] = NoHelper
  BY DEF SystemInit, Init
<1>3. Tokens
  <2>1. Typed
    BY <1>1 DEF SystemInit, NoRecovery, Typed, Place, IInv, TypeOK
  <2>2. \A t \in Task : SinglePost(t) /\ SingleDispatch(t)
    BY DEF SystemInit, NoRecovery, SinglePost, SingleDispatch, MayPost,
           MayDispatch
  <2>. QED
    BY <2>1, <2>2 DEF Tokens
<1>4. Evidence
  <2>1. Places
    BY <1>1 DEF SystemInit, NoRecovery, Places, Place, IInv, TypeOK
  <2>2. \A t \in Task : Earned(t)
    BY <1>2 DEF SystemInit, NoRecovery, Earned, NoLease
  <2>. QED
    BY <2>1, <2>2 DEF Evidence
<1>5. Remains
  BY <1>2 DEF SystemInit, NoRecovery, NoHelper, NoLease, Remains, Cluster,
              Accounted, Nothing, HasExited
<1>. QED
  BY <1>1, <1>3, <1>4, <1>5 DEF Carried

LEMMA SystemCarries == SystemSpec => []Carried
  BY CarriedInit, CarriedOn, PTL DEF SystemSpec

\* kubernetes-supervisor.js and recovery-supervisor.js over computer-lease.js and
\* recovery-helper.js: with supervisors, recovery runs and cluster around it the
\* record goes through the steps of ComputerLease only, so that all it promises
\* holds of the system.
THEOREM SystemKeepsRecord == SystemSpec => Spec
<1>1. SystemInit => Init
  BY DEF SystemInit
<1>2. Carried /\ [SystemNext]_systemVars => [Next]_vars
  BY SystemStepsRecord DEF Carried, systemVars, vars
<1>. QED
  BY <1>1, <1>2, SystemCarries, PTL DEF SystemSpec, Spec

\* recovery-supervisor.js:118 and :165, recovery-controller.js:71 and :79: what
\* recovery promises of one stopped browser it still promises when browsers,
\* supervisors and all earlier leases of the teammate run beside it.
THEOREM SystemSettlesOnce ==
    SystemSpec => [](HelperPostedOnce /\ RecoveredOnce
                     /\ ReceiptIsTrue /\ ClosedIsQuiet)
<1>1. Carried => /\ HelperPostedOnce /\ RecoveredOnce
                 /\ ReceiptIsTrue /\ ClosedIsQuiet
  <2>. SUFFICES ASSUME Carried
                PROVE  /\ HelperPostedOnce /\ RecoveredOnce
                       /\ ReceiptIsTrue /\ ClosedIsQuiet
    OBVIOUS
  <2>1. HelperPostedOnce /\ RecoveredOnce
    BY DEF Carried, Tokens, SinglePost, SingleDispatch, HelperPostedOnce,
           RecoveredOnce
  <2>2. ReceiptIsTrue
    BY DEF Carried, Evidence, Earned, ReceiptIsTrue
  <2>. QED
    BY <2>1, <2>2, RemainsQuiet DEF Carried
<1>. QED
  BY <1>1, SystemCarries, PTL

\* computer-lease.js:31, 38 and 87: and so does the row itself.
THEOREM SystemKeepsLeases ==
    SystemSpec => /\ [](OneOpenLease /\ ProfileContinuity /\ ClosedIsProven)
                  /\ RecordsLast /\ TurnHonored
  BY SystemKeepsRecord, LeasesExclusive, OneProfile, ClosureProven,
     RecordsAreFinal, TurnIsHonored, PTL

-----------------------------------------------------------------------------
(* What a step does to one task's supervisor.                              *)

HasEnded(t) == browserRuns[t] \in {"exited", "forgotten"}

\* The row forgets nothing (RecordsLast, proved in ComputerLeaseProofs).
LEMMA RowLasts ==
    ASSUME IInv, [Next]_vars, NEW t \in Task
    PROVE  /\ lease[t].pod # None => lease'[t].pod # None
           /\ lease[t].binding # None => lease'[t].binding # None
           /\ lease[t].stop # None => lease'[t].stop # None
           /\ lease[t].phase = "closed" => lease'[t].phase = "closed"
           /\ RecoveryProven(lease[t]) => RecoveryProven(lease'[t])
<1>1. CASE UNCHANGED vars
  BY <1>1 DEF vars
<1>2. CASE Next
  <2>1. Kept(t)
    BY <1>2, RecordsKept
  <2>2. \A f \in {"pod", "pvc", "container", "binding", "stop", "recovery"} :
            lease[t][f] # None => lease'[t][f] = lease[t][f]
    BY <2>1 DEF Kept, KeptLease
  <2>3. /\ lease[t].pod # None => lease'[t].pod = lease[t].pod
        /\ lease[t].binding # None => lease'[t].binding = lease[t].binding
        /\ lease[t].stop # None => lease'[t].stop = lease[t].stop
        /\ lease[t].recovery # None => lease'[t].recovery = lease[t].recovery
    BY <2>2
  <2>4. lease[t].phase = "closed" => lease'[t] = lease[t]
    BY <2>1 DEF Kept
  <2>. QED
    BY <2>3, <2>4 DEF RecoveryProven, StopProven
<1>. QED
  BY <1>1, <1>2

\* The parts of a task's state that steps for other tasks leave alone.
Same(t) ==
    /\ place'[t] = place[t] /\ record'[t] = record[t] /\ memory'[t] = memory[t]
    /\ browserPod'[t] = browserPod[t] /\ browserRuns'[t] = browserRuns[t]
    /\ t \in podInFlight' <=> t \in podInFlight
    /\ t \in used' <=> t \in used

\* The obligations of a step that creates, deletes, runs and uses nothing.
Proceeds(t) ==
    /\ browserPod'[t] = browserPod[t] /\ browserRuns'[t] = browserRuns[t]
    /\ t \in podInFlight' <=> t \in podInFlight
    /\ t \in used' <=> t \in used
    /\ lock'[t] # "none" => lock[t] # "none" \/ t \in used
    /\ Remembers(record'[t], lease'[t])
    /\ record[t].pod # None => record'[t].pod # None
    /\ record[t].binding # None => record'[t].binding # None
    /\ lease'[t].stop # None => lease[t].stop # None \/ HasEnded(t)
    /\ lease'[t].phase = "closed" =>
            \/ lease[t].phase = "closed"
            \/ place[t] = "close" /\ place'[t] \notin Provisioning \cup {"none"}
    /\ memory[t].attempted => memory'[t].attempted
    /\ memory[t].podUnknown =>
            \/ memory'[t].podUnknown
            \/ record'[t].pod # None /\ t \notin podInFlight

\* The obligations of the place that is reached.
Arrives(t) ==
    /\ place'[t] \in Provisioning \cup {"none"} =>
            place[t] \in Provisioning \cup {"none"}
    /\ place'[t] = "bindFound" => t \notin podInFlight
    /\ place'[t] \in {"capture", "delete", "observe", "close"} =>
            ~memory'[t].podUnknown
    /\ place'[t] \in {"markReady", "verify", "exec"} =>
            record'[t].binding # None
    /\ place'[t] = "delete" /\ t \in used => lease'[t].stop # None
    /\ place'[t] = "close" =>
            /\ browserPod[t] = "absent" /\ t \notin podInFlight
            /\ Untouched(t) \/ RecoveryProven(lease'[t])

LEMMA ProceedsManaged ==
    ASSUME IInv, [Next]_vars, NEW t \in Task, Managed(t),
           memory[t].attempted \in BOOLEAN, memory'[t].attempted \in BOOLEAN,
           memory[t].podUnknown \in BOOLEAN, memory'[t].podUnknown \in BOOLEAN,
           Proceeds(t), Arrives(t)
    PROVE  Managed(t)'
<1>1. Remembers(record[t], lease[t])'
  BY DEF Proceeds
<1>2. Untouched(t) <=> Untouched(t)'
  BY DEF Proceeds, Untouched
<1>3. Known(t)'
  BY <1>2 DEF Managed, Known, Proceeds
<1>4. Placed(t)'
  BY DEF Managed, Placed, Proceeds, Arrives
<1>5. Archived(t)'
  BY RowLasts DEF Managed, Archived, Proceeds, Arrives, HasEnded
<1>6. Gone(t)'
  BY <1>2, RowLasts DEF Managed, Gone, Proceeds, Arrives
<1>. QED
  BY <1>1, <1>3, <1>4, <1>5, <1>6 DEF Managed

\* Steps that are not the supervisor's.
LEMMA SameManaged ==
    ASSUME IInv, [Next]_vars, NEW t \in Task, Managed(t), Same(t),
           memory[t].attempted \in BOOLEAN, memory[t].podUnknown \in BOOLEAN,
           lock'[t] # "none" => lock[t] # "none" \/ t \in used,
           lease'[t].stop # None => lease[t].stop # None,
           lease'[t].phase = "closed" => lease[t].phase = "closed"
    PROVE  Managed(t)'
<1>1. Proceeds(t)
  BY RowLasts DEF Proceeds, Same, Managed, Remembers
<1>2. Arrives(t)
  BY RowLasts DEF Arrives, Same, Managed, Placed, Archived, Gone
<1>. QED
  BY <1>1, <1>2, ProceedsManaged DEF Same

LEMMA AsideSupervised ==
    ASSUME Supervised, IInv, [Next]_vars,
           UNCHANGED <<place, record, memory, browserPod, browserRuns,
                       podInFlight, used>>,
           \A t \in Task :
              /\ lock'[t] # "none" => lock[t] # "none" \/ t \in used
              /\ lease'[t].stop # None => lease[t].stop # None
              /\ lease'[t].phase = "closed" => lease[t].phase = "closed"
    PROVE  Supervised'
<1>1. SupervisorTypes'
  BY DEF Supervised, SupervisorTypes
<1>2. ASSUME NEW t \in Task PROVE Managed(t)'
  BY SameManaged DEF Supervised, SupervisorTypes, Same, Flags
<1>. QED
  BY <1>1, <1>2 DEF Supervised

-----------------------------------------------------------------------------
(* The steps that are not the supervisors'.                                *)

LEMMA NodeStepSupervised ==
    ASSUME Supervised, Carried, [Next]_vars, NEW n \in Node, NEW t \in Task,
           NodeStep(n, t)
    PROVE  Supervised'
<1>1. RecoverStep(n, t) \/ Abandon(n, t)
  BY DEF NodeStep, CallRecover, RecoverStep
<1>2. UNCHANGED <<place, record, memory, browserPod, browserRuns, podInFlight,
                  used>>
  BY DEF NodeStep, CallRecover, browserCluster, supervisor
<1>3. Settles(t)
  BY <1>1, RunSettles DEF Carried
<1>4. ASSUME NEW u \in Task
      PROVE  lease'[u].stop = lease[u].stop /\ lease'[u].phase = lease[u].phase
  <2>1. CASE UNCHANGED lease
    BY <2>1
  <2>2. ASSUME NEW r, RecordRecovery(t, r)
        PROVE  /\ lease'[u].stop = lease[u].stop
               /\ lease'[u].phase = lease[u].phase
    BY <2>2 DEF RecordRecovery, Carried, IInv, TypeOK, Leases
  <2>. QED
    BY <1>3, <2>1, <2>2
    DEF Settles, ReserveHelper, BeginLaunch, AdvanceHelper, ReserveWrite, vars
<1>5. UNCHANGED lock
  BY <1>1 DEF RecoverStep, Begin, Reserve, Route, Launch, Lookup, Create, Adopt,
              SeesRunning, NamesContainer, Bind, Ready, Settle, Intent,
              Dispatch, Answered, Inspect, Acknowledge, Recovered, RequestStop,
              Capture, Delete, Close, Abandon, Reads, Commits
<1>. QED
  BY <1>2, <1>4, <1>5, AsideSupervised DEF Carried

LEMMA ClusterStepsSupervised ==
    ASSUME Supervised, Carried, [Next]_vars, NEW t \in Task, ClusterSteps(t)
    PROVE  Supervised'
<1>0. UNCHANGED <<lease, place, record, memory, used>>
  BY DEF ClusterSteps, LatePod, BrowserPodGoes, ContainerStarts,
         ContainerExits, ContainerForgotten, Runs, TakesProfile,
         GivesUpProfile, supervisor, vars
<1>1. CASE LatePod(t)
  <2>1. /\ t \in podInFlight /\ browserPod[t] = "absent"
        /\ browserPod' = [browserPod EXCEPT ![t] = "present"]
        /\ podInFlight' = podInFlight \ {t}
        /\ UNCHANGED <<lock, browserRuns>>
    BY <1>1 DEF LatePod, recoveryVars
  <2>2. SupervisorTypes'
    BY <1>0, <2>1 DEF Supervised, SupervisorTypes
  <2>3. Managed(t)'
    BY <1>0, <2>1 DEF Supervised, SupervisorTypes, Managed, Known, Placed,
                      Archived, Gone, Untouched
  <2>4. ASSUME NEW u \in Task \ {t} PROVE Managed(u)'
    <3>1. Same(u)
      BY <1>0, <2>1 DEF Same, Supervised, SupervisorTypes
    <3>. QED
      BY <1>0, <2>1, <3>1, SameManaged
      DEF Supervised, SupervisorTypes, Carried, Flags
  <2>. QED
    BY <2>2, <2>3, <2>4 DEF Supervised
<1>2. CASE BrowserPodGoes(t)
  <2>1. /\ browserPod' = [browserPod EXCEPT ![t] = "absent"]
        /\ UNCHANGED <<lock, browserRuns, podInFlight>>
    BY <1>2 DEF BrowserPodGoes, recoveryVars
  <2>2. SupervisorTypes'
    BY <1>0, <2>1 DEF Supervised, SupervisorTypes
  <2>3. Managed(t)'
    BY <1>0, <2>1 DEF Supervised, SupervisorTypes, Managed, Known, Placed,
                      Archived, Gone, Untouched
  <2>4. ASSUME NEW u \in Task \ {t} PROVE Managed(u)'
    <3>1. Same(u)
      BY <1>0, <2>1 DEF Same, Supervised, SupervisorTypes
    <3>. QED
      BY <1>0, <2>1, <3>1, SameManaged
      DEF Supervised, SupervisorTypes, Carried, Flags
  <2>. QED
    BY <2>2, <2>3, <2>4 DEF Supervised
<1>3. CASE ContainerStarts(t) \/ ContainerExits(t) \/ ContainerForgotten(t)
  <2>1. /\ browserRuns' \in [Task -> {"none", "running", "exited", "forgotten"}]
        /\ \A u \in Task \ {t} : browserRuns'[u] = browserRuns[u]
        /\ HasEnded(t) => HasEnded(t)'
        /\ browserPod[t] # "absent" \/ browserRuns[t] # "none"
        /\ UNCHANGED <<lock, browserPod, podInFlight>>
    BY <1>3 DEF ContainerStarts, ContainerExits, ContainerForgotten, Runs,
                HasEnded, recoveryVars, Supervised, SupervisorTypes
  <2>2. SupervisorTypes'
    BY <1>0, <2>1 DEF Supervised, SupervisorTypes
  <2>3. Managed(t)'
    BY <1>0, <2>1 DEF Supervised, SupervisorTypes, Managed, Known, Placed,
                      Archived, Gone, Untouched, HasEnded
  <2>4. ASSUME NEW u \in Task \ {t} PROVE Managed(u)'
    <3>1. Same(u)
      BY <1>0, <2>1 DEF Same
    <3>. QED
      BY <1>0, <2>1, <3>1, SameManaged
      DEF Supervised, SupervisorTypes, Carried, Flags
  <2>. QED
    BY <2>2, <2>3, <2>4 DEF Supervised
<1>4. CASE TakesProfile(t) \/ GivesUpProfile(t)
  <2>1. /\ UNCHANGED <<browserPod, browserRuns, podInFlight>>
        /\ \A u \in Task : lock'[u] # "none" => lock[u] # "none" \/ u \in used
    BY <1>4 DEF TakesProfile, GivesUpProfile, browserCluster, Carried, Evidence,
                Places
  <2>. QED
    BY <1>0, <2>1, AsideSupervised DEF Carried
<1>. QED
  BY <1>1, <1>2, <1>3, <1>4 DEF ClusterSteps

LEMMA OutsideSupervised ==
    ASSUME Supervised, Carried, [Next]_vars, NEW t \in Task,
           LateVolume \/ TeamStep(t) \/ Aborts(t) \/ HelperClusterStep(t)
    PROVE  Supervised'
<1>1. UNCHANGED <<lease, place, record, memory, browserPod, browserRuns,
                  podInFlight, used>>
  BY ClustersSpareRow
  DEF LateVolume, TeamStep, Claim, Unobserved, ReleaseTask, Aborts,
      HelperClusterStep, browserCluster, supervisor, vars
<1>2. \A u \in Task : lock'[u] # "none" => lock[u] # "none"
  <2>1. CASE Retires(t)
    BY <2>1 DEF Retires, Carried, Evidence, Places
  <2>2. CASE UNCHANGED lock
    BY <2>2
  <2>. QED
    BY <2>1, <2>2
    DEF LateVolume, TeamStep, Aborts, HelperClusterStep, ClusterStep, PodLands,
        HelperStarts, HelperExits, PodGoes, RuntimeForgets, recoveryVars
<1>. QED
  BY <1>1, <1>2, AsideSupervised DEF Carried

-----------------------------------------------------------------------------
(* The supervisor's steps.                                                 *)

\* A step of t's supervisor moves nothing of another's.
LEMMA StepsElsewhere ==
    ASSUME Supervised, Carried, Carried', [Next]_vars, NEW t \in Task,
           SupervisorSteps(t) \/ Fails(t) \/ CleanupFails(t) \/ BackendEnds(t),
           SupervisorTypes', \A u \in Task \ {t} : Same(u),
           Managed(t)'
    PROVE  Supervised'
<1>1. Transacts(t) /\ UNCHANGED recoveryVars
  BY SupervisorTransacts DEF Carried
<1>2. ASSUME NEW u \in Task \ {t} PROVE lease'[u] = lease[u]
  <2>1. lease \in [Task -> Leases]
    BY DEF Carried, IInv, TypeOK
  <2>. QED
    BY <1>1, <2>1
    DEF Transacts, ReserveComputer, AdvanceComputer, RecordStop, vars
<1>3. ASSUME NEW u \in Task \ {t} PROVE Managed(u)'
  BY <1>1, <1>2, SameManaged
  DEF Supervised, SupervisorTypes, Carried, recoveryVars, Flags
<1>. QED
  BY <1>3 DEF Supervised

\* The row and the copy, after a transaction with or without an answer.
LEMMA Answers ==
    ASSUME Supervised, Carried, Carried', [Next]_vars, NEW t \in Task, NEW u,
           Saves(t, u) \/ Unsaved(t, u)
    PROVE  /\ record' \in [Task -> Leases]
           /\ \A v \in Task \ {t} : record'[v] = record[v]
           /\ Remembers(record'[t], lease'[t])
           /\ record[t].pod # None => record'[t].pod # None
           /\ record[t].binding # None => record'[t].binding # None
           /\ lease'[t].stop = lease[t].stop
           /\ lease'[t].phase = "closed" =>
                 u.phase = "closed" \/ lease[t].phase = "closed"
           /\ Saves(t, u) =>
                 /\ u.pod # None => record'[t].pod # None
                 /\ u.binding # None => record'[t].binding # None
<1>0. /\ lease \in [Task -> Leases] /\ lease' \in [Task -> Leases]
      /\ SoundLease(lease'[t])
      /\ record \in [Task -> Leases] /\ Remembers(record[t], lease[t])
  BY DEF Carried, IInv, TypeOK, Sound, Supervised, SupervisorTypes, Managed
<1>1. /\ lease'[t].binding # None => lease'[t].pod # None
      /\ Remembers(record[t], lease'[t])
      /\ record[t].pod # None => lease'[t].pod # None
      /\ record[t].binding # None => lease'[t].binding # None
  BY <1>0, RowLasts DEF SoundLease, Remembers, Carried
<1>2. \/ UNCHANGED lease
      \/ AdvanceComputer(t, u) /\ lease'[t] = Updated(lease[t], u)
  BY <1>0 DEF Saves, Unsaved, AdvanceComputer, vars
<1>3. /\ Updated(lease[t], u).stop = lease[t].stop
      /\ Updated(lease[t], u).phase = u.phase
      /\ Updated(lease[t], u).pod = Attach(lease[t].pod, u.pod)
      /\ Updated(lease[t], u).binding = Attach(lease[t].binding, u.binding)
  BY <1>0 DEF Updated, Leases
<1>4. /\ lease'[t].stop = lease[t].stop
      /\ lease'[t].phase = "closed" =>
            u.phase = "closed" \/ lease[t].phase = "closed"
  BY <1>2, <1>3
<1>5. CASE Saves(t, u)
  <2>1. record' = [record EXCEPT ![t] = lease'[t]]
    BY <1>5 DEF Saves
  <2>2. record'[t] = lease'[t]
    BY <1>0, <2>1
  <2>3. /\ u.pod # None => lease'[t].pod # None
        /\ u.binding # None => lease'[t].binding # None
    BY <1>0, <1>3, <1>5 DEF Saves, AdvanceComputer, Attach
  <2>. QED
    BY <1>0, <1>1, <1>4, <2>1, <2>2, <2>3 DEF Remembers
<1>6. CASE ~Saves(t, u)
  <2>1. UNCHANGED record
    BY <1>6 DEF Unsaved
  <2>. QED
    BY <1>0, <1>1, <1>4, <1>6, <2>1
<1>. QED
  BY <1>5, <1>6

\* A transaction without a change to the cluster, and the move that follows it.
LEMMA PersistsSupervised ==
    ASSUME Supervised, Carried, Carried', [Next]_vars, NEW t \in Task, NEW u,
           SupervisorSteps(t), Saves(t, u) \/ Unsaved(t, u),
           UNCHANGED Rest,
           NEW p \in Provisioning \cup CleaningUp \cup {"closed", "failed"},
           Moves(t, p),
           NEW m \in Flags,
           memory' = [memory EXCEPT ![t] = m],
           memory[t].attempted => m.attempted,
           memory[t].podUnknown =>
                m.podUnknown \/ (record'[t].pod # None /\ t \notin podInFlight),
           u.phase = "closed" =>
                place[t] = "close" \/ lease[t].phase = "closed",
           u.phase = "closed" => p \notin Provisioning,
           p \in Provisioning => place[t] \in Provisioning,
           p \in {"markReady", "verify", "exec"} => record'[t].binding # None,
           p \in {"bindFound", "capture", "delete", "observe", "close"} => FALSE
    PROVE  Supervised'
<1>1. SupervisorTypes'
  BY Answers DEF Supervised, SupervisorTypes, Moves, Rest, browserCluster
<1>2. place'[t] = p /\ memory'[t] = m
  BY DEF Supervised, SupervisorTypes, Moves
<1>3. \A v \in Task \ {t} : Same(v)
  BY Answers DEF Same, Supervised, SupervisorTypes, Moves, Rest, browserCluster
<1>4. Proceeds(t)
  BY <1>2, Answers
  DEF Proceeds, Rest, browserCluster, recoveryVars, Provisioning, CleaningUp
<1>5. Arrives(t)
  BY <1>2 DEF Arrives, Provisioning, CleaningUp
<1>6. Managed(t)'
  BY <1>2, <1>4, <1>5, ProceedsManaged
  DEF Supervised, SupervisorTypes, Carried, Flags
<1>. QED
  BY <1>1, <1>3, <1>6, StepsElsewhere

\* A step that only looks or asks.
LEMMA LooksSupervised ==
    ASSUME Supervised, Carried, Carried', [Next]_vars, NEW t \in Task,
           SupervisorSteps(t) \/ Fails(t) \/ CleanupFails(t) \/ BackendEnds(t),
           UNCHANGED <<vars, recoveryVars, used>>,
           UNCHANGED <<browserPod, browserRuns, podInFlight>>,
           NEW p \in Provisioning \cup CleaningUp \cup {"open", "failed"},
           Moves(t, p),
           UNCHANGED record
             \/ record' = [record EXCEPT ![t] = lease[t]],
           memory' \in [Task -> Flags],
           \A v \in Task \ {t} : memory'[v] = memory[v],
           /\ memory'[t].attempted = memory[t].attempted
           /\ memory'[t].podUnknown = memory[t].podUnknown,
           Arrives(t)
    PROVE  Supervised'
<1>0. /\ lease \in [Task -> Leases] /\ SoundLease(lease[t])
      /\ record \in [Task -> Leases] /\ Remembers(record[t], lease[t])
      /\ UNCHANGED <<lease, lock>>
  BY DEF Carried, IInv, TypeOK, Sound, Supervised, SupervisorTypes, Managed,
         vars, recoveryVars
<1>1. SupervisorTypes'
  BY <1>0 DEF Supervised, SupervisorTypes, Moves
<1>2. place'[t] = p
  BY DEF Supervised, SupervisorTypes, Moves
<1>3. \A v \in Task \ {t} : Same(v)
  BY DEF Same, Supervised, SupervisorTypes, Moves
<1>4. Proceeds(t)
  <2>1. record'[t] \in {record[t], lease[t]}
    BY <1>0
  <2>. QED
    BY <1>0, <2>1 DEF Proceeds, Remembers, SoundLease
<1>5. Managed(t)'
  BY <1>4, ProceedsManaged DEF Supervised, SupervisorTypes, Carried, Flags
<1>. QED
  BY <1>1, <1>3, <1>5, StepsElsewhere

LEMMA LookSteps ==
    ASSUME Supervised, Carried, Carried', [Next]_vars, NEW t \in Task,
           \/ FindVolume(t) \/ ReadBackVolume(t) \/ AwaitReady(t)
           \/ BindNode(t) \/ Verify(t) \/ Release(t) \/ LookUp(t)
           \/ NobodyToAsk(t) \/ Observe(t)
           \/ Fails(t) \/ CleanupFails(t) \/ BackendEnds(t)
    PROVE  Supervised'
<1>0. /\ Managed(t) /\ DOMAIN place = Task
      /\ memory \in [Task -> Flags]
  BY DEF Supervised, SupervisorTypes
<1>1. /\ SupervisorSteps(t) \/ Fails(t) \/ CleanupFails(t) \/ BackendEnds(t)
      /\ UNCHANGED <<vars, recoveryVars, used, record>>
      /\ UNCHANGED <<browserPod, browserRuns, podInFlight>>
  BY DEF SupervisorSteps, FindVolume, ReadBackVolume, AwaitReady, BindNode,
         Verify, Finds, Release, LookUp, NobodyToAsk, Observe, Fails,
         CleanupFails, BackendEnds, Quiet, browserCluster
<1>2. /\ memory' \in [Task -> Flags]
      /\ \A v \in Task \ {t} : memory'[v] = memory[v]
      /\ memory'[t].attempted = memory[t].attempted
      /\ memory'[t].podUnknown = memory[t].podUnknown
  <2>1. CASE UNCHANGED memory
    BY <1>0, <2>1
  <2>2. CASE Recalls(t, [memory[t] EXCEPT !.volumeUnknown = TRUE])
    BY <1>0, <2>2 DEF Recalls, Flags
  <2>. QED
    BY <2>1, <2>2
    DEF FindVolume, ReadBackVolume, AwaitReady, BindNode, Verify, Finds,
        Release, LookUp, NobodyToAsk, Observe, Fails, CleanupFails, BackendEnds
<1>3. UNCHANGED lease
  BY <1>1 DEF vars
<1>4. ASSUME NEW p \in Provisioning \cup CleaningUp \cup {"open", "failed"},
             Moves(t, p), Arrives(t)
      PROVE  Supervised'
  BY <1>1, <1>2, <1>4, LooksSupervised
<1>5. ASSUME NEW p, Moves(t, p) PROVE place'[t] = p
  BY <1>0, <1>5 DEF Moves
<1>6. CASE FindVolume(t)
  <2>1. PICK p \in {"adoptVolume", "readback"} : Moves(t, p)
    BY <1>6 DEF FindVolume
  <2>2. Arrives(t)
    BY <1>5, <1>6, <2>1 DEF FindVolume, At, Arrives, Provisioning
  <2>. QED
    BY <1>4, <2>1, <2>2 DEF Provisioning
<1>7. CASE ReadBackVolume(t) \/ AwaitReady(t)
  <2>1. PICK p \in {"adoptVolume", "identify"} : Moves(t, p)
    BY <1>7 DEF ReadBackVolume, AwaitReady, Finds
  <2>2. Arrives(t)
    BY <1>5, <1>7, <2>1
    DEF ReadBackVolume, AwaitReady, Finds, At, Arrives, Provisioning
  <2>. QED
    BY <1>4, <2>1, <2>2 DEF Provisioning
<1>8. CASE BindNode(t)
  <2>1. Moves(t, "saveBinding") /\ place[t] = "bindNode"
    BY <1>8 DEF BindNode, Finds, At
  <2>2. Arrives(t)
    BY <1>5, <2>1 DEF Arrives, Provisioning
  <2>. QED
    BY <1>4, <2>1, <2>2 DEF Provisioning
<1>9. CASE Verify(t)
  <2>1. Moves(t, "exec") /\ place[t] = "verify" /\ UNCHANGED record
    BY <1>1, <1>9 DEF Verify, Finds, At
  <2>2. Arrives(t)
    BY <1>0, <1>5, <2>1 DEF Arrives, Provisioning, Managed, Archived
  <2>. QED
    BY <1>4, <2>1, <2>2 DEF Provisioning
<1>10. CASE Release(t) \/ Fails(t)
  <2>1. Moves(t, "closing")
    BY <1>10 DEF Release, Fails
  <2>2. Arrives(t)
    BY <1>5, <2>1 DEF Arrives, Provisioning
  <2>. QED
    BY <1>4, <2>1, <2>2 DEF CleaningUp
<1>11. CASE LookUp(t)
  <2>1. PICK p \in {"bindFound", "decide"} :
            /\ Moves(t, p)
            /\ p = "bindFound" => browserPod[t] # "absent"
    BY <1>11 DEF LookUp
  <2>2. Arrives(t)
    BY <1>0, <1>5, <2>1 DEF Arrives, Provisioning, Managed, Known
  <2>. QED
    BY <1>4, <2>1, <2>2 DEF CleaningUp
<1>12. CASE NobodyToAsk(t) \/ CleanupFails(t)
  <2>1. Moves(t, "unconfirmed")
    BY <1>12 DEF NobodyToAsk, CleanupFails
  <2>2. Arrives(t)
    BY <1>5, <2>1 DEF Arrives, Provisioning
  <2>. QED
    BY <1>4, <2>1, <2>2 DEF CleaningUp
<1>13. CASE BackendEnds(t)
  <2>1. Moves(t, "failed")
    BY <1>13 DEF BackendEnds
  <2>2. Arrives(t)
    BY <1>5, <2>1 DEF Arrives, Provisioning
  <2>. QED
    BY <1>4, <2>1, <2>2
<1>14. CASE Observe(t)
  <2>1. /\ Moves(t, "close") /\ place[t] = "observe"
        /\ browserPod[t] = "absent" /\ RecoveryProven(lease[t])
    BY <1>14 DEF Observe
  <2>2. ~memory[t].podUnknown /\ t \notin podInFlight
    BY <1>0, <2>1 DEF Managed, Placed, Known
  <2>3. Arrives(t)
    BY <1>2, <1>3, <1>5, <2>1, <2>2 DEF Arrives, Provisioning
  <2>. QED
    BY <1>4, <2>1, <2>3 DEF CleaningUp
<1>. QED
  BY <1>6, <1>7, <1>8, <1>9, <1>10, <1>11, <1>12, <1>13, <1>14

LEMMA DecideSupervised ==
    ASSUME Supervised, Carried, Carried', [Next]_vars, NEW t \in Task, Decide(t)
    PROVE  Supervised'
<1>0. /\ Managed(t) /\ SoundLease(lease[t])
      /\ memory \in [Task -> Flags]
  BY DEF Supervised, SupervisorTypes, Carried, IInv, Sound
<1>1. /\ SupervisorSteps(t)
      /\ UNCHANGED <<vars, recoveryVars, used, memory, lease>>
      /\ UNCHANGED <<browserPod, browserRuns, podInFlight>>
      /\ UNCHANGED record \/ record' = [record EXCEPT ![t] = lease[t]]
  BY DEF SupervisorSteps, Decide, browserCluster, vars
<1>2. PICK p \in {"unconfirmed", "capture", "delete"} :
          /\ Moves(t, p)
          /\ p # "unconfirmed" => ~memory[t].podUnknown
          /\ p = "delete" =>
                lease[t].stop # None \/ record[t].binding = None
  BY DEF Decide, Uncertain, MustArchive
<1>3. place'[t] = p
  BY <1>2 DEF Supervised, SupervisorTypes, Moves
<1>4. Arrives(t)
  BY <1>0, <1>1, <1>2, <1>3 DEF Arrives, Provisioning, Managed, Archived
<1>. QED
  BY <1>0, <1>1, <1>2, <1>4, LooksSupervised DEF CleaningUp

\* Transactions of provisioning and of the clean-up.
LEMMA PersistSteps ==
    ASSUME Supervised, Carried, Carried', [Next]_vars, NEW t \in Task,
           \/ Provision(t) \/ AdoptVolume(t) \/ Identify(t) \/ SaveBinding(t)
           \/ MarkReady(t) \/ BindPod(t) \/ SaveClosing(t) \/ BindFound(t)
           \/ Reconcile(t)
    PROVE  Supervised'
<1>0. /\ Managed(t) /\ memory \in [Task -> Flags] /\ memory[t] \in Flags
  BY DEF Supervised, SupervisorTypes
<1>1. SupervisorSteps(t) /\ UNCHANGED Rest
  BY DEF SupervisorSteps, Provision, AdoptVolume, Identify, SaveBinding,
         MarkReady, Persists, BindPod, SaveClosing, BindFound, Reconcile
<1>2. UNCHANGED memory => memory' = [memory EXCEPT ![t] = memory[t]]
  BY <1>0
<1>3. ASSUME NEW u, Saves(t, u) \/ Unsaved(t, u), u.phase # "closed",
             NEW p \in Provisioning \cup CleaningUp \cup {"failed"},
             Moves(t, p), p \in Provisioning => place[t] \in Provisioning,
             p \in {"markReady", "verify", "exec"} => record'[t].binding # None,
             p \notin {"bindFound", "capture", "delete", "observe", "close"},
             UNCHANGED memory
      PROVE  Supervised'
  BY <1>0, <1>1, <1>2, <1>3, PersistsSupervised
<1>4. CASE \/ Provision(t) \/ AdoptVolume(t) \/ Identify(t) \/ SaveBinding(t)
           \/ MarkReady(t)
  <2>1. PICK u, from, next : /\ Persists(t, from, u, next)
                             /\ <<from, next>> \in
                                  {<<"begin", "volume">>,
                                   <<"adoptVolume", "create">>,
                                   <<"identify", "bindNode">>,
                                   <<"saveBinding", "markReady">>,
                                   <<"markReady", "verify">>}
                             /\ from = "saveBinding" => u.binding # None
                             /\ u.phase # "closed"
    <3>1. /\ NoChange.phase = "provisioning"
          /\ [NoChange EXCEPT !.pvc = Volume].phase = "provisioning"
          /\ [NoChange EXCEPT !.pod = Browser.pod,
                              !.container = Browser.container].phase
                = "provisioning"
          /\ [NoChange EXCEPT !.phase = "ready"].phase = "ready"
      BY DEF NoChange
    <3>2. LET u == [NoChange EXCEPT !.binding = Browser.binding]
          IN  u.phase = "provisioning" /\ u.binding # None
      BY RecoveryAssumption, LeaseAssumption DEF NoChange, Objects
    <3>. QED
      BY <1>4, <3>1, <3>2
      DEF Provision, AdoptVolume, Identify, SaveBinding, MarkReady
  <2>2. /\ place[t] = from
        /\ \/ Saves(t, u) /\ Moves(t, next)
           \/ Unsaved(t, u) /\ Moves(t, "closing")
    BY <2>1 DEF Persists, At
  <2>5. PICK m \in Flags : /\ memory' = [memory EXCEPT ![t] = m]
                       /\ m.attempted = memory[t].attempted
                       /\ m.podUnknown = memory[t].podUnknown
    <3>. DEFINE known == [memory[t] EXCEPT !.volumeUnknown = FALSE]
    <3>1. memory[t] \in Flags
      BY <1>0
    <3>2. /\ known \in Flags
          /\ known.attempted = memory[t].attempted
          /\ known.podUnknown = memory[t].podUnknown
      BY <3>1 DEF Flags
    <3>3. \/ memory' = [memory EXCEPT ![t] = memory[t]]
          \/ memory' = [memory EXCEPT ![t] = known]
      BY <1>2, <1>4 DEF Provision, AdoptVolume, Identify, SaveBinding, MarkReady,
                        Recalls
    <3>. QED
      BY <3>1, <3>2, <3>3
  <2>3. CASE Saves(t, u) /\ Moves(t, next)
    <3>1. next = "markReady" => record'[t].binding # None
      BY <2>1, <2>3, Answers
    <3>2. next = "verify" => record'[t].binding # None
      BY <1>0, <2>1, <2>2, <2>3, Answers DEF Managed, Archived
    <3>3. from \in Provisioning /\ next \in Provisioning \ {"exec"}
      BY <2>1 DEF Provisioning
    <3>4. next \notin {"bindFound", "capture", "delete", "observe", "close"}
      BY <2>1
    <3>. QED
      BY <1>0, <1>1, <2>1, <2>2, <2>3, <3>1, <3>2, <3>3, <3>4, <2>5,
         PersistsSupervised
  <2>4. CASE Unsaved(t, u) /\ Moves(t, "closing")
    <3>7. "closing" \in CleaningUp /\ "closing" \notin Provisioning
      BY DEF CleaningUp, Provisioning
    <3>. QED
      BY <1>0, <1>1, <2>1, <2>4, <2>5, <3>7, PersistsSupervised
  <2>. QED
    BY <2>2, <2>3, <2>4
<1>5. CASE BindPod(t)
  <2>. DEFINE u == [NoChange EXCEPT !.pod = Browser.pod]
  <2>1. u.phase = "provisioning" /\ u.pod # None
    BY RecoveryAssumption, LeaseAssumption DEF NoChange, Objects
  <2>2. place[t] = "bindPod" /\ t \notin podInFlight
    BY <1>0, <1>5 DEF BindPod, At, Managed, Placed, Provisioning
  <2>. HIDE DEF u
  <2>3. CASE Saves(t, u) /\ Moves(t, "wait")
             /\ Recalls(t, [memory[t] EXCEPT !.podUnknown = FALSE])
    <3>1. PICK m \in Flags : /\ memory' = [memory EXCEPT ![t] = m]
                         /\ m.attempted = memory[t].attempted
      <4>. DEFINE m == [memory[t] EXCEPT !.podUnknown = FALSE]
      <4>1. m \in Flags /\ m.attempted = memory[t].attempted
        BY <1>0 DEF Flags
      <4>. QED
        BY <2>3, <4>1 DEF Recalls
    <3>2. UNCHANGED Rest /\ SupervisorSteps(t)
      BY <1>1
    <3>3. record'[t].pod # None
      BY <2>1, <2>3, Answers
    <3>4. "wait" \in Provisioning /\ place[t] \in Provisioning
      BY <2>2 DEF Provisioning
    <3>5. Saves(t, u) /\ u.phase # "closed"
      BY <2>1, <2>3
    <3>6. PICK p \in {"wait"} : Moves(t, p)
      BY <2>3
    <3>7. p \in Provisioning
      BY <3>4, <3>6
    <3>. QED
      BY <2>2, <3>1, <3>2, <3>3, <3>4, <3>5, <3>6, <3>7, PersistsSupervised
  <2>4. CASE Unsaved(t, u) /\ Moves(t, "closing") /\ UNCHANGED memory
    <3>1. "closing" \in CleaningUp /\ "closing" \notin Provisioning
      BY DEF CleaningUp, Provisioning
    <3>. QED
      BY <1>3, <2>1, <2>4, <3>1
  <2>. QED
    BY <1>5, <2>3, <2>4 DEF BindPod, u
<1>6. CASE SaveClosing(t)
  <2>. DEFINE u == [NoChange EXCEPT !.phase = "closing"]
  <2>1. u.phase = "closing"
    BY DEF NoChange
  <2>. HIDE DEF u
  <2>2. PICK m \in Flags : /\ memory' = [memory EXCEPT ![t] = m]
                       /\ m.attempted = memory[t].attempted
                       /\ m.podUnknown = memory[t].podUnknown
    <3>1. \/ memory' = [memory EXCEPT ![t] = memory[t]]
          \/ memory' = [memory EXCEPT ![t] = [memory[t] EXCEPT !.unsaved = TRUE]]
      BY <1>2, <1>6 DEF SaveClosing, Recalls
    <3>. QED
      BY <1>0, <3>1 DEF Flags
  <2>3. Saves(t, u) \/ Unsaved(t, u)
    BY <1>6 DEF SaveClosing, u
  <2>4. /\ Moves(t, "lookup")
        /\ "lookup" \in CleaningUp /\ "lookup" \notin Provisioning
    BY <1>6 DEF SaveClosing, CleaningUp, Provisioning
  <2>. QED
    BY <1>0, <1>1, <2>1, <2>2, <2>3, <2>4, PersistsSupervised
<1>7. CASE Reconcile(t)
  <2>. DEFINE u == [NoChange EXCEPT !.phase = "reconciliation"]
  <2>1. u.phase = "reconciliation"
    BY DEF NoChange
  <2>2. /\ Saves(t, u) \/ Unsaved(t, u)
        /\ Moves(t, "failed") /\ UNCHANGED memory
    BY <1>7 DEF Reconcile
  <2>3. "failed" \notin Provisioning
    BY DEF Provisioning
  <2>. HIDE DEF u
  <2>. QED
    BY <1>3, <2>1, <2>2, <2>3
<1>8. CASE BindFound(t)
  <2>. DEFINE u == [NoChange EXCEPT !.phase = record[t].phase,
                       !.pod = Browser.pod,
                       !.container = IF browserRuns[t] = "none" THEN None
                                     ELSE Browser.container]
  <2>1. u.phase = record[t].phase /\ u.pod # None
    BY RecoveryAssumption, LeaseAssumption DEF NoChange, Objects
  <2>2. place[t] = "bindFound" /\ t \notin podInFlight
    BY <1>0, <1>8 DEF BindFound, Managed, Placed
  <2>3. u.phase = "closed" => lease[t].phase = "closed"
    BY <1>0, <2>1 DEF Managed, Remembers
  <2>4. Saves(t, u) \/ Unsaved(t, u)
    BY <1>8 DEF BindFound
  <2>5. PICK m \in Flags :
            /\ memory' = [memory EXCEPT ![t] = m]
            /\ m.attempted = memory[t].attempted
            /\ memory[t].podUnknown =>
                  m.podUnknown \/ Saves(t, u) \/ record[t].pod # None
    <3>1. \/ /\ Saves(t, u)
             /\ memory' = [memory EXCEPT ![t] =
                   [memory[t] EXCEPT !.found = TRUE, !.podUnknown = FALSE]]
          \/ \E b \in BOOLEAN :
                /\ b = (memory[t].podUnknown /\ record[t].pod = None)
                /\ memory' = [memory EXCEPT ![t] =
                      [memory[t] EXCEPT !.found = TRUE, !.unsaved = TRUE,
                                        !.podUnknown = b]]
      BY <1>0, <1>8 DEF BindFound, Recalls, Flags
    <3>2. CASE /\ Saves(t, u)
               /\ memory' = [memory EXCEPT ![t] =
                     [memory[t] EXCEPT !.found = TRUE, !.podUnknown = FALSE]]
      <4>. DEFINE m == [memory[t] EXCEPT !.found = TRUE, !.podUnknown = FALSE]
      <4>1. m \in Flags /\ m.attempted = memory[t].attempted
        BY <1>0 DEF Flags
      <4>. QED
        BY <3>2, <4>1
    <3>3. ASSUME NEW b \in BOOLEAN,
                 b = (memory[t].podUnknown /\ record[t].pod = None),
                 memory' = [memory EXCEPT ![t] =
                     [memory[t] EXCEPT !.found = TRUE, !.unsaved = TRUE,
                                       !.podUnknown = b]]
          PROVE  \E m \in Flags :
                    /\ memory' = [memory EXCEPT ![t] = m]
                    /\ m.attempted = memory[t].attempted
                    /\ memory[t].podUnknown =>
                          m.podUnknown \/ Saves(t, u) \/ record[t].pod # None
      <4>. DEFINE m == [memory[t] EXCEPT !.found = TRUE, !.unsaved = TRUE,
                                         !.podUnknown = b]
      <4>1. m \in Flags /\ m.attempted = memory[t].attempted /\ m.podUnknown = b
        BY <1>0 DEF Flags
      <4>2. memory' = [memory EXCEPT ![t] = m]
        BY <3>3
      <4>3. memory[t].podUnknown => b \/ record[t].pod # None
        BY <3>3
      <4>. HIDE DEF m
      <4>. QED
        BY <4>1, <4>2, <4>3
    <3>. QED
      BY <3>1, <3>2, <3>3
  <2>. HIDE DEF u
  <2>6. memory[t].podUnknown => m.podUnknown \/ record'[t].pod # None
    BY <2>1, <2>4, <2>5, Answers
  <2>7. PICK p \in {"unconfirmed", "decide"} : Moves(t, p)
    BY <1>8 DEF BindFound
  <2>8. p \in CleaningUp /\ p \notin Provisioning
    BY <2>7 DEF CleaningUp, Provisioning
  <2>. QED
    BY <1>1, <2>2, <2>3, <2>4, <2>5, <2>6, <2>7, <2>8, PersistsSupervised
<1>. QED
  BY <1>4, <1>5, <1>6, <1>7, <1>8

\* The steps that create, use, archive and delete.
LEMMA EnterSupervised ==
    ASSUME Supervised, Carried, Carried', [Next]_vars, NEW t \in Task, Enter(t)
    PROVE  Supervised'
<1>0. /\ Managed(t) /\ SupervisorTypes
      /\ lease' \in [Task -> Leases] /\ lease \in [Task -> Leases]
  BY DEF Supervised, Carried, IInv, TypeOK
<1>1. /\ place[t] = "none" /\ SupervisorSteps(t)
      /\ UNCHANGED <<memory, browserPod, browserRuns, podInFlight, used, lock>>
      /\ UNCHANGED record \/ record' = [record EXCEPT ![t] = lease'[t]]
      /\ place' = [place EXCEPT ![t] = "begin"]
           \/ place' = [place EXCEPT ![t] = "failed"]
  BY DEF Enter, Rest, browserCluster, recoveryVars, SupervisorSteps, Moves
<1>2. /\ lease'[t].pod = None /\ lease'[t].binding = None
      /\ lease'[t].stop = None /\ lease'[t].phase = "reserved"
      /\ lease[t] = NoLease
  BY <1>0 DEF Enter, ReserveComputer, Reservation, NoLease
<1>3. SupervisorTypes'
  <2>1. place' \in [Task -> Provisioning \cup CleaningUp
                              \cup {"none", "open", "closed", "failed"}]
    BY <1>0, <1>1 DEF SupervisorTypes, Provisioning
  <2>2. record' \in [Task -> Leases]
    BY <1>0, <1>1 DEF SupervisorTypes
  <2>. QED
    BY <1>0, <1>1, <2>1, <2>2 DEF SupervisorTypes
<1>4. \A v \in Task \ {t} : Same(v)
  BY <1>0, <1>1 DEF Same, SupervisorTypes
<1>5. /\ place'[t] \in {"begin", "failed"}
      /\ record'[t] \in {record[t], lease'[t]} /\ memory'[t] = memory[t]
  BY <1>0, <1>1 DEF SupervisorTypes
<1>6. record[t].pod = None /\ record[t].binding = None
         /\ record[t].phase # "closed"
  BY <1>0, <1>2 DEF Managed, Remembers, NoLease
<1>7. Proceeds(t)
  BY <1>1, <1>2, <1>5, <1>6 DEF Proceeds, Remembers
<1>8. Arrives(t)
  BY <1>1, <1>5 DEF Arrives
<1>9. Managed(t)'
  BY <1>0, <1>5, <1>7, <1>8, ProceedsManaged DEF SupervisorTypes, Carried, Flags
<1>. QED
  BY <1>1, <1>3, <1>4, <1>9, StepsElsewhere

LEMMA CreatePodSupervised ==
    ASSUME Supervised, Carried, Carried', [Next]_vars, NEW t \in Task,
           CreatePod(t)
    PROVE  Supervised'
<1>0. Managed(t) /\ SupervisorTypes
  BY DEF Supervised
<1>1. /\ place[t] = "create" /\ browserPod[t] = "absent" /\ SupervisorSteps(t)
      /\ UNCHANGED <<record, browserRuns, used, lock, lease>>
  BY DEF CreatePod, At, Quiet, recoveryVars, vars, SupervisorSteps
<1>2. /\ t \notin podInFlight /\ browserPod[t] # "deleting"
      /\ lease[t].phase # "closed"
  BY <1>0, <1>1 DEF Managed, Placed, Provisioning
<1>3. PICK m \in [attempted : {TRUE}, podUnknown : BOOLEAN,
                  volumeUnknown : BOOLEAN, found : BOOLEAN, unsaved : BOOLEAN] :
          /\ memory' = [memory EXCEPT ![t] = m]
          /\ memory[t].podUnknown => m.podUnknown
          /\ \/ /\ browserPod' = [browserPod EXCEPT ![t] = "present"]
                /\ m.podUnknown
                /\ Moves(t, "bindPod") /\ UNCHANGED podInFlight
             \/ /\ Moves(t, "closing") /\ UNCHANGED <<browserPod, podInFlight>>
             \/ /\ podInFlight' = podInFlight \cup {t}
                /\ m.podUnknown
                /\ Moves(t, "closing") /\ UNCHANGED browserPod
  <2>. DEFINE m1 == [memory[t] EXCEPT !.attempted = TRUE, !.podUnknown = TRUE]
              m2 == [memory[t] EXCEPT !.attempted = TRUE]
              M == [attempted : {TRUE}, podUnknown : BOOLEAN,
                    volumeUnknown : BOOLEAN, found : BOOLEAN, unsaved : BOOLEAN]
  <2>1. m1 \in M /\ m1.podUnknown
    BY <1>0 DEF SupervisorTypes, Flags
  <2>2. m2 \in M /\ m2.podUnknown = memory[t].podUnknown
    BY <1>0 DEF SupervisorTypes, Flags
  <2>3. \/ /\ memory' = [memory EXCEPT ![t] = m1]
           /\ browserPod' = [browserPod EXCEPT ![t] = "present"]
           /\ Moves(t, "bindPod") /\ UNCHANGED podInFlight
        \/ /\ memory' = [memory EXCEPT ![t] = m2]
           /\ Moves(t, "closing") /\ UNCHANGED <<browserPod, podInFlight>>
        \/ /\ memory' = [memory EXCEPT ![t] = m1]
           /\ podInFlight' = podInFlight \cup {t}
           /\ Moves(t, "closing") /\ UNCHANGED browserPod
    BY DEF CreatePod, Recalls
  <2>. HIDE DEF m1, m2
  <2>. QED
    BY <2>1, <2>2, <2>3
<1>4. SupervisorTypes'
  <2>1. place' \in [Task -> Provisioning \cup CleaningUp
                              \cup {"none", "open", "closed", "failed"}]
    BY <1>0, <1>3 DEF SupervisorTypes, Moves, Provisioning, CleaningUp
  <2>2. memory' \in [Task -> Flags]
    BY <1>0, <1>3 DEF SupervisorTypes, Flags
  <2>3. browserPod' \in [Task -> {"absent", "present", "deleting"}]
    BY <1>0, <1>3 DEF SupervisorTypes
  <2>. QED
    BY <1>0, <1>1, <1>3, <2>1, <2>2, <2>3 DEF SupervisorTypes
<1>5. \A v \in Task \ {t} : Same(v)
  BY <1>0, <1>1, <1>3 DEF Same, SupervisorTypes, Moves
<1>6. /\ memory'[t].attempted /\ memory'[t].podUnknown = m.podUnknown
      /\ place'[t] \in {"bindPod", "closing"}
      /\ browserPod'[t] \in {"absent", "present"}
  BY <1>0, <1>1, <1>3 DEF SupervisorTypes, Moves
<1>7. Known(t)'
  <2>1. browserPod'[t] # "absent" => m.podUnknown
    BY <1>0, <1>1, <1>3 DEF SupervisorTypes
  <2>2. t \in podInFlight' => m.podUnknown /\ browserPod'[t] = "absent"
    BY <1>1, <1>2, <1>3
  <2>3. record'[t].pod = None /\ ~m.podUnknown => Untouched(t)'
    BY <1>0, <1>1, <1>3, <2>1, <2>2 DEF Managed, Known, Untouched, SupervisorTypes
  <2>. QED
    BY <1>6, <2>2, <2>3 DEF Known
<1>8. Placed(t)'
  <2>1. place'[t] = "bindPod" => t \notin podInFlight'
    BY <1>0, <1>2, <1>3 DEF SupervisorTypes, Moves
  <2>. QED
    BY <1>1, <1>2, <1>6, <2>1 DEF Placed, Provisioning
<1>9. Remembers(record[t], lease[t])' /\ Archived(t)' /\ Gone(t)'
  BY <1>0, <1>1, <1>2, <1>6 DEF Managed, Archived, Gone
<1>. QED
  BY <1>1, <1>4, <1>5, <1>7, <1>8, <1>9, StepsElsewhere DEF Managed

LEMMA ExecSupervised ==
    ASSUME Supervised, Carried, Carried', [Next]_vars, NEW t \in Task, Exec(t)
    PROVE  Supervised'
<1>0. Managed(t) /\ SupervisorTypes
  BY DEF Supervised
<1>1. /\ place[t] = "exec" /\ SupervisorSteps(t)
      /\ place' = [place EXCEPT ![t] = "open"]
      /\ UNCHANGED <<lease, lock, record, memory, browserPod, browserRuns,
                     podInFlight>>
      /\ used' \in {used, used \cup {t}}
      /\ t \in used' => t \in used \/ browserRuns[t] = "running"
  BY DEF Exec, At, Moves, browserCluster, recoveryVars, vars, SupervisorSteps
<1>2. SupervisorTypes'
  BY <1>0, <1>1 DEF SupervisorTypes
<1>3. \A v \in Task \ {t} : Same(v)
  BY <1>0, <1>1 DEF Same, SupervisorTypes
<1>4. place'[t] = "open"
  BY <1>0, <1>1 DEF SupervisorTypes
<1>5. /\ record[t].binding # None /\ browserPod[t] # "deleting"
      /\ lease[t].phase # "closed"
  BY <1>0, <1>1 DEF Managed, Placed, Archived, Provisioning
<1>6. Known(t)'
  BY <1>0, <1>1 DEF Managed, Known, Untouched
<1>7. Placed(t)' /\ Gone(t)' /\ Remembers(record[t], lease[t])'
  BY <1>0, <1>1, <1>4, <1>5 DEF Managed, Placed, Gone, Provisioning
<1>8. Archived(t)'
  BY <1>0, <1>1, <1>4, <1>5 DEF Managed, Archived
<1>. QED
  BY <1>1, <1>2, <1>3, <1>6, <1>7, <1>8, StepsElsewhere DEF Managed

LEMMA CaptureStopSupervised ==
    ASSUME Supervised, Carried, Carried', [Next]_vars, NEW t \in Task,
           CaptureStop(t)
    PROVE  Supervised'
<1>0. /\ Managed(t) /\ SupervisorTypes
      /\ lease' \in [Task -> Leases] /\ lease \in [Task -> Leases]
      /\ SoundLease(lease'[t])
  BY DEF Supervised, Carried, IInv, TypeOK, Sound
<1>1. PICK r \in Receipt : RecordStop(t, r)
  <2>1. PICK seen \in Seen :
            RecordStop(t, [of |-> lease[t].binding, seen |-> seen])
    BY DEF CaptureStop
  <2>2. [of |-> lease[t].binding, seen |-> seen] \in Receipt
    BY <1>0, <2>1 DEF RecordStop, Leases, Maybe, Receipt
  <2>. QED
    BY <2>1, <2>2
<1>2. /\ place[t] = "capture" /\ HasEnded(t) /\ SupervisorSteps(t)
      /\ place' = [place EXCEPT ![t] = "delete"]
      /\ record' = [record EXCEPT ![t] = lease'[t]]
      /\ UNCHANGED <<lock, memory, browserPod, browserRuns, podInFlight, used>>
  BY DEF CaptureStop, ExitSeen, HasEnded, Moves, Rest, browserCluster,
         recoveryVars, SupervisorSteps
<1>3. SupervisorTypes'
  <2>1. place' \in [Task -> Provisioning \cup CleaningUp
                              \cup {"none", "open", "closed", "failed"}]
    BY <1>0, <1>2 DEF SupervisorTypes, CleaningUp
  <2>. QED
    BY <1>0, <1>2, <2>1 DEF SupervisorTypes
<1>4. \A v \in Task \ {t} : Same(v)
  BY <1>0, <1>2 DEF Same, SupervisorTypes
<1>5. place'[t] = "delete" /\ record'[t] = lease'[t] /\ memory'[t] = memory[t]
  BY <1>0, <1>2 DEF SupervisorTypes
<1>6. lease'[t].phase = lease[t].phase /\ lease'[t].stop # None
  <2>1. r # None
    BY LeaseAssumption
  <2>. QED
    BY <1>0, <1>1, <2>1 DEF RecordStop, KeepFirst, Attach, Leases
<1>7. Proceeds(t)
  BY <1>0, <1>2, <1>5, <1>6, RowLasts
  DEF Proceeds, Remembers, Managed, SoundLease, Carried
<1>8. Arrives(t)
  BY <1>0, <1>2, <1>5, <1>6 DEF Arrives, Managed, Placed, Provisioning
<1>9. Managed(t)'
  BY <1>0, <1>5, <1>7, <1>8, ProceedsManaged DEF SupervisorTypes, Carried, Flags
<1>. QED
  BY <1>2, <1>3, <1>4, <1>9, StepsElsewhere

LEMMA DeletePodSupervised ==
    ASSUME Supervised, Carried, Carried', [Next]_vars, NEW t \in Task,
           DeletePod(t)
    PROVE  Supervised'
<1>0. Managed(t) /\ SupervisorTypes
  BY DEF Supervised
<1>1. /\ place[t] = "delete" /\ SupervisorSteps(t)
      /\ place' = [place EXCEPT ![t] = AfterDelete(t)]
      /\ UNCHANGED <<lease, lock, record, memory, browserRuns, podInFlight,
                     used>>
      /\ \/ UNCHANGED browserPod
         \/ /\ browserPod[t] = "present"
            /\ browserPod' = [browserPod EXCEPT ![t] = "deleting"]
  <2>1. \/ browserPod' = [browserPod EXCEPT ![t] = browserPod[t]]
        \/ /\ browserPod[t] = "present"
           /\ browserPod' = [browserPod EXCEPT ![t] = "deleting"]
    BY DEF DeletePod
  <2>2. [browserPod EXCEPT ![t] = browserPod[t]] = browserPod
    BY <1>0 DEF SupervisorTypes
  <2>. QED
    BY <2>1, <2>2
    DEF DeletePod, Quiet, Moves, recoveryVars, vars, SupervisorSteps
<1>2. SupervisorTypes'
  <2>1. place' \in [Task -> Provisioning \cup CleaningUp
                              \cup {"none", "open", "closed", "failed"}]
    BY <1>0, <1>1 DEF SupervisorTypes, AfterDelete, CleaningUp
  <2>2. browserPod' \in [Task -> {"absent", "present", "deleting"}]
    BY <1>0, <1>1 DEF SupervisorTypes
  <2>. QED
    BY <1>0, <1>1, <2>1, <2>2 DEF SupervisorTypes
<1>3. \A v \in Task \ {t} : Same(v)
  BY <1>0, <1>1 DEF Same, SupervisorTypes
<1>4. /\ place'[t] = AfterDelete(t)
      /\ browserPod'[t] = browserPod[t]
           \/ (browserPod[t] = "present" /\ browserPod'[t] = "deleting")
  BY <1>0, <1>1 DEF SupervisorTypes
<1>5. ~memory[t].podUnknown /\ t \notin podInFlight
  BY <1>0, <1>1 DEF Managed, Placed, Known
<1>6. AfterDelete(t) = "observe" \/ (AfterDelete(t) = "close" /\ Untouched(t))
  BY <1>0, <1>5 DEF AfterDelete, Managed, Known
<1>7. Known(t)'
  BY <1>0, <1>1, <1>4, <1>5 DEF Managed, Known, Untouched
<1>8. Placed(t)'
  BY <1>1, <1>4, <1>5, <1>6 DEF Placed, Provisioning
<1>9. Archived(t)'
  BY <1>0, <1>1, <1>4, <1>6 DEF Managed, Archived
<1>10. Gone(t)' /\ Remembers(record[t], lease[t])'
  BY <1>0, <1>1, <1>4, <1>5, <1>6 DEF Managed, Gone, Untouched
<1>. QED
  BY <1>1, <1>2, <1>3, <1>7, <1>8, <1>9, <1>10, StepsElsewhere DEF Managed

LEMMA CloseLeaseSupervised ==
    ASSUME Supervised, Carried, Carried', [Next]_vars, NEW t \in Task,
           CloseLease(t)
    PROVE  Supervised'
<1>. DEFINE u == [NoChange EXCEPT !.phase = "closed"]
<1>0. /\ SupervisorSteps(t) /\ UNCHANGED <<memory, Rest>> /\ place[t] = "close"
  BY DEF SupervisorSteps, CloseLease
<1>1. PICK p \in {"closed", "unconfirmed"} : Moves(t, p)
  BY DEF CloseLease
<1>2. p \in CleaningUp \cup {"closed"} /\ p \notin Provisioning
  BY <1>1 DEF CleaningUp, Provisioning
<1>3. CASE Saves(t, u) \/ Unsaved(t, u)
  <2>1. memory[t] \in Flags /\ memory' = [memory EXCEPT ![t] = memory[t]]
    BY <1>0 DEF Supervised, SupervisorTypes
  <2>. HIDE DEF u
  <2>. QED
    BY <1>0, <1>1, <1>2, <1>3, <2>1, PersistsSupervised
<1>4. CASE UNCHANGED <<vars, record>> /\ Moves(t, "unconfirmed")
  <2>1. /\ memory' \in [Task -> Flags]
        /\ UNCHANGED <<recoveryVars, used, browserPod, browserRuns, podInFlight>>
    BY <1>0 DEF Supervised, SupervisorTypes, Rest, browserCluster
  <2>2. place'[t] = "unconfirmed"
    BY <1>4 DEF Supervised, SupervisorTypes, Moves
  <2>3. Arrives(t)
    BY <2>2 DEF Arrives, Provisioning
  <2>4. "unconfirmed" \in CleaningUp
    BY DEF CleaningUp
  <2>. QED
    BY <1>0, <1>4, <2>1, <2>3, <2>4, LooksSupervised
<1>. QED
  BY <1>3, <1>4 DEF CloseLease

-----------------------------------------------------------------------------
LEMMA SupervisedOn ==
    ASSUME Supervised, Carried, Carried', [SystemNext]_systemVars
    PROVE  Supervised'
<1>1. [Next]_vars
  BY SystemStepsRecord DEF Carried, systemVars, vars
<1>2. CASE UNCHANGED systemVars
  <2>1. UNCHANGED <<lease, lock, place, record, memory, browserPod, browserRuns,
                    podInFlight, used>>
    BY <1>2 DEF systemVars, vars, recoveryVars, browserCluster, supervisor
  <2>. QED
    BY <1>1, <2>1, AsideSupervised DEF Carried
<1>3. CASE LateVolume
  <2>1. UNCHANGED <<lease, lock, place, record, memory, browserPod, browserRuns,
                    podInFlight, used>>
    BY <1>3 DEF LateVolume, vars, recoveryVars, supervisor
  <2>. QED
    BY <1>1, <2>1, AsideSupervised DEF Carried
<1>4. ASSUME NEW t \in Task,
             TeamStep(t) \/ Aborts(t) \/ HelperClusterStep(t)
      PROVE  Supervised'
  BY <1>1, <1>4, OutsideSupervised
<1>5. ASSUME NEW t \in Task, SupervisorSteps(t) PROVE Supervised'
  BY <1>1, <1>5, LookSteps, DecideSupervised, PersistSteps, EnterSupervised,
     CreatePodSupervised, ExecSupervised, CaptureStopSupervised,
     DeletePodSupervised, CloseLeaseSupervised DEF SupervisorSteps
<1>6. ASSUME NEW t \in Task, Fails(t) \/ CleanupFails(t) \/ BackendEnds(t)
      PROVE  Supervised'
  BY <1>1, <1>6, LookSteps
<1>7. ASSUME NEW t \in Task, ClusterSteps(t) PROVE Supervised'
  BY <1>1, <1>7, ClusterStepsSupervised
<1>8. ASSUME NEW t \in Task, NEW n \in Node, NodeStep(n, t) PROVE Supervised'
  BY <1>1, <1>8, NodeStepSupervised
<1>. QED
  BY <1>2, <1>3, <1>4, <1>5, <1>6, <1>7, <1>8 DEF SystemNext

LEMMA SupervisedInit == SystemInit => Supervised
<1>. SUFFICES ASSUME SystemInit PROVE Supervised
  OBVIOUS
<1>1. \A t \in Task : lease[t] = NoLease
  BY DEF SystemInit, Init
<1>2. NoLease \in Leases /\ NoLease.pod = None /\ NoLease.binding = None
         /\ NoLease.stop = None /\ NoLease.phase = "none"
  BY DEF NoLease, Leases, Maybe
<1>3. SupervisorTypes
  BY <1>2 DEF SystemInit, SupervisorTypes, NoMemory, Flags
<1>4. ASSUME NEW t \in Task PROVE Managed(t)
  BY <1>1, <1>2 DEF SystemInit, NoMemory, Managed, Remembers, Known, Placed,
                    Archived, Gone, Untouched
<1>. QED
  BY <1>3, <1>4 DEF Supervised

LEMMA SystemSupervised == SystemSpec => []Supervised
  BY SupervisedInit, SupervisedOn, SystemCarries, PTL DEF SystemSpec

\* stop() of the supervisor (kubernetes-supervisor.js:98), whatever answers it has
\* missed, however the tasks, boots and faults are numbered: the Pod of a browser
\* that was started is not asked to go before its stop is archived.
THEOREM PodsArchived == SystemSpec => []UsedPodArchived
<1>1. Supervised /\ Carried => UsedPodArchived
  <2>. SUFFICES ASSUME Supervised, Carried, NEW t \in Task, t \in used,
                       browserPod[t] = "deleting"
                PROVE  StopProven(lease[t])
    BY DEF UsedPodArchived
  <2>1. lease[t].stop # None
    BY DEF Supervised, Managed, Archived
  <2>. QED
    BY <2>1 DEF Carried, IInv, Sound, SoundLease
<1>. QED
  BY <1>1, SystemSupervised, SystemCarries, PTL

LEMMA GoneWhenClosed == Supervised /\ Carried => ClosedMeansGone
<1>. SUFFICES ASSUME Supervised, Carried, NEW t \in Task,
                     lease[t].phase = "closed"
              PROVE  /\ browserPod[t] = "absent" /\ t \notin podInFlight
                     /\ browserRuns[t] # "running" /\ lock[t] # "active"
  BY DEF ClosedMeansGone
<1>1. /\ browserPod[t] = "absent" /\ t \notin podInFlight
      /\ Untouched(t) \/ RecoveryProven(lease[t])
  BY DEF Supervised, Managed, Gone
<1>2. CASE Untouched(t)
  BY <1>1, <1>2 DEF Untouched, Supervised, Managed, Archived
<1>3. CASE RecoveryProven(lease[t])
  <2>1. lease[t].stop # None /\ lease[t].recovery # None
    BY <1>3 DEF RecoveryProven, StopProven
  <2>2. browserRuns[t] \in {"exited", "forgotten"}
    BY <2>1 DEF Supervised, Managed, Archived
  <2>3. lock[t] = "retired"
    BY <2>1 DEF Carried, Evidence, Earned
  <2>. QED
    BY <1>1, <2>2, <2>3
<1>. QED
  BY <1>1, <1>2, <1>3

\* The last transaction of stop() (kubernetes-supervisor.js:191): a lease is closed
\* only when its Pod is gone, cannot arrive any more and was either never there
\* or saw its profile given back.
THEOREM ClosedIsGone == SystemSpec => []ClosedMeansGone
  BY GoneWhenClosed, SystemSupervised, SystemCarries, PTL

-----------------------------------------------------------------------------
(* The profile changes hands as ProfileCustody says.                       *)

LEMMA OneIsOpen ==
    ASSUME IInv, NEW t \in Task, NEW u \in Task, Open(t), Open(u)
    PROVE  t = u
  BY DEF IInv, Held

\* Whoever can write the profile, or has a lock in it, does so under an open lease.
LEMMA OpenToWrite ==
    ASSUME Supervised, Carried, NEW t \in Task
    PROVE  /\ t \in used /\ browserRuns[t] = "running" =>
                 Open(t) /\ lease[t].stop = None
           /\ helperRuns[t] # "none" => lease[t].stop # None
           /\ helperPod[t] = "present" \/ helperRuns[t] = "running" =>
                 Open(t) /\ lease[t].stop # None
           /\ lock[t] = "active" => Open(t) /\ t \in used
<1>1. ASSUME t \in used PROVE lease[t].phase # "none"
  <2>1. lease[t].binding # None
    BY <1>1 DEF Supervised, Managed, Archived, Remembers
  <2>. QED
    BY <2>1 DEF Carried, IInv, Sound, SoundLease, NoLease
<1>2. ASSUME t \in used, browserRuns[t] = "running"
      PROVE  Open(t) /\ lease[t].stop = None
  <2>1. lease[t].stop = None
    BY <1>2 DEF Supervised, Managed, Archived
  <2>2. lease[t].phase # "closed"
    BY <1>2, GoneWhenClosed DEF ClosedMeansGone
  <2>. QED
    BY <1>1, <1>2, <2>1, <2>2, OpenByPhase DEF Carried
<1>3. ASSUME lock[t] = "active" PROVE Open(t) /\ t \in used
  <2>1. t \in used
    BY <1>3 DEF Supervised, Managed, Archived
  <2>2. lease[t].phase # "closed"
    BY <1>3, GoneWhenClosed DEF ClosedMeansGone
  <2>. QED
    BY <1>1, <2>1, <2>2, OpenByPhase DEF Carried
<1>4. ASSUME helperPod[t] = "present" \/ helperRuns[t] # "none"
      PROVE  lease[t].stop # None /\ lease[t].phase \in Late
  <2>1. posts[t] # 0 /\ posts[t] \in Nat /\ posts[t] <= 1
    BY <1>4 DEF Carried, Remains, Accounted, Nothing, Tokens, Typed, SinglePost
  <2>2. posts[t] = 1
    BY <2>1
  <2>3. helper[t].launched
    BY <2>2 DEF Carried, Tokens, SinglePost
  <2>4. helper[t].phase # "none"
    BY <2>3 DEF Carried, Remains, Accounted
  <2>. QED
    BY <2>4 DEF Carried, IInv, Sound, StopProven
<1>5. ASSUME helperPod[t] = "present" \/ helperRuns[t] = "running"
      PROVE  Open(t) /\ lease[t].stop # None
  <2>1. lease[t].stop # None /\ lease[t].phase \in Late
    BY <1>4, <1>5
  <2>2. lease[t].phase # "closed"
    BY <1>5, RemainsQuiet DEF Carried, ClosedIsQuiet
  <2>. QED
    BY <2>1, <2>2, OpenByPhase DEF Carried, Late
<1>. QED
  BY <1>2, <1>3, <1>4, <1>5

\* So there is one of them, and it belongs to the open lease.
LEMMA WritersAgree ==
    ASSUME Supervised, Carried, NEW t \in Task, Open(t)
    PROVE  /\ <<"browser", t>> \in Writers <=>
                 t \in used /\ browserRuns[t] = "running"
           /\ <<"helper", t>> \in Writers <=> helperRuns[t] = "running"
           /\ Writers \subseteq {<<"browser", t>>, <<"helper", t>>}
           /\ <<"browser", t>> \in Writers => Writers = {<<"browser", t>>}
           /\ <<"helper", t>> \in Writers => Writers = {<<"helper", t>>}
<1>1. Writers \subseteq {<<"browser", t>>, <<"helper", t>>}
  <2>1. used \subseteq Task
    BY DEF Supervised, SupervisorTypes
  <2>2. ASSUME NEW u \in Task,
               (u \in used /\ browserRuns[u] = "running") \/ helperRuns[u] = "running"
        PROVE  u = t
    BY <2>2, OpenToWrite, OneIsOpen DEF Carried
  <2>. QED
    BY <2>1, <2>2 DEF Writers
<1>2. /\ <<"browser", t>> \in Writers <=>
            t \in used /\ browserRuns[t] = "running"
      /\ <<"helper", t>> \in Writers <=> helperRuns[t] = "running"
  BY DEF Writers
<1>3. ~(t \in used /\ browserRuns[t] = "running" /\ helperRuns[t] = "running")
  BY OpenToWrite
<1>. QED
  BY <1>1, <1>2, <1>3

Unheld == \A t \in Task : ~Open(t)
Unused == Writers = {} /\ {t \in Task : lock[t] = "active"} = {}

LEMMA NobodyWrites == Supervised /\ Carried /\ Unheld => Unused
<1>. SUFFICES ASSUME Supervised, Carried, Unheld PROVE Unused
  OBVIOUS
<1>1. used \subseteq Task
  BY DEF Supervised, SupervisorTypes
<1>2. \A t \in Task : /\ ~(t \in used /\ browserRuns[t] = "running")
                      /\ helperRuns[t] # "running" /\ lock[t] # "active"
  BY OpenToWrite DEF Unheld
<1>. QED
  BY <1>1, <1>2 DEF Writers, Unused

\* reserveComputer and reserveRecoveryHelper (computer-lease.js:31,
\* recovery-helper.js:71): across all leases of the teammate, and between a browser
\* and the helper that settles its profile, one container at a time can write it.
THEOREM ProfileHasOneWriter == SystemSpec => []OneWriter
<1>1. ASSUME Supervised, Carried PROVE OneWriter
  <2>1. CASE Unheld
    BY <1>1, <2>1, NobodyWrites DEF OneWriter, Unused
  <2>2. ASSUME NEW t \in Task, Open(t) PROVE OneWriter
    BY <1>1, <2>2, WritersAgree DEF OneWriter
  <2>. QED
    BY <2>1, <2>2 DEF Unheld
<1>. QED
  BY <1>1, SystemSupervised, SystemCarries, PTL
\* The facts of the world that decide who writes; all other steps leave them alone.
Physical == <<used, browserRuns, helperRuns, lock>>
Acts(t) ==
    \/ Exec(t) \/ ContainerStarts(t) \/ ContainerExits(t)
    \/ ContainerForgotten(t) \/ TakesProfile(t) \/ GivesUpProfile(t)
    \/ /\ HelperStarts(t) \/ HelperExits(t) \/ RuntimeForgets(t) \/ Retires(t)
       /\ UNCHANGED <<browserCluster, supervisor>>

LEMMA StepsAct ==
    ASSUME IInv, [SystemNext]_systemVars
    PROVE  \/ UNCHANGED Physical
           \/ \E t \in Task : Acts(t) /\ UNCHANGED vars
<1>1. CASE UNCHANGED systemVars \/ LateVolume
  BY <1>1 DEF LateVolume, Physical, systemVars, recoveryVars, cluster,
              browserCluster, supervisor
<1>2. ASSUME NEW t \in Task, TeamStep(t) \/ Aborts(t) PROVE UNCHANGED Physical
  BY <1>2 DEF TeamStep, Aborts, Physical, recoveryVars, cluster, browserCluster,
              supervisor
<1>3. ASSUME NEW t \in Task, Fails(t) \/ CleanupFails(t) \/ BackendEnds(t)
      PROVE  UNCHANGED Physical
  BY <1>3 DEF Fails, CleanupFails, BackendEnds, Quiet, Physical, recoveryVars,
              cluster, browserCluster
<1>4. ASSUME NEW t \in Task, SupervisorSteps(t)
      PROVE  Exec(t) \/ UNCHANGED <<used, browserRuns>>
  <2>1. CASE \/ Enter(t) \/ Provision(t) \/ AdoptVolume(t) \/ BindPod(t)
             \/ Identify(t) \/ SaveBinding(t) \/ MarkReady(t)
             \/ SaveClosing(t) \/ BindFound(t) \/ CaptureStop(t)
             \/ CloseLease(t) \/ Reconcile(t)
    BY <2>1 DEF Enter, Provision, AdoptVolume, BindPod, Identify, SaveBinding,
                MarkReady, SaveClosing, BindFound, CaptureStop, CloseLease,
                Reconcile, Persists, Rest, browserCluster
  <2>2. CASE \/ FindVolume(t) \/ ReadBackVolume(t) \/ CreatePod(t)
             \/ AwaitReady(t) \/ BindNode(t) \/ Verify(t) \/ Release(t)
             \/ LookUp(t) \/ Decide(t) \/ DeletePod(t) \/ NobodyToAsk(t)
             \/ Observe(t)
    BY <2>2 DEF FindVolume, ReadBackVolume, CreatePod, AwaitReady, BindNode,
                Verify, Finds, Release, LookUp, Decide, DeletePod, NobodyToAsk,
                Observe, Quiet, browserCluster
  <2>. QED
    BY <1>4, <2>1, <2>2 DEF SupervisorSteps
<1>5. ASSUME NEW t \in Task, SupervisorSteps(t)
      PROVE  (Exec(t) /\ UNCHANGED vars) \/ UNCHANGED Physical
  <2>1. CASE Exec(t)
    BY <2>1 DEF Exec
  <2>2. UNCHANGED recoveryVars
    BY <1>5, SupervisorTransacts
  <2>. QED
    BY <1>4, <1>5, <2>1, <2>2 DEF Physical, recoveryVars, cluster
<1>6. ASSUME NEW t \in Task, ClusterSteps(t)
      PROVE  (Acts(t) /\ UNCHANGED vars) \/ UNCHANGED Physical
  <2>1. UNCHANGED vars
    BY <1>6, ClustersSpareRow
  <2>2. ASSUME LatePod(t) \/ BrowserPodGoes(t) PROVE UNCHANGED Physical
    BY <2>2 DEF LatePod, BrowserPodGoes, Physical, recoveryVars, cluster,
                supervisor
  <2>. QED
    BY <1>6, <2>1, <2>2 DEF ClusterSteps, Acts
<1>7. ASSUME NEW t \in Task, HelperClusterStep(t)
      PROVE  (Acts(t) /\ UNCHANGED vars) \/ UNCHANGED Physical
  <2>1. UNCHANGED vars
    BY <1>7, ClustersSpareRow DEF HelperClusterStep
  <2>2. ASSUME PodLands(t) \/ PodGoes(t), HelperClusterStep(t)
        PROVE  UNCHANGED Physical
    BY <2>2 DEF PodLands, PodGoes, HelperClusterStep, Physical, supervisor,
                browserCluster
  <2>. QED
    BY <1>7, <2>1, <2>2 DEF HelperClusterStep, ClusterStep, Acts
<1>8. ASSUME NEW t \in Task, NEW n \in Node, NodeStep(n, t)
      PROVE  UNCHANGED Physical
  <2>1. UNCHANGED <<used, browserRuns>>
    BY <1>8 DEF NodeStep, CallRecover, browserCluster, supervisor
  <2>2. RecoverStep(n, t) \/ Abandon(n, t)
    BY <1>8 DEF NodeStep, CallRecover, RecoverStep
  <2>3. UNCHANGED <<helperRuns, lock>>
    BY <2>2
    DEF RecoverStep, Begin, Reserve, Route, Launch, Lookup, Create, Adopt,
        SeesRunning, NamesContainer, Bind, Ready, Settle, Intent, Dispatch,
        Answered, Inspect, Acknowledge, Recovered, RequestStop, Capture,
        Delete, Close, Abandon, Reads, Commits, cluster
  <2>. QED
    BY <2>1, <2>3 DEF Physical
<1>9. \A t \in Task : Exec(t) => Acts(t)
  BY DEF Acts
<1>. QED
  BY <1>1, <1>2, <1>3, <1>5, <1>6, <1>7, <1>8, <1>9 DEF SystemNext

\* A browser that was used has had a container.
Ran == \A t \in Task : t \in used => browserRuns[t] # "none"

LEMMA RanOn ==
    ASSUME Ran, SupervisorTypes, IInv, [SystemNext]_systemVars
    PROVE  Ran'
<1>1. CASE UNCHANGED Physical
  BY <1>1 DEF Physical, Ran
<1>2. ASSUME NEW t \in Task, Acts(t) PROVE Ran'
  BY <1>2 DEF Acts, Exec, ContainerStarts, ContainerExits, ContainerForgotten,
              Runs, TakesProfile, GivesUpProfile, supervisor, browserCluster,
              Ran, SupervisorTypes
<1>. QED
  BY <1>1, <1>2, StepsAct

\* A transaction of the row: the profile is reserved, given up, or stays where it is.
LEMMA RowPasses ==
    ASSUME Supervised, Carried, Supervised', Carried', [Next]_vars,
           UNCHANGED Physical
    PROVE  [Custody!Next]_(Custody!custodyVars)
<1>0. /\ lease \in [Task -> Leases] /\ IInv
      /\ \A t \in Task : Open(t) <=> lease[t].phase \notin {"none", "closed"}
      /\ \A t \in Task : Open(t)' <=> lease'[t].phase \notin {"none", "closed"}
  <2>1. (\A t \in Task : Open(t) <=> lease[t].phase \notin {"none", "closed"})'
    BY OpenByPhase, PTL DEF Carried
  <2>. QED
    BY <2>1, OpenByPhase DEF Carried, IInv, TypeOK
<1>1. UNCHANGED <<Writers, Started, {t \in Task : lock[t] = "active"}>>
  BY DEF Physical, Writers, Started
<1>2. CASE \A t \in Task :
              /\ lease[t].phase = "none" <=> lease'[t].phase = "none"
              /\ lease[t].phase = "closed" <=> lease'[t].phase = "closed"
  BY <1>0, <1>1, <1>2 DEF Custody!custodyVars
<1>3. ASSUME NEW t \in Task, ReserveComputer(t)
      PROVE  Custody!Receive(t)
  <2>1. /\ lease[t].phase = "none" /\ \A u \in Task : ~Open(u)
        /\ lease'[t].phase = "reserved"
        /\ \A u \in Task \ {t} : lease'[u] = lease[u]
    BY <1>0, <1>3 DEF ReserveComputer, Reservation, NoLease
  <2>2. /\ {u \in Task : Open(u)} = {}
        /\ {u \in Task : Open(u)}' = {t}
        /\ t \notin {u \in Task : lease[u].phase # "none" /\ ~Open(u)}
        /\ UNCHANGED {u \in Task : lease[u].phase # "none" /\ ~Open(u)}
    BY <1>0, <2>1
  <2>. QED
    BY <1>1, <2>2 DEF Custody!Receive
<1>4. ASSUME NEW t \in Task, NEW u \in Updates, AdvanceComputer(t, u),
             u.phase = "closed"
      PROVE  Custody!Surrender(t)
  <2>1. /\ lease[t].phase = "closing" /\ lease'[t].phase = "closed"
        /\ \A v \in Task \ {t} : lease'[v] = lease[v]
    BY <1>0, <1>4 DEF AdvanceComputer, Updated, LeaseStep, Leases
  <2>2. \A v \in Task \ {t} : ~Open(v)
    BY <1>0, <2>1, OneIsOpen
  <2>3. Unheld'
    BY <1>0, <2>1, <2>2 DEF Unheld
  <2>4. Unused'
    BY <2>3, NobodyWrites, PTL
  <2>5. /\ {v \in Task : Open(v)} = {t}
        /\ {v \in Task : Open(v)}' = {}
        /\ {v \in Task : lease[v].phase # "none" /\ ~Open(v)}' =
              {v \in Task : lease[v].phase # "none" /\ ~Open(v)} \cup {t}
    BY <1>0, <2>1, <2>2
  <2>. QED
    BY <1>1, <2>4, <2>5 DEF Custody!Surrender, Unused
<1>5. ASSUME NEW t \in Task, NEW u \in Updates, AdvanceComputer(t, u),
             u.phase # "closed"
      PROVE  \A v \in Task :
                /\ lease[v].phase = "none" <=> lease'[v].phase = "none"
                /\ lease[v].phase = "closed" <=> lease'[v].phase = "closed"
  <2>1. /\ u.phase \in LeaseStep[lease[t].phase]
        /\ lease' = [lease EXCEPT ![t] = Updated(lease[t], u)]
        /\ Updated(lease[t], u).phase = u.phase
    BY <1>0, <1>5 DEF AdvanceComputer, Updated, Leases
  <2>2. lease[t].phase \notin {"none", "closed"} /\ u.phase # "none"
    BY <1>0, <2>1 DEF LeaseStep, Updates
  <2>. QED
    BY <1>0, <1>5, <2>1, <2>2
<1>6. ASSUME NEW t \in Task, NEW r \in Receipt,
             RecordStop(t, r) \/ RecordRecovery(t, r)
      PROVE  \A v \in Task : lease'[v].phase = lease[v].phase
  BY <1>0, <1>6 DEF RecordStop, RecordRecovery, Leases
<1>7. CASE UNCHANGED lease
  BY <1>2, <1>7
<1>8. ASSUME Next PROVE [Custody!Next]_(Custody!custodyVars)
  <2>1. \/ UNCHANGED lease
        \/ \E t \in Task :
              \/ ReserveComputer(t)
              \/ \E u \in Updates : AdvanceComputer(t, u)
              \/ \E r \in Receipt : RecordStop(t, r) \/ RecordRecovery(t, r)
    BY <1>8 DEF Next, ConfigureExecution, StopAgent, Claim, Unobserved,
                ReleaseTask, ReserveHelper, BeginLaunch, AdvanceHelper,
                ReserveWrite
  <2>. QED
    BY <1>2, <1>3, <1>4, <1>5, <1>6, <1>7, <2>1 DEF Custody!Next
<1>. QED
  BY <1>7, <1>8 DEF vars

\* A step of a container or of a lock: under the open lease, or without any effect.
LEMMA ContainersPass ==
    ASSUME Supervised, Carried, Ran, NEW t \in Task, Acts(t), UNCHANGED vars
    PROVE  [Custody!Next]_(Custody!custodyVars)
<1>. DEFINE Locked == {u \in Task : lock[u] = "active"}
            browser == <<"browser", t>>
            assistant == <<"helper", t>>
<1>0. /\ browserRuns \in [Task -> {"none", "running", "exited", "forgotten"}]
      /\ helperRuns \in [Task -> {"none", "running", "exited", "forgotten"}]
      /\ lock \in [Task -> {"none", "active", "retired"}]
      /\ used \subseteq Task
  BY DEF Supervised, SupervisorTypes, Carried, Remains, Cluster, Evidence, Places
<1>1. UNCHANGED <<{u \in Task : Open(u)},
                  {u \in Task : lease[u].phase # "none" /\ ~Open(u)}>>
  BY DEF vars, Open
<1>2. Open(t) => {u \in Task : Open(u)} = {t}
  BY OneIsOpen DEF Carried
<1>3. Open(t) => Locked \subseteq {t}
  BY OneIsOpen, OpenToWrite DEF Carried
<1>4. /\ browser \in Started <=> t \in used
      /\ assistant \in Started <=> helperRuns[t] # "none"
  BY DEF Started
<1>5. CASE UNCHANGED <<Writers, Started, Locked>>
  BY <1>1, <1>5 DEF Custody!custodyVars
<1>6. ASSUME Exec(t) PROVE [Custody!Next]_(Custody!custodyVars)
  <2>1. UNCHANGED <<browserRuns, helperRuns, lock>>
    BY <1>6 DEF Exec, recoveryVars, cluster, browserCluster
  <2>2. CASE used' = used
    BY <1>5, <2>1, <2>2 DEF Writers, Started
  <2>3. CASE used' # used
    <3>1. /\ t \notin used /\ browserRuns[t] = "running" /\ place[t] = "exec"
          /\ used' = used \cup {t}
      BY <1>6, <2>3 DEF Exec, At
    <3>2. Open(t) /\ lease[t].stop = None
      <4>1. lease[t].binding # None /\ lease[t].stop = None
        BY <3>1 DEF Supervised, Managed, Archived, Remembers
      <4>2. lease[t].phase \notin {"none", "closed"}
        BY <3>1, <4>1 DEF Supervised, Managed, Placed, Provisioning, Carried,
                          IInv, Sound, SoundLease, NoLease
      <4>. QED
        BY <4>1, <4>2, OpenByPhase DEF Carried
    <3>3. helperRuns[t] = "none" /\ lock[t] # "active"
      BY <3>1, <3>2, OpenToWrite
    <3>4. Writers = {} /\ Locked = {}
      BY <1>3, <3>1, <3>2, <3>3, WritersAgree
    <3>5. Writers' = {browser} /\ Started' = Started \cup {browser}
      <4>1. Writers' = Writers \cup {browser}
        BY <2>1, <3>1 DEF Writers
      <4>. QED
        BY <2>1, <3>1, <3>4, <4>1 DEF Started
    <3>6. Locked' = Locked
      BY <2>1
    <3>7. Custody!StartBrowser(t)
      BY <1>1, <1>2, <1>4, <3>1, <3>2, <3>3, <3>4, <3>5, <3>6
      DEF Custody!StartBrowser, Custody!Enter, Custody!BrowserOf,
          Custody!HelperOf
    <3>. QED
      BY <3>7 DEF Custody!Next
  <2>. QED
    BY <2>2, <2>3
<1>7. ASSUME ContainerStarts(t) \/ ContainerForgotten(t)
      PROVE  UNCHANGED <<Writers, Started, Locked>>
  <2>1. UNCHANGED <<helperRuns, used, lock>>
    BY <1>7 DEF ContainerStarts, ContainerForgotten, Runs, recoveryVars, cluster,
                supervisor
  <2>2. \A u \in used : browserRuns'[u] = "running" <=> browserRuns[u] = "running"
    BY <1>0, <1>7 DEF ContainerStarts, ContainerForgotten, Runs, Ran
  <2>. QED
    BY <2>1, <2>2 DEF Writers, Started
<1>8. ASSUME ContainerExits(t) PROVE [Custody!Next]_(Custody!custodyVars)
  <2>1. /\ UNCHANGED <<helperRuns, used, lock>> /\ browserRuns[t] = "running"
        /\ browserRuns' = [browserRuns EXCEPT ![t] = "exited"]
    BY <1>8 DEF ContainerExits, Runs, recoveryVars, cluster, supervisor
  <2>2. Writers' = Writers \ {browser} /\ UNCHANGED <<Started, Locked>>
    BY <1>0, <2>1 DEF Writers, Started
  <2>3. CASE browser \in Writers
    <3>1. Custody!Leave(browser)
      BY <1>1, <2>2, <2>3 DEF Custody!Leave
    <3>. QED
      BY <3>1 DEF Custody!Next, Custody!BrowserOf
  <2>4. CASE browser \notin Writers
    BY <1>5, <2>2, <2>4
  <2>. QED
    BY <2>3, <2>4
<1>9. ASSUME HelperStarts(t), UNCHANGED <<browserCluster, supervisor>>
      PROVE  Custody!StartHelper(t)
  <2>1. /\ UNCHANGED <<browserRuns, used, lock>>
        /\ helperPod[t] = "present" /\ helperRuns[t] = "none"
        /\ helperRuns' = [helperRuns EXCEPT ![t] = "running"]
    BY <1>9 DEF HelperStarts, browserCluster, supervisor
  <2>2. Open(t) /\ lease[t].stop # None
    BY <2>1, OpenToWrite
  <2>3. Writers = {}
    BY <2>1, <2>2, OpenToWrite, WritersAgree
  <2>4. /\ Writers' = Writers \cup {assistant}
        /\ Started' = Started \cup {assistant}
        /\ UNCHANGED Locked
    BY <1>0, <2>1 DEF Writers, Started
  <2>. QED
    BY <1>1, <1>2, <1>4, <2>1, <2>2, <2>3, <2>4
    DEF Custody!StartHelper, Custody!Enter, Custody!HelperOf
<1>10. ASSUME HelperExits(t), UNCHANGED <<browserCluster, supervisor>>
       PROVE  Custody!Leave(assistant)
  <2>1. /\ UNCHANGED <<browserRuns, used, lock>> /\ helperRuns[t] = "running"
        /\ helperRuns' = [helperRuns EXCEPT ![t] = "exited"]
    BY <1>10 DEF HelperExits, browserCluster, supervisor
  <2>2. /\ assistant \in Writers /\ Writers' = Writers \ {assistant}
        /\ UNCHANGED <<Started, Locked>>
    BY <1>0, <2>1 DEF Writers, Started
  <2>. QED
    BY <1>1, <2>2 DEF Custody!Leave
<1>11. ASSUME RuntimeForgets(t), UNCHANGED <<browserCluster, supervisor>>
       PROVE  UNCHANGED <<Writers, Started, Locked>>
  <2>1. /\ UNCHANGED <<browserRuns, used, lock>> /\ helperRuns[t] = "exited"
        /\ helperRuns' = [helperRuns EXCEPT ![t] = "forgotten"]
    BY <1>11 DEF RuntimeForgets, browserCluster, supervisor
  <2>. QED
    BY <1>0, <2>1 DEF Writers, Started
<1>12. ASSUME TakesProfile(t) PROVE Custody!Lock(t)
  <2>1. /\ UNCHANGED <<browserRuns, used, helperRuns>>
        /\ t \in used /\ browserRuns[t] = "running"
        /\ Locked = {} /\ Locked' = {t}
    BY <1>0, <1>12 DEF TakesProfile, browserCluster, supervisor, cluster
  <2>2. Writers = {browser} /\ UNCHANGED <<Writers, Started>>
    BY <2>1, OpenToWrite, WritersAgree DEF Writers, Started
  <2>. QED
    BY <1>1, <2>1, <2>2 DEF Custody!Lock, Custody!BrowserOf
<1>13. ASSUME GivesUpProfile(t) PROVE Custody!Unlock(t)
  <2>1. /\ UNCHANGED <<browserRuns, used, helperRuns>>
        /\ browserRuns[t] = "running" /\ lock[t] = "active"
        /\ lock' = [lock EXCEPT ![t] = "retired"]
    BY <1>13 DEF GivesUpProfile, browserCluster, supervisor, cluster
  <2>2. Open(t) /\ t \in used
    BY <2>1, OpenToWrite
  <2>3. Writers = {browser} /\ UNCHANGED <<Writers, Started>>
    BY <2>1, <2>2, WritersAgree DEF Writers, Started
  <2>4. Locked = {t} /\ Locked' = {}
    BY <1>0, <1>3, <2>1, <2>2
  <2>. QED
    BY <1>1, <2>3, <2>4 DEF Custody!Unlock, Custody!BrowserOf
<1>14. ASSUME Retires(t), UNCHANGED <<browserCluster, supervisor>>
       PROVE  [Custody!Next]_(Custody!custodyVars)
  <2>1. /\ UNCHANGED <<browserRuns, used, helperRuns>>
        /\ helperRuns[t] = "running" /\ lock[t] # "none"
        /\ lock' = [lock EXCEPT ![t] = "retired"]
    BY <1>14 DEF Retires, browserCluster, supervisor, cluster
  <2>2. UNCHANGED <<Writers, Started>>
    BY <2>1 DEF Writers, Started
  <2>3. CASE lock[t] = "retired"
    BY <1>0, <1>5, <2>1, <2>2, <2>3
  <2>4. CASE lock[t] = "active"
    <3>1. Writers = {assistant}
      BY <2>1, OpenToWrite, WritersAgree
    <3>2. Locked = {t} /\ Locked' = {}
      BY <1>0, <1>3, <2>1, <2>4, OpenToWrite
    <3>3. Custody!Unlock(t)
      BY <1>1, <2>2, <3>1, <3>2 DEF Custody!Unlock, Custody!HelperOf
    <3>. QED
      BY <3>3 DEF Custody!Next
  <2>. QED
    BY <1>0, <2>1, <2>3, <2>4
<1>15. Custody!HelperOf(t) = assistant
  BY DEF Custody!HelperOf
<1>. QED
  BY <1>5, <1>6, <1>7, <1>8, <1>9, <1>10, <1>11, <1>12, <1>13, <1>14, <1>15
  DEF Acts, Custody!Next

\* kubernetes-supervisor.js:98 and :191, recovery-supervisor.js:118 and :165,
\* recovery-controller.js:71: whatever answers, Pods and backends are lost, the
\* profile is in one task's custody at a time, its browser and then its helper
\* start once and apart, and it is passed on unlocked and unused.
THEOREM CustodyIsKept == SystemSpec => ProfileInCustody
<1>1. SystemInit => Custody!Init /\ Ran
  <2>. SUFFICES ASSUME SystemInit PROVE Custody!Init /\ Ran
    OBVIOUS
  <2>1. \A t \in Task : lease[t].phase = "none" /\ ~Open(t)
    BY DEF SystemInit, Init, NoLease, Open
  <2>2. /\ used = {} /\ \A t \in Task : helperRuns[t] = "none"
        /\ \A t \in Task : lock[t] = "none"
    BY DEF SystemInit, NoRecovery
  <2>. QED
    BY <2>1, <2>2 DEF Custody!Init, Writers, Started, Ran
<1>2. Ran /\ Supervised /\ Carried /\ [SystemNext]_systemVars => Ran'
  BY RanOn DEF Supervised, Carried
<1>3. Supervised /\ Carried /\ Ran /\ Supervised' /\ Carried'
        /\ [SystemNext]_systemVars
      => [Custody!Next]_(Custody!custodyVars)
  <2>. SUFFICES ASSUME Supervised, Carried, Ran, Supervised', Carried',
                       [SystemNext]_systemVars
                PROVE  [Custody!Next]_(Custody!custodyVars)
    OBVIOUS
  <2>1. [Next]_vars
    BY SystemStepsRecord DEF Carried, systemVars, vars
  <2>2. \/ UNCHANGED Physical
        \/ \E t \in Task : Acts(t) /\ UNCHANGED vars
    BY StepsAct DEF Carried
  <2>. QED
    BY <2>1, <2>2, RowPasses, ContainersPass
<1>. QED
  BY <1>1, <1>2, <1>3, SystemSupervised, SystemCarries, PTL
  DEF SystemSpec, ProfileInCustody, Custody!Spec

=============================================================================
