------------------------- MODULE TeamRunnerProofs -------------------------
(***************************************************************************)
(* What the backend processes promise for every number of processes,       *)
(* tasks, calls, drains and faults.  Over the types of the row and of the  *)
(* memory, the argument has four layers:                                   *)
(*                                                                         *)
(*   RowSteps   every step of the processes is a transaction of TeamTasks  *)
(*              or leaves the row alone, so that what is proved of the row *)
(*              holds here too;                                            *)
(*   Lives      what a process remembers in which of its states;           *)
(*   Room       how the capacity it read bounds what it is granted;        *)
(*   Held       whose task is where: in a reply on its way, waiting to be  *)
(*              cancelled, executed, investigated; and Accounts, that the  *)
(*              process has lost track of none of its own.                 *)
(***************************************************************************)
EXTENDS TeamRunner, TeamTasksProofs

Lives ==
    /\ revoked \subseteq Stopping
    /\ \A w \in Worker :
          /\ tick[w] # "granted" => granted[w] = {}
          /\ tick[w] # "cancelling" => pendingAdmissions[w] = {}
          /\ tick[w] = "cancelling" => w \in Stopping
          /\ proc[w] # "up" => /\ tick[w] = "idle" /\ active[w] = {}
                               /\ probe[w] = NoProbe /\ w \notin drained
          /\ draining[w] > 0 \/ w \in drained => w \in stopped
          /\ w \in drained => /\ tick[w] = "idle" /\ active[w] = {}
                              /\ unobservedTaskIds[w] = {}
                              /\ w \notin admissionUncertain
          /\ w \in orphan => \/ proc[w] = "dead"
                             \/ proc[w] = "up" /\ w \in admissionUncertain
          /\ probe[w].step \in {"leased", "confirmed"} => probe[w].lease >= 1

Room ==
    \A w \in Worker :
        /\ Cardinality(active[w]) <= MaxActive
        /\ tick[w] = "listing" => Cardinality(active[w]) < MaxActive
        /\ slots[w] \in 0..MaxActive
        /\ tick[w] = "claiming" => Cardinality(active[w]) + slots[w] <= MaxActive
        /\ tick[w] = "granted" =>
              Cardinality(active[w]) + Cardinality(granted[w]) <= MaxActive

Held ==
    /\ \A t \in TaskId :
          /\ status[t] \in {"absent", "queued"} => worker[t] = None /\ exec[t] = "none"
          /\ t \in alive => /\ status[t] \in Activity
                            /\ exec[t] \in {"executing", "lost", "over"}
          /\ exec[t] = "reported" => status[t] \in Released
    /\ \A w \in Worker, t \in TaskId :
          /\ t \in granted[w] \cup pendingAdmissions[w] =>
                worker[t] = w /\ status[t] = "running" /\ exec[t] = "none"
          /\ t \in active[w] =>
                /\ worker[t] = w
                /\ exec[t] \in {"executing", "reporting", "reported", "lost"}
    /\ \A r \in Worker : probe[r].step # "idle" => Quiescent(probe[r].task)

Accounts ==
    \A w \in Worker, t \in TaskId :
        /\ proc[w] = "unborn" => worker[t] # w
        /\ proc[w] = "up" /\ w \notin admissionUncertain /\ worker[t] = w =>
              \/ status[t] \in Released
              \/ t \in active[w] \cup pendingAdmissions[w] \cup granted[w]
                         \cup unobservedTaskIds[w]
        /\ t \in active[w] /\ exec[t] = "lost" => t \in unobservedTaskIds[w]

\* The memory's types; how large slots may be is Room's.
Memory ==
    /\ proc \in [Worker -> {"unborn", "up", "dead"}]
    /\ stopped \subseteq Worker /\ revoked \subseteq Worker
    /\ admissionUncertain \subseteq Worker /\ orphan \subseteq Worker
    /\ drainBlocked \subseteq Worker /\ drained \subseteq Worker
    /\ tick \in [Worker -> {"idle", "beating", "listing", "claiming",
                            "granted", "cancelling"}]
    /\ beats \in [Worker -> SUBSET TaskId]
    /\ granted \in [Worker -> SUBSET TaskId]
    /\ pendingAdmissions \in [Worker -> SUBSET TaskId]
    /\ active \in [Worker -> SUBSET TaskId]
    /\ unobservedTaskIds \in [Worker -> SUBSET TaskId]
    /\ slots \in [Worker -> Int]
    /\ draining \in [Worker -> 0..MaxDrains]
    /\ aborted \subseteq TaskId /\ alive \subseteq TaskId
    /\ exec \in [TaskId -> {"none", "executing", "reporting", "reported",
                            "lost", "over"}]
    /\ effect \in [TaskId -> [Call -> {"none", "cleared", "dispatched", "saved"}]]
    /\ probe \in [Worker -> Probes]
    /\ faults \in 0..MaxFaults

-----------------------------------------------------------------------------
(* Steps of the row.                                                       *)

LEMMA TasksFinite ==
    ASSUME NEW S \in SUBSET TaskId PROVE IsFiniteSet(S) /\ Cardinality(S) \in Nat
<1>1. IsFiniteSet(TaskId)
  BY FS_Interval, TeamAssumption DEF TaskId
<1>2. IsFiniteSet(S)
  BY <1>1, FS_Subset
<1>. QED
  BY <1>2, FS_CardinalityType

\* A batch is never larger than its limit.
LEMMA BatchWithinLimit ==
    ASSUME NEW limit \in Nat, NEW C \in SUBSET TaskId, Greedy(C, limit)
    PROVE  IsFiniteSet(C) /\ Cardinality(C) \in Nat /\ Cardinality(C) <= limit
<1>1. IsFiniteSet(C) /\ Cardinality(C) \in Nat
  BY TasksFinite
<1>2. CASE C = {}
  BY <1>2, FS_EmptySet
<1>3. CASE C # {}
  <2>1. PICK m \in C : \A c \in C : c <= m
    BY <1>3, GreatestOf
  <2>. DEFINE before == {c \in C : c < m}
  <2>2. Cardinality(before) < limit
    BY <2>1 DEF Greedy
  <2>3. C = before \cup {m} /\ m \notin before
    <3>1. \A c \in C : c \in Int
      BY TeamAssumption DEF TaskId
    <3>. QED
      BY <2>1, <3>1
  <2>4. IsFiniteSet(before) /\ Cardinality(before) \in Nat
    BY TasksFinite
  <2>5. Cardinality(before \cup {m}) = Cardinality(before) + 1
    BY <2>3, <2>4, FS_AddElement
  <2>. HIDE DEF before
  <2>. QED
    BY <1>1, <2>2, <2>3, <2>4, <2>5
<1>. QED
  BY <1>2, <1>3

\* A limit beyond the number of tasks grants no more than that number.
LEMMA LimitBeyond ==
    ASSUME NEW limit \in Nat, limit > MaxTasks, NEW C \in SUBSET TaskId,
           Greedy(C, limit)
    PROVE  Greedy(C, MaxTasks)
<1>. SUFFICES ASSUME NEW t \in TaskId
              PROVE  /\ Cardinality({c \in C : c < t}) < MaxTasks
                     /\ Cardinality({c \in C : c < t}) < limit
  BY DEF Greedy
<1>. DEFINE before == {c \in C : c < t}
<1>1. MaxTasks \in Nat /\ t \in 1..MaxTasks
  BY TeamAssumption DEF TaskId
<1>2. before \subseteq 1..(t - 1)
  <2>1. ASSUME NEW c \in C, c < t PROVE c \in 1..(t - 1)
    <3>1. c \in 1..MaxTasks
      BY DEF TaskId
    <3>. QED
      BY <1>1, <2>1, <3>1
  <2>. QED
    BY <2>1
<1>3. IsFiniteSet(1..(t - 1)) /\ Cardinality(1..(t - 1)) = t - 1
  <2>. DEFINE n == t - 1
  <2>1. 1 \in Int /\ n \in Int /\ (IF 1 > n THEN 0 ELSE n - 1 + 1) = n
    BY <1>1
  <2>. HIDE DEF n
  <2>2. IsFiniteSet(1..n) /\ Cardinality(1..n) = n
    BY <2>1, FS_Interval
  <2>. QED
    BY <2>2 DEF n
<1>4. Cardinality(before) <= t - 1 /\ Cardinality(before) \in Nat
  <2>. HIDE DEF before
  <2>1. Cardinality(before) <= Cardinality(1..(t - 1)) /\ IsFiniteSet(before)
    BY <1>2, <1>3, FS_Subset
  <2>2. Cardinality(before) \in Nat
    BY <2>1, FS_CardinalityType
  <2>. QED
    BY <1>3, <2>1, <2>2
<1>. HIDE DEF before
<1>5. Cardinality(before) < MaxTasks /\ Cardinality(before) < limit
  BY <1>1, <1>4
<1>. QED
  BY <1>5 DEF before

LEMMA ClaimIsStep ==
    ASSUME Row, NEW w \in Worker, NEW limit \in Int, ClaimEnabled(w, limit)
    PROVE  [Next]_vars
<1>1. PICK C \in SUBSET TaskId : Greedy(C, limit) /\ ClaimEnabled(w, limit)!(C)
  BY DEF ClaimEnabled
<1>2. CASE C = {}
  <2>1. status' = status /\ worker' = worker
    BY <1>1, <1>2 DEF Row, TypeOK
  <2>. QED
    BY <1>1, <2>1 DEF vars, roster, intake, effects, recovery, verdict
<1>3. CASE C # {}
  <2>1. MaxTasks \in Nat /\ MaxTasks > 0
    <3>1. PICK c \in TaskId : c \in C
      BY <1>3
    <3>2. MaxTasks \in Nat
      BY TeamAssumption
    <3>. QED
      BY <3>1, <3>2 DEF TaskId
  <2>2. limit > 0
    <3>1. PICK c \in C : TRUE
      BY <1>3
    <3>. DEFINE before == {d \in C : d < c}
    <3>2. Cardinality(before) \in Nat
      BY TasksFinite
    <3>3. Cardinality(before) < limit
      BY <1>1, <3>1 DEF Greedy
    <3>. HIDE DEF before
    <3>. QED
      BY <3>2, <3>3
  <2>3. CASE limit <= MaxTasks
    BY <2>1, <2>2, <2>3 DEF Next
  <2>4. CASE limit > MaxTasks
    <3>1. Greedy(C, MaxTasks)
      BY <1>1, <2>2, <2>4, LimitBeyond
    <3>2. ClaimEnabled(w, MaxTasks)
      BY <1>1, <3>1 DEF ClaimEnabled
    <3>. QED
      BY <2>1, <3>2 DEF Next
  <2>. QED
    BY <2>1, <2>3, <2>4
<1>. QED
  BY <1>2, <1>3

\* What a transaction may do to the tasks, seen from the processes: leave them
\* in their place, park one in recovery, free its slot, or claim a batch.
Still(u) ==
    \/ status'[u] = status[u]
    \/ status[u] = "absent" /\ status'[u] = "queued"
    \/ status[u] \in Released /\ status'[u] \in Released

Quiet == worker' = worker /\ \A u \in TaskId : Still(u)
Parks(t) ==
    /\ worker' = worker
    /\ status[t] \in Activity /\ status'[t] = "reconciling"
    /\ \A u \in TaskId \ {t} : Still(u)
Frees(t) ==
    /\ worker' = worker
    /\ status[t] \in Activity /\ status'[t] \in Released
    /\ \A u \in TaskId \ {t} : Still(u)
Claims(w, C) ==
    /\ \A t \in C : status[t] = "queued" /\ status'[t] = "running" /\ worker'[t] = w
    /\ \A u \in TaskId \ C : status'[u] = status[u] /\ worker'[u] = worker[u]

LEMMA SameRowQuiet == ASSUME UNCHANGED <<status, worker>> PROVE Quiet
BY DEF Quiet, Still

LEMMA OwnerQuiet == ASSUME Row, OwnerStep PROVE Quiet
<1>. USE DEF roster, intake, effects, recovery, verdict, Quiet, Still
<1>1. ASSUME NEW on \in BOOLEAN, ConfigureExecution(on) PROVE Quiet
  BY <1>1 DEF ConfigureExecution
<1>2. ASSUME NEW a \in Stoppable, StopAgent(a) \/ ResumeAgent(a) PROVE Quiet
  BY <1>2 DEF StopAgent, ResumeAgent
<1>3. ASSUME NEW a \in Agent, RestEnds(a) PROVE Quiet
  BY <1>3 DEF RestEnds
<1>4. ASSUME NEW a \in Assignment, Enqueue(Request(a, {}, NoTask)) PROVE Quiet
  BY <1>4, TeamAssumption
     DEF Enqueue, Assignable, Row, TypeOK, Numbering, TaskId
<1>5. ASSUME NEW t \in TaskId, NEW approved \in BOOLEAN,
             ReviewTask(t, Owner, approved)
      PROVE  Quiet
  BY <1>5 DEF ReviewTask, Row, TypeOK, Released, Terminal
<1>. QED
  BY <1>1, <1>2, <1>3, <1>4, <1>5 DEF OwnerStep

LEMMA ResultFrees ==
    ASSUME Row, NEW t \in TaskId, NEW outcome \in Outcome, NEW verified \in BOOLEAN,
           RecordResult(t, outcome, verified)
    PROVE  Frees(t) /\ status[t] = "running"
<1>. USE DEF Row, TypeOK, Numbering, Frees, Still, Activity, Released, Terminal
<1>1. status[t] = "running" /\ worker' = worker
  BY DEF RecordResult, MayRecord
<1>2. ResultStatus(outcome) \in {"needs_review", "failed", "cancelled"}
  BY ResultStatusType
<1>3. CASE created' = created
  BY <1>1, <1>2, <1>3 DEF RecordResult
<1>4. CASE created' # created
  <2>1. /\ created < MaxTasks
        /\ status' = [status EXCEPT ![t] = ResultStatus(outcome),
                                    ![created + 1] = "queued"]
    BY <1>4 DEF RecordResult, intake
  <2>2. created + 1 \in TaskId /\ status[created + 1] = "absent"
    BY <2>1, TeamAssumption DEF TaskId
  <2>. QED
    BY <1>1, <1>2, <2>1, <2>2
<1>. QED
  BY <1>3, <1>4

LEMMA RecoveryParks ==
    ASSUME Row, NEW t \in TaskId, Unobserved(t) \/ BeginReconciliation(t)
    PROVE  Parks(t)
BY DEF Row, TypeOK, Unobserved, BeginReconciliation, MayReport, Parks, Still, Activity

LEMMA RecoveryFrees ==
    ASSUME Row, NEW t \in TaskId, NEW l, NEW saved, FinishReconciliation(t, l, saved)
    PROVE  Frees(t)
BY DEF Row, TypeOK, FinishReconciliation, MayReport, Frees, Still, Activity,
       Released, Terminal

LEMMA BatchClaims ==
    ASSUME Row, NEW w \in Worker, NEW limit \in Int, ClaimEnabled(w, limit)
    PROVE  \E C \in SUBSET TaskId : Greedy(C, limit) /\ Claims(w, C)
<1>1. PICK C \in SUBSET TaskId : Greedy(C, limit) /\ ClaimEnabled(w, limit)!(C)
  BY DEF ClaimEnabled
<1>2. \A t \in C : status[t] = "queued"
  BY <1>1 DEF Greedy, Claimable
<1>3. Claims(w, C)
  BY <1>1, <1>2 DEF Claims
<1>. QED
  BY <1>1, <1>3

\* Every step of the processes is a transaction of TeamTasks or leaves the row.
LEMMA RowSteps ==
    ASSUME Row, Memory, Lives, [RunnerNext]_allVars PROVE [Next]_vars
<1>1. CASE OwnerStep
  <2>1. ASSUME NEW a \in Assignment, Enqueue(Request(a, {}, NoTask)) PROVE Next
    <3>1. {} \in SUBSET (1..created) /\ NoTask \in 0..created
      BY DEF Row, TypeOK, NoTask
    <3>. QED
      BY <2>1, <3>1 DEF Next
  <2>2. ASSUME NEW t \in TaskId, NEW approved \in BOOLEAN,
               ReviewTask(t, Owner, approved)
        PROVE  Next
    <3>1. Owner \in Agent \cup {Owner}
      OBVIOUS
    <3>. QED
      BY <2>2, <3>1 DEF Next
  <2>. QED
    BY <1>1, <2>1, <2>2 DEF OwnerStep, Next
<1>2. ASSUME NEW w \in Worker, CommitClaim(w) PROVE [Next]_vars
  <2>1. slots[w] \in Int
    BY DEF Memory
  <2>. QED
    BY <1>2, <2>1, ClaimIsStep DEF CommitClaim
<1>3. ASSUME NEW w \in Worker, CommitOrphan(w) PROVE [Next]_vars
  <2>1. PICK limit \in 1..MaxActive : ClaimEnabled(w, limit)
    BY <1>3 DEF CommitOrphan
  <2>2. limit \in Int
    BY RunnerAssumption
  <2>. QED
    BY <2>1, <2>2, ClaimIsStep
<1>4. ASSUME NEW w \in Worker, NEW t \in TaskId, CancelUnstarted(w, t)
      PROVE  [Next]_vars
  <2>1. "cancelled" \in Outcome /\ FALSE \in BOOLEAN
    BY <1>4, RunnerAssumption DEF CancelUnstarted, Lives
  <2>2. RecordResult(t, "cancelled", FALSE) \/ UNCHANGED vars
    BY <1>4 DEF CancelUnstarted
  <2>3. CASE RecordResult(t, "cancelled", FALSE)
    <3>1. \E outcome \in Outcome, verified \in BOOLEAN :
             RecordResult(t, outcome, verified)
      BY <2>1, <2>3
    <3>. QED
      BY <3>1 DEF Next
  <2>. QED
    BY <2>2, <2>3
<1>5. ASSUME NEW w \in Worker, NEW t \in TaskId, Report(w, t) PROVE [Next]_vars
  BY <1>5 DEF Report, Next
<1>6. ASSUME NEW w \in Worker, NEW t \in TaskId, MarkUnobserved(w, t)
      PROVE  [Next]_vars
  BY <1>6 DEF MarkUnobserved, Next
<1>7. ASSUME NEW w \in Worker, NEW t \in TaskId, NEW c \in Call, Reserve(w, t, c)
      PROVE  [Next]_vars
  BY <1>7 DEF Reserve, Next
<1>8. ASSUME NEW w \in Worker, NEW t \in TaskId, NEW c \in Call, Settle(w, t, c)
      PROVE  [Next]_vars
  <2>1. effect[t][c] \in {"none", "cleared", "dispatched", "saved"}
    BY DEF Memory
  <2>2. SettledAs(t, c) \subseteq {"settled", "unknown"}
    BY <2>1 DEF SettledAs
  <2>. QED
    BY <1>8, <2>2 DEF Settle, Next
<1>9. ASSUME NEW r \in Worker, probe[r].step # "idle" PROVE probe[r].task \in TaskId
  BY <1>9 DEF Memory, Probes, NoProbe
<1>10. ASSUME NEW r \in Worker, TakeLease(r) PROVE [Next]_vars
  BY <1>9, <1>10 DEF TakeLease, Next
<1>11. ASSUME NEW r \in Worker, NEW c \in Call, Recover(r, c) PROVE [Next]_vars
  <2>1. probe[r].task \in TaskId /\ SettleOperation(probe[r].task, c, "settled")
    BY <1>9, <1>11 DEF Recover
  <2>. QED
    BY <2>1 DEF Next
<1>12. ASSUME NEW r \in Worker, Finish(r) PROVE [Next]_vars
  <2>. DEFINE t == probe[r].task
              saved == \E c \in Call : journal[t][c] = "settled" /\ effect[t][c] = "saved"
  <2>1. t \in TaskId /\ probe[r].lease >= 1
    BY <1>9, <1>12 DEF Finish, Lives
  <2>2. CASE leaseId[t] = probe[r].lease
             /\ FinishReconciliation(t, probe[r].lease, saved)
    <3>1. leaseId[t] \in Nat
      BY <2>1, TeamAssumption DEF Row, TypeOK
    <3>2. probe[r].lease \in 1..leaseId[t] /\ saved \in BOOLEAN
      BY <2>1, <2>2, <3>1
    <3>. HIDE DEF saved, t
    <3>3. Next
      BY <2>1, <2>2, <3>2 DEF Next
    <3>. QED
      BY <3>3
  <2>3. CASE UNCHANGED vars
    BY <2>3
  <2>. QED
    BY <1>12, <2>2, <2>3 DEF Finish
<1>13. ASSUME NEW t \in TaskId, Lapse(t) PROVE [Next]_vars
  BY <1>13 DEF Lapse, Next
<1>14. ASSUME \/ \E w \in Worker : \/ Start(w) \/ Stop(w) \/ Drain(w) \/ EndDrain(w)
                                  \/ Boot(w) \/ Crash(w)
                                  \/ BeginTick(w) \/ ListRunnable(w)
                                  \/ RequestClaim(w) \/ ReceiveClaim(w)
                                  \/ ClaimFails(w)
                                  \/ Confirm(w) \/ GiveUp(w)
              \/ \E w \in Worker, t \in TaskId :
                    \/ Heartbeat(w, t) \/ Resolve(w, t) \/ Reject(w, t)
                    \/ ReportRefused(w, t) \/ ReportFails(w, t)
                    \/ Reported(w, t) \/ Observe(w, t)
                    \/ \E c \in Call : Checkpoint(w, t, c) \/ Dispatch(w, t, c)
              \/ \E t \in TaskId : \/ WorkerExits(t)
                                  \/ \E c \in Call : Persist(t, c)
       PROVE  UNCHANGED vars
  BY <1>14 DEF Start, Stop, Drain, EndDrain, Boot, Crash, BeginTick, ListRunnable,
        RequestClaim, ReceiveClaim, ClaimFails, Confirm, GiveUp, Heartbeat,
        Resolve, Reject, ReportRefused, ReportFails, Reported, Observe,
        Checkpoint, Dispatch, WorkerExits, Persist
<1>15. CASE UNCHANGED allVars
  BY <1>15 DEF allVars
<1>16. Stopping \subseteq Worker
  BY RunnerAssumption
<1>. QED
  BY <1>1, <1>2, <1>3, <1>4, <1>5, <1>6, <1>7, <1>8, <1>10, <1>11, <1>12, <1>13,
     <1>14, <1>15, <1>16
     DEF RunnerNext, TickStep, ExecutorStep, InvestigationStep

-----------------------------------------------------------------------------
(* What the processes remember.                                            *)

\* A cancelled admission is settled by its own, or all that are left are given up.
CancelOne(w, t) ==
    /\ pendingAdmissions' = [pendingAdmissions EXCEPT ![w] = @ \ {t}]
    /\ \/ UNCHANGED tick
       \/ pendingAdmissions[w] = {t} /\ EndTick(w)
    /\ UNCHANGED unobservedTaskIds
CancelRest(w) ==
    /\ EndTick(w)
    /\ pendingAdmissions' = [pendingAdmissions EXCEPT ![w] = {}]
    /\ unobservedTaskIds' = [unobservedTaskIds EXCEPT ![w] = @ \cup pendingAdmissions[w]]

LEMMA CancelMemory ==
    ASSUME NEW w \in Worker, NEW t \in TaskId, CancelUnstarted(w, t)
    PROVE  /\ tick[w] = "cancelling" /\ t \in pendingAdmissions[w]
           /\ CancelOne(w, t) \/ CancelRest(w)
           /\ faults' = faults \/ Fault
           /\ UNCHANGED <<control, beats, slots, granted, admissionUncertain, orphan,
                          active, aborted, exec, alive, effect, probe>>
<1>1. CASE /\ pendingAdmissions' = [pendingAdmissions EXCEPT ![w] = @ \ {t}]
           /\ IF pendingAdmissions[w] = {t} THEN EndTick(w) ELSE UNCHANGED tick
           /\ UNCHANGED <<unobservedTaskIds, faults>>
  BY <1>1 DEF CancelUnstarted, CancelOne
<1>2. CASE Fault /\ CancelRest(w)
  BY <1>2 DEF CancelUnstarted
<1>. QED
  BY <1>1, <1>2 DEF CancelUnstarted, CancelRest

\* execute() or its report has failed: the process no longer observes the task.
LEMMA LosesTrack ==
    ASSUME NEW w \in Worker, NEW t \in TaskId,
           Reject(w, t) \/ ReportRefused(w, t) \/ ReportFails(w, t)
    PROVE  /\ Runs(w, t) /\ Lost(w, t)
           /\ exec[t] \in {"executing", "reporting", "reported"}
           /\ faults' = faults \/ Fault
           /\ UNCHANGED <<vars, control, admission, active, aborted, alive, effect,
                          probe>>
BY DEF Reject, ReportRefused, ReportFails, world

LEMMA MemoryStep ==
    ASSUME Row, Memory, Lives, [RunnerNext]_allVars PROVE Memory'
<1>. USE RunnerAssumption DEF Memory, control, admission, execution, world
<1>1. CASE OwnerStep
  BY <1>1 DEF OwnerStep
<1>2. ASSUME NEW w \in Worker, Start(w) PROVE Memory'
  BY <1>2 DEF Start
<1>3. ASSUME NEW w \in Worker, Stop(w) PROVE Memory'
  BY <1>3 DEF Stop, Halt
<1>4. ASSUME NEW w \in Worker, Drain(w) PROVE Memory'
  BY <1>4 DEF Drain, Halt
<1>5. ASSUME NEW w \in Worker, EndDrain(w) PROVE Memory'
  BY <1>5 DEF EndDrain, Uncounted
<1>6. ASSUME NEW w \in Worker, Boot(w) PROVE Memory'
  BY <1>6 DEF Boot
<1>7. ASSUME NEW w \in Worker, Crash(w) PROVE Memory'
  BY <1>7 DEF Crash, Probes
<1>8. ASSUME NEW w \in Worker, CommitOrphan(w) PROVE Memory'
  BY <1>8 DEF CommitOrphan
<1>9. ASSUME NEW w \in Worker, BeginTick(w) PROVE Memory'
  BY <1>9 DEF BeginTick
<1>10. ASSUME NEW w \in Worker, ListRunnable(w) PROVE Memory'
  BY <1>10 DEF ListRunnable, EndTick
<1>11. ASSUME NEW w \in Worker, RequestClaim(w) PROVE Memory'
  <2>1. Limit(w) \in Int
    BY TasksFinite DEF Limit
  <2>. QED
    BY <1>11, <2>1 DEF RequestClaim, EndTick
<1>12. ASSUME NEW w \in Worker, CommitClaim(w) PROVE Memory'
  BY <1>12 DEF CommitClaim
<1>13. ASSUME NEW w \in Worker, ReceiveClaim(w) PROVE Memory'
  <2>1. /\ granted' \in [Worker -> SUBSET TaskId]
        /\ tick' \in [Worker -> {"idle", "beating", "listing", "claiming",
                                 "granted", "cancelling"}]
    BY <1>13 DEF ReceiveClaim, EndTick
  <2>2. pendingAdmissions' \in [Worker -> SUBSET TaskId]
    BY <1>13 DEF ReceiveClaim
  <2>3. active' \in [Worker -> SUBSET TaskId]
    BY <1>13 DEF ReceiveClaim
  <2>4. exec' \in [TaskId -> {"none", "executing", "reporting", "reported",
                              "lost", "over"}]
    BY <1>13 DEF ReceiveClaim
  <2>5. alive' \subseteq TaskId
    BY <1>13 DEF ReceiveClaim
  <2>6. UNCHANGED <<control, beats, slots, admissionUncertain, orphan, aborted,
                    unobservedTaskIds, world>>
    BY <1>13 DEF ReceiveClaim
  <2>. QED
    BY <2>1, <2>2, <2>3, <2>4, <2>5, <2>6
<1>14. ASSUME NEW w \in Worker, ClaimFails(w) PROVE Memory'
  BY <1>14 DEF ClaimFails, LoseClaim, EndTick, Fault
<1>15. ASSUME NEW w \in Worker, NEW t \in TaskId, Heartbeat(w, t) PROVE Memory'
  BY <1>15 DEF Heartbeat, Fault
<1>16. ASSUME NEW w \in Worker, NEW t \in TaskId, CancelUnstarted(w, t)
       PROVE  Memory'
  <2>1. CancelOne(w, t) \/ CancelRest(w)
    BY <1>16, CancelMemory
  <2>2. /\ UNCHANGED <<control, beats, slots, granted, admissionUncertain, orphan,
                       active, aborted, exec, alive, effect, probe>>
        /\ faults' = faults \/ Fault
    BY <1>16, CancelMemory
  <2>3. pendingAdmissions' \in [Worker -> SUBSET TaskId]
    <3>1. {} \in SUBSET TaskId /\ pendingAdmissions[w] \ {t} \in SUBSET TaskId
      OBVIOUS
    <3>. QED
      BY <2>1, <3>1 DEF CancelOne, CancelRest
  <2>4. unobservedTaskIds' \in [Worker -> SUBSET TaskId]
    <3>1. unobservedTaskIds[w] \cup pendingAdmissions[w] \in SUBSET TaskId
      OBVIOUS
    <3>. QED
      BY <2>1, <3>1 DEF CancelOne, CancelRest
  <2>5. tick' \in [Worker -> {"idle", "beating", "listing", "claiming",
                              "granted", "cancelling"}]
    BY <2>1 DEF CancelOne, CancelRest, EndTick
  <2>6. faults' \in 0..MaxFaults
    BY <2>2 DEF Fault
  <2>. QED
    BY <2>2, <2>3, <2>4, <2>5, <2>6
<1>17. ASSUME NEW w \in Worker, NEW t \in TaskId, Resolve(w, t) PROVE Memory'
  BY <1>17 DEF Resolve
<1>18. ASSUME NEW w \in Worker, NEW t \in TaskId,
              Reject(w, t) \/ ReportRefused(w, t) \/ ReportFails(w, t)
       PROVE  Memory'
  <2>1. exec' \in [TaskId -> {"none", "executing", "reporting", "reported",
                              "lost", "over"}]
    BY <1>18, LosesTrack DEF Lost
  <2>2. unobservedTaskIds' \in [Worker -> SUBSET TaskId]
    BY <1>18, LosesTrack DEF Lost
  <2>3. faults' \in 0..MaxFaults
    BY <1>18, LosesTrack DEF Fault
  <2>. QED
    BY <1>18, <2>1, <2>2, <2>3, LosesTrack
<1>19. ASSUME NEW w \in Worker, NEW t \in TaskId, Report(w, t) PROVE Memory'
  BY <1>19 DEF Report
<1>20. ASSUME NEW w \in Worker, NEW t \in TaskId, Reported(w, t) PROVE Memory'
  BY <1>20 DEF Reported, Leave
<1>21. ASSUME NEW w \in Worker, NEW t \in TaskId, MarkUnobserved(w, t) PROVE Memory'
  BY <1>21 DEF MarkUnobserved, Leave, Fault
<1>22. ASSUME NEW w \in Worker, NEW t \in TaskId, NEW c \in Call,
              Reserve(w, t, c) \/ Settle(w, t, c)
       PROVE  Memory'
  BY <1>22 DEF Reserve, Settle
<1>23. ASSUME NEW w \in Worker, NEW t \in TaskId, NEW c \in Call,
              Checkpoint(w, t, c) \/ Dispatch(w, t, c)
       PROVE  Memory'
  <2>1. /\ \/ effect' = [effect EXCEPT ![t][c] = "cleared"]
           \/ effect' = [effect EXCEPT ![t][c] = "dispatched"]
        /\ UNCHANGED <<control, admission, execution, probe, faults>>
    BY <1>23 DEF Checkpoint, Dispatch
  <2>2. PICK e \in {"cleared", "dispatched"} : effect' = [effect EXCEPT ![t][c] = e]
    BY <2>1
  <2>3. [effect[t] EXCEPT ![c] = e] \in
            [Call -> {"none", "cleared", "dispatched", "saved"}]
    BY <2>2
  <2>4. effect' \in [TaskId -> [Call -> {"none", "cleared", "dispatched", "saved"}]]
    BY <2>2, <2>3
  <2>. QED
    BY <2>1, <2>4
<1>24. ASSUME NEW r \in Worker, NEW t \in TaskId, Observe(r, t) PROVE Memory'
  BY <1>24, TeamAssumption DEF Observe, Probes
<1>25. ASSUME NEW r \in Worker, probe[r].step # "idle" PROVE probe[r].task \in TaskId
  BY <1>25 DEF Probes, NoProbe
<1>26. ASSUME NEW r \in Worker, TakeLease(r) PROVE Memory'
  <2>1. probe[r].task \in TaskId
    BY <1>25, <1>26 DEF TakeLease
  <2>2. CASE Idle(r)
    BY <1>26, <2>2 DEF TakeLease, Idle, Probes
  <2>3. CASE /\ BeginReconciliation(probe[r].task)
             /\ NextStep(r, "leased", leaseId[probe[r].task] + 1)
    <3>1. leaseId[probe[r].task] + 1 \in 0..MaxLeases
      BY <2>1, <2>3, TeamAssumption DEF BeginReconciliation, Row, TypeOK
    <3>. QED
      BY <1>26, <2>1, <2>3, <3>1 DEF TakeLease, NextStep, Probes
  <2>. QED
    BY <1>26, <2>2, <2>3 DEF TakeLease
<1>27. ASSUME NEW r \in Worker, Confirm(r) PROVE Memory'
  <2>1. probe[r].task \in TaskId /\ probe[r].lease \in 0..MaxLeases
    BY <1>25, <1>27 DEF Confirm, Probes, NoProbe
  <2>2. CASE Idle(r)
    BY <1>27, <2>2 DEF Confirm, Idle, Probes
  <2>3. CASE NextStep(r, "confirmed", probe[r].lease)
    BY <1>27, <2>1, <2>3 DEF Confirm, NextStep, Probes
  <2>. QED
    BY <1>27, <2>2, <2>3 DEF Confirm
<1>28. ASSUME NEW r \in Worker, Finish(r) PROVE Memory'
  BY <1>28 DEF Finish, Idle, Probes
<1>29. ASSUME NEW r \in Worker, GiveUp(r) PROVE Memory'
  BY <1>29 DEF GiveUp, Idle, Probes, Fault
<1>30. ASSUME NEW r \in Worker, NEW c \in Call, Recover(r, c) PROVE Memory'
  BY <1>30 DEF Recover
<1>31. ASSUME NEW t \in TaskId, WorkerExits(t) PROVE Memory'
  BY <1>31 DEF WorkerExits
<1>32. ASSUME NEW t \in TaskId, Lapse(t) PROVE Memory'
  BY <1>32 DEF Lapse
<1>33. ASSUME NEW t \in TaskId, NEW c \in Call, Persist(t, c) PROVE Memory'
  BY <1>33 DEF Persist
<1>34. CASE UNCHANGED allVars
  BY <1>34 DEF allVars
<1>. HIDE DEF Memory
<1>. QED
  BY <1>1, <1>2, <1>3, <1>4, <1>5, <1>6, <1>7, <1>8, <1>9, <1>10, <1>11, <1>12,
     <1>13, <1>14, <1>15, <1>16, <1>17, <1>18, <1>19, <1>20, <1>21, <1>22, <1>23,
     <1>24, <1>26, <1>27, <1>28, <1>29, <1>30, <1>31, <1>32, <1>33, <1>34
     DEF RunnerNext, TickStep, ExecutorStep, InvestigationStep

LEMMA LivesStep ==
    ASSUME Row, Memory, Lives, [RunnerNext]_allVars PROVE Lives'
<1>. USE RunnerAssumption DEF Memory, Lives, control, admission, execution, world
<1>1. CASE OwnerStep
  BY <1>1 DEF OwnerStep
<1>2. ASSUME NEW w \in Stopping, Start(w) PROVE Lives'
  BY <1>2 DEF Start
<1>3. ASSUME NEW w \in Stopping, Stop(w) PROVE Lives'
  BY <1>3 DEF Stop, Halt
<1>4. ASSUME NEW w \in Stopping, Drain(w) PROVE Lives'
  BY <1>4 DEF Drain, Halt
<1>5. ASSUME NEW w \in Stopping, EndDrain(w) PROVE Lives'
  BY <1>5 DEF EndDrain, Uncounted, DrainSettled
<1>6. ASSUME NEW w \in Worker, Boot(w) PROVE Lives'
  BY <1>6 DEF Boot
<1>7. ASSUME NEW w \in Worker, Crash(w) PROVE Lives'
  BY <1>7 DEF Crash, NoProbe
<1>8. ASSUME NEW w \in Worker, CommitOrphan(w) PROVE Lives'
  BY <1>8 DEF CommitOrphan
<1>9. ASSUME NEW w \in Worker, BeginTick(w) PROVE Lives'
  BY <1>9 DEF BeginTick
<1>10. ASSUME NEW w \in Worker, ListRunnable(w) PROVE Lives'
  BY <1>10 DEF ListRunnable, EndTick
<1>11. ASSUME NEW w \in Worker, RequestClaim(w) PROVE Lives'
  BY <1>11 DEF RequestClaim, EndTick
<1>12. ASSUME NEW w \in Worker, CommitClaim(w) PROVE Lives'
  BY <1>12 DEF CommitClaim
<1>13. ASSUME NEW w \in Worker, ReceiveClaim(w) PROVE Lives'
  BY <1>13 DEF ReceiveClaim, Revoked, EndTick
<1>14. ASSUME NEW w \in Worker, ClaimFails(w) PROVE Lives'
  BY <1>14 DEF ClaimFails, LoseClaim, EndTick
<1>15. ASSUME NEW w \in Worker, NEW t \in TaskId, Heartbeat(w, t) PROVE Lives'
  BY <1>15 DEF Heartbeat
<1>16. ASSUME NEW w \in Worker, NEW t \in TaskId, CancelUnstarted(w, t)
       PROVE  Lives'
  BY <1>16, CancelMemory DEF CancelOne, CancelRest, EndTick
<1>17. ASSUME NEW w \in Worker, NEW t \in TaskId, Resolve(w, t) PROVE Lives'
  BY <1>17 DEF Resolve
<1>18. ASSUME NEW w \in Worker, NEW t \in TaskId,
              Reject(w, t) \/ ReportRefused(w, t) \/ ReportFails(w, t)
       PROVE  Lives'
  <2>1. UNCHANGED <<control, admission, active, aborted, alive, effect, probe>>
    BY <1>18, LosesTrack
  <2>2. t \in active[w] /\ Lost(w, t)
    BY <1>18, LosesTrack DEF Runs
  <2>3. \A v \in Worker : v # w => unobservedTaskIds'[v] = unobservedTaskIds[v]
    BY <2>2 DEF Lost
  <2>. QED
    BY <2>1, <2>2, <2>3
<1>19. ASSUME NEW w \in Worker, NEW t \in TaskId, Report(w, t) PROVE Lives'
  BY <1>19 DEF Report
<1>20. ASSUME NEW w \in Worker, NEW t \in TaskId, Reported(w, t) PROVE Lives'
  BY <1>20 DEF Reported, Leave
<1>21. ASSUME NEW w \in Worker, NEW t \in TaskId, MarkUnobserved(w, t) PROVE Lives'
  BY <1>21 DEF MarkUnobserved, Leave
<1>22. ASSUME NEW w \in Worker, NEW t \in TaskId, NEW c \in Call,
              \/ Reserve(w, t, c) \/ Settle(w, t, c)
              \/ Checkpoint(w, t, c) \/ Dispatch(w, t, c)
       PROVE  Lives'
  BY <1>22 DEF Reserve, Settle, Checkpoint, Dispatch
<1>23. ASSUME NEW r \in Worker, NEW t \in TaskId, Observe(r, t) PROVE Lives'
  BY <1>23 DEF Observe
<1>24. ASSUME NEW r \in Worker, TakeLease(r) PROVE Lives'
  <2>1. proc[r] = "up"
    BY <1>24 DEF TakeLease, NoProbe
  <2>2. CASE Idle(r)
    BY <1>24, <2>1, <2>2 DEF TakeLease, Idle, NoProbe
  <2>3. CASE /\ BeginReconciliation(probe[r].task)
             /\ NextStep(r, "leased", leaseId[probe[r].task] + 1)
    <3>1. leaseId[probe[r].task] + 1 >= 1
      <4>1. probe[r].task \in TaskId
        BY <1>24 DEF TakeLease, Probes, NoProbe
      <4>. QED
        BY <4>1, TeamAssumption DEF Row, TypeOK
    <3>. QED
      BY <1>24, <2>1, <2>3, <3>1 DEF TakeLease, NextStep
  <2>. QED
    BY <1>24, <2>2, <2>3 DEF TakeLease
<1>25. ASSUME NEW r \in Worker, Confirm(r) PROVE Lives'
  BY <1>25 DEF Confirm, Idle, NextStep, NoProbe
<1>26. ASSUME NEW r \in Worker, Finish(r) PROVE Lives'
  BY <1>26 DEF Finish, Idle, NoProbe
<1>27. ASSUME NEW r \in Worker, GiveUp(r) PROVE Lives'
  BY <1>27 DEF GiveUp, Idle, NoProbe
<1>28. ASSUME NEW r \in Worker, NEW c \in Call, Recover(r, c) PROVE Lives'
  BY <1>28 DEF Recover
<1>29. ASSUME NEW t \in TaskId, WorkerExits(t) PROVE Lives'
  BY <1>29 DEF WorkerExits
<1>30. ASSUME NEW t \in TaskId, Lapse(t) PROVE Lives'
  BY <1>30 DEF Lapse
<1>31. ASSUME NEW t \in TaskId, NEW c \in Call, Persist(t, c) PROVE Lives'
  BY <1>31 DEF Persist
<1>32. CASE UNCHANGED allVars
  BY <1>32 DEF allVars
<1>. HIDE DEF Memory, Lives
<1>. QED
  BY <1>1, <1>2, <1>3, <1>4, <1>5, <1>6, <1>7, <1>8, <1>9, <1>10, <1>11, <1>12,
     <1>13, <1>14, <1>15, <1>16, <1>17, <1>18, <1>19, <1>20, <1>21, <1>22, <1>23,
     <1>24, <1>25, <1>26, <1>27, <1>28, <1>29, <1>30, <1>31, <1>32
     DEF RunnerNext, TickStep, ExecutorStep, InvestigationStep

LEMMA RoomStep ==
    ASSUME Row, Memory, Lives, Room, [RunnerNext]_allVars PROVE Room'
<1>. USE DEF Memory, control, admission, execution, world
<1>1. ASSUME UNCHANGED <<tick, slots, granted, active>> PROVE Room'
  BY <1>1 DEF Room
<1>2. \A w \in Worker : IsFiniteSet(active[w]) /\ Cardinality(active[w]) \in Nat
  BY TasksFinite
<1>3. ASSUME NEW w \in Worker, NEW S \in SUBSET active[w],
             active' = [active EXCEPT ![w] = S],
             UNCHANGED <<slots, granted>>,
             tick' = tick \/ EndTick(w)
      PROVE  Room'
  <2>1. Cardinality(S) \in Nat /\ Cardinality(S) <= Cardinality(active[w])
    BY <1>2, <1>3, FS_Subset, FS_CardinalityType
  <2>2. \A u \in Worker : /\ active'[u] = IF u = w THEN S ELSE active[u]
                          /\ tick'[u] = tick[u] \/ tick'[u] = "idle"
                          /\ Cardinality(granted[u]) \in Nat
    BY <1>3, TasksFinite DEF EndTick
  <2>. QED
    BY <1>2, <1>3, <2>1, <2>2, RunnerAssumption DEF Room
<1>4. ASSUME UNCHANGED <<slots, granted, active>>,
             NEW w \in Worker, EndTick(w) \/ tick' = [tick EXCEPT ![w] = "beating"]
      PROVE  Room'
  BY <1>4 DEF Room, EndTick
<1>5. ASSUME NEW w \in Worker, Crash(w) PROVE Room'
  <2>1. Cardinality({}) = 0
    BY FS_EmptySet
  <2>. QED
    BY <1>5, <2>1, RunnerAssumption DEF Crash, Room
<1>6. ASSUME NEW w \in Worker, BeginTick(w) PROVE Room'
  BY <1>4, <1>6 DEF BeginTick
<1>7. ASSUME NEW w \in Worker, ListRunnable(w) PROVE Room'
  <2>1. CASE EndTick(w)
    BY <1>4, <1>7, <2>1 DEF ListRunnable
  <2>2. CASE ~EndTick(w)
    BY <1>2, <1>7, <2>2, RunnerAssumption DEF ListRunnable, Room
  <2>. QED
    BY <2>1, <2>2
<1>8. ASSUME NEW w \in Worker, RequestClaim(w) PROVE Room'
  <2>1. CASE EndTick(w) /\ UNCHANGED slots
    BY <1>4, <1>8, <2>1 DEF RequestClaim
  <2>2. CASE /\ tick' = [tick EXCEPT ![w] = "claiming"]
             /\ slots' = [slots EXCEPT ![w] = Limit(w)]
    <3>1. Limit(w) \in 0..MaxActive /\ Cardinality(active[w]) + Limit(w) <= MaxActive
      BY <1>2, RunnerAssumption DEF Room, Limit
    <3>2. UNCHANGED <<granted, active>>
      BY <1>8 DEF RequestClaim
    <3>. QED
      BY <2>2, <3>1, <3>2 DEF Room
  <2>. QED
    BY <1>8, <2>1, <2>2 DEF RequestClaim
<1>9. ASSUME NEW w \in Worker, CommitClaim(w) PROVE Room'
  <2>1. Cardinality(active[w]) + slots[w] <= MaxActive /\ slots[w] \in Nat
    BY <1>9, RunnerAssumption DEF CommitClaim, Room
  <2>2. Cardinality(granted'[w]) \in Nat /\ Cardinality(granted'[w]) <= slots[w]
    <3>. DEFINE new == {t \in TaskId : status'[t] # status[t]}
    <3>1. granted'[w] = new
      BY <1>9 DEF CommitClaim
    <3>2. CASE executionEnabled
      <4>1. PICK C \in SUBSET TaskId : Greedy(C, slots[w]) /\ Claims(w, C)
        BY <1>9, <3>2, BatchClaims DEF CommitClaim
      <4>2. new = C
        BY <4>1 DEF Claims
      <4>3. Cardinality(C) \in Nat /\ Cardinality(C) <= slots[w]
        BY <2>1, <4>1, BatchWithinLimit
      <4>. HIDE DEF new
      <4>. QED
        BY <3>1, <4>2, <4>3
    <3>3. CASE ~executionEnabled
      <4>1. new = {}
        BY <1>9, <3>3 DEF CommitClaim, vars
      <4>2. Cardinality(new) = 0
        BY <4>1, FS_EmptySet
      <4>. HIDE DEF new
      <4>. QED
        BY <2>1, <3>1, <4>2
    <3>. QED
      BY <3>2, <3>3
  <2>3. Cardinality(active[w]) + Cardinality(granted'[w]) <= MaxActive
    BY <1>2, <2>1, <2>2, RunnerAssumption
  <2>4. /\ UNCHANGED <<slots, active>>
        /\ tick' = [tick EXCEPT ![w] = "granted"]
        /\ \A u \in Worker \ {w} : granted'[u] = granted[u]
    BY <1>9 DEF CommitClaim
  <2>. QED
    BY <2>3, <2>4 DEF Room
<1>10. ASSUME NEW w \in Worker, ReceiveClaim(w) PROVE Room'
  <2>1. Cardinality({}) = 0
    BY FS_EmptySet
  <2>2. CASE Revoked(w) /\ granted[w] # {}
    BY <1>10, <2>1, <2>2 DEF ReceiveClaim, Room
  <2>3. CASE ~(Revoked(w) /\ granted[w] # {})
    <3>1. IsFiniteSet(granted[w]) /\ IsFiniteSet(active[w] \cap granted[w])
      BY TasksFinite
    <3>. DEFINE both == active[w] \cup granted[w]
    <3>2. Cardinality(both) <= Cardinality(active[w]) + Cardinality(granted[w])
      <4>. DEFINE a == active[w]
                  g == granted[w]
      <4>1. Cardinality(a \cap g) \in Nat /\ Cardinality(a) \in Nat
            /\ Cardinality(g) \in Nat
        BY TasksFinite
      <4>2. Cardinality(a \cup g) = Cardinality(a) + Cardinality(g) - Cardinality(a \cap g)
        BY <1>2, <3>1, FS_Union
      <4>. HIDE DEF a, g
      <4>3. Cardinality(a \cup g) <= Cardinality(a) + Cardinality(g)
        BY <4>1, <4>2
      <4>. QED
        BY <4>3 DEF a, g
    <3>3. Cardinality(both) \in Nat /\ Cardinality(granted[w]) \in Nat
      BY TasksFinite
    <3>4. Cardinality(both) <= MaxActive
      <4>1. Cardinality(active[w]) + Cardinality(granted[w]) <= MaxActive
        BY <1>10 DEF ReceiveClaim, Room
      <4>. HIDE DEF both
      <4>. QED
        BY <1>2, <3>2, <3>3, <4>1, RunnerAssumption
    <3>5. active' = [active EXCEPT ![w] = both]
      BY <1>10, <2>3 DEF ReceiveClaim
    <3>6. EndTick(w) /\ UNCHANGED slots /\ granted' = [granted EXCEPT ![w] = {}]
      BY <1>10, <2>3 DEF ReceiveClaim
    <3>. HIDE DEF both
    <3>. QED
      BY <3>4, <3>5, <3>6 DEF Room, EndTick
  <2>. QED
    BY <2>2, <2>3
<1>11. ASSUME NEW w \in Worker, ClaimFails(w) PROVE Room'
  <2>1. EndTick(w) /\ UNCHANGED <<slots, active>> /\ granted' = [granted EXCEPT ![w] = {}]
    BY <1>11 DEF ClaimFails
  <2>. QED
    BY <2>1 DEF Room, EndTick
<1>12. ASSUME NEW w \in Worker, NEW t \in TaskId, CancelUnstarted(w, t) PROVE Room'
  BY <1>1, <1>4, <1>12, CancelMemory DEF CancelOne, CancelRest
<1>13. ASSUME NEW w \in Worker, NEW t \in TaskId,
              Reported(w, t) \/ MarkUnobserved(w, t)
       PROVE  Room'
  <2>1. /\ active' = [active EXCEPT ![w] = active[w] \ {t}]
        /\ UNCHANGED <<tick, slots, granted>>
    BY <1>13 DEF Reported, MarkUnobserved, Leave
  <2>. QED
    BY <1>3, <2>1
<1>14. ASSUME \/ OwnerStep
              \/ \E w \in Worker : \/ Start(w) \/ Stop(w) \/ Drain(w) \/ EndDrain(w)
                                  \/ Boot(w) \/ CommitOrphan(w)
       PROVE  UNCHANGED <<tick, slots, granted, active>>
  BY <1>14 DEF OwnerStep, Start, Stop, Drain, EndDrain, Boot, CommitOrphan
<1>15. ASSUME NEW w \in Worker, NEW t \in TaskId,
              \/ Resolve(w, t) \/ Report(w, t) \/ Heartbeat(w, t)
              \/ \E c \in Call : \/ Reserve(w, t, c) \/ Checkpoint(w, t, c)
                                 \/ Dispatch(w, t, c) \/ Settle(w, t, c)
       PROVE  UNCHANGED <<tick, slots, granted, active>>
  <2>1. CASE Resolve(w, t) \/ Report(w, t) \/ Heartbeat(w, t)
    BY <2>1 DEF Resolve, Report, Heartbeat
  <2>. QED
    BY <1>15, <2>1 DEF Reserve, Checkpoint, Dispatch, Settle
<1>16. ASSUME NEW w \in Worker, NEW t \in TaskId,
              Reject(w, t) \/ ReportRefused(w, t) \/ ReportFails(w, t)
       PROVE  UNCHANGED <<tick, slots, granted, active>>
  BY <1>16, LosesTrack
<1>17. ASSUME NEW r \in Worker,
              \/ \E t \in TaskId : Observe(r, t)
              \/ TakeLease(r) \/ Confirm(r) \/ Finish(r) \/ GiveUp(r)
              \/ \E c \in Call : Recover(r, c)
       PROVE  UNCHANGED <<tick, slots, granted, active>>
  BY <1>17 DEF Observe, TakeLease, Confirm, Finish, GiveUp, Recover
<1>18. ASSUME NEW t \in TaskId, WorkerExits(t) \/ Lapse(t) \/ \E c \in Call : Persist(t, c)
       PROVE  UNCHANGED <<tick, slots, granted, active>>
  BY <1>18 DEF WorkerExits, Lapse, Persist
<1>19. UNCHANGED allVars => UNCHANGED <<tick, slots, granted, active>>
  BY DEF allVars
<1>20. Stopping \subseteq Worker
  BY RunnerAssumption
<1>. HIDE DEF Memory
<1>. QED
  BY <1>1, <1>5, <1>6, <1>7, <1>8, <1>9, <1>10, <1>11, <1>12, <1>13, <1>14, <1>15,
     <1>16, <1>17, <1>18, <1>19, <1>20
     DEF RunnerNext, TickStep, ExecutorStep, InvestigationStep

-----------------------------------------------------------------------------
(* Whose task is where.                                                    *)

\* Steps that leave every task in its place and every process at its work.
placement == <<proc, granted, pendingAdmissions, active, exec, alive>>

Elsewhere ==
    \/ OwnerStep
    \/ \E w \in Worker :
          \/ Start(w) \/ Stop(w) \/ Drain(w) \/ EndDrain(w)
          \/ BeginTick(w) \/ ListRunnable(w) \/ RequestClaim(w)
          \/ \E t \in TaskId, c \in Call :
                \/ Reserve(w, t, c) \/ Checkpoint(w, t, c)
                \/ Dispatch(w, t, c) \/ Settle(w, t, c)
          \/ \E t \in TaskId : Heartbeat(w, t)
          \/ \E c \in Call : Recover(w, c)
    \/ \E t \in TaskId : Lapse(t) \/ \E c \in Call : Persist(t, c)
    \/ UNCHANGED allVars

LEMMA ElsewhereQuiet ==
    ASSUME Row, Elsewhere
    PROVE  /\ Quiet
           /\ UNCHANGED <<placement, probe, unobservedTaskIds, admissionUncertain>>
<1>. USE DEF control, admission, execution, world, placement
<1>1. CASE OwnerStep
  BY <1>1, OwnerQuiet DEF OwnerStep
<1>2. ASSUME NEW w \in Worker, Start(w) \/ Stop(w) \/ Drain(w) \/ EndDrain(w)
      PROVE  UNCHANGED <<vars, placement, probe, unobservedTaskIds, admissionUncertain>>
  BY <1>2 DEF Start, Stop, Drain, EndDrain
<1>3. ASSUME NEW w \in Worker, BeginTick(w) \/ ListRunnable(w) \/ RequestClaim(w)
      PROVE  UNCHANGED <<vars, placement, probe, unobservedTaskIds, admissionUncertain>>
  BY <1>3 DEF BeginTick, ListRunnable, RequestClaim
<1>4. ASSUME NEW w \in Worker, NEW t \in TaskId, Heartbeat(w, t)
      PROVE  UNCHANGED <<vars, placement, probe, unobservedTaskIds, admissionUncertain>>
  BY <1>4 DEF Heartbeat
<1>5. ASSUME NEW w \in Worker, NEW t \in TaskId, NEW c \in Call,
             Checkpoint(w, t, c) \/ Dispatch(w, t, c)
      PROVE  UNCHANGED <<vars, placement, probe, unobservedTaskIds, admissionUncertain>>
  BY <1>5 DEF Checkpoint, Dispatch
<1>6. ASSUME NEW t \in TaskId, NEW c \in Call, Persist(t, c)
      PROVE  UNCHANGED <<vars, placement, probe, unobservedTaskIds, admissionUncertain>>
  BY <1>6 DEF Persist
<1>7. ASSUME NEW w \in Worker, NEW t \in TaskId, NEW c \in Call,
             Reserve(w, t, c) \/ Settle(w, t, c)
      PROVE  UNCHANGED <<status, worker, placement, probe, unobservedTaskIds,
                         admissionUncertain>>
  BY <1>7 DEF Reserve, Settle, BeginOperation, SettleOperation
<1>8. ASSUME NEW r \in Worker, NEW c \in Call, Recover(r, c)
      PROVE  UNCHANGED <<status, worker, placement, probe, unobservedTaskIds,
                         admissionUncertain>>
  BY <1>8 DEF Recover, SettleOperation
<1>9. ASSUME NEW t \in TaskId, Lapse(t)
      PROVE  UNCHANGED <<status, worker, placement, probe, unobservedTaskIds,
                         admissionUncertain>>
  BY <1>9 DEF Lapse, LeaseLapses
<1>10. UNCHANGED allVars => UNCHANGED <<vars, placement, probe, unobservedTaskIds,
                                        admissionUncertain>>
  BY DEF allVars
<1>11. ASSUME UNCHANGED vars PROVE UNCHANGED <<status, worker>>
  BY <1>11 DEF vars
<1>. HIDE DEF placement
<1>. QED
  BY <1>1, <1>2, <1>3, <1>4, <1>5, <1>6, <1>7, <1>8, <1>9, <1>10, <1>11,
     SameRowQuiet DEF Elsewhere

\* What is in progress stays with its worker; what is dead stays dead.
LEMMA HeldQuiet ==
    ASSUME Held, Quiet, UNCHANGED <<placement, probe>> PROVE Held'
BY DEF Held, Quiet, Still, placement, Quiescent, OwnerGone, Activity, Released, Terminal

LEMMA HeldByOne ==
    ASSUME Memory, Lives, Held, NEW w \in Worker,
           NEW t \in granted[w] \cup pendingAdmissions[w] \cup active[w]
    PROVE  /\ t \in TaskId
           /\ worker[t] = w /\ proc[w] = "up" /\ ~Quiescent(t)
           /\ t \notin active[w] => status[t] = "running" /\ exec[t] = "none"
           /\ t \in active[w] =>
                 exec[t] \in {"executing", "reporting", "reported", "lost"}
           /\ \A v \in Worker \ {w} :
                 t \notin granted[v] \cup pendingAdmissions[v] \cup active[v]
<1>1. t \in TaskId
  BY DEF Memory
<1>. QED
  BY <1>1 DEF Lives, Held, Quiescent, OwnerGone

\* A batch that is committed meets no process that already holds one of its
\* tasks, and no investigation.
LEMMA HeldClaims ==
    ASSUME Row, Memory, Held, NEW w \in Worker, NEW C \in SUBSET TaskId, Claims(w, C),
           UNCHANGED <<proc, pendingAdmissions, active, exec, alive, probe>>,
           \A v \in Worker : granted'[v] = granted[v] \/ (v = w /\ granted'[v] = C)
    PROVE  Held'
<1>1. \A t \in C : status[t] = "queued" /\ worker[t] = None /\ exec[t] = "none"
                  /\ t \notin alive
  BY DEF Claims, Held, Activity
<1>2. \A v \in Worker : C \cap (granted[v] \cup pendingAdmissions[v] \cup active[v]) = {}
  BY <1>1 DEF Held
<1>3. \A r \in Worker : probe[r].step # "idle" => probe[r].task \in TaskId \ C
  <2>1. None \notin Worker
    BY TeamAssumption
  <2>2. \A r \in Worker : probe[r].step # "idle" => probe[r].task \in TaskId
    BY DEF Memory, Probes, NoProbe
  <2>. QED
    BY <1>1, <2>1, <2>2 DEF Held, Quiescent, OwnerGone
<1>. QED
  BY <1>1, <1>2, <1>3 DEF Held, Claims, Quiescent, OwnerGone, Activity

LEMMA HeldStep ==
    ASSUME Row, Memory, Lives, Held, [RunnerNext]_allVars PROVE Held'
<1>. USE DEF control, admission, execution, world
<1>1. CASE Elsewhere
  BY <1>1, ElsewhereQuiet, HeldQuiet
<1>2. ASSUME NEW w \in Worker, Boot(w) PROVE Held'
  BY <1>2 DEF Boot, Held, Memory, Quiescent, OwnerGone, vars
<1>3. ASSUME NEW w \in Worker, Crash(w) PROVE Held'
  <2>1. \A t \in active[w] : \A v \in Worker \ {w} :
            t \notin granted[v] \cup pendingAdmissions[v] \cup active[v]
    BY HeldByOne
  <2>2. \A t \in active[w] : exec[t] \in {"executing", "reporting", "reported", "lost"}
    BY HeldByOne
  <2>3. /\ UNCHANGED <<status, worker, alive>>
        /\ \A v \in Worker : /\ proc'[v] = IF v = w THEN "dead" ELSE proc[v]
                             /\ granted'[v] = IF v = w THEN {} ELSE granted[v]
                             /\ active'[v] = IF v = w THEN {} ELSE active[v]
                             /\ pendingAdmissions'[v] =
                                    IF v = w THEN {} ELSE pendingAdmissions[v]
                             /\ probe'[v] = IF v = w THEN NoProbe ELSE probe[v]
        /\ \A t \in TaskId : exec'[t] = IF t \in active[w] THEN "over" ELSE exec[t]
    BY <1>3 DEF Crash, Memory, vars
  <2>. QED
    BY <2>1, <2>2, <2>3 DEF Held, Quiescent, OwnerGone, NoProbe
<1>4. ASSUME NEW w \in Worker, CommitOrphan(w) PROVE Held'
  <2>1. PICK limit \in 1..MaxActive : ClaimEnabled(w, limit)
    BY <1>4 DEF CommitOrphan
  <2>2. PICK C \in SUBSET TaskId : Claims(w, C)
    BY <2>1, BatchClaims, RunnerAssumption
  <2>3. UNCHANGED <<proc, granted, pendingAdmissions, active, exec, alive, probe>>
    BY <1>4 DEF CommitOrphan
  <2>. QED
    BY <2>2, <2>3, HeldClaims
<1>5. ASSUME NEW w \in Worker, CommitClaim(w) PROVE Held'
  <2>. DEFINE new == {t \in TaskId : status'[t] # status[t]}
  <2>1. /\ UNCHANGED <<proc, pendingAdmissions, active, exec, alive, probe>>
        /\ granted' = [granted EXCEPT ![w] = new]
    BY <1>5 DEF CommitClaim
  <2>2. Claims(w, new)
    <3>1. CASE executionEnabled
      <4>1. PICK C \in SUBSET TaskId : Claims(w, C)
        BY <1>5, <3>1, BatchClaims DEF CommitClaim, Memory
      <4>2. new = C
        BY <4>1 DEF Claims
      <4>. QED
        BY <4>1, <4>2
    <3>2. CASE ~executionEnabled
      BY <1>5, <3>2 DEF CommitClaim, vars, Claims
    <3>. QED
      BY <3>1, <3>2
  <2>3. new \in SUBSET TaskId
    OBVIOUS
  <2>. HIDE DEF new
  <2>4. \A v \in Worker : granted'[v] = granted[v] \/ (v = w /\ granted'[v] = new)
    BY <2>1 DEF Memory
  <2>. QED
    BY <2>1, <2>2, <2>3, <2>4, HeldClaims
<1>6. ASSUME NEW w \in Worker, ReceiveClaim(w) PROVE Held'
  <2>1. CASE Revoked(w) /\ granted[w] # {}
    BY <1>6, <2>1 DEF ReceiveClaim, Held, Memory, Quiescent, OwnerGone, vars
  <2>2. CASE ~(Revoked(w) /\ granted[w] # {})
    <3>1. \A t \in granted[w] : /\ status[t] = "running" /\ worker[t] = w
                               /\ proc[w] = "up" /\ ~Quiescent(t)
                               /\ \A v \in Worker \ {w} :
                                     t \notin granted[v] \cup pendingAdmissions[v]
                                            \cup active[v]
      <4>. SUFFICES ASSUME NEW t \in granted[w]
                    PROVE  /\ status[t] = "running" /\ worker[t] = w
                           /\ proc[w] = "up" /\ ~Quiescent(t)
                           /\ \A v \in Worker \ {w} :
                                t \notin granted[v] \cup pendingAdmissions[v]
                                       \cup active[v]
        OBVIOUS
      <4>1. t \in TaskId
        BY DEF Memory
      <4>. QED
        BY <4>1, HeldByOne DEF Held
    <3>2. pendingAdmissions[w] = {}
      BY <1>6 DEF ReceiveClaim, Lives
    <3>. QED
      BY <1>6, <2>2, <3>1, <3>2
         DEF ReceiveClaim, Held, Memory, Quiescent, OwnerGone, vars, Activity
  <2>. QED
    BY <2>1, <2>2
<1>7. ASSUME NEW w \in Worker, ClaimFails(w) PROVE Held'
  BY <1>7 DEF ClaimFails, Held, Memory, Quiescent, OwnerGone, vars
<1>8. ASSUME NEW w \in Worker, NEW t \in TaskId, CancelUnstarted(w, t) PROVE Held'
  <2>1. t \in pendingAdmissions[w] /\ pendingAdmissions[w] \subseteq TaskId
        /\ UNCHANGED <<proc, granted, active, exec, alive, probe>>
    BY <1>8, CancelMemory DEF Memory
  <2>2. granted[w] = {}
    BY <1>8, CancelMemory DEF Lives
  <2>3. status[t] = "running" /\ exec[t] = "none" /\ t \notin alive /\ t \notin active[w]
        /\ \A v \in Worker \ {w} :
              t \notin granted[v] \cup pendingAdmissions[v] \cup active[v]
    BY <2>1, HeldByOne DEF Held
  <2>4. \A v \in Worker : /\ pendingAdmissions'[v] \subseteq pendingAdmissions[v]
                          /\ t \in pendingAdmissions'[v] => v # w
    BY <1>8, CancelMemory DEF CancelOne, CancelRest, Memory
  <2>5. Frees(t) \/ Quiet
    <3>1. "cancelled" \in Outcome /\ FALSE \in BOOLEAN
      BY <1>8, RunnerAssumption, CancelMemory DEF Lives
    <3>2. RecordResult(t, "cancelled", FALSE) \/ UNCHANGED vars
      BY <1>8 DEF CancelUnstarted
    <3>. QED
      BY <3>1, <3>2, ResultFrees, SameRowQuiet DEF vars
  <2>. QED
    BY <2>1, <2>2, <2>3, <2>4, <2>5
       DEF Held, Frees, Quiet, Still, Quiescent, OwnerGone, Activity, Released, Terminal
<1>9. ASSUME NEW w \in Worker, NEW t \in TaskId, Resolve(w, t) PROVE Held'
  <2>1. /\ UNCHANGED <<status, worker, proc, granted, pendingAdmissions, active, probe>>
        /\ exec[t] = "executing" /\ alive' = alive \ {t}
        /\ \A u \in TaskId : exec'[u] = IF u = t THEN "reporting" ELSE exec[u]
    BY <1>9 DEF Resolve, Memory, vars
  <2>. QED
    BY <2>1 DEF Held, Quiescent, OwnerGone
<1>10. ASSUME NEW w \in Worker, NEW t \in TaskId,
              Reject(w, t) \/ ReportRefused(w, t) \/ ReportFails(w, t)
       PROVE  Held'
  <2>1. /\ UNCHANGED <<status, worker, proc, granted, pendingAdmissions, active, probe,
                       alive>>
        /\ exec[t] \in {"executing", "reporting", "reported"}
        /\ \A u \in TaskId : exec'[u] = IF u = t THEN "lost" ELSE exec[u]
    BY <1>10, LosesTrack DEF Lost, Memory, vars
  <2>. QED
    BY <2>1 DEF Held, Quiescent, OwnerGone
<1>11. ASSUME NEW w \in Worker, NEW t \in TaskId, Report(w, t) PROVE Held'
  <2>1. Frees(t)
    BY <1>11, ResultFrees DEF Report
  <2>2. /\ UNCHANGED <<proc, granted, pendingAdmissions, active, alive, probe>>
        /\ exec[t] = "reporting" /\ t \in active[w]
        /\ \A u \in TaskId : exec'[u] = IF u = t THEN "reported" ELSE exec[u]
    BY <1>11 DEF Report, Runs, Memory
  <2>. QED
    BY <2>1, <2>2 DEF Held, Frees, Still, Quiescent, OwnerGone, Activity, Released, Terminal
<1>12. ASSUME NEW w \in Worker, NEW t \in TaskId, Reported(w, t) PROVE Held'
  <2>1. /\ UNCHANGED <<status, worker, proc, granted, pendingAdmissions, alive, probe>>
        /\ exec[t] = "reported" /\ t \in active[w]
        /\ \A u \in TaskId : exec'[u] = IF u = t THEN "over" ELSE exec[u]
        /\ \A v \in Worker : active'[v] = IF v = w THEN active[v] \ {t} ELSE active[v]
    BY <1>12 DEF Reported, Runs, Leave, Memory, vars
  <2>2. /\ \A v \in Worker : t \notin active'[v] /\ active'[v] \subseteq active[v]
        /\ \A v \in Worker : t \notin granted[v] \cup pendingAdmissions[v]
        /\ status[t] \notin {"absent", "queued"}
    <3>1. \A v \in Worker \ {w} :
              t \notin granted[v] \cup pendingAdmissions[v] \cup active[v]
      BY <2>1, HeldByOne
    <3>2. t \notin granted[w] \cup pendingAdmissions[w]
      BY <2>1 DEF Held
    <3>3. status[t] \notin {"absent", "queued"}
      BY <2>1 DEF Held
    <3>. QED
      BY <2>1, <3>1, <3>2, <3>3
  <2>. QED
    BY <2>1, <2>2 DEF Held, Quiescent, OwnerGone
<1>13. ASSUME NEW w \in Worker, NEW t \in TaskId, MarkUnobserved(w, t) PROVE Held'
  <2>1. /\ UNCHANGED <<proc, granted, pendingAdmissions, alive, probe>>
        /\ exec[t] = "lost" /\ t \in active[w]
        /\ \A u \in TaskId : exec'[u] = IF u = t THEN "over" ELSE exec[u]
        /\ \A v \in Worker : active'[v] = IF v = w THEN active[v] \ {t} ELSE active[v]
    BY <1>13 DEF MarkUnobserved, Runs, Leave, Memory
  <2>2. /\ \A v \in Worker : t \notin active'[v] /\ active'[v] \subseteq active[v]
        /\ \A v \in Worker : t \notin granted[v] \cup pendingAdmissions[v]
        /\ status[t] \notin {"absent", "queued"}
    <3>1. \A v \in Worker \ {w} :
              t \notin granted[v] \cup pendingAdmissions[v] \cup active[v]
      BY <2>1, HeldByOne
    <3>2. t \notin granted[w] \cup pendingAdmissions[w]
      BY <2>1 DEF Held
    <3>3. status[t] \notin {"absent", "queued"}
      BY <2>1 DEF Held
    <3>. QED
      BY <2>1, <3>1, <3>2, <3>3
  <2>3. Parks(t) \/ Quiet
    BY <1>13, RecoveryParks, SameRowQuiet DEF MarkUnobserved, vars
  <2>. QED
    BY <2>1, <2>2, <2>3
       DEF Held, Parks, Quiet, Still, Quiescent, OwnerGone, Activity, Released, Terminal
<1>14. ASSUME NEW r \in Worker, NEW t \in TaskId, Observe(r, t) PROVE Held'
  <2>1. /\ UNCHANGED <<status, worker, placement>>
        /\ Quiescent(t)
        /\ \A v \in Worker : probe'[v] = probe[v] \/ probe'[v].task = t
    BY <1>14 DEF Observe, Memory, placement, vars
  <2>. QED
    BY <2>1 DEF Held, Quiescent, OwnerGone, placement
<1>15. ASSUME NEW r \in Worker,
              TakeLease(r) \/ Confirm(r) \/ Finish(r) \/ GiveUp(r)
       PROVE  Held'
  <2>. DEFINE t == probe[r].task
  <2>1. t \in TaskId /\ Quiescent(t)
    <3>1. probe[r].step # "idle"
      BY <1>15 DEF TakeLease, Confirm, Finish, GiveUp, Memory, Probes, NoProbe
    <3>. QED
      BY <3>1 DEF Held, Memory, Probes, NoProbe
  <2>2. Idle(r) \/ \E step, l : NextStep(r, step, l)
    BY <1>15 DEF TakeLease, Confirm, Finish, GiveUp
  <2>3. UNCHANGED placement
    BY <1>15 DEF TakeLease, Confirm, Finish, GiveUp, placement
  <2>4. Quiet \/ Parks(t) \/ Frees(t)
    <3>1. CASE TakeLease(r)
      BY <2>1, <3>1, RecoveryParks, SameRowQuiet DEF TakeLease, vars
    <3>2. CASE Finish(r)
      BY <2>1, <3>2, RecoveryFrees, SameRowQuiet DEF Finish, vars
    <3>. QED
      BY <1>15, <3>1, <3>2, SameRowQuiet DEF Confirm, GiveUp, vars
  <2>5. \A v \in Worker : probe'[v].step # "idle" =>
            probe[v].step # "idle" /\ probe'[v].task = probe[v].task
    <3>1. probe[r].step # "idle"
      BY <1>15 DEF TakeLease, Confirm, Finish, GiveUp, Memory, Probes, NoProbe
    <3>. QED
      BY <2>2, <3>1 DEF Idle, NextStep, NoProbe, Memory
  <2>6. \A v \in Worker : t \notin granted[v] \cup pendingAdmissions[v] \cup active[v]
    BY <2>1, HeldByOne
  <2>7. t \notin alive /\ status[t] \notin {"absent", "queued"}
    BY <2>1, TeamAssumption DEF Quiescent, OwnerGone, Held
  <2>. HIDE DEF t
  <2>. QED
    BY <2>1, <2>3, <2>4, <2>5, <2>6, <2>7
       DEF Held, Parks, Frees, Quiet, Still, Quiescent, OwnerGone, Activity,
           Released, Terminal, placement
<1>16. ASSUME NEW t \in TaskId, WorkerExits(t) PROVE Held'
  <2>1. /\ UNCHANGED <<status, worker, proc, granted, pendingAdmissions, active, exec, probe>>
        /\ alive' = alive \ {t}
    BY <1>16 DEF WorkerExits, vars
  <2>. QED
    BY <2>1 DEF Held, Quiescent, OwnerGone
<1>17. Stopping \subseteq Worker
  BY RunnerAssumption
<1>. QED
  BY <1>1, <1>2, <1>3, <1>4, <1>5, <1>6, <1>7, <1>8, <1>9, <1>10, <1>11, <1>12,
     <1>13, <1>14, <1>15, <1>16, <1>17
     DEF RunnerNext, TickStep, ExecutorStep, InvestigationStep, Elsewhere

\* No step lets a process forget a task it has claimed.
LEMMA AccountsStep ==
    ASSUME Row, Memory, Lives, Held, Accounts, [RunnerNext]_allVars PROVE Accounts'
<1>. USE DEF control, admission, execution, world
<1>1. CASE Elsewhere
  BY <1>1, ElsewhereQuiet DEF Accounts, Quiet, Still, placement, Released, Terminal
<1>2. ASSUME NEW w \in Worker, Boot(w) PROVE Accounts'
  BY <1>2 DEF Boot, Accounts, Memory, vars
<1>3. ASSUME NEW w \in Worker, Crash(w) PROVE Accounts'
  <2>1. /\ UNCHANGED <<status, worker, admissionUncertain, unobservedTaskIds>>
        /\ \A v \in Worker : IF v = w
              THEN proc'[v] = "dead" /\ active'[v] = {}
              ELSE /\ proc'[v] = proc[v] /\ active'[v] = active[v]
                   /\ pendingAdmissions'[v] = pendingAdmissions[v]
                   /\ granted'[v] = granted[v]
        /\ \A u \in TaskId : exec'[u] = IF u \in active[w] THEN "over" ELSE exec[u]
    BY <1>3 DEF Crash, Memory, vars
  <2>. QED
    BY <2>1 DEF Accounts
<1>4. ASSUME NEW w \in Worker, CommitOrphan(w) PROVE Accounts'
  <2>1. PICK limit \in 1..MaxActive : ClaimEnabled(w, limit)
    BY <1>4 DEF CommitOrphan
  <2>2. PICK C \in SUBSET TaskId : Claims(w, C)
    BY <2>1, BatchClaims, RunnerAssumption
  <2>3. /\ proc[w] = "dead" \/ (proc[w] = "up" /\ w \in admissionUncertain)
        /\ UNCHANGED <<placement, admissionUncertain, unobservedTaskIds>>
    BY <1>4 DEF CommitOrphan, Lives, placement
  <2>. QED
    BY <2>2, <2>3 DEF Accounts, Claims, placement
<1>5. ASSUME NEW w \in Worker, CommitClaim(w) PROVE Accounts'
  <2>. DEFINE new == {t \in TaskId : status'[t] # status[t]}
  <2>1. /\ UNCHANGED <<proc, pendingAdmissions, active, exec, admissionUncertain,
                       unobservedTaskIds>>
        /\ \A v \in Worker : granted'[v] = IF v = w THEN new ELSE granted[v]
        /\ granted[w] = {} /\ proc[w] = "up"
    BY <1>5 DEF CommitClaim, Lives, Memory
  <2>2. Claims(w, new)
    <3>1. CASE executionEnabled
      <4>1. PICK C \in SUBSET TaskId : Claims(w, C)
        BY <1>5, <3>1, BatchClaims DEF CommitClaim, Memory
      <4>2. new = C
        BY <4>1 DEF Claims
      <4>. QED
        BY <4>1, <4>2
    <3>2. CASE ~executionEnabled
      BY <1>5, <3>2 DEF CommitClaim, vars, Claims
    <3>. QED
      BY <3>1, <3>2
  <2>3. new \subseteq TaskId
    OBVIOUS
  <2>. HIDE DEF new
  <2>. QED
    BY <2>1, <2>2, <2>3 DEF Accounts, Claims
<1>6. ASSUME NEW w \in Worker, ReceiveClaim(w) PROVE Accounts'
  <2>1. /\ UNCHANGED <<status, worker, proc, admissionUncertain, unobservedTaskIds>>
        /\ pendingAdmissions[w] = {}
        /\ \A v \in Worker : granted'[v] = IF v = w THEN {} ELSE granted[v]
    BY <1>6 DEF ReceiveClaim, Lives, Memory, vars
  <2>2. CASE Revoked(w) /\ granted[w] # {}
    <3>1. /\ UNCHANGED <<active, exec>>
          /\ \A v \in Worker : pendingAdmissions'[v] =
                IF v = w THEN granted[w] ELSE pendingAdmissions[v]
      BY <1>6, <2>2 DEF ReceiveClaim, Memory
    <3>. QED
      BY <2>1, <3>1 DEF Accounts
  <2>3. CASE ~(Revoked(w) /\ granted[w] # {})
    <3>1. /\ UNCHANGED pendingAdmissions
          /\ \A v \in Worker : active'[v] =
                IF v = w THEN active[w] \cup granted[w] ELSE active[v]
          /\ \A t \in TaskId : exec'[t] =
                IF t \in granted[w] THEN "executing" ELSE exec[t]
      BY <1>6, <2>3 DEF ReceiveClaim, Memory
    <3>. QED
      BY <2>1, <3>1 DEF Accounts
  <2>. QED
    BY <2>2, <2>3
<1>7. ASSUME NEW w \in Worker, ClaimFails(w) PROVE Accounts'
  <2>1. /\ UNCHANGED <<status, worker, proc, pendingAdmissions, active, exec,
                       unobservedTaskIds>>
        /\ admissionUncertain' = admissionUncertain \cup {w}
        /\ \A v \in Worker : granted'[v] = IF v = w THEN {} ELSE granted[v]
    BY <1>7 DEF ClaimFails, LoseClaim, Memory, vars
  <2>. QED
    BY <2>1 DEF Accounts
<1>8. ASSUME NEW w \in Worker, NEW t \in TaskId, CancelUnstarted(w, t)
      PROVE  Accounts'
  <2>1. UNCHANGED <<proc, granted, active, exec, admissionUncertain>>
    BY <1>8, CancelMemory
  <2>2. "cancelled" \in Outcome /\ FALSE \in BOOLEAN
    BY <1>8, RunnerAssumption, CancelMemory DEF Lives
  <2>3. Frees(t) \/ Quiet
    BY <1>8, <2>2, ResultFrees, SameRowQuiet DEF CancelUnstarted, vars
  <2>4. CASE CancelOne(w, t) /\ Frees(t)
    <3>1. UNCHANGED unobservedTaskIds /\ \A v \in Worker : pendingAdmissions'[v] =
              IF v = w THEN pendingAdmissions[w] \ {t} ELSE pendingAdmissions[v]
      BY <2>4 DEF CancelOne, Memory
    <3>. QED
      BY <2>1, <2>4, <3>1 DEF Accounts, Frees, Still, Released, Terminal
  <2>5. CASE CancelRest(w)
    <3>1. \A v \in Worker : /\ pendingAdmissions'[v] =
                                  IF v = w THEN {} ELSE pendingAdmissions[v]
                            /\ unobservedTaskIds'[v] =
                                  IF v = w THEN unobservedTaskIds[w] \cup pendingAdmissions[w]
                                           ELSE unobservedTaskIds[v]
      BY <2>5 DEF CancelRest, Memory
    <3>. QED
      BY <2>1, <2>3, <3>1 DEF Accounts, Frees, Quiet, Still, Released, Terminal
  <2>6. (CancelOne(w, t) /\ RecordResult(t, "cancelled", FALSE)) \/ CancelRest(w)
    BY <1>8 DEF CancelUnstarted, CancelOne, CancelRest
  <2>. QED
    BY <2>2, <2>4, <2>5, <2>6, ResultFrees
<1>9. ASSUME NEW w \in Worker, NEW t \in TaskId, Resolve(w, t) PROVE Accounts'
  <2>1. /\ UNCHANGED <<status, worker, proc, granted, pendingAdmissions, active,
                       admissionUncertain, unobservedTaskIds>>
        /\ \A u \in TaskId : exec'[u] = IF u = t THEN "reporting" ELSE exec[u]
    BY <1>9 DEF Resolve, Memory, vars
  <2>. QED
    BY <2>1 DEF Accounts
<1>10. ASSUME NEW w \in Worker, NEW t \in TaskId,
              Reject(w, t) \/ ReportRefused(w, t) \/ ReportFails(w, t)
       PROVE  Accounts'
  <2>1. /\ UNCHANGED <<status, worker, proc, granted, pendingAdmissions, active,
                       admissionUncertain>>
        /\ t \in active[w] /\ Lost(w, t)
    BY <1>10, LosesTrack DEF Runs, vars
  <2>2. \A v \in Worker \ {w} : t \notin active[v]
    BY <2>1, HeldByOne
  <2>3. \A u \in TaskId : exec'[u] = IF u = t THEN "lost" ELSE exec[u]
    BY <2>1 DEF Lost, Memory
  <2>4. \A v \in Worker : unobservedTaskIds'[v] =
            IF v = w THEN unobservedTaskIds[w] \cup {t} ELSE unobservedTaskIds[v]
    BY <2>1 DEF Lost, Memory
  <2>. QED
    BY <2>1, <2>2, <2>3, <2>4 DEF Accounts
<1>11. ASSUME NEW w \in Worker, NEW t \in TaskId, Report(w, t) PROVE Accounts'
  <2>1. Frees(t)
    BY <1>11, ResultFrees DEF Report
  <2>2. /\ UNCHANGED <<proc, granted, pendingAdmissions, active, admissionUncertain,
                       unobservedTaskIds>>
        /\ \A u \in TaskId : exec'[u] = IF u = t THEN "reported" ELSE exec[u]
    BY <1>11 DEF Report, Memory
  <2>. QED
    BY <2>1, <2>2 DEF Accounts, Frees, Still, Released, Terminal
<1>12. ASSUME NEW w \in Worker, NEW t \in TaskId, Reported(w, t) \/ MarkUnobserved(w, t)
       PROVE  Accounts'
  <2>1. /\ UNCHANGED <<proc, granted, pendingAdmissions, admissionUncertain,
                       unobservedTaskIds>>
        /\ t \in active[w] /\ exec[t] \in {"reported", "lost"}
        /\ \A u \in TaskId : exec'[u] = IF u = t THEN "over" ELSE exec[u]
        /\ \A v \in Worker : active'[v] = IF v = w THEN active[v] \ {t} ELSE active[v]
    BY <1>12 DEF Reported, MarkUnobserved, Runs, Leave, Memory
  <2>2. Parks(t) \/ Quiet
    BY <1>12, RecoveryParks, SameRowQuiet DEF Reported, MarkUnobserved, vars
  <2>3. status[t] \in Released \/ t \in unobservedTaskIds[w]
    BY <2>1 DEF Held, Accounts
  <2>4. worker[t] = w
    BY <2>1 DEF Held
  <2>5. /\ worker' = worker
        /\ \A u \in TaskId : status[u] \in Released => status'[u] \in Released
    BY <2>2 DEF Parks, Quiet, Still, Released, Terminal, Activity
  <2>6. status'[t] \in Released \/ t \in unobservedTaskIds[w]
    BY <2>3, <2>5
  <2>. SUFFICES ASSUME NEW v \in Worker, NEW u \in TaskId PROVE Accounts!(v, u)'
    BY DEF Accounts
  <2>7. CASE u = t
    BY <2>1, <2>4, <2>5, <2>6, <2>7 DEF Accounts
  <2>8. CASE u # t
    BY <2>1, <2>5, <2>8 DEF Accounts
  <2>. QED
    BY <2>7, <2>8
<1>13. ASSUME NEW r \in Worker,
              \/ \E t \in TaskId : Observe(r, t)
              \/ TakeLease(r) \/ Confirm(r) \/ Finish(r) \/ GiveUp(r)
       PROVE  Accounts'
  <2>1. UNCHANGED <<proc, granted, pendingAdmissions, active, exec, admissionUncertain,
                    unobservedTaskIds>>
    BY <1>13 DEF Observe, TakeLease, Confirm, Finish, GiveUp
  <2>2. Quiet \/ \E t \in TaskId : Parks(t) \/ Frees(t)
    <3>1. probe[r].step # "idle" => probe[r].task \in TaskId
      BY DEF Memory, Probes, NoProbe
    <3>2. CASE TakeLease(r)
      BY <3>1, <3>2, RecoveryParks, SameRowQuiet DEF TakeLease, vars
    <3>3. CASE Finish(r)
      BY <3>1, <3>3, RecoveryFrees, SameRowQuiet DEF Finish, vars
    <3>. QED
      BY <1>13, <3>2, <3>3, SameRowQuiet DEF Observe, Confirm, GiveUp, vars
  <2>. QED
    BY <2>1, <2>2
       DEF Accounts, Parks, Frees, Quiet, Still, Activity, Released, Terminal
<1>14. ASSUME NEW t \in TaskId, WorkerExits(t) PROVE Accounts'
  BY <1>14 DEF WorkerExits, Accounts, vars
<1>15. Stopping \subseteq Worker
  BY RunnerAssumption
<1>. QED
  BY <1>1, <1>2, <1>3, <1>4, <1>5, <1>6, <1>7, <1>8, <1>9, <1>10, <1>11, <1>12,
     <1>13, <1>14, <1>15
     DEF RunnerNext, TickStep, ExecutorStep, InvestigationStep, Elsewhere

-----------------------------------------------------------------------------
(* The theorems.                                                           *)

RunnerInv == Row /\ Memory /\ Lives /\ Room /\ Held /\ Accounts

\* All the layers hold together, whatever crashes, stops or is lost
\* (runner.js, worker.js, reconciler.js).
THEOREM RunnerInvariant == RunnerSpec => []RunnerInv
<1>1. RunnerInit => RunnerInv
  <2>. SUFFICES ASSUME RunnerInit PROVE RunnerInv
    OBVIOUS
  <2>. USE TeamAssumption, RunnerAssumption DEF RunnerInit
  <2>1. Row
    BY RowInit DEF RunnerInit
  <2>2. Memory
    BY DEF Memory, Probes
  <2>3. Lives
    BY DEF Lives, NoProbe
  <2>4. Room
    <3>1. Cardinality({}) = 0
      BY FS_EmptySet
    <3>. QED
      BY <3>1 DEF Room
  <2>5. Held
    BY DEF Held, Init, NoProbe
  <2>6. Accounts
    BY DEF Accounts, Init
  <2>. QED
    BY <2>1, <2>2, <2>3, <2>4, <2>5, <2>6 DEF RunnerInv
<1>2. RunnerInv /\ [RunnerNext]_allVars => RunnerInv'
  <2>. SUFFICES ASSUME RunnerInv, [RunnerNext]_allVars PROVE RunnerInv'
    OBVIOUS
  <2>. USE DEF RunnerInv
  <2>1. Row'
    BY RowSteps, RowStep
  <2>. QED
    BY <2>1, MemoryStep, LivesStep, RoomStep, HeldStep, AccountsStep
<1>. QED
  BY <1>1, <1>2, PTL DEF RunnerSpec

\* Seen through the team row, the processes only ever perform transactions of
\* TeamTasks: every theorem about the row holds of the running system.
THEOREM RunnerImplementsRow == RunnerSpec => Spec
<1>1. RunnerInit => Init
  BY DEF RunnerInit
<1>2. RunnerInv /\ [RunnerNext]_allVars => [Next]_vars
  BY RowSteps DEF RunnerInv
<1>. QED
  BY <1>1, <1>2, RunnerInvariant, PTL DEF RunnerSpec, Spec

\* The memory of every process (the fields of runner.js and reconciler.js) keeps
\* its types, and no bound is passed.
THEOREM RunnerTypeCorrect == RunnerSpec => []RunnerTypeOK
<1>1. RunnerInv => RunnerTypeOK
  BY DEF RunnerInv, Row, Memory, Room, RunnerTypeOK
<1>. QED
  BY <1>1, RunnerInvariant, PTL

\* runTick (runner.js:119): the reply to a claim never takes a process beyond
\* maxActive, for the capacity it read before it asked can only have grown.
THEOREM RunnerCapacity == RunnerSpec => []CapacityRespected
<1>1. RunnerInv => CapacityRespected
  BY DEF RunnerInv, Room, CapacityRespected
<1>. QED
  BY <1>1, RunnerInvariant, PTL

\* drain (runner.js:82): a drain that reported settled told the truth, however
\* many drains overlapped and whatever replies were lost.
THEOREM RunnerDrains == RunnerSpec => []DrainHonest
<1>1. RunnerInv => DrainHonest
  <2>. SUFFICES ASSUME RunnerInv, NEW w \in drained, NEW t \in TaskId, worker[t] = w
                PROVE  status[t] \in Released
    BY DEF DrainHonest
  <2>1. w \in Worker
    BY DEF RunnerInv, Memory
  <2>2. /\ proc[w] = "up" /\ w \notin admissionUncertain
        /\ active[w] \cup pendingAdmissions[w] \cup granted[w]
              \cup unobservedTaskIds[w] = {}
    BY <2>1 DEF RunnerInv, Lives
  <2>. QED
    BY <2>1, <2>2 DEF RunnerInv, Accounts
<1>. QED
  BY <1>1, RunnerInvariant, PTL

\* runTick (runner.js:100, 128): a tick whose generation a stop has revoked
\* launches nothing, also when its claim returns after a new start.
THEOREM RunnerRevokes == RunnerSpec => RevokedNeverLaunches
<1>. DEFINE Step == \A w \in revoked : active'[w] \subseteq active[w]
<1>1. RunnerInv /\ [RunnerNext]_allVars => [Step]_allVars
  <2>. SUFFICES ASSUME RunnerInv, RunnerNext, NEW w \in revoked
                PROVE  active'[w] \subseteq active[w]
    OBVIOUS
  <2>1. w \in Worker
    BY DEF RunnerInv, Memory
  <2>2. ASSUME NEW v \in Worker, ReceiveClaim(v) PROVE active'[w] \subseteq active[w]
    BY <2>1, <2>2 DEF RunnerInv, Memory, ReceiveClaim, Revoked
  <2>3. ASSUME NEW v \in Worker, Crash(v) PROVE active'[w] \subseteq active[w]
    BY <2>1, <2>3 DEF RunnerInv, Memory, Crash
  <2>4. ASSUME NEW v \in Worker, NEW t \in TaskId, Reported(v, t) \/ MarkUnobserved(v, t)
        PROVE  active'[w] \subseteq active[w]
    BY <2>1, <2>4 DEF RunnerInv, Memory, Reported, MarkUnobserved, Leave
  <2>5. ASSUME Elsewhere PROVE active' = active
    BY <2>5, ElsewhereQuiet DEF RunnerInv, placement
  <2>6. ASSUME NEW v \in Worker,
               Boot(v) \/ CommitOrphan(v) \/ CommitClaim(v) \/ ClaimFails(v)
        PROVE  active' = active
    BY <2>6 DEF Boot, CommitOrphan, CommitClaim, ClaimFails, execution
  <2>7. ASSUME NEW v \in Worker, NEW t \in TaskId,
               \/ CancelUnstarted(v, t) \/ Resolve(v, t) \/ Report(v, t)
               \/ Reject(v, t) \/ ReportRefused(v, t) \/ ReportFails(v, t)
        PROVE  active' = active
    BY <2>7, CancelMemory, LosesTrack DEF Resolve, Report
  <2>8. ASSUME NEW r \in Worker,
               \/ \E t \in TaskId : Observe(r, t)
               \/ TakeLease(r) \/ Confirm(r) \/ Finish(r) \/ GiveUp(r)
        PROVE  active' = active
    BY <2>8 DEF Observe, TakeLease, Confirm, Finish, GiveUp, execution
  <2>9. ASSUME NEW t \in TaskId, WorkerExits(t) PROVE active' = active
    BY <2>9 DEF WorkerExits
  <2>10. Stopping \subseteq Worker
    BY RunnerAssumption
  <2>. QED
    BY <2>2, <2>3, <2>4, <2>5, <2>6, <2>7, <2>8, <2>9, <2>10
       DEF RunnerNext, TickStep, ExecutorStep, InvestigationStep, Elsewhere
<1>. QED
  BY <1>1, RunnerInvariant, PTL DEF RunnerSpec, RevokedNeverLaunches

\* What a step may do to one journalled write: reserve it, let it pass its
\* checkpoint, send it, save it, or settle its operation, one at a time.
WriteStep(t, c) ==
    \/ effect'[t][c] = effect[t][c] /\ journal'[t][c] = journal[t][c]
    \/ effect'[t][c] = effect[t][c] /\ journal'[t][c] \in {"started", "unknown"}
    \/ effect'[t][c] = effect[t][c] /\ effect[t][c] # "dispatched"
    \/ /\ journal'[t][c] = journal[t][c]
       /\ \/ /\ effect[t][c] = "none" /\ effect'[t][c] = "cleared"
             /\ t \notin cancelRequested
          \/ /\ effect[t][c] = "cleared" /\ effect'[t][c] = "dispatched"
             /\ t \notin aborted /\ journal[t][c] = "started"
          \/ effect[t][c] = "dispatched" /\ effect'[t][c] = "saved"

LEMMA WriteSteps ==
    ASSUME Row, Memory, [RunnerNext]_allVars, NEW u \in TaskId, NEW d \in Call
    PROVE  WriteStep(u, d)
<1>. USE DEF Memory, Row, TypeOK, effects, world, WriteStep
<1>1. ASSUME NEW w \in Worker, NEW t \in TaskId, NEW c \in Call, Checkpoint(w, t, c)
      PROVE  WriteStep(u, d)
  BY <1>1 DEF Checkpoint, Cleared, MayAct, vars
<1>2. ASSUME NEW w \in Worker, NEW t \in TaskId, NEW c \in Call, Dispatch(w, t, c)
      PROVE  WriteStep(u, d)
  BY <1>2 DEF Dispatch, vars
<1>3. ASSUME NEW t \in TaskId, NEW c \in Call, Persist(t, c) PROVE WriteStep(u, d)
  BY <1>3 DEF Persist, vars
<1>4. ASSUME NEW w \in Worker, NEW t \in TaskId, NEW c \in Call, Reserve(w, t, c)
      PROVE  WriteStep(u, d)
  BY <1>4 DEF Reserve, BeginOperation
<1>5. ASSUME NEW w \in Worker, NEW t \in TaskId, NEW c \in Call, Settle(w, t, c)
      PROVE  WriteStep(u, d)
  <2>1. effect[t][c] \in {"none", "cleared", "dispatched", "saved"}
    OBVIOUS
  <2>2. PICK outcome \in SettledAs(t, c) : SettleOperation(t, c, outcome)
    BY <1>5 DEF Settle
  <2>3. effect[t][c] = "dispatched" => outcome = "unknown"
    BY <2>2 DEF SettledAs
  <2>4. /\ effect' = effect
        /\ journal'[u][d] = IF u = t /\ d = c THEN outcome ELSE journal[u][d]
    BY <1>5, <2>2 DEF Settle, SettleOperation
  <2>. QED
    BY <2>3, <2>4
<1>6. ASSUME NEW r \in Worker, NEW c \in Call, Recover(r, c) PROVE WriteStep(u, d)
  <2>1. probe[r].task \in TaskId
    BY <1>6 DEF Recover, Probes, NoProbe
  <2>2. /\ effect' = effect /\ effect[probe[r].task][c] = "saved"
        /\ journal'[u][d] =
              IF u = probe[r].task /\ d = c THEN "settled" ELSE journal[u][d]
    BY <1>6, <2>1 DEF Recover, ReadBack, SettleOperation
  <2>. QED
    BY <2>2
<1>. HIDE DEF Memory, Row, TypeOK, WriteStep
<1>7. ASSUME UNCHANGED <<journal, effect>> PROVE WriteStep(u, d)
  BY <1>7 DEF WriteStep
<1>8. CASE OwnerStep
  BY <1>7, <1>8 DEF OwnerStep, ConfigureExecution, StopAgent, ResumeAgent, RestEnds,
        Enqueue, ReviewTask
<1>9. ASSUME NEW w \in Worker, \/ Start(w) \/ Stop(w) \/ Drain(w) \/ EndDrain(w)
                               \/ Boot(w) \/ Crash(w)
                               \/ BeginTick(w) \/ ListRunnable(w) \/ RequestClaim(w)
                               \/ ReceiveClaim(w) \/ ClaimFails(w)
      PROVE  UNCHANGED <<journal, effect>>
  BY <1>9 DEF Start, Stop, Drain, EndDrain, Boot, Crash, BeginTick, ListRunnable,
        RequestClaim, ReceiveClaim, ClaimFails, vars
<1>10. ASSUME NEW w \in Worker, CommitClaim(w) \/ CommitOrphan(w)
       PROVE  UNCHANGED <<journal, effect>>
  BY <1>10 DEF CommitClaim, CommitOrphan, ClaimEnabled, vars
<1>11. ASSUME NEW w \in Worker, NEW t \in TaskId,
              \/ Heartbeat(w, t) \/ Resolve(w, t)
              \/ Reject(w, t) \/ ReportRefused(w, t) \/ ReportFails(w, t)
              \/ Reported(w, t) \/ Observe(w, t)
       PROVE  UNCHANGED <<journal, effect>>
  BY <1>11, LosesTrack DEF Heartbeat, Resolve, Reported, Observe, vars
<1>12. ASSUME NEW w \in Worker, NEW t \in TaskId,
              CancelUnstarted(w, t) \/ Report(w, t) \/ MarkUnobserved(w, t)
       PROVE  UNCHANGED <<journal, effect>>
  BY <1>12 DEF CancelUnstarted, Report, MarkUnobserved, RecordResult, Unobserved, vars
<1>13. ASSUME NEW r \in Worker, TakeLease(r) \/ Confirm(r) \/ Finish(r) \/ GiveUp(r)
       PROVE  UNCHANGED <<journal, effect>>
  BY <1>13 DEF TakeLease, Confirm, Finish, GiveUp, BeginReconciliation,
        FinishReconciliation, vars
<1>14. ASSUME NEW t \in TaskId, WorkerExits(t) \/ Lapse(t)
       PROVE  UNCHANGED <<journal, effect>>
  BY <1>14 DEF WorkerExits, Lapse, LeaseLapses, vars
<1>15. UNCHANGED allVars => UNCHANGED <<journal, effect>>
  BY DEF allVars, vars
<1>16. Stopping \subseteq Worker
  BY RunnerAssumption
<1>. QED
  BY <1>1, <1>2, <1>3, <1>4, <1>5, <1>6, <1>7, <1>8, <1>9, <1>10, <1>11, <1>12,
     <1>13, <1>14, <1>15, <1>16
     DEF RunnerNext, TickStep, ExecutorStep, InvestigationStep

\* journaled and run (worker.js:131, reconciler.js:90): whoever settles an
\* operation, the worker or the reconciler, its write is not under way.
THEOREM RunnerSettles == RunnerSpec => []SettledIsOver
<1>1. RunnerInit => SettledIsOver
  BY DEF RunnerInit, SettledIsOver
<1>2. RunnerInv /\ SettledIsOver /\ [RunnerNext]_allVars => SettledIsOver'
  <2>. SUFFICES ASSUME RunnerInv, SettledIsOver, [RunnerNext]_allVars,
                       NEW t \in TaskId, NEW c \in Call
                PROVE  SettledIsOver!(t, c)'
    BY DEF SettledIsOver
  <2>1. WriteStep(t, c)
    BY WriteSteps DEF RunnerInv
  <2>. QED
    BY <2>1 DEF WriteStep, SettledIsOver
<1>. QED
  BY <1>1, <1>2, RunnerInvariant, PTL DEF RunnerSpec

\* journaled (worker.js:131): a recorded stop is seen by every checkpoint still
\* to come, and an abort by every write still to be sent.
THEOREM RunnerStops == RunnerSpec => StopReachesEffects
<1>. DEFINE Step == \A t \in TaskId, c \in Call :
              /\ t \in cancelRequested /\ effect[t][c] = "none" => effect'[t][c] = "none"
              /\ t \in aborted /\ effect[t][c] = "cleared" => effect'[t][c] = "cleared"
<1>1. RunnerInv /\ [RunnerNext]_allVars => [Step]_allVars
  BY WriteSteps DEF RunnerInv, WriteStep
<1>. QED
  BY <1>1, RunnerInvariant, PTL DEF RunnerSpec, StopReachesEffects

-----------------------------------------------------------------------------
(* The refinement of WorkSlots.                                            *)

Launched == {t \in TaskId : exec[t] # "none"}
Freed == {t \in TaskId : status[t] \in Released}

LEMMA SlotsKept ==
    ASSUME Quiet \/ \E t \in TaskId : Parks(t) PROVE Active' = Active /\ Freed' = Freed
BY DEF Quiet, Parks, Still, Active, Freed, Activity, Released, Terminal

LEMMA SlotFreed ==
    ASSUME NEW t \in TaskId, Frees(t)
    PROVE  t \in Active /\ Active' = Active \ {t} /\ Freed' = Freed \cup {t}
BY DEF Frees, Still, Active, Freed, Activity, Released, Terminal

LEMMA SlotsTaken ==
    ASSUME NEW w \in Worker, NEW C \in SUBSET TaskId, Claims(w, C)
    PROVE  /\ C \cap (Active \cup Freed) = {}
           /\ Active' = Active \cup C /\ Freed' = Freed
BY DEF Claims, Active, Freed, Activity, Released, Terminal

LEMMA SlotSteps ==
    ASSUME RunnerInv, ConcurrencyBound', [RunnerNext]_allVars
    PROVE  [Slots!Next]_(Slots!slotVars)
<1>. USE DEF RunnerInv
<1>0. /\ Slots!Next <=>
            \/ \E S \in SUBSET TaskId : Slots!Admit(S) \/ Slots!Launch(S)
            \/ \E t \in TaskId : Slots!End(t) \/ Slots!Free(t)
      /\ UNCHANGED <<Active, Launched, alive, Freed>> => UNCHANGED Slots!slotVars
  BY DEF Slots!Next, Slots!slotVars, Launched, Freed
<1>1. ASSUME NEW w \in Worker, NEW C \in SUBSET TaskId, Claims(w, C),
             UNCHANGED <<exec, alive>>
      PROVE  Slots!Admit(C)
  <2>1. Cardinality(Active \cup C) <= Concurrency
    BY <1>1, SlotsTaken DEF ConcurrencyBound
  <2>2. /\ C \cap (Active \cup Freed) = {}
        /\ Active' = Active \cup C /\ Freed' = Freed
    BY <1>1, SlotsTaken
  <2>3. Launched' = Launched /\ alive' = alive
    BY <1>1 DEF Launched
  <2>4. Slots!Cardinality(Active \cup C) = Cardinality(Active \cup C)
    BY DEF Slots!Cardinality, Cardinality
  <2>. QED
    BY <2>1, <2>2, <2>3, <2>4 DEF Slots!Admit, Launched, Freed
<1>2. ASSUME NEW t \in TaskId, t \notin alive, Frees(t),
             UNCHANGED <<Launched, alive>>
      PROVE  Slots!Free(t)
  BY <1>2, SlotFreed DEF Slots!Free, Launched, Freed
<1>3. ASSUME Quiet \/ \E t \in TaskId : Parks(t), UNCHANGED <<Launched, alive>>
      PROVE  UNCHANGED Slots!slotVars
  BY <1>0, <1>3, SlotsKept
<1>4. ASSUME NEW t \in TaskId, t \in alive, alive' = alive \ {t},
             UNCHANGED <<vars, Launched>>
      PROVE  Slots!End(t)
  <2>1. Active' = Active /\ Freed' = Freed
    BY <1>4, SlotsKept, SameRowQuiet DEF vars
  <2>. QED
    BY <1>4, <2>1 DEF Slots!End, Launched, Freed
<1>5. exec \in [TaskId -> {"none", "executing", "reporting", "reported", "lost", "over"}]
  BY DEF Memory
<1>6. ASSUME Elsewhere PROVE UNCHANGED Slots!slotVars
  BY <1>3, <1>6, ElsewhereQuiet DEF placement, Launched
<1>7. ASSUME NEW w \in Worker, Boot(w) \/ ClaimFails(w) PROVE UNCHANGED Slots!slotVars
  BY <1>3, <1>7, SameRowQuiet DEF Boot, ClaimFails, execution, Launched, vars
<1>8. ASSUME NEW w \in Worker, Crash(w) PROVE UNCHANGED Slots!slotVars
  <2>1. \A t \in active[w] : exec[t] # "none"
    BY HeldByOne
  <2>2. UNCHANGED <<status, worker, alive>>
        /\ \A t \in TaskId : exec'[t] = IF t \in active[w] THEN "over" ELSE exec[t]
    BY <1>8 DEF Crash, vars
  <2>. QED
    BY <1>3, <2>1, <2>2, SameRowQuiet DEF Launched
<1>9. ASSUME NEW w \in Worker, CommitOrphan(w) PROVE Slots!Next
  <2>1. PICK limit \in 1..MaxActive : ClaimEnabled(w, limit)
    BY <1>9 DEF CommitOrphan
  <2>2. PICK C \in SUBSET TaskId : Claims(w, C)
    BY <2>1, BatchClaims, RunnerAssumption
  <2>. QED
    BY <1>0, <1>1, <1>9, <2>2 DEF CommitOrphan, execution
<1>10. ASSUME NEW w \in Worker, CommitClaim(w) PROVE [Slots!Next]_(Slots!slotVars)
  <2>1. UNCHANGED <<exec, alive>>
    BY <1>10 DEF CommitClaim, execution
  <2>2. CASE executionEnabled
    <3>1. PICK C \in SUBSET TaskId : Claims(w, C)
      BY <1>10, <2>2, BatchClaims DEF CommitClaim, Memory
    <3>. QED
      BY <1>0, <1>1, <2>1, <3>1
  <2>3. CASE ~executionEnabled
    BY <1>3, <1>10, <2>1, <2>3, SameRowQuiet DEF CommitClaim, vars, Launched
  <2>. QED
    BY <2>2, <2>3
<1>11. ASSUME NEW w \in Worker, ReceiveClaim(w) PROVE [Slots!Next]_(Slots!slotVars)
  <2>1. UNCHANGED <<status, worker>>
    BY <1>11 DEF ReceiveClaim, vars
  <2>2. CASE Revoked(w) /\ granted[w] # {}
    BY <1>3, <1>11, <2>1, <2>2, SameRowQuiet DEF ReceiveClaim, Launched
  <2>3. CASE ~(Revoked(w) /\ granted[w] # {})
    <3>1. granted[w] \in SUBSET TaskId /\ granted[w] \subseteq Active \ Launched
      BY DEF Memory, Held, Active, Activity, Launched
    <3>2. PICK S \in SUBSET TaskId : S = granted[w]
      BY <3>1
    <3>3. /\ alive' = alive \cup S
          /\ \A t \in TaskId : exec'[t] = IF t \in S THEN "executing" ELSE exec[t]
      BY <1>11, <2>3, <3>2 DEF ReceiveClaim
    <3>4. Launched' = Launched \cup S
      BY <3>3 DEF Launched
    <3>5. Active' = Active /\ Freed' = Freed
      BY <2>1, SlotsKept, SameRowQuiet
    <3>6. Slots!Launch(S)
      BY <3>1, <3>2, <3>3, <3>4, <3>5 DEF Slots!Launch, Launched, Freed
    <3>. QED
      BY <1>0, <3>6
  <2>. QED
    BY <2>2, <2>3
<1>12. ASSUME NEW w \in Worker, NEW t \in TaskId, CancelUnstarted(w, t)
       PROVE  [Slots!Next]_(Slots!slotVars)
  <2>1. UNCHANGED <<Launched, alive>> /\ t \notin alive
    <3>1. t \in pendingAdmissions[w] /\ UNCHANGED <<exec, alive>>
      BY <1>12, CancelMemory
    <3>. QED
      BY <3>1, HeldByOne DEF Held, Launched
  <2>2. "cancelled" \in Outcome /\ FALSE \in BOOLEAN
    BY <1>12, RunnerAssumption, CancelMemory DEF Lives
  <2>3. Frees(t) \/ Quiet
    BY <1>12, <2>2, ResultFrees, SameRowQuiet DEF CancelUnstarted, vars
  <2>. QED
    BY <1>0, <1>2, <1>3, <2>1, <2>3
<1>13. ASSUME NEW w \in Worker, NEW t \in TaskId, Resolve(w, t) PROVE Slots!Next
  <2>1. /\ t \in alive /\ alive' = alive \ {t} /\ UNCHANGED vars
        /\ exec[t] = "executing" /\ exec' = [exec EXCEPT ![t] = "reporting"]
    BY <1>13 DEF Resolve
  <2>2. UNCHANGED Launched
    BY <1>5, <2>1 DEF Launched
  <2>. QED
    BY <1>0, <1>4, <2>1, <2>2
<1>14. ASSUME NEW w \in Worker, NEW t \in TaskId,
              Reject(w, t) \/ ReportRefused(w, t) \/ ReportFails(w, t)
       PROVE  UNCHANGED Slots!slotVars
  <2>1. /\ UNCHANGED <<status, worker, alive>>
        /\ exec[t] # "none" /\ exec' = [exec EXCEPT ![t] = "lost"]
    BY <1>14, LosesTrack DEF Lost, vars
  <2>2. UNCHANGED Launched
    BY <1>5, <2>1 DEF Launched
  <2>. QED
    BY <1>3, <2>1, <2>2, SameRowQuiet
<1>15. ASSUME NEW w \in Worker, NEW t \in TaskId, Report(w, t) PROVE Slots!Next
  <2>1. exec[t] = "reporting" /\ exec' = [exec EXCEPT ![t] = "reported"] /\ alive' = alive
    BY <1>15 DEF Report
  <2>2. UNCHANGED Launched /\ t \notin alive
    BY <1>5, <2>1 DEF Launched, Held
  <2>. QED
    BY <1>0, <1>2, <1>15, <2>1, <2>2, ResultFrees DEF Report
<1>16. ASSUME NEW w \in Worker, NEW t \in TaskId, Reported(w, t) \/ MarkUnobserved(w, t)
       PROVE  UNCHANGED Slots!slotVars
  <2>1. /\ exec[t] \in {"reported", "lost"} /\ exec' = [exec EXCEPT ![t] = "over"]
        /\ alive' = alive
    BY <1>16 DEF Reported, MarkUnobserved, Leave
  <2>2. UNCHANGED Launched
    BY <1>5, <2>1 DEF Launched
  <2>3. Quiet \/ Parks(t)
    BY <1>16, RecoveryParks, SameRowQuiet DEF Reported, MarkUnobserved, vars
  <2>. QED
    BY <1>3, <2>1, <2>2, <2>3
<1>17. ASSUME NEW r \in Worker,
              \/ \E t \in TaskId : Observe(r, t)
              \/ TakeLease(r) \/ Confirm(r) \/ Finish(r) \/ GiveUp(r)
       PROVE  [Slots!Next]_(Slots!slotVars)
  <2>1. UNCHANGED <<Launched, alive>>
    BY <1>17 DEF Observe, TakeLease, Confirm, Finish, GiveUp, execution, Launched
  <2>2. probe[r].step # "idle" =>
            probe[r].task \in TaskId /\ probe[r].task \notin alive
    BY DEF Held, Quiescent, Memory, Probes, NoProbe
  <2>3. CASE TakeLease(r)
    BY <1>3, <2>1, <2>2, <2>3, RecoveryParks, SameRowQuiet DEF TakeLease, vars
  <2>4. CASE Finish(r)
    <3>1. \/ Frees(probe[r].task)
          \/ Quiet
      BY <2>2, <2>4, RecoveryFrees, SameRowQuiet DEF Finish, vars
    <3>. QED
      BY <1>0, <1>2, <1>3, <2>1, <2>2, <2>4, <3>1 DEF Finish
  <2>5. CASE (\E t \in TaskId : Observe(r, t)) \/ Confirm(r) \/ GiveUp(r)
    BY <1>3, <2>1, <2>5, SameRowQuiet DEF Observe, Confirm, GiveUp, vars
  <2>. QED
    BY <1>17, <2>3, <2>4, <2>5
<1>18. ASSUME NEW t \in TaskId, WorkerExits(t) PROVE Slots!Next
  BY <1>0, <1>4, <1>18 DEF WorkerExits, Launched
<1>19. Stopping \subseteq Worker
  BY RunnerAssumption
<1>. HIDE DEF RunnerInv
<1>. QED
  BY <1>6, <1>7, <1>8, <1>9, <1>10, <1>11, <1>12, <1>13, <1>14, <1>15, <1>16, <1>17,
     <1>18, <1>19
     DEF RunnerNext, TickStep, ExecutorStep, InvestigationStep, Elsewhere

\* The running system implements WorkSlots: a slot is taken only below the
\* limit, by tasks that are then launched at most once, and given back only when
\* no worker may act for the task.  Every other step leaves the slots alone.
THEOREM RunnerImplementsSlots == RunnerSpec => SlotsRespected
<1>1. RunnerInit => Slots!Init
  BY DEF RunnerInit, Init, Slots!Init, Active, Activity, Released, Terminal
<1>2. RunnerInv /\ ConcurrencyBound' /\ [RunnerNext]_allVars
          => [Slots!Next]_(Slots!slotVars)
  BY SlotSteps
<1>. QED
  BY <1>1, <1>2, RunnerImplementsRow, ConcurrencyRespected, RunnerInvariant, PTL
     DEF RunnerSpec, SlotsRespected, Slots!Spec

\* domain.js:357 and service.js:581 with runner.js around them: whatever workers
\* lose, repeat or leave behind, everything the row promises holds while they run.
THEOREM RunnerKeepsRow ==
    RunnerSpec => /\ [](/\ ConcurrencyBound /\ OneTaskPerAgent /\ DisjointWrites
                        /\ DependenciesAccepted /\ QuietWhenReleased
                        /\ IndependentReview)
                  /\ StopSticks /\ ExecutedAtMostOnce /\ TurnsHonored
  BY RunnerImplementsRow, ConcurrencyRespected, ActiveTasksApart,
     AcceptedBeforeUse, RestedWhenReleased, VerdictsIndependent, StopsLast,
     ClaimedOnce, TurnsAreHonored, PTL
=============================================================================
