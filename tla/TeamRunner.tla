----------------------------- MODULE TeamRunner -----------------------------
(***************************************************************************)
(* Backend processes that execute the tasks of one team: TeamRunner        *)
(* (agent-teams/runner.js) claims and launches, TeamReconciler             *)
(* (reconciler.js) frees the slots of executors that are proven gone, and  *)
(* both reach the durable row of TeamTasks only through transactions whose *)
(* reply may be lost after the commit.                                     *)
(*                                                                         *)
(* A step of a process runs from one await to the next.  A process may     *)
(* crash at any await; its boot identity never comes back, and a worker it *)
(* launched may outlive it.  Evidence of quiescence is truthful: that is   *)
(* what the deployment's observer must provide.  Every call in Call is an  *)
(* artifact write here, the one kind the reconciler can read back.         *)
(***************************************************************************)
EXTENDS TeamTasks

CONSTANTS
    MaxActive,      \* maxActive of a runner
    MaxDrains,      \* bound on drain() calls in progress at once
    MaxFaults,      \* bound on lost replies, failed calls and given-up probes
    Crashable,      \* processes that may crash
    Stopping        \* processes whose runner is ever stopped or drained

ASSUME RunnerAssumption ==
    /\ MaxActive \in Nat \ {0} /\ MaxDrains \in Nat /\ MaxFaults \in Nat
    /\ Crashable \subseteq Worker /\ Stopping \subseteq Worker
    /\ Stopping # {} => "cancelled" \in Outcome

VARIABLES
    proc,                   \* unborn, up or dead: the boot of each process
    stopped,                \* runners with this.stopped
    revoked,                \* runners whose tick has seen the generation change
    tick,                   \* where runTick waits
    beats,                  \* tasks the tick has still to heartbeat
    slots,                  \* limit of the claim request that was sent
    granted,                \* tasks claimed in the reply on its way
    pendingAdmissions,      \* tasks claimed and not yet launched or cancelled
    active,                 \* this.active
    aborted,                \* tasks whose AbortController has fired
    unobservedTaskIds,
    admissionUncertain,     \* runners that lost the reply to a claim
    draining,
    drainBlocked,
    drained,                \* history: the last drain settled, no start since
    orphan,                 \* claims whose caller has gone; they may still commit
    exec,                   \* where process(task) waits
    alive,                  \* tasks whose worker may still act
    effect,                 \* what has become of each journalled write
    probe,                  \* the investigation each reconciler is in
    faults

control == <<proc, stopped, revoked, draining, drainBlocked, drained>>
admission == <<tick, beats, slots, granted, pendingAdmissions,
               admissionUncertain, orphan>>
execution == <<active, aborted, unobservedTaskIds, exec, alive>>
world == <<effect, probe, faults>>
allVars == <<vars, control, admission, execution, world>>

NoProbe == [step |-> "idle", task |-> NoTask, lease |-> 0]
Probes == {NoProbe} \cup
    [step : {"observed", "leased", "confirmed"}, task : TaskId,
     lease : 0..MaxLeases]

\* Types of the processes' memory; the row's types are TypeOK.
RunnerTypeOK ==
    /\ TypeOK
    /\ proc \in [Worker -> {"unborn", "up", "dead"}]
    /\ {stopped, revoked, admissionUncertain, drainBlocked, drained, orphan}
            \subseteq SUBSET Worker
    /\ tick \in [Worker -> {"idle", "beating", "listing", "claiming",
                            "granted", "cancelling"}]
    /\ {beats, granted, pendingAdmissions, active, unobservedTaskIds}
            \subseteq [Worker -> SUBSET TaskId]
    /\ slots \in [Worker -> 0..MaxActive]
    /\ draining \in [Worker -> 0..MaxDrains]
    /\ aborted \subseteq TaskId /\ alive \subseteq TaskId
    /\ exec \in [TaskId -> {"none", "executing", "reporting", "reported",
                            "lost", "over"}]
    /\ effect \in [TaskId -> [Call -> {"none", "cleared", "dispatched", "saved"}]]
    /\ probe \in [Worker -> Probes]
    /\ faults \in 0..MaxFaults

RunnerInit ==
    /\ Init
    /\ proc = [w \in Worker |-> "unborn"]
    /\ stopped = {} /\ revoked = {} /\ admissionUncertain = {}
    /\ drainBlocked = {} /\ drained = {} /\ orphan = {}
    /\ tick = [w \in Worker |-> "idle"]
    /\ beats = [w \in Worker |-> {}]
    /\ slots = [w \in Worker |-> 0]
    /\ granted = [w \in Worker |-> {}]
    /\ pendingAdmissions = [w \in Worker |-> {}]
    /\ active = [w \in Worker |-> {}]
    /\ unobservedTaskIds = [w \in Worker |-> {}]
    /\ draining = [w \in Worker |-> 0]
    /\ aborted = {} /\ alive = {}
    /\ exec = [t \in TaskId |-> "none"]
    /\ effect = [t \in TaskId |-> [c \in Call |-> "none"]]
    /\ probe = [w \in Worker |-> NoProbe]
    /\ faults = 0

Fault == faults < MaxFaults /\ faults' = faults + 1

-----------------------------------------------------------------------------
(* Processes and the runner's own life: start, stop, drain.                *)

Boot(w) ==
    /\ proc[w] = "unborn"
    /\ proc' = [proc EXCEPT ![w] = "up"]
    /\ UNCHANGED <<vars, stopped, revoked, draining, drainBlocked, drained,
                   admission, execution, world>>

\* What was in memory is gone; what was sent may still arrive.
Crash(w) ==
    /\ w \in Crashable /\ proc[w] = "up"
    /\ proc' = [proc EXCEPT ![w] = "dead"]
    /\ tick' = [tick EXCEPT ![w] = "idle"]
    /\ orphan' = IF tick[w] = "claiming" THEN orphan \cup {w} ELSE orphan
    /\ granted' = [granted EXCEPT ![w] = {}]
    /\ active' = [active EXCEPT ![w] = {}]
    /\ exec' = [t \in TaskId |-> IF t \in active[w] THEN "over" ELSE exec[t]]
    /\ probe' = [probe EXCEPT ![w] = NoProbe]
    /\ beats' = [beats EXCEPT ![w] = {}]
    /\ pendingAdmissions' = [pendingAdmissions EXCEPT ![w] = {}]
    /\ drained' = drained \ {w}
    /\ UNCHANGED <<vars, stopped, revoked, draining, drainBlocked, slots,
                   admissionUncertain, aborted, unobservedTaskIds, alive,
                   effect, faults>>

Start(w) ==
    /\ proc[w] = "up" /\ w \in stopped
    /\ draining[w] = 0 /\ w \notin drainBlocked
    /\ stopped' = stopped \ {w}
    /\ drained' = drained \ {w}
    /\ UNCHANGED <<vars, proc, revoked, draining, drainBlocked, admission,
                   execution, world>>

Halt(w) ==
    /\ stopped' = stopped \cup {w}
    /\ revoked' = revoked \cup {w}
    /\ aborted' = aborted \cup active[w]

Stop(w) ==
    /\ proc[w] = "up" /\ w \notin stopped
    /\ Halt(w)
    /\ UNCHANGED <<vars, proc, draining, drainBlocked, drained, admission,
                   active, unobservedTaskIds, exec, alive, world>>

Drain(w) ==
    /\ proc[w] = "up" /\ draining[w] < MaxDrains
    /\ draining' = [draining EXCEPT ![w] = @ + 1]
    /\ drainBlocked' = drainBlocked \cup {w}
    /\ Halt(w)
    /\ UNCHANGED <<vars, proc, drained, admission, active, unobservedTaskIds,
                   exec, alive, world>>

\* What drain() reports.  The wait ends when the work does or at the deadline,
\* so at any moment.
DrainSettled_ActiveOnly(w) == tick[w] = "idle" /\ active[w] = {}
DrainSettled(w) ==
    /\ tick[w] = "idle"
    /\ w \notin admissionUncertain
    /\ active[w] \cup pendingAdmissions[w] \cup unobservedTaskIds[w] = {}

\* The finally block; it also ends a drain that failed early.
Uncounted(w) == draining' = [draining EXCEPT ![w] = @ - 1]

EndDrain(w) ==
    /\ proc[w] = "up" /\ draining[w] > 0
    /\ Uncounted(w)
    /\ IF DrainSettled(w)
       THEN drainBlocked' = drainBlocked \ {w} /\ drained' = drained \cup {w}
       ELSE drainBlocked' = drainBlocked \cup {w} /\ drained' = drained \ {w}
    /\ UNCHANGED <<vars, proc, stopped, revoked, admission, execution, world>>

-----------------------------------------------------------------------------
(* One tick: heartbeats, then a claim, then its launches.                  *)

BeginTick(w) ==
    /\ proc[w] = "up" /\ tick[w] = "idle" /\ w \notin stopped
    /\ tick' = [tick EXCEPT ![w] = "beating"]
    /\ beats' = [beats EXCEPT ![w] = active[w]]
    /\ revoked' = revoked \ {w}
    /\ UNCHANGED <<vars, proc, stopped, draining, drainBlocked, drained, slots,
                   granted, pendingAdmissions, admissionUncertain, orphan,
                   execution, world>>

\* heartbeat() refuses a claim that is no longer running, else tells whether
\* the work is no longer wanted.  Either aborts the executor, as a failed call.
Unwanted_ByAgent(t) == status[t] # "running" \/ spec[t].agent \notin enabled
Unwanted(t) == ~MayAct(t)

Heartbeat(w, t) ==
    /\ tick[w] = "beating" /\ t \in beats[w]
    /\ beats' = [beats EXCEPT ![w] = @ \ {t}]
    /\ \/ /\ aborted' = IF Unwanted(t) /\ t \in active[w] THEN aborted \cup {t}
                                                          ELSE aborted
          /\ UNCHANGED faults
       \/ Fault /\ aborted' = aborted \cup (active[w] \cap {t})
    /\ UNCHANGED <<vars, control, tick, slots, granted, pendingAdmissions,
                   admissionUncertain, orphan, active, unobservedTaskIds, exec,
                   alive, effect, probe>>

EndTick(w) == tick' = [tick EXCEPT ![w] = "idle"]

\* After the heartbeats: give up, or ask for the runnable teams.
ListRunnable(w) ==
    /\ tick[w] = "beating" /\ beats[w] = {}
    /\ IF w \in revoked \/ Cardinality(active[w]) >= MaxActive
       THEN EndTick(w) ELSE tick' = [tick EXCEPT ![w] = "listing"]
    /\ UNCHANGED <<vars, control, beats, slots, granted, pendingAdmissions,
                   admissionUncertain, orphan, execution, world>>

\* The remaining capacity is read when the request is sent.
Limit_Whole(w) == MaxActive
Limit(w) == MaxActive - Cardinality(active[w])

RequestClaim(w) ==
    /\ tick[w] = "listing"
    /\ IF w \in revoked \/ ~executionEnabled
       THEN EndTick(w) /\ UNCHANGED slots
       ELSE /\ tick' = [tick EXCEPT ![w] = "claiming"]
            /\ slots' = [slots EXCEPT ![w] = Limit(w)]
    /\ UNCHANGED <<vars, control, beats, granted, pendingAdmissions,
                   admissionUncertain, orphan, execution, world>>

CommitClaim(w) ==
    /\ tick[w] = "claiming"
    /\ IF executionEnabled THEN ClaimEnabled(w, slots[w]) ELSE UNCHANGED vars
    /\ granted' = [granted EXCEPT ![w] = {t \in TaskId : status'[t] # status[t]}]
    /\ tick' = [tick EXCEPT ![w] = "granted"]
    /\ UNCHANGED <<control, beats, slots, pendingAdmissions,
                   admissionUncertain, orphan, execution, world>>

\* The claimed tasks are launched in one turn of the event loop, unless a stop
\* came in between: then each is cancelled before it has started.
Revoked_StoppedNow(w) == w \in stopped
Revoked(w) == w \in revoked

ReceiveClaim(w) ==
    /\ tick[w] = "granted"
    /\ granted' = [granted EXCEPT ![w] = {}]
    /\ IF Revoked(w) /\ granted[w] # {}
       THEN /\ tick' = [tick EXCEPT ![w] = "cancelling"]
            /\ pendingAdmissions' =
                    [pendingAdmissions EXCEPT ![w] = granted[w]]
            /\ UNCHANGED <<active, exec, alive>>
       ELSE /\ EndTick(w)
            /\ active' = [active EXCEPT ![w] = @ \cup granted[w]]
            /\ exec' = [t \in TaskId |->
                          IF t \in granted[w] THEN "executing" ELSE exec[t]]
            /\ alive' = alive \cup granted[w]
            /\ UNCHANGED pendingAdmissions
    /\ UNCHANGED <<vars, control, beats, slots, admissionUncertain, orphan,
                   aborted, unobservedTaskIds, world>>

\* The call fails: rolled back, committed already, or to be committed later.
LoseClaim(w) == admissionUncertain' = admissionUncertain \cup {w}

ClaimFails(w) ==
    /\ tick[w] \in {"claiming", "granted"}
    /\ Fault
    /\ LoseClaim(w)
    /\ EndTick(w)
    /\ granted' = [granted EXCEPT ![w] = {}]
    /\ orphan' \in IF tick[w] = "claiming" THEN {orphan, orphan \cup {w}}
                                          ELSE {orphan}
    /\ UNCHANGED <<vars, control, beats, slots, pendingAdmissions, execution,
                   effect, probe>>

CommitOrphan(w) ==
    /\ w \in orphan
    /\ orphan' = orphan \ {w}
    /\ \E limit \in 1..MaxActive : ClaimEnabled(w, limit)
    /\ UNCHANGED <<control, tick, beats, slots, granted, pendingAdmissions,
                   admissionUncertain, execution, world>>

CancelUnstarted(w, t) ==
    /\ tick[w] = "cancelling"
    /\ t \in pendingAdmissions[w] /\ \A u \in pendingAdmissions[w] : t <= u
    /\ \/ /\ RecordResult(t, "cancelled", FALSE)
          /\ pendingAdmissions' = [pendingAdmissions EXCEPT ![w] = @ \ {t}]
          /\ IF pendingAdmissions[w] = {t} THEN EndTick(w) ELSE UNCHANGED tick
          /\ UNCHANGED <<unobservedTaskIds, faults>>
       \/ /\ Fault
          /\ RecordResult(t, "cancelled", FALSE) \/ UNCHANGED vars
          /\ EndTick(w)
          /\ pendingAdmissions' = [pendingAdmissions EXCEPT ![w] = {}]
          /\ unobservedTaskIds' =
                [unobservedTaskIds EXCEPT ![w] = @ \cup pendingAdmissions[w]]
    /\ UNCHANGED <<control, beats, slots, granted, admissionUncertain, orphan,
                   active, aborted, exec, alive, effect, probe>>

-----------------------------------------------------------------------------
(* process(team, task): the executor, its report, or the loss of it.       *)

Runs(w, t) == proc[w] = "up" /\ t \in active[w]

\* execute() resolves: the adapter has observed the end of the work.
Resolve(w, t) ==
    /\ Runs(w, t) /\ exec[t] = "executing" /\ t \in alive
    /\ exec' = [exec EXCEPT ![t] = "reporting"]
    /\ alive' = alive \ {t}
    /\ UNCHANGED <<vars, control, admission, active, aborted,
                   unobservedTaskIds, world>>

\* The catch branch: what the executor did is no longer known.
Lost(w, t) ==
    /\ exec' = [exec EXCEPT ![t] = "lost"]
    /\ unobservedTaskIds' = [unobservedTaskIds EXCEPT ![w] = @ \cup {t}]

\* execute() rejects; a worker elsewhere may well be running on.
Reject(w, t) ==
    /\ Runs(w, t) /\ exec[t] = "executing"
    /\ Lost(w, t)
    /\ UNCHANGED <<vars, control, admission, active, aborted, alive, world>>

Report(w, t) ==
    /\ Runs(w, t) /\ exec[t] = "reporting"
    /\ \E outcome \in Outcome, verified \in BOOLEAN :
            RecordResult(t, outcome, verified)
    /\ exec' = [exec EXCEPT ![t] = "reported"]
    /\ UNCHANGED <<control, admission, active, aborted, unobservedTaskIds,
                   alive, world>>

\* recordResult refuses: an effect is unsettled, or the claim is fenced.
ReportRefused(w, t) ==
    /\ Runs(w, t) /\ exec[t] = "reporting"
    /\ ~(MayRecord(t) /\ Settled(t))
    /\ Lost(w, t)
    /\ UNCHANGED <<vars, control, admission, active, aborted, alive, world>>

ReportFails(w, t) ==
    /\ Runs(w, t) /\ exec[t] \in {"reporting", "reported"}
    /\ Fault /\ Lost(w, t)
    /\ UNCHANGED <<vars, control, admission, active, aborted, alive, effect,
                   probe>>

Leave(w, t) ==
    /\ exec' = [exec EXCEPT ![t] = "over"]
    /\ active' = [active EXCEPT ![w] = @ \ {t}]

Reported(w, t) ==
    /\ Runs(w, t) /\ exec[t] = "reported"
    /\ Leave(w, t)
    /\ UNCHANGED <<vars, control, admission, aborted, unobservedTaskIds, alive,
                   world>>

\* unobserved() marks the task, finds nothing to mark, or fails unnoticed.
MarkUnobserved(w, t) ==
    /\ Runs(w, t) /\ exec[t] = "lost"
    /\ Leave(w, t)
    /\ \/ Unobserved(t) /\ UNCHANGED faults
       \/ status[t] # "running" /\ UNCHANGED <<vars, faults>>
       \/ Fault /\ UNCHANGED vars
    /\ UNCHANGED <<control, admission, aborted, unobservedTaskIds, alive,
                   effect, probe>>

\* A worker ends by itself: aborted, finished, or killed.
WorkerExits(t) ==
    /\ t \in alive
    /\ alive' = alive \ {t}
    /\ UNCHANGED <<vars, control, admission, active, aborted,
                   unobservedTaskIds, exec, world>>

-----------------------------------------------------------------------------
(* journaled(): reserve, check once more, write, settle.  A call under way  *)
(* goes on in its process even when execute() has given up.                *)

Acts(w, t) == proc[w] = "up" /\ worker[t] = w /\ t \in alive

Reserve(w, t, c) ==
    /\ Acts(w, t) /\ t \notin aborted
    /\ BeginOperation(t, c)
    /\ UNCHANGED <<control, admission, execution, world>>

\* The checkpoint after the reservation is a heartbeat: what it read may be
\* stale when its reply arrives, and then only the signal is looked at again.
Cleared_OnReservation(t) == TRUE
Cleared(t) == MayAct(t)

Checkpoint(w, t, c) ==
    /\ Acts(w, t) /\ t \notin aborted
    /\ journal[t][c] = "started" /\ effect[t][c] = "none"
    /\ Cleared(t)
    /\ effect' = [effect EXCEPT ![t][c] = "cleared"]
    /\ UNCHANGED <<vars, control, admission, execution, probe, faults>>

Dispatch(w, t, c) ==
    /\ Acts(w, t) /\ t \notin aborted
    /\ effect[t][c] = "cleared" /\ journal[t][c] = "started"
    /\ effect' = [effect EXCEPT ![t][c] = "dispatched"]
    /\ UNCHANGED <<vars, control, admission, execution, probe, faults>>

\* The artifact row lands, perhaps long after its caller has gone.
Persist(t, c) ==
    /\ effect[t][c] = "dispatched"
    /\ effect' = [effect EXCEPT ![t][c] = "saved"]
    /\ UNCHANGED <<vars, control, admission, execution, probe, faults>>

\* Settled is what was read back or never dispatched.  A rejected write may
\* have committed, and a written one may not be readable: both are unknown.
SettledAs_Rejected(t, c) ==
    IF effect[t][c] = "saved" THEN {"settled", "unknown"} ELSE {"settled"}
SettledAs(t, c) ==
    CASE effect[t][c] \in {"none", "cleared"} -> {"settled"}
      [] effect[t][c] = "dispatched" -> {"unknown"}
      [] effect[t][c] = "saved" -> {"settled", "unknown"}

Settle(w, t, c) ==
    /\ Acts(w, t)
    /\ journal[t][c] = "started"
    /\ \E outcome \in SettledAs(t, c) : SettleOperation(t, c, outcome)
    /\ UNCHANGED <<control, admission, execution, world>>

-----------------------------------------------------------------------------
(* TeamReconciler.run, one investigation of each process at a time.        *)

OwnerGone(t) == worker[t] \in Worker /\ proc[worker[t]] = "dead"
Quiescent_OwnerOnly(t) == OwnerGone(t)
Quiescent(t) == OwnerGone(t) /\ t \notin alive

Unsettled(t) == {c \in Call : journal[t][c] \in {"started", "unknown"}}
NextStep(r, step, l) ==
    probe' = [probe EXCEPT ![r] = [step |-> step, task |-> probe[r].task,
                                   lease |-> l]]
Idle(r) == probe' = [probe EXCEPT ![r] = NoProbe]

\* listUnsettled does not ask whether execution is enabled.
Listed_Runnable(t) == executionEnabled /\ status[t] \in Activity
Listed(t) == status[t] \in Activity

Observe(r, t) ==
    /\ proc[r] = "up" /\ probe[r] = NoProbe
    /\ Listed(t)
    /\ Quiescent(t)
    /\ probe' = [probe EXCEPT ![r] = [step |-> "observed", task |-> t, lease |-> 0]]
    /\ UNCHANGED <<vars, control, admission, execution, effect, faults>>

\* The lease is refused while another one lives or the task has been released.
TakeLease(r) ==
    LET t == probe[r].task IN
    /\ probe[r].step = "observed"
    /\ IF MayReport(t) /\ lease[t] # "live"
       THEN BeginReconciliation(t) /\ NextStep(r, "leased", leaseId[t] + 1)
       ELSE Idle(r) /\ UNCHANGED vars
    /\ UNCHANGED <<control, admission, execution, effect, faults>>

\* Only a positive read of the reserved artifact settles its operation.
ReadBack(t, c) == effect[t][c] = "saved"

Recover(r, c) ==
    LET t == probe[r].task IN
    /\ probe[r].step = "leased"
    /\ c \in Unsettled(t) /\ ReadBack(t, c)
    /\ SettleOperation(t, c, "settled")
    /\ UNCHANGED <<control, admission, execution, world>>

Confirm(r) ==
    LET t == probe[r].task IN
    /\ probe[r].step = "leased"
    /\ IF Unsettled(t) # {}
       THEN (\E c \in Unsettled(t) : ~ReadBack(t, c)) /\ Idle(r)
       ELSE IF Quiescent(t) THEN NextStep(r, "confirmed", probe[r].lease)
                            ELSE Idle(r)
    /\ UNCHANGED <<vars, control, admission, execution, effect, faults>>

Finish(r) ==
    LET t == probe[r].task
        saved == \E c \in Call : journal[t][c] = "settled" /\ effect[t][c] = "saved"
    IN  /\ probe[r].step = "confirmed"
        /\ IF MayReport(t) /\ lease[t] = "live" /\ leaseId[t] = probe[r].lease
           THEN FinishReconciliation(t, probe[r].lease, saved)
           ELSE UNCHANGED vars
        /\ Idle(r)
        /\ UNCHANGED <<control, admission, execution, effect, faults>>

\* A call fails or the reconciler is stopped: the rest waits for another tick.
GiveUp(r) ==
    /\ probe[r] # NoProbe
    /\ probe[r].step # "observed" => probe[r].lease < MaxLeases
    /\ Fault /\ Idle(r)
    /\ UNCHANGED <<vars, control, admission, execution, effect>>

\* Bound: the last lease that may be granted does not run out.
Lapse(t) ==
    /\ leaseId[t] < MaxLeases
    /\ LeaseLapses(t)
    /\ UNCHANGED <<control, admission, execution, world>>

-----------------------------------------------------------------------------
OwnerStep ==
    /\ \/ \E on \in BOOLEAN : ConfigureExecution(on)
       \/ \E a \in Stoppable : StopAgent(a) \/ ResumeAgent(a)
       \/ \E a \in Agent : RestEnds(a)
       \/ \E a \in Assignment : Enqueue(Request(a, {}, NoTask))
       \/ \E t \in TaskId, approved \in BOOLEAN : ReviewTask(t, Owner, approved)
    /\ UNCHANGED <<control, admission, execution, world>>

TickStep(w) ==
    \/ BeginTick(w) \/ ListRunnable(w) \/ RequestClaim(w)
    \/ CommitClaim(w) \/ ReceiveClaim(w) \/ ClaimFails(w)
    \/ \E t \in TaskId : Heartbeat(w, t) \/ CancelUnstarted(w, t)

ExecutorStep(w, t) ==
    \/ Resolve(w, t) \/ Reject(w, t) \/ Report(w, t) \/ ReportRefused(w, t)
    \/ ReportFails(w, t) \/ Reported(w, t) \/ MarkUnobserved(w, t)
    \/ \E c \in Call : \/ Reserve(w, t, c) \/ Checkpoint(w, t, c)
                       \/ Dispatch(w, t, c) \/ Settle(w, t, c)

InvestigationStep(r) ==
    \/ TakeLease(r) \/ Confirm(r) \/ Finish(r) \/ GiveUp(r)
    \/ \E c \in Call : Recover(r, c)

RunnerNext ==
    \/ OwnerStep
    \/ \E w \in Stopping : Start(w) \/ Stop(w) \/ Drain(w) \/ EndDrain(w)
    \/ \E w \in Worker :
          \/ Boot(w) \/ Crash(w) \/ CommitOrphan(w)
          \/ TickStep(w) \/ InvestigationStep(w)
          \/ \E t \in TaskId : ExecutorStep(w, t) \/ Observe(w, t)
    \/ \E t \in TaskId :
          \/ WorkerExits(t) \/ Lapse(t)
          \/ \E c \in Call : Persist(t, c)

RunnerSpec == RunnerInit /\ [][RunnerNext]_allVars

\* A process that does not crash comes up and keeps ticking: its timers fire
\* and its calls are answered.  The sweep of the reconciler returns to every
\* unsettled task (afterTaskId, afterTeamId), and leases run out.
Fairness ==
    /\ \A w \in Worker : WF_allVars(TickStep(w)) /\ WF_allVars(InvestigationStep(w))
    /\ \A w \in Worker \ Crashable :
          WF_allVars(Boot(w)) /\ \A t \in TaskId : SF_allVars(Observe(w, t))
    /\ \A t \in TaskId : WF_allVars(Lapse(t))

LiveSpec == RunnerSpec /\ Fairness

-----------------------------------------------------------------------------
(* What the processes promise.                                             *)

\* A slot belongs to its executor until that has ended: see WorkSlots.
Slots == INSTANCE WorkSlots WITH
    Task <- TaskId,
    Capacity <- Concurrency,
    held <- Active,
    launched <- {t \in TaskId : exec[t] # "none"},
    executing <- alive,
    freed <- {t \in TaskId : status[t] \in Released}

\* The row and the processes together implement WorkSlots: a task is launched
\* at most once, by the claim that holds its slot, and neither a report nor a
\* recovery (reconciler.js:95) frees the slot while a worker may still act.
SlotsRespected == Slots!Spec

\* drain() (runner.js:82): once it has reported settled, and until the next
\* start, every task this process ever claimed has been released durably.
DrainHonest ==
    \A w \in drained, t \in TaskId : worker[t] = w => status[t] \in Released

\* runTick (runner.js:119): the capacity read before a claim is sent is not
\* exceeded when its reply arrives.
CapacityRespected == \A w \in Worker : Cardinality(active[w]) <= MaxActive

\* runTick (runner.js:100, 128): what was claimed by a tick that a stop
\* interrupted is never launched, not even after the runner was started again.
RevokedNeverLaunches ==
    [][\A w \in revoked : active'[w] \subseteq active[w]]_allVars

\* journaled and run (worker.js:131, reconciler.js:90): an operation recorded as
\* settled is over.  Its artifact was saved, or it was never sent.
SettledIsOver ==
    \A t \in TaskId, c \in Call :
        journal[t][c] = "settled" => effect[t][c] # "dispatched"

\* journaled (worker.js:131): an effect that has not passed its checkpoint when
\* the stop is on record, or that has when the executor is aborted, is never
\* sent.
StopReachesEffects ==
    [][\A t \in TaskId, c \in Call :
            /\ t \in cancelRequested /\ effect[t][c] = "none" => effect'[t][c] = "none"
            /\ t \in aborted /\ effect[t][c] = "cleared" => effect'[t][c] = "cleared"
      ]_allVars

\* Nothing but recovery is missing for t, and a lease is left for it.
Recoverable(t) ==
    /\ status[t] \in Activity
    /\ Quiescent(t)
    /\ \A c \in Unsettled(t) : effect[t][c] = "saved"
    /\ leaseId[t] < MaxLeases

\* run (reconciler.js:51): the slot of an executor that is gone is freed in the
\* end, whether or not the team is still enabled.
RecoveredEventually ==
    \A t \in TaskId : Recoverable(t) ~> status[t] \in Released

\* runTick (runner.js:102): a stop reaches the executor, if it does not end
\* before and its process lives.
StopReachesExecutor ==
    \A t \in TaskId :
        t \in cancelRequested \cap UNION {active[w] : w \in Worker} ~>
            t \in aborted \/ t \notin UNION {active[w] : w \in Worker}
=============================================================================
