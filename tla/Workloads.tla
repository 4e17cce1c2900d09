----------------------------- MODULE Workloads -----------------------------
(***************************************************************************)
(* One deferred workload with a schedule (src/workloads): the rows of its  *)
(* runs in Postgres, the calls of its owner (service.js), and the worker   *)
(* processes that claim due runs and execute them (runner.js, store.js).   *)
(*                                                                         *)
(* An action is one statement or one transaction; what the service awaits  *)
(* between two of them, everybody else may use.  The clock counts periods  *)
(* of the schedule: a cron workload is due at every tick, and whatever     *)
(* happens between two ticks happens after now and before now + 1, so that *)
(* getNextCronRun of any instant there is now + 1.  A workload of type     *)
(* once is due at tick 1.                                                  *)
(*                                                                         *)
(* A run of the schedule is named by its tick, as its idempotency key is   *)
(* (schema.js:372).  The keys of all other runs are absent, or made of the *)
(* milliseconds at which they are queued: nothing ever collides with them. *)
(*                                                                         *)
(* An operator X_Y states a bug one could plausibly write in X.            *)
(***************************************************************************)
EXTENDS Integers, FiniteSets

CONSTANTS
    Worker,         \* worker processes (workerId), each of one life
    Crashable,      \* those that may die
    Client,         \* calls of the owner that may be under way at a time
    BatchSize,      \* runner.batchSize
    Stage,          \* stages[0].when, or "none" without a stage
    MaxTime,        \* bound on the clock
    MaxExtra,       \* bound on runs queued by hand or as a stage
    MaxFaults,      \* bound on unexpected exceptions and late heartbeats
    Scenario,       \* what is bounded together: the calls that are ever made,
                    \* the runs by hand that are over from before, and how
                    \* many of MaxFaults are used up
    Nobody          \* no claim yet

ASSUME WorkloadAssumption ==
    /\ Crashable \subseteq Worker /\ Nobody \notin Worker
    /\ Stage \in {"none", "always", "on_success", "on_failure"}
    /\ {BatchSize, MaxTime, MaxExtra, MaxFaults} \subseteq Nat

Slot == 1..(MaxTime + 1)
Run == 1..(MaxTime + 1 + MaxExtra)
None == 0

ASSUME ScenarioAssumption ==
    Scenario \subseteq [calls : SUBSET Client, past : SUBSET (Run \ Slot),
                        faults : 0..MaxFaults]

VARIABLES
    now,            \* the last tick of the schedule
    trigger,        \* trigger.type
    workload,       \* the workload's row: enabled, paused or deleted
    call,           \* the statement that each call has still to make; closed
                    \* is one that is never made
    status,         \* agent_runs.status, absent before the INSERT
    at,             \* agent_runs.scheduled_for
    parent,         \* agent_runs.parent_run_id
    holder,         \* agent_runs.claim_owner
    lapsed,         \* running rows whose claim_expires_at has passed
    job,            \* executeClaimedRun, per worker and run
    dead,           \* workers that died
    faults, stalls, \* exceptions and late heartbeats so far
    lost            \* history: the schedule may have lost its next run

rows == <<status, at, parent, holder, lapsed>>
bounds == <<faults, stalls>>
Fallible == faults + stalls < MaxFaults
vars == <<now, trigger, workload, call, rows, job, dead, bounds, lost>>

Settled == {"completed", "failed"}
NoJob == [step |-> "none", good |-> TRUE, seen |-> TRUE]
Job == [step : {"none", "working", "settling", "reviewing", "writing",
                "staging", "ensuring"},
        good : BOOLEAN, seen : BOOLEAN]

WorkloadTypeOK ==
    /\ now \in 0..MaxTime
    /\ trigger \in {"once", "cron"}
    /\ workload \in {"enabled", "paused", "deleted"}
    /\ call \in [Client -> {"none", "closed", "cancel", "edit", "ensure", "delete",
                           "planOn", "planOff"}]
    /\ status \in [Run -> {"absent", "queued", "running", "completed", "failed",
                           "cancelled"}]
    /\ at \in [Run -> 0..(MaxTime + 1)]
    /\ parent \in [Run -> Run \cup {None}]
    /\ holder \in [Run -> Worker \cup {Nobody}]
    /\ lapsed \subseteq Run
    /\ job \in [Worker -> [Run -> Job]]
    /\ dead \subseteq Worker
    /\ {faults, stalls} \subseteq 0..MaxFaults
    /\ lost \in BOOLEAN

\* createWorkload has queued the first run of the schedule, and before it is due,
\* runs by hand may have been executed by workers that are gone.
Init ==
    /\ now = 0
    /\ trigger \in {"once", "cron"}
    /\ workload = "enabled"
    /\ \E s \in Scenario :
          /\ call = [c \in Client |-> IF c \in s.calls THEN "none" ELSE "closed"]
          /\ status = [r \in Run |-> IF r = 1 THEN "queued"
                                     ELSE IF r \in s.past THEN "completed"
                                     ELSE "absent"]
          /\ faults = s.faults
    /\ at = [r \in Run |-> IF r \in Slot THEN r ELSE 0]
    /\ parent = [r \in Run |-> None]
    /\ holder = [r \in Run |-> Nobody]
    /\ lapsed = {}
    /\ job = [w \in Worker |-> [r \in Run |-> NoJob]]
    /\ dead = {} /\ stalls = 0 /\ lost = FALSE

Ticks ==
    /\ now < MaxTime
    /\ now' = now + 1
    /\ UNCHANGED <<trigger, workload, call, rows, job, dead, bounds, lost>>

-----------------------------------------------------------------------------
(* Statements of the store.                                                *)

\* INSERT ... ON CONFLICT DO NOTHING: a key that exists, in whatever status,
\* is returned as it is.
Insertable_Again(r) == status[r] \notin {"queued", "running"}
Insertable(r) == status[r] = "absent"

Inserted(r) ==
    /\ status' = [status EXCEPT ![r] = IF Insertable(r) THEN "queued" ELSE @]
    /\ lost' = (lost \/ (~Insertable(r) /\ status[r] = "cancelled"))
    /\ UNCHANGED <<at, parent, holder, lapsed>>

\* The next run of the schedule after tick b.
NextSlot(b) == IF trigger = "once" THEN 1 ELSE b + 1

Spare == {r \in Run \ Slot : status[r] = "absent"}

\* A run that nobody else can name, due at once.
InsertExtra(p) ==
    \E r \in Spare :
        /\ \A q \in Spare : r <= q
        /\ status' = [status EXCEPT ![r] = "queued"]
        /\ at' = [at EXCEPT ![r] = now]
        /\ parent' = [parent EXCEPT ![r] = p]
        /\ UNCHANGED <<holder, lapsed, lost>>

Cancels(statuses) ==
    /\ status' = [r \in Run |-> IF status[r] \in statuses THEN "cancelled"
                                ELSE status[r]]
    /\ lapsed' = {r \in lapsed : status[r] \notin statuses}
    /\ UNCHANGED <<at, parent, holder>>

-----------------------------------------------------------------------------
(* The owner.  Routes, admin API and agent tools call the service at the    *)
(* same time, and no lock spans the statements of a call.                  *)

Begins(c, step) == call[c] = "none" /\ call' = [call EXCEPT ![c] = step]
Continuing(c, step, next) == call[c] = step /\ call' = [call EXCEPT ![c] = next]

Pause(c) ==
    /\ Begins(c, "cancel")
    /\ workload # "deleted" /\ workload' = "paused"
    /\ UNCHANGED <<now, trigger, rows, job, dead, bounds, lost>>

\* The running run is cancelled as well, though nothing stops its executor.  Nor
\* does the statement ask whether the workload is still paused.
PauseCancels(c) ==
    /\ Continuing(c, "cancel", "none")
    /\ Cancels({"queued", "running"})
    /\ lost' = (lost \/ (workload = "enabled" /\ status' # status))
    /\ UNCHANGED <<now, trigger, workload, job, dead, bounds>>

Resume(c) ==
    /\ Begins(c, "ensure")
    /\ workload # "deleted" /\ workload' = "enabled"
    /\ UNCHANGED <<now, trigger, rows, job, dead, bounds, lost>>

\* updateWorkload with another prompt or trigger.  It writes enabled as its
\* payload says, or as it was when the call began, whatever became of it since.
\* One that writes paused does what Pause does, and one that leaves the
\* scheduling as it was what Resume does.
Edit(c) ==
    /\ Begins(c, "edit")
    /\ workload # "deleted" /\ workload' = "enabled"
    /\ UNCHANGED <<now, trigger, rows, job, dead, bounds, lost>>

EditCancels(c) ==
    /\ Continuing(c, "edit", "ensure")
    /\ Cancels({"queued"})
    /\ UNCHANGED <<now, trigger, workload, job, dead, bounds, lost>>

\* The INSERT for a workload that was deleted meanwhile throws.
Ensures(c) ==
    /\ Continuing(c, "ensure", "none")
    /\ IF workload = "deleted" THEN UNCHANGED <<rows, lost>>
                               ELSE Inserted(NextSlot(now))
    /\ UNCHANGED <<now, trigger, workload, job, dead, bounds>>

\* updateProjectPlan: store.updateWorkload reads the row and writes all of it,
\* enabled as it was read.
PlanReads(c) ==
    /\ Begins(c, IF workload = "enabled" THEN "planOn" ELSE "planOff")
    /\ workload # "deleted"
    /\ UNCHANGED <<now, trigger, workload, rows, job, dead, bounds, lost>>

\* What was paused meanwhile is enabled again, and nobody queues a run for it.
Writes(read) ==
    /\ workload' = IF workload = "deleted" THEN workload ELSE read
    /\ lost' = (lost \/ (workload = "paused" /\ read = "enabled"))

PlanWrites(c) ==
    /\ \/ Continuing(c, "planOn", "none") /\ Writes("enabled")
       \/ Continuing(c, "planOff", "none") /\ Writes("paused")
    /\ UNCHANGED <<now, trigger, rows, job, dead, bounds>>

\* deleteWorkload cancels, then deletes; the runs go with the row (CASCADE).
Delete(c) ==
    /\ Begins(c, "delete")
    /\ workload # "deleted"
    /\ Cancels({"queued", "running"})
    /\ UNCHANGED <<now, trigger, workload, job, dead, bounds, lost>>

DeleteRow(c) ==
    /\ Continuing(c, "delete", "none")
    /\ workload' = "deleted"
    /\ status' = [r \in Run |-> "absent"] /\ lapsed' = {}
    /\ UNCHANGED <<now, trigger, at, parent, holder, job, dead, bounds,
                   lost>>

\* runWorkloadNow does not ask whether the workload is enabled.
RunNow ==
    /\ workload # "deleted"
    /\ InsertExtra(None)
    /\ UNCHANGED <<now, trigger, workload, call, job, dead, bounds>>

\* The rest of a call is not made: a statement throws, or the server ends.
CallFails(c) ==
    /\ Fallible /\ faults' = faults + 1
    /\ call[c] \notin {"none", "closed"} /\ call' = [call EXCEPT ![c] = "none"]
    /\ lost' = (lost \/ call[c] \in {"edit", "ensure", "delete"})
    /\ UNCHANGED <<now, trigger, workload, rows, job, dead, stalls>>

-----------------------------------------------------------------------------
(* The runner.                                                             *)

activeRuns(w) == {r \in Run : job[w][r] # NoJob}

Expired_Never(r) == FALSE
Expired(r) == r \in lapsed
Claimable(r) ==
    /\ workload = "enabled"
    /\ \/ status[r] = "queued" /\ at[r] <= now
       \/ status[r] = "running" /\ Expired(r)

\* One tick: the earliest due runs, as many as there are free slots.  A run
\* that this process is still executing is claimed, but not begun again.
Tick(w) ==
    LET due == {r \in Run : Claimable(r)}
        free == BatchSize - Cardinality(activeRuns(w))
    IN  /\ w \notin dead /\ free > 0
        /\ \E S \in SUBSET due :
              /\ S # {}
              /\ \/ Cardinality(S) = free
                 \/ S = due /\ Cardinality(S) < free
              /\ \A r \in S, q \in due \ S : at[r] <= at[q]
              /\ status' = [r \in Run |-> IF r \in S THEN "running" ELSE status[r]]
              /\ holder' = [r \in Run |-> IF r \in S THEN w ELSE holder[r]]
              /\ lapsed' = lapsed \ S
              /\ job' = [job EXCEPT ![w] = [r \in Run |->
                    IF r \in S \ activeRuns(w) THEN [NoJob EXCEPT !.step = "working"]
                    ELSE job[w][r]]]
        /\ UNCHANGED <<now, trigger, workload, call, at, parent, dead, bounds, lost>>

Renews(r) == holder[r] # Nobody /\ holder[r] \notin dead /\ job[holder[r]][r] # NoJob

\* A claim runs out when nobody renews it, or when the heartbeat comes late.
Lapse(r) ==
    /\ status[r] = "running" /\ r \notin lapsed
    /\ IF Renews(r) THEN Fallible /\ stalls' = stalls + 1
                    ELSE UNCHANGED stalls
    /\ lapsed' = lapsed \cup {r}
    /\ UNCHANGED <<now, trigger, workload, call, status, at, parent, holder, job,
                   dead, faults, lost>>

\* extendRunLease does not ask whether the claim has run out.
Heartbeat(w, r) ==
    /\ w \notin dead /\ job[w][r] # NoJob
    /\ status[r] = "running" /\ holder[r] = w /\ r \in lapsed
    /\ lapsed' = lapsed \ {r}
    /\ UNCHANGED <<now, trigger, workload, call, status, at, parent, holder, job,
                   dead, bounds, lost>>

-----------------------------------------------------------------------------
(* executeClaimedRun.                                                      *)

At(w, r, step) == w \notin dead /\ job[w][r].step = step
Goes(w, r, j) == job' = [job EXCEPT ![w][r] = j]
Moves(w, r, step) == Goes(w, r, [job[w][r] EXCEPT !.step = step])

Answered(w, r) ==
    /\ At(w, r, "working")
    /\ \E good \in BOOLEAN :
          Goes(w, r, [job[w][r] EXCEPT !.step = "settling", !.good = good])
    /\ UNCHANGED <<now, trigger, workload, call, rows, dead, bounds, lost>>

\* completeRun and failRun ask for the claim, and not for the status: a run
\* that was cancelled meanwhile is settled all the same.
Settles_Running(w, r) == holder[r] = w /\ status[r] = "running"
Settles(w, r) == holder[r] = w /\ status[r] # "absent"

\* A worker that has lost the claim changes nothing and goes on as if it had.
Settle(w, r) ==
    /\ At(w, r, "settling")
    /\ IF Settles(w, r)
       THEN /\ status' = [status EXCEPT ![r] =
                    IF job[w][r].good THEN "completed" ELSE "failed"]
            /\ lapsed' = lapsed \ {r}
       ELSE UNCHANGED <<status, lapsed>>
    /\ Moves(w, r, "reviewing")
    /\ UNCHANGED <<now, trigger, workload, call, at, parent, holder, dead, bounds, lost>>

\* persistProjectReview: store.updateWorkload reads the row, then writes all of
\* it, enabled as it was read.  A workload without a project plan, or a deleted
\* one, stays as claimed.
ReviewReads(w, r) ==
    /\ At(w, r, "reviewing")
    /\ \/ /\ workload # "deleted"
          /\ Goes(w, r, [job[w][r] EXCEPT !.step = "writing",
                                          !.seen = workload = "enabled"])
       \/ Moves(w, r, "staging")
    /\ UNCHANGED <<now, trigger, workload, call, rows, dead, bounds, lost>>

ReviewWrites(w, r) ==
    /\ At(w, r, "writing")
    /\ Writes(IF job[w][r].seen THEN "enabled" ELSE "paused")
    /\ Goes(w, r, [job[w][r] EXCEPT !.step = "staging",
                                    !.seen = @ \/ workload = "deleted"])
    /\ UNCHANGED <<now, trigger, call, rows, dead, bounds>>

HasStage(w, r) ==
    /\ parent[r] = None
    /\ \/ Stage = "always"
       \/ Stage = "on_success" /\ job[w][r].good
       \/ Stage = "on_failure" /\ ~job[w][r].good

\* No stage continues a run whose remote job still runs.  Bound: none is queued
\* any more when MaxExtra runs were.
Followup(w, r) ==
    /\ At(w, r, "staging")
    /\ \/ HasStage(w, r) /\ workload # "deleted" /\ InsertExtra(r)
       \/ /\ ~HasStage(w, r) \/ Spare = {} \/ job[w][r].good
          /\ UNCHANGED <<rows, lost>>
    /\ Moves(w, r, "ensuring")
    /\ UNCHANGED <<now, trigger, workload, call, dead, bounds>>

Continues_Succeeded(w, r) == job[w][r].seen /\ job[w][r].good
Continues(w, r) == job[w][r].seen

\* ensureNextScheduledRun with the workload as this worker last saw it.
EnsureNext(w, r) ==
    /\ At(w, r, "ensuring")
    /\ IF Continues(w, r)
       THEN workload # "deleted" /\ Inserted(NextSlot(at[r]))
       ELSE UNCHANGED <<rows, lost>>
    /\ Goes(w, r, NoJob)
    /\ UNCHANGED <<now, trigger, workload, call, dead, bounds>>

\* This worker has settled the run and is still to queue the next one.
Obliged(w, r) ==
    \/ job[w][r].step \in {"reviewing", "writing", "staging", "ensuring"}
    \/ job[w][r].step = "settling" /\ status[r] \in Settled

\* It ends before it does.
Interrupts(w, R) ==
    lost' = (lost \/ \E r \in R : Obliged(w, r))

\* A statement throws, as every INSERT for a deleted workload does: the try
\* block goes to failRun, whatever it has already done; before the try block
\* and in the catch block it is processRun that logs the error.
Throws(w, r) ==
    /\ w \notin dead
    /\ \/ /\ Fallible /\ job[w][r] # NoJob /\ faults' = faults + 1
       \/ /\ workload = "deleted" /\ job[w][r].step \in {"staging", "ensuring"}
          /\ UNCHANGED faults
    /\ \/ /\ job[w][r].good /\ job[w][r].step # "working"
          /\ Goes(w, r, [job[w][r] EXCEPT !.step = "settling", !.good = FALSE])
          /\ UNCHANGED lost
       \/ /\ ~job[w][r].good \/ job[w][r].step = "working"
          /\ Goes(w, r, NoJob)
          /\ Interrupts(w, {r})
    /\ UNCHANGED <<now, trigger, workload, call, rows, dead, stalls>>

Crash(w) ==
    /\ w \in Crashable \ dead
    /\ dead' = dead \cup {w}
    /\ job' = [job EXCEPT ![w] = [r \in Run |-> NoJob]]
    /\ Interrupts(w, Run)
    /\ UNCHANGED <<now, trigger, workload, call, rows, bounds>>

-----------------------------------------------------------------------------
OwnerStep ==
    \/ RunNow
    \/ \E c \in Client :
          \/ Pause(c) \/ PauseCancels(c) \/ Resume(c) \/ Edit(c) \/ EditCancels(c)
          \/ Ensures(c) \/ PlanReads(c) \/ PlanWrites(c) \/ Delete(c) \/ DeleteRow(c)
          \/ CallFails(c)

JobStep(w, r) ==
    \/ Answered(w, r) \/ Settle(w, r) \/ ReviewReads(w, r) \/ ReviewWrites(w, r)
    \/ Followup(w, r) \/ EnsureNext(w, r)

Next ==
    \/ Ticks \/ OwnerStep
    \/ \E r \in Run : Lapse(r)
    \/ \E w \in Worker :
          \/ Tick(w) \/ Crash(w)
          \/ \E r \in Run : Heartbeat(w, r) \/ JobStep(w, r) \/ Throws(w, r)

Spec == Init /\ [][Next]_vars

\* The timers of a process that lives fire, an execution ends, and a claim that
\* nobody renews runs out.
Fairness ==
    /\ \A w \in Worker : WF_vars(Tick(w)) /\ WF_vars(\E r \in Run : JobStep(w, r))
    /\ WF_vars(\E r \in Run : ~Renews(r) /\ Lapse(r))
LiveSpec == Spec /\ Fairness

-----------------------------------------------------------------------------
(* What the scheduler promises.                                            *)

\* Something that is to be executed, or is about to queue what is.
Pending ==
    \/ \E r \in Run : status[r] \in {"queued", "running"}
    \/ \E w \in Worker, r \in Run : Obliged(w, r)
    \/ \E c \in Client : call[c] \in {"edit", "ensure", "delete"}

Exhausted == trigger = "once" /\ status[1] \in Settled

\* ensureNextScheduledRun (service.js:1344): an enabled workload has a next run,
\* however the calls of its owner and workers that lose their claims overlap,
\* unless one of these came to pass: the run that it would queue was cancelled
\* before; the worker ended between the run's settlement and the call, or the
\* owner's call before its INSERT; a pause cancelled runs after another call had
\* enabled the workload; a review or a change of the plan wrote back an enabled
\* that it had read before a pause.
ScheduleKept ==
    workload = "enabled" /\ ~lost => Pending \/ Exhausted

\* The same without exception.
AlwaysScheduled == workload = "enabled" => Pending \/ Exhausted

\* claimDueRuns and enqueueRun (store.js:401, 458): no two workers execute a run
\* at the same time, where no living worker let its claim run out.
OneExecutor ==
    \A r \in Run : Cardinality({w \in Worker : job[w][r] # NoJob}) <= 1 \/ stalls > 0

\* completeRun and scheduleFollowupStage (store.js:529, service.js:1150): a stage
\* is not queued before the row of the run it continues is settled, where every
\* heartbeat of a living worker came in time.
StageAfterRun ==
    \A r \in Run : status[r] # "absent" /\ parent[r] # None =>
        status[parent[r]] \in Settled \/ stalls > 0

\* executeClaimedRun (service.js:1138, 1215): a run is continued by one stage,
\* although an exception after the stage was queued takes the run through
\* failRun and scheduleFollowupStage again, unless a heartbeat came late or the
\* stage is one that follows failures as well.
StageOnce ==
    \A r, s \in Run :
        /\ "absent" \notin {status[r], status[s]}
        /\ parent[r] = parent[s] /\ parent[r] # None
        => r = s \/ stalls > 0 \/ (Stage = "always" /\ faults > 0)

\* runner.js:44: while a workload stays enabled, what is due is settled in the
\* end, although workers die and claims are lost, as long as one worker lives.
Due(r) == status[r] \in {"queued", "running"} /\ at[r] <= now
DueRunsSettle == []<>(workload = "enabled" => \A r \in Run : ~Due(r))
=============================================================================
