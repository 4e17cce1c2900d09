--------------------------- MODULE WorkloadsProofs ---------------------------
(***************************************************************************)
(* What the scheduler promises for any number of workers, ticks, runs by   *)
(* hand and faults.                                                        *)
(*                                                                         *)
(*   Rows      which rows exist at all, and when they are due;             *)
(*   Claims    whoever executes a run holds its claim, and a claim that    *)
(*             ran out is nobody's, where no heartbeat came late;          *)
(*   Once      whoever executes a run that has its stage queues no other;  *)
(*   Kept      as long as nothing is lost, the last row of the schedule    *)
(*             is still to be executed, or its worker owes the next one.   *)
(***************************************************************************)
EXTENDS Workloads, FiniteSetTheorems, TLAPS

Working(w, r) == job[w][r] # NoJob
After == {"reviewing", "writing", "staging", "ensuring"}

\* The last row of the schedule: it exists, and no later one does.
Top(m) ==
    /\ m \in Slot /\ status[m] # "absent"
    /\ \A s \in Slot : s > m => status[s] = "absent"

Rows ==
    /\ workload = "deleted" => \A r \in Run : status[r] = "absent"
    /\ \A r \in Slot : at[r] = r /\ parent[r] = None
    /\ \A r \in Slot : r > now + 1 => status[r] = "absent"
    /\ trigger = "once" => \A r \in Slot : r > 1 => status[r] = "absent"
    /\ \A r \in Run : status[r] \in {"running"} \cup Settled => at[r] <= now
    /\ \A w \in Worker, r \in Run : Working(w, r) =>
          /\ w \notin dead /\ at[r] <= now
          /\ status[r] \in {"absent", "queued"} => workload = "deleted"
    /\ workload # "deleted" => \E m \in Slot : Top(m)

Claims ==
    stalls = 0 =>
        /\ \A w \in Worker, r \in Run : Working(w, r) => holder[r] = w
        /\ \A r \in lapsed : ~Renews(r)
        /\ \A w \in Worker, r \in Run : job[w][r].step \in After =>
              status[r] \in Settled \/ workload = "deleted"

\* Unless a call of the owner is about to queue a run, the last row is not
\* cancelled (a call that deletes may have done that), it is after the run of
\* every worker that still believes the workload to be paused, and its worker
\* owes the next one once it is settled.
Ensuring == \E c \in Client : call[c] \in {"edit", "ensure"}
Deleting == \E c \in Client : call[c] = "delete"
Lasts == \A m \in Slot : Top(m) => status[m] # "cancelled"
Outrun ==
    \A w \in Worker, r \in Run : Working(w, r) /\ ~job[w][r].seen =>
        \E s \in Slot : s > at[r] /\ status[s] # "absent"
Owed ==
    \A m \in Slot : Top(m) /\ status[m] \in Settled => \E w \in Worker : Obliged(w, m)
Unattended == workload = "enabled" /\ ~lost /\ ~Ensuring
Kept ==
    Unattended =>
        /\ Deleting \/ Lasts
        /\ trigger = "cron" => Outrun /\ Owed

\* What says that a run gets one stage: where no heartbeat is late, and a stage
\* that follows failures as well met no exception, whoever still executes a run
\* that has its stage cannot reach the place where another would be queued, or
\* would find there that it no longer succeeded.
Guarded == stalls = 0 /\ (Stage = "always" => faults = 0)
Staged(p) == \E q \in Run : status[q] # "absent" /\ parent[q] = p
Single(p) ==
    \A q, s \in Run :
        /\ status[q] # "absent" /\ parent[q] = p
        /\ status[s] # "absent" /\ parent[s] = p
        => q = s
Past(w, r) ==
    \/ Stage = "none"
    \/ job[w][r].step = "ensuring" /\ (Stage = "on_failure" => ~job[w][r].good)
    \/ Stage = "on_success" /\ ~job[w][r].good /\ job[w][r].step # "working"
Once ==
    Guarded => \A p \in Run : Staged(p) =>
        Single(p) /\ \A w \in Worker : Working(w, p) => Past(w, p)

IInv == WorkloadTypeOK /\ Rows /\ Claims /\ Kept /\ StageAfterRun /\ Once
-----------------------------------------------------------------------------
LEMMA Numbers ==
    /\ MaxTime \in Nat /\ MaxExtra \in Nat /\ MaxFaults \in Nat
    /\ Slot \subseteq Run /\ Run \subseteq Nat \ {0} /\ 1 \in Slot
  BY WorkloadAssumption DEF Slot, Run

LEMMA JobFields ==
    ASSUME NEW j \in Job
    PROVE  /\ \A s \in {"none", "working", "settling"} \cup After, b \in BOOLEAN :
                 /\ [j EXCEPT !.step = s] \in Job
                 /\ [j EXCEPT !.step = s, !.good = b] \in Job
                 /\ [j EXCEPT !.step = s, !.seen = b] \in Job
           /\ NoJob \in Job /\ [NoJob EXCEPT !.step = "working"] \in Job
  BY DEF Job, NoJob, After

\* A job that moves, moves alone.
LEMMA Going ==
    ASSUME WorkloadTypeOK, NEW w \in Worker, NEW r \in Run, NEW j \in Job, Goes(w, r, j)
    PROVE  /\ job' \in [Worker -> [Run -> Job]] /\ job'[w][r] = j
           /\ \A v \in Worker, q \in Run : v # w \/ q # r => job'[v][q] = job[v][q]
  BY DEF WorkloadTypeOK, Goes

\* The insertions keep the types.
LEMMA Inserting ==
    ASSUME WorkloadTypeOK, NEW s \in Run, Inserted(s)
    PROVE  /\ status' \in [Run -> {"absent", "queued", "running", "completed",
                                   "failed", "cancelled"}]
           /\ lost' \in BOOLEAN /\ UNCHANGED <<at, parent, holder, lapsed>>
  BY DEF WorkloadTypeOK, Inserted

LEMMA InsertingExtra ==
    ASSUME WorkloadTypeOK, NEW p \in Run \cup {None}, InsertExtra(p)
    PROVE  /\ status' \in [Run -> {"absent", "queued", "running", "completed",
                                   "failed", "cancelled"}]
           /\ at' \in [Run -> 0..(MaxTime + 1)]
           /\ parent' \in [Run -> Run \cup {None}]
           /\ UNCHANGED <<holder, lapsed, lost>>
<1>1. PICK r \in Spare :
         /\ status' = [status EXCEPT ![r] = "queued"]
         /\ at' = [at EXCEPT ![r] = now]
         /\ parent' = [parent EXCEPT ![r] = p]
         /\ UNCHANGED <<holder, lapsed, lost>>
  BY DEF InsertExtra
<1>2. now \in 0..(MaxTime + 1)
  BY Numbers DEF WorkloadTypeOK
<1>. QED
  BY <1>1, <1>2 DEF WorkloadTypeOK, Spare

\* The calls of the owner: those that leave the runs alone, those that cancel.
CallWrites(c) ==
    \/ Pause(c) \/ Resume(c) \/ Edit(c) \/ PlanReads(c) \/ PlanWrites(c) \/ CallFails(c)
CallCancels(c) == PauseCancels(c) \/ EditCancels(c) \/ Delete(c)

LEMMA CallsWrite ==
    ASSUME WorkloadTypeOK, NEW c \in Client, CallWrites(c)
    PROVE  /\ UNCHANGED <<now, trigger, rows, job, dead, stalls>>
           /\ workload' \in {"enabled", "paused", "deleted"} /\ lost' \in BOOLEAN
           /\ workload' = "deleted" <=> workload = "deleted"
           /\ lost => lost'
           /\ faults' \in 0..MaxFaults /\ faults' >= faults
<1>. USE Numbers DEF WorkloadTypeOK
<1>1. CASE Pause(c) \/ Resume(c) \/ Edit(c)
  BY <1>1 DEF Pause, Resume, Edit, bounds
<1>2. CASE PlanReads(c)
  BY <1>2 DEF PlanReads, bounds
<1>3. CASE PlanWrites(c)
  <2>1. PICK read \in {"enabled", "paused"} : Writes(read)
    BY <1>3 DEF PlanWrites
  <2>2. /\ workload' \in {"enabled", "paused", "deleted"} /\ lost' \in BOOLEAN
        /\ workload' = "deleted" <=> workload = "deleted"
        /\ lost => lost'
    BY <2>1 DEF Writes
  <2>3. UNCHANGED <<now, trigger, rows, job, dead, bounds>>
    BY <1>3 DEF PlanWrites
  <2>. QED
    BY <2>2, <2>3 DEF bounds
<1>4. CASE CallFails(c)
  <2>1. faults' \in 0..MaxFaults /\ faults' >= faults
    BY <1>4 DEF CallFails, Fallible
  <2>. QED
    BY <1>4, <2>1 DEF CallFails
<1>. QED
  BY <1>1, <1>2, <1>3, <1>4 DEF CallWrites

LEMMA CallsCancel ==
    ASSUME WorkloadTypeOK, NEW c \in Client, CallCancels(c)
    PROVE  /\ \E S \in SUBSET {"queued", "running"} : Cancels(S)
           /\ UNCHANGED <<now, trigger, workload, job, dead, bounds>>
           /\ lost' \in BOOLEAN /\ (lost => lost')
<1>1. /\ {"queued", "running"} \in SUBSET {"queued", "running"}
      /\ {"queued"} \in SUBSET {"queued", "running"}
  OBVIOUS
<1>. QED
  BY <1>1 DEF CallCancels, PauseCancels, EditCancels, Delete, WorkloadTypeOK

\* A call moves, the others stay where they are.
LEMMA CallMoves ==
    ASSUME WorkloadTypeOK, NEW c \in Client,
           CallWrites(c) \/ CallCancels(c) \/ Ensures(c) \/ DeleteRow(c)
    PROVE  /\ call' \in [Client -> {"none", "closed", "cancel", "edit", "ensure",
                                   "delete", "planOn", "planOff"}]
           /\ \A d \in Client : d # c => call'[d] = call[d]
<1>1. PICK next \in {"none", "cancel", "edit", "ensure", "delete", "planOn", "planOff"} :
         call' = [call EXCEPT ![c] = next]
  BY DEF CallWrites, CallCancels, Pause, Resume, Edit, PlanReads, PlanWrites, CallFails,
         PauseCancels, EditCancels, Delete, Ensures, DeleteRow, Begins, Continuing
<1>. QED
  BY <1>1 DEF WorkloadTypeOK

LEMMA SlotsOfRuns ==
    ASSUME WorkloadTypeOK, Rows
    PROVE  /\ NextSlot(now) \in Slot
           /\ \A w \in Worker, r \in Run : Working(w, r) => NextSlot(at[r]) \in Slot
  BY Numbers DEF WorkloadTypeOK, Rows, NextSlot, Slot

\* What is at a step has a job.
LEMMA AtWorks ==
    ASSUME NEW w, NEW r, NEW s, s # "none", At(w, r, s)
    PROVE  Working(w, r) /\ w \notin dead
  BY DEF At, Working, NoJob

\* Every step keeps the types.
LEMMA TypedStep ==
    WorkloadTypeOK /\ Rows /\ [Next]_vars => WorkloadTypeOK'
<1>. SUFFICES ASSUME WorkloadTypeOK, Rows, [Next]_vars PROVE WorkloadTypeOK'
  OBVIOUS
<1>. USE Numbers DEF WorkloadTypeOK
<1>1. CASE UNCHANGED vars
  BY <1>1 DEF vars, rows, bounds
<1>2. CASE Ticks
  BY <1>2 DEF Ticks, rows, bounds
<1>3. ASSUME NEW c \in Client, CallWrites(c) PROVE WorkloadTypeOK'
  BY <1>3, CallsWrite, CallMoves DEF rows
<1>4. ASSUME NEW c \in Client, CallCancels(c) PROVE WorkloadTypeOK'
  <2>1. PICK S \in SUBSET {"queued", "running"} : Cancels(S)
    BY <1>4, CallsCancel
  <2>2. /\ status' \in [Run -> {"absent", "queued", "running", "completed", "failed",
                               "cancelled"}]
        /\ lapsed' \subseteq Run /\ UNCHANGED <<at, parent, holder>>
    BY <2>1 DEF Cancels
  <2>3. /\ UNCHANGED <<now, trigger, workload, job, dead, bounds>> /\ lost' \in BOOLEAN
        /\ call' \in [Client -> {"none", "closed", "cancel", "edit", "ensure",
                                "delete", "planOn", "planOff"}]
    BY <1>4, CallsCancel, CallMoves
  <2>. QED
    BY <2>2, <2>3 DEF bounds
<1>5. ASSUME NEW c \in Client, Ensures(c) PROVE WorkloadTypeOK'
  BY <1>5, CallMoves, Inserting, SlotsOfRuns DEF Ensures, rows, bounds
<1>6. ASSUME NEW c \in Client, DeleteRow(c) PROVE WorkloadTypeOK'
  BY <1>6, CallMoves DEF DeleteRow, bounds
<1>7. CASE RunNow
  BY <1>7, InsertingExtra DEF RunNow, bounds
<1>8. ASSUME NEW r \in Run, Lapse(r) PROVE WorkloadTypeOK'
  BY <1>8 DEF Lapse, Fallible
<1>9. ASSUME NEW w \in Worker, Tick(w) PROVE WorkloadTypeOK'
  <2>1. PICK S \in SUBSET Run :
           /\ status' = [r \in Run |-> IF r \in S THEN "running" ELSE status[r]]
           /\ holder' = [r \in Run |-> IF r \in S THEN w ELSE holder[r]]
           /\ lapsed' = lapsed \ S
           /\ job' = [job EXCEPT ![w] = [r \in Run |->
                 IF r \in S \ activeRuns(w) THEN [NoJob EXCEPT !.step = "working"]
                 ELSE job[w][r]]]
    BY <1>9 DEF Tick
  <2>2. NoJob \in Job /\ [NoJob EXCEPT !.step = "working"] \in Job
    BY DEF NoJob, Job
  <2>. QED
    BY <1>9, <2>1, <2>2 DEF Tick, bounds
<1>10. ASSUME NEW w \in Worker, Crash(w) PROVE WorkloadTypeOK'
  <2>1. NoJob \in Job
    BY DEF NoJob, Job
  <2>. QED
    BY <1>10, <2>1, WorkloadAssumption DEF Crash, Interrupts, rows, bounds
<1>11. ASSUME NEW w \in Worker, NEW r \in Run, Heartbeat(w, r) PROVE WorkloadTypeOK'
  BY <1>11 DEF Heartbeat, bounds
<1>12. ASSUME NEW w \in Worker, NEW r \in Run, JobStep(w, r) \/ Throws(w, r)
       PROVE  WorkloadTypeOK'
  <2>0. job[w][r] \in Job
    OBVIOUS
  <2>1. CASE Answered(w, r)
    BY <2>0, <2>1, JobFields, Going DEF Answered, rows, bounds
  <2>2. CASE Settle(w, r)
    BY <2>0, <2>2, JobFields, Going DEF Settle, Moves, After, bounds
  <2>3. CASE ReviewReads(w, r)
    BY <2>0, <2>3, JobFields, Going DEF ReviewReads, Moves, After, rows, bounds
  <2>4. CASE ReviewWrites(w, r)
    <3>1. job' \in [Worker -> [Run -> Job]]
      <4>. DEFINE seen == job[w][r].seen \/ workload = "deleted"
      <4>1. seen \in BOOLEAN
        OBVIOUS
      <4>2. Goes(w, r, [job[w][r] EXCEPT !.step = "staging", !.seen = seen])
        BY <2>4 DEF ReviewWrites
      <4>. HIDE DEF seen
      <4>. QED
        BY <2>0, <4>1, <4>2, JobFields, Going DEF After
    <3>2. PICK read \in {"enabled", "paused"} : Writes(read)
      BY <2>4 DEF ReviewWrites
    <3>3. workload' \in {"enabled", "paused", "deleted"} /\ lost' \in BOOLEAN
      BY <3>2 DEF Writes
    <3>. QED
      BY <2>4, <3>1, <3>3 DEF ReviewWrites, rows, bounds
  <2>5. CASE Followup(w, r)
    <3>1. job' \in [Worker -> [Run -> Job]]
      BY <2>0, <2>5, JobFields, Going DEF Followup, Moves, After
    <3>2. InsertExtra(r) \/ UNCHANGED <<rows, lost>>
      BY <2>5 DEF Followup
    <3>. QED
      BY <2>5, <3>1, <3>2, InsertingExtra DEF Followup, rows, bounds
  <2>6. CASE EnsureNext(w, r)
    <3>1. job' \in [Worker -> [Run -> Job]]
      BY <2>0, <2>6, JobFields, Going DEF EnsureNext
    <3>2. Inserted(NextSlot(at[r])) \/ UNCHANGED <<rows, lost>>
      BY <2>6 DEF EnsureNext
    <3>3. NextSlot(at[r]) \in Run
      BY <2>6, AtWorks, SlotsOfRuns DEF EnsureNext
    <3>. QED
      BY <2>6, <3>1, <3>2, <3>3, Inserting DEF EnsureNext, rows, bounds
  <2>7. CASE Throws(w, r)
    <3>1. job' \in [Worker -> [Run -> Job]]
      BY <2>0, <2>7, JobFields, Going DEF Throws
    <3>2. lost' \in BOOLEAN
      BY <2>7 DEF Throws, Interrupts
    <3>. QED
      BY <2>7, <3>1, <3>2 DEF Throws, Fallible, rows
  <2>. QED
    BY <1>12, <2>1, <2>2, <2>3, <2>4, <2>5, <2>6, <2>7 DEF JobStep
<1>. QED
  BY <1>1, <1>2, <1>3, <1>4, <1>5, <1>6, <1>7, <1>8, <1>9, <1>10, <1>11, <1>12
     DEF Next, OwnerStep, CallWrites, CallCancels

-----------------------------------------------------------------------------
(* The rows.                                                               *)

\* Steps that insert nothing.
LEMMA RowsFrame ==
    ASSUME WorkloadTypeOK, Rows,
           workload' = "deleted" <=> workload = "deleted",
           trigger' = trigger, now' \in Int, now <= now', at' = at, parent' = parent,
           \A r \in Run : status'[r] = "absent" <=> status[r] = "absent",
           \A r \in Run : status'[r] \in {"running"} \cup Settled => at[r] <= now',
           \A w \in Worker, r \in Run : Working(w, r)' =>
              /\ w \notin dead' /\ at[r] <= now'
              /\ status'[r] \in {"absent", "queued"} => workload = "deleted"
    PROVE  Rows'
<1>. USE Numbers DEF WorkloadTypeOK
<1>1. \A r \in Run : r \in Slot => r \in Int
  BY DEF Slot
<1>2. ASSUME NEW m, Top(m) PROVE Top(m)'
  BY <1>2 DEF Top
<1>3. \A r \in Slot : r > now' + 1 => status'[r] = "absent"
  <2>1. ASSUME NEW r \in Slot, r > now' + 1 PROVE r > now + 1 /\ r \in Run
    <3>1. now \in Int /\ now' \in Int /\ r \in Int /\ r \in Run /\ now <= now'
      OBVIOUS
    <3>2. \A a, b, c \in Int : c > b + 1 /\ a <= b => c > a + 1
      OBVIOUS
    <3>. QED
      BY <2>1, <3>1, <3>2
  <2>. QED
    BY <2>1 DEF Rows
<1>4. trigger' = "once" => \A r \in Slot : r > 1 => status'[r] = "absent"
  BY Numbers DEF Rows
<1>5. workload' = "deleted" => \A r \in Run : status'[r] = "absent"
  BY DEF Rows
<1>6. workload' # "deleted" => \E m \in Slot : Top(m)'
  BY <1>2 DEF Rows
<1>7. \A r \in Slot : at'[r] = r /\ parent'[r] = None
  BY DEF Rows
<1>8. \A w \in Worker, r \in Run : Working(w, r)' =>
          /\ w \notin dead' /\ at'[r] <= now'
          /\ status'[r] \in {"absent", "queued"} => workload' = "deleted"
  OBVIOUS
<1>9. \A r \in Run : status'[r] \in {"running"} \cup Settled => at'[r] <= now'
  OBVIOUS
<1>. QED
  BY <1>3, <1>4, <1>5, <1>6, <1>7, <1>8, <1>9 DEF Rows

\* Steps that insert one row.
LEMMA RowsInsert ==
    ASSUME WorkloadTypeOK, Rows, NEW s \in Run, status[s] = "absent",
           workload # "deleted", UNCHANGED <<now, trigger, workload, dead>>,
           status' = [status EXCEPT ![s] = "queued"],
           \/ /\ s \in Slot /\ s <= now + 1 /\ (trigger = "once" => s = 1)
              /\ UNCHANGED <<at, parent>>
           \/ /\ s \notin Slot /\ at' = [at EXCEPT ![s] = now]
              /\ \E p : parent' = [parent EXCEPT ![s] = p],
           \A w \in Worker, r \in Run : Working(w, r)' => Working(w, r)
    PROVE  Rows'
<1>. USE Numbers DEF WorkloadTypeOK
<1>1. now \in Int /\ \A r \in Slot : r \in Int /\ r \in Run
  BY DEF Slot
<1>2. PICK m \in Slot : Top(m)
  BY DEF Rows
<1>3. \E k \in Slot : Top(k)'
  <2>1. CASE s \in Slot /\ s > m
    <3>1. Top(s)'
      BY <1>1, <1>2, <2>1 DEF Top
    <3>. QED
      BY <2>1, <3>1
  <2>2. CASE s \notin Slot \/ ~(s > m)
    <3>1. Top(m)'
      BY <1>1, <1>2, <2>2 DEF Top
    <3>. QED
      BY <3>1
  <2>. QED
    BY <2>1, <2>2
<1>4. \A w \in Worker, r \in Run : Working(w, r) => r # s
  BY DEF Rows
<1>5. \A r \in Slot : at'[r] = r /\ parent'[r] = None
  BY <1>1 DEF Rows
<1>6. \A r \in Run : r # s => at'[r] = at[r] /\ status'[r] = status[r]
  OBVIOUS
<1>7. status'[s] = "queued"
  OBVIOUS
<1>8. /\ \A r \in Slot : r > now' + 1 => status'[r] = "absent"
      /\ trigger' = "once" => \A r \in Slot : r > 1 => status'[r] = "absent"
  BY <1>1, <1>6 DEF Rows
<1>9. \A r \in Run : status'[r] \in {"running"} \cup Settled => at'[r] <= now'
  BY <1>6, <1>7 DEF Rows, Settled
<1>10. \A w \in Worker, r \in Run : Working(w, r)' =>
          /\ w \notin dead' /\ at'[r] <= now'
          /\ status'[r] \in {"absent", "queued"} => workload' = "deleted"
  BY <1>4, <1>6 DEF Rows
<1>. QED
  BY <1>3, <1>5, <1>8, <1>9, <1>10 DEF Rows

\* The run s is queued, or a row of its key exists already.
LEMMA InsertedRow ==
    ASSUME WorkloadTypeOK, NEW s \in Run, Inserted(s)
    PROVE  /\ UNCHANGED <<at, parent, holder, lapsed>>
           /\ \/ /\ status[s] = "absent" /\ status' = [status EXCEPT ![s] = "queued"]
                 /\ lost' = lost
              \/ /\ status[s] # "absent" /\ status' = status
                 /\ lost' = (lost \/ status[s] = "cancelled")
  BY DEF WorkloadTypeOK, Inserted, Insertable

\* What a step of an execution does to jobs, whatever else it does.
LEMMA JobMoves ==
    ASSUME WorkloadTypeOK, NEW w \in Worker, NEW r \in Run, JobStep(w, r) \/ Throws(w, r)
    PROVE  /\ w \notin dead /\ Working(w, r)
           /\ job'[w] \in [Run -> Job] /\ job' \in [Worker -> [Run -> Job]]
           /\ \A v \in Worker, q \in Run : v # w \/ q # r => job'[v][q] = job[v][q]
           /\ UNCHANGED <<now, trigger, call, dead, stalls>>
<1>. USE DEF WorkloadTypeOK
<1>0. job[w][r] \in Job
  OBVIOUS
<1>1. \E j \in Job : Goes(w, r, j)
  <2>1. CASE ReviewWrites(w, r)
    <3>. DEFINE seen == job[w][r].seen \/ workload = "deleted"
    <3>1. seen \in BOOLEAN
      BY <1>0 DEF Job
    <3>2. Goes(w, r, [job[w][r] EXCEPT !.step = "staging", !.seen = seen])
      BY <2>1 DEF ReviewWrites
    <3>. HIDE DEF seen
    <3>. QED
      BY <1>0, <3>1, <3>2, JobFields DEF After
  <2>2. CASE Answered(w, r)
    BY <1>0, <2>2, JobFields DEF Answered
  <2>3. CASE Settle(w, r) \/ ReviewReads(w, r) \/ Followup(w, r)
    BY <1>0, <2>3, JobFields DEF Settle, ReviewReads, Followup, Moves, After
  <2>4. CASE EnsureNext(w, r) \/ Throws(w, r)
    BY <1>0, <2>4, JobFields DEF EnsureNext, Throws
  <2>. QED
    BY <2>1, <2>2, <2>3, <2>4 DEF JobStep
<1>2. w \notin dead /\ Working(w, r)
  <2>1. CASE Throws(w, r)
    BY <2>1 DEF Throws, Working, NoJob
  <2>2. CASE JobStep(w, r)
    BY <2>2, AtWorks DEF JobStep, Answered, Settle, ReviewReads, ReviewWrites, Followup,
                         EnsureNext
  <2>. QED
    BY <2>1, <2>2
<1>3. UNCHANGED <<now, trigger, call, dead, stalls>>
  <2>1. CASE Answered(w, r) \/ Settle(w, r) \/ ReviewReads(w, r) \/ ReviewWrites(w, r)
    BY <2>1 DEF Answered, Settle, ReviewReads, ReviewWrites, bounds
  <2>2. CASE Followup(w, r) \/ EnsureNext(w, r)
    BY <2>2 DEF Followup, EnsureNext, bounds
  <2>3. CASE Throws(w, r)
    BY <2>3 DEF Throws
  <2>. QED
    BY <2>1, <2>2, <2>3 DEF JobStep
<1>. QED
  BY <1>1, <1>2, <1>3, Going

\* Where an execution goes, and what it believes of its workload there.
LEMMA JobAfter ==
    ASSUME WorkloadTypeOK, NEW w \in Worker, NEW r \in Run
    PROVE  LET old == job[w][r]
               new == job'[w][r]
           IN  /\ Answered(w, r) => new.step = "settling" /\ new.seen = old.seen
               /\ Settle(w, r) => new.step = "reviewing" /\ new.seen = old.seen
               /\ ReviewReads(w, r) =>
                     \/ new.step = "writing" /\ new.seen = (workload = "enabled")
                     \/ new.step = "staging" /\ new.seen = old.seen
               /\ ReviewWrites(w, r) =>
                     new.step = "staging" /\ new.seen = (old.seen \/ workload = "deleted")
               /\ Followup(w, r) => new.step = "ensuring" /\ new.seen = old.seen
               /\ EnsureNext(w, r) => new = NoJob
               /\ Throws(w, r) =>
                     \/ new = NoJob /\ lost' = (lost \/ Obliged(w, r))
                     \/ new.step = "settling" /\ new.seen = old.seen /\ lost' = lost
<1>. USE DEF WorkloadTypeOK
<1>0. job[w][r] \in Job
  OBVIOUS
<1>g. \A j : Goes(w, r, j) => job'[w][r] = j
  BY DEF Goes
<1>1. Answered(w, r) => job'[w][r].step = "settling" /\ job'[w][r].seen = job[w][r].seen
  <2>. SUFFICES ASSUME Answered(w, r)
                PROVE  job'[w][r].step = "settling" /\ job'[w][r].seen = job[w][r].seen
    OBVIOUS
  <2>1. PICK b \in BOOLEAN : job'[w][r] = [job[w][r] EXCEPT !.step = "settling", !.good = b]
    BY <1>g DEF Answered
  <2>. QED
    BY <1>0, <2>1 DEF Job
<1>2. \A s : Moves(w, r, s) => job'[w][r].step = s /\ job'[w][r].seen = job[w][r].seen
  BY <1>0, <1>g DEF Moves, Job
<1>3. ReviewReads(w, r) =>
         \/ job'[w][r].step = "writing" /\ job'[w][r].seen = (workload = "enabled")
         \/ job'[w][r].step = "staging" /\ job'[w][r].seen = job[w][r].seen
  <2>1. \A b \in BOOLEAN : LET j == [job[w][r] EXCEPT !.step = "writing", !.seen = b]
                           IN  j.step = "writing" /\ j.seen = b
    BY <1>0 DEF Job
  <2>2. (workload = "enabled") \in BOOLEAN
    OBVIOUS
  <2>. QED
    BY <1>g, <1>2, <2>1, <2>2 DEF ReviewReads
<1>4. ReviewWrites(w, r) =>
         /\ job'[w][r].step = "staging"
         /\ job'[w][r].seen = (job[w][r].seen \/ workload = "deleted")
  <2>. DEFINE b == job[w][r].seen \/ workload = "deleted"
  <2>1. \A c \in BOOLEAN : LET j == [job[w][r] EXCEPT !.step = "staging", !.seen = c]
                           IN  j.step = "staging" /\ j.seen = c
    BY <1>0 DEF Job
  <2>2. b \in BOOLEAN
    OBVIOUS
  <2>3. ReviewWrites(w, r) => Goes(w, r, [job[w][r] EXCEPT !.step = "staging", !.seen = b])
    BY DEF ReviewWrites
  <2>. HIDE DEF b
  <2>4. ReviewWrites(w, r) => job'[w][r].step = "staging" /\ job'[w][r].seen = b
    BY <1>g, <2>1, <2>2, <2>3
  <2>. QED
    BY <2>4 DEF b
<1>5. Throws(w, r) =>
         \/ job'[w][r] = NoJob /\ lost' = (lost \/ Obliged(w, r))
         \/ /\ job'[w][r].step = "settling" /\ job'[w][r].seen = job[w][r].seen
            /\ lost' = lost
  <2>1. LET j == [job[w][r] EXCEPT !.step = "settling", !.good = FALSE]
        IN  j.step = "settling" /\ j.seen = job[w][r].seen
    BY <1>0 DEF Job
  <2>. QED
    BY <1>g, <2>1 DEF Throws, Interrupts
<1>. QED
  BY <1>1, <1>2, <1>3, <1>4, <1>5, <1>g DEF Settle, Followup, EnsureNext

LEMMA CancelledRows ==
    ASSUME WorkloadTypeOK, NEW S \in SUBSET {"queued", "running"}, Cancels(S)
    PROVE  /\ UNCHANGED <<at, parent, holder>> /\ lapsed' \subseteq lapsed
           /\ \A r \in Run : /\ status'[r] = "absent" <=> status[r] = "absent"
                             /\ status[r] \notin S => status'[r] = status[r]
                             /\ status[r] \in S => status'[r] = "cancelled"
  BY DEF WorkloadTypeOK, Cancels

\* What a worker claims was due, and nobody had given it up.
LEMMA TickClaims ==
    ASSUME WorkloadTypeOK, NEW w \in Worker, Tick(w)
    PROVE  /\ workload = "enabled" /\ w \notin dead
           /\ UNCHANGED <<now, trigger, workload, call, at, parent, dead, bounds, lost>>
           /\ \E S \in SUBSET Run :
                 /\ \A r \in S : Claimable(r)
                 /\ \A r \in Run :
                       /\ status'[r] = IF r \in S THEN "running" ELSE status[r]
                       /\ holder'[r] = IF r \in S THEN w ELSE holder[r]
                       /\ job'[w][r] = IF r \in S /\ ~Working(w, r)
                                       THEN [NoJob EXCEPT !.step = "working"]
                                       ELSE job[w][r]
                 /\ lapsed' = lapsed \ S
           /\ \A v \in Worker \ {w} : job'[v] = job[v]
<1>. USE DEF WorkloadTypeOK
<1>1. PICK S \in SUBSET {r \in Run : Claimable(r)} :
         /\ S # {}
         /\ status' = [r \in Run |-> IF r \in S THEN "running" ELSE status[r]]
         /\ holder' = [r \in Run |-> IF r \in S THEN w ELSE holder[r]]
         /\ lapsed' = lapsed \ S
         /\ job' = [job EXCEPT ![w] = [r \in Run |->
               IF r \in S \ activeRuns(w) THEN [NoJob EXCEPT !.step = "working"]
               ELSE job[w][r]]]
  BY DEF Tick
<1>2. \A r \in Run : r \in activeRuns(w) <=> Working(w, r)
  BY DEF activeRuns, Working
<1>3. workload = "enabled" /\ w \notin dead
  BY <1>1 DEF Claimable, Tick
<1>. HIDE DEF NoJob
<1>. QED
  BY <1>1, <1>2, <1>3 DEF Tick

LEMMA RowsStep ==
    WorkloadTypeOK /\ Rows /\ [Next]_vars => Rows'
<1>. SUFFICES ASSUME WorkloadTypeOK, Rows, [Next]_vars PROVE Rows'
  OBVIOUS
<1>. DEFINE Idle == /\ UNCHANGED <<job, dead, at, parent, trigger>>
                    /\ workload' = "deleted" <=> workload = "deleted"
<1>0. now \in Int /\ \A r \in Run : status[r] \in {"running"} \cup Settled => at[r] <= now
  BY Numbers DEF WorkloadTypeOK, Rows
<1>w. \A w \in Worker, r \in Run : Working(w, r) =>
         /\ w \notin dead /\ at[r] <= now
         /\ status[r] \in {"absent", "queued"} => workload = "deleted"
  BY DEF Rows
<1>i. ASSUME Idle, UNCHANGED <<now, status>> PROVE Rows'
  BY <1>i, <1>0, <1>w, RowsFrame DEF Working
<1>c. ASSUME Idle, UNCHANGED now, NEW S \in SUBSET {"queued", "running"}, Cancels(S)
      PROVE  Rows'
  <2>1. \A r \in Run : /\ status'[r] \in {"running"} \cup Settled => at[r] <= now
                       /\ status'[r] \in {"absent", "queued"} =>
                             status[r] \in {"absent", "queued"}
    BY <1>c, <1>0, CancelledRows DEF Settled
  <2>. QED
    BY <1>c, <1>0, <1>w, <2>1, CancelledRows, RowsFrame DEF Working
<1>1. CASE UNCHANGED vars
  BY <1>1, <1>i DEF vars, rows, Rows
<1>2. CASE Ticks
  <2>1. /\ Idle /\ UNCHANGED status /\ now' \in Int /\ now <= now'
        /\ \A r \in Run : at[r] \in Int
    BY <1>0, <1>2, Numbers DEF Ticks, rows, Rows, WorkloadTypeOK
  <2>2. \A r \in Run : at[r] <= now => at[r] <= now'
    BY <1>0, <2>1
  <2>. QED
    BY <1>0, <1>w, <2>1, <2>2, RowsFrame DEF Working
<1>3. ASSUME NEW c \in Client, CallWrites(c) PROVE Rows'
  BY <1>3, <1>i, CallsWrite DEF rows
<1>4. ASSUME NEW c \in Client, CallCancels(c) PROVE Rows'
  <2>1. PICK S \in SUBSET {"queued", "running"} : Cancels(S)
    BY <1>4, CallsCancel
  <2>2. Idle /\ UNCHANGED now
    BY <1>4, <2>1, CallsCancel DEF Cancels
  <2>. QED
    BY <2>1, <2>2, <1>c
<1>5. ASSUME NEW c \in Client, Ensures(c) PROVE Rows'
  <2>0. CASE workload = "deleted"
    BY <1>5, <1>i, <2>0 DEF Ensures, rows
  <2>2. SUFFICES ASSUME workload # "deleted" PROVE Rows'
    BY <2>0
  <2>1. NextSlot(now) \in Slot /\ NextSlot(now) \in Run /\ Inserted(NextSlot(now))
    BY <1>5, <2>2, SlotsOfRuns, Numbers DEF Ensures
  <2>3. NextSlot(now) <= now + 1 /\ (trigger = "once" => NextSlot(now) = 1)
    BY <1>0, Numbers DEF NextSlot, WorkloadTypeOK
  <2>. DEFINE s == NextSlot(now)
  <2>4. /\ UNCHANGED <<now, trigger, workload, job, dead, at, parent>>
        /\ status' = status \/ (status[s] = "absent" /\ status' = [status EXCEPT ![s] = "queued"])
    BY <1>5, <2>1, InsertedRow DEF Ensures
  <2>5. CASE status' = status
    BY <2>2, <2>4, <2>5, <1>i
  <2>6. CASE status[s] = "absent" /\ status' = [status EXCEPT ![s] = "queued"]
    <3>. HIDE DEF s
    <3>. QED
      BY <2>1, <2>2, <2>3, <2>4, <2>6, RowsInsert DEF Working, s
  <2>. QED
    BY <2>4, <2>5, <2>6
<1>6. ASSUME NEW c \in Client, DeleteRow(c) PROVE Rows'
  <2>1. /\ workload' = "deleted"
        /\ UNCHANGED <<now, trigger, at, parent, job, dead>>
        /\ \A r \in Run : status'[r] = "absent"
    BY <1>6 DEF DeleteRow
  <2>2. \A r \in Slot : r \in Run /\ at'[r] = r /\ parent'[r] = None
    BY <2>1, Numbers DEF Rows
  <2>3. \A w \in Worker, r \in Run : Working(w, r)' => w \notin dead' /\ at'[r] <= now'
    BY <2>1, <1>w DEF Working
  <2>4. \A r \in Run : ~(status'[r] \in {"running"} \cup Settled)
    BY <2>1 DEF Settled
  <2>. QED
    BY <2>1, <2>2, <2>3, <2>4 DEF Rows
<1>e. ASSUME NEW p \in Run \cup {None}, InsertExtra(p), workload # "deleted",
             UNCHANGED <<now, trigger, workload, dead>>,
             \A w \in Worker, r \in Run : Working(w, r)' => Working(w, r)
      PROVE  Rows'
  <2>1. PICK r \in Spare :
           /\ status' = [status EXCEPT ![r] = "queued"]
           /\ at' = [at EXCEPT ![r] = now]
           /\ parent' = [parent EXCEPT ![r] = p]
    BY <1>e DEF InsertExtra
  <2>2. r \in Run /\ r \notin Slot /\ status[r] = "absent"
    BY DEF Spare
  <2>. QED
    BY <1>e, <2>1, <2>2, RowsInsert
<1>7. CASE RunNow
  BY <1>7, <1>e DEF RunNow, Working
<1>8. ASSUME NEW r \in Run, Lapse(r) PROVE Rows'
  BY <1>8, <1>i DEF Lapse, Rows
<1>9. ASSUME NEW w \in Worker, Tick(w) PROVE Rows'
  <2>1. PICK S \in SUBSET Run :
           /\ \A r \in S : Claimable(r)
           /\ \A r \in Run :
                 /\ status'[r] = IF r \in S THEN "running" ELSE status[r]
                 /\ job'[w][r] = IF r \in S /\ ~Working(w, r)
                                 THEN [NoJob EXCEPT !.step = "working"]
                                 ELSE job[w][r]
    BY <1>9, TickClaims
  <2>2. /\ workload = "enabled" /\ w \notin dead
        /\ UNCHANGED <<now, trigger, workload, call, at, parent, dead>>
        /\ \A v \in Worker \ {w} : job'[v] = job[v]
    BY <1>9, TickClaims
  <2>3. \A r \in S : at[r] <= now /\ status[r] \in {"queued", "running"}
    BY <1>0, <2>1 DEF Claimable
  <2>4. \A v \in Worker, r \in Run : Working(v, r)' => Working(v, r) \/ (v = w /\ r \in S)
    BY <2>1, <2>2 DEF Working
  <2>. QED
    BY <1>0, <1>w, <2>1, <2>2, <2>3, <2>4, RowsFrame
<1>10. ASSUME NEW w \in Worker, Crash(w) PROVE Rows'
  <2>1. /\ UNCHANGED <<now, trigger, workload, call, at, parent, status>>
        /\ dead' = dead \cup {w} /\ job' = [job EXCEPT ![w] = [r \in Run |-> NoJob]]
    BY <1>10 DEF Crash, rows
  <2>2. \A v \in Worker, r \in Run : Working(v, r)' => Working(v, r) /\ v \notin dead'
    BY <2>1, <1>w DEF Working, WorkloadTypeOK
  <2>. QED
    BY <1>0, <1>w, <2>1, <2>2, RowsFrame
<1>11. ASSUME NEW w \in Worker, NEW r \in Run, Heartbeat(w, r) PROVE Rows'
  BY <1>11, <1>i DEF Heartbeat, Rows
<1>12. ASSUME NEW w \in Worker, NEW r \in Run, JobStep(w, r) \/ Throws(w, r)
       PROVE  Rows'
  <2>1. /\ UNCHANGED <<now, trigger, call, dead>> /\ Working(w, r)
        /\ \A v \in Worker, q \in Run : Working(v, q)' => Working(v, q)
    BY <1>12, JobMoves DEF Working
  <2>. DEFINE Kind == (workload' = "deleted") <=> (workload = "deleted")
              Quiet == \A q \in Run :
                 \/ status'[q] = status[q]
                 \/ q = r /\ status[q] # "absent" /\ status'[q] \in Settled
  <2>2. ASSUME Kind, UNCHANGED <<at, parent>>, Quiet
        PROVE  Rows'
    <3>2. \A q \in Run : status'[q] = "absent" <=> status[q] = "absent"
      BY <2>2 DEF Settled
    <3>3. \A q \in Run : status'[q] \in {"running"} \cup Settled => at[q] <= now
      BY <1>0, <1>w, <2>1, <2>2
    <3>4. \A q \in Run : status'[q] \in {"absent", "queued"} =>
             status[q] \in {"absent", "queued"}
      BY <2>2 DEF Settled
    <3>5. \A v \in Worker, q \in Run : Working(v, q)' =>
             /\ v \notin dead' /\ at[q] <= now'
             /\ status'[q] \in {"absent", "queued"} => workload = "deleted"
      BY <1>w, <2>1, <3>4
    <3>. QED
      BY <1>0, <2>1, <2>2, <3>2, <3>3, <3>5, RowsFrame
  <2>3. CASE Answered(w, r) \/ ReviewReads(w, r)
    BY <2>2, <2>3 DEF Answered, ReviewReads, rows
  <2>4. CASE Throws(w, r)
    BY <2>2, <2>4 DEF Throws, rows
  <2>5. CASE ReviewWrites(w, r)
    BY <2>2, <2>5 DEF ReviewWrites, Writes, rows
  <2>6. CASE Settle(w, r)
    <3>1. Quiet
      BY <2>6 DEF Settle, Settles, Settled, WorkloadTypeOK
    <3>. QED
      BY <2>2, <2>6, <3>1 DEF Settle
  <2>7. CASE Followup(w, r)
    <3>1. UNCHANGED workload
      BY <2>7 DEF Followup
    <3>2. (workload # "deleted" /\ InsertExtra(r)) \/ UNCHANGED rows
      BY <2>7 DEF Followup
    <3>. QED
      BY <2>1, <2>2, <3>1, <3>2, <1>e DEF rows
  <2>8. CASE EnsureNext(w, r)
    <3>. DEFINE s == NextSlot(at[r])
    <3>1. UNCHANGED workload
      BY <2>8 DEF EnsureNext
    <3>2. (workload # "deleted" /\ Inserted(s)) \/ UNCHANGED rows
      BY <2>8 DEF EnsureNext
    <3>3. s \in Slot /\ s \in Run
      BY <2>1, SlotsOfRuns, Numbers
    <3>4. s <= now + 1 /\ (trigger = "once" => s = 1)
      BY <1>0, <1>w, <2>1, Numbers DEF NextSlot, WorkloadTypeOK
    <3>. HIDE DEF s
    <3>5. CASE UNCHANGED rows
      BY <2>2, <3>1, <3>5 DEF rows
    <3>6. CASE workload # "deleted" /\ Inserted(s)
      <4>1. UNCHANGED <<at, parent>>
        BY <3>3, <3>6, InsertedRow
      <4>2. CASE status' = status
        BY <2>2, <3>1, <4>1, <4>2
      <4>3. CASE status[s] = "absent" /\ status' = [status EXCEPT ![s] = "queued"]
        BY <2>1, <3>1, <3>3, <3>4, <3>6, <4>1, <4>3, RowsInsert
      <4>. QED
        BY <3>3, <3>6, <4>2, <4>3, InsertedRow
    <3>. QED
      BY <3>2, <3>5, <3>6
  <2>. QED
    BY <1>12, <2>3, <2>4, <2>5, <2>6, <2>7, <2>8 DEF JobStep
<1>. QED
  BY <1>1, <1>2, <1>3, <1>4, <1>5, <1>6, <1>7, <1>8, <1>9, <1>10, <1>11, <1>12
     DEF Next, OwnerStep, CallWrites, CallCancels

-----------------------------------------------------------------------------
(* The claims and the stages.                                              *)

LEMMA StallsCounted == WorkloadTypeOK => stalls \in Nat
  BY Numbers DEF WorkloadTypeOK

LEMMA StallsOnlyByLapse ==
    ASSUME WorkloadTypeOK, [Next]_vars, stalls' = 0
    PROVE  stalls = 0
<1>1. stalls \in Nat
  BY StallsCounted
<1>2. ASSUME NEW r \in Run, Lapse(r) PROVE stalls = 0
  BY <1>1, <1>2 DEF Lapse
<1>3. CASE UNCHANGED vars \/ Ticks \/ RunNow
  BY <1>3 DEF vars, bounds, Ticks, RunNow
<1>4. ASSUME NEW c \in Client, CallWrites(c) \/ CallCancels(c) \/ Ensures(c) \/ DeleteRow(c)
      PROVE  stalls = 0
  BY <1>4, CallsWrite, CallsCancel DEF bounds, Ensures, DeleteRow
<1>5. ASSUME NEW w \in Worker, NEW r \in Run,
             Tick(w) \/ Crash(w) \/ Heartbeat(w, r) \/ JobStep(w, r) \/ Throws(w, r)
      PROVE  stalls = 0
  BY <1>5, JobMoves DEF Tick, Crash, Heartbeat, bounds
<1>6. ASSUME NEW w \in Worker, Tick(w) \/ Crash(w) PROVE stalls = 0
  BY <1>6 DEF Tick, Crash, bounds
<1>. QED
  BY <1>2, <1>3, <1>4, <1>5, <1>6 DEF Next, OwnerStep, CallWrites, CallCancels

\* Who claims a run finds it free: nobody executes it.
LEMMA ClaimedIsFree ==
    ASSUME WorkloadTypeOK, Rows, Claims, stalls = 0, workload = "enabled",
           NEW r \in Run, Claimable(r), NEW w \in Worker
    PROVE  ~Working(w, r)
<1>1. CASE status[r] = "queued"
  BY <1>1 DEF Rows
<1>2. CASE status[r] = "running" /\ r \in lapsed
  <2>1. ~Renews(r)
    BY <1>2 DEF Claims
  <2>2. Working(w, r) => holder[r] = w /\ w \notin dead
    BY DEF Claims, Rows
  <2>. QED
    BY <2>1, <2>2, WorkloadAssumption DEF Renews, Working
<1>. QED
  BY <1>1, <1>2 DEF Claimable, Expired

LEMMA ClaimsStep ==
    WorkloadTypeOK /\ Rows /\ Claims /\ [Next]_vars => Claims'
<1>. SUFFICES ASSUME WorkloadTypeOK, Rows, Claims, [Next]_vars, stalls' = 0
              PROVE  /\ \A w \in Worker, r \in Run : Working(w, r)' => holder'[r] = w
                     /\ \A r \in lapsed' : ~Renews(r)'
                     /\ \A w \in Worker, r \in Run : job'[w][r].step \in After =>
                           status'[r] \in Settled \/ workload' = "deleted"
  BY DEF Claims
<1>. DEFINE Claims1 == \A w \in Worker, r \in Run : Working(w, r) => holder[r] = w
            Claims2 == \A r \in lapsed : ~Renews(r)
            Claims3 == \A w \in Worker, r \in Run : job[w][r].step \in After =>
                          status[r] \in Settled \/ workload = "deleted"
            Goal == Claims1' /\ Claims2' /\ Claims3'
<1>. SUFFICES Goal
  OBVIOUS
<1>0. stalls = 0 /\ Claims1 /\ Claims2 /\ Claims3
  BY StallsOnlyByLapse DEF Claims
<1>w. \A r \in Run : Renews(r) <=> holder[r] # Nobody /\ holder[r] \notin dead
                                   /\ Working(holder[r], r)
  BY DEF Renews, Working
<1>h. \A r \in Run : holder[r] # Nobody => holder[r] \in Worker
  BY DEF WorkloadTypeOK
<1>r. lapsed \subseteq Run
  BY DEF WorkloadTypeOK
\* Steps that give no claim and let none run out.
<1>f. ASSUME holder' = holder, dead \subseteq dead', lapsed' \subseteq lapsed,
             \A w \in Worker, r \in Run : Working(w, r)' => Working(w, r), Claims3'
      PROVE  Goal
  <2>1. \A r \in Run : Renews(r)' => Renews(r)
    BY <1>f, <1>h DEF Renews, Working
  <2>. QED
    BY <1>f, <1>0, <1>r, <2>1
\* Those that also leave the jobs alone.
<1>i. ASSUME UNCHANGED <<holder, dead, job>>, lapsed' \subseteq lapsed,
             \A r \in Run : status[r] \in Settled =>
                 status'[r] \in Settled \/ workload' = "deleted",
             workload = "deleted" => workload' = "deleted"
      PROVE  Goal
  <2>1. Claims3'
    BY <1>i, <1>0
  <2>2. \A w \in Worker, r \in Run : Working(w, r)' => Working(w, r)
    BY <1>i DEF Working
  <2>. QED
    BY <1>i, <2>1, <2>2, <1>f
<1>1. CASE UNCHANGED vars
  BY <1>1, <1>i DEF vars, rows
<1>2. CASE Ticks
  BY <1>2, <1>i DEF Ticks, rows
<1>3. ASSUME NEW c \in Client, CallWrites(c) PROVE Goal
  BY <1>3, <1>i, CallsWrite DEF rows
<1>4. ASSUME NEW c \in Client, CallCancels(c) PROVE Goal
  <2>1. PICK S \in SUBSET {"queued", "running"} : Cancels(S)
    BY <1>4, CallsCancel
  <2>2. UNCHANGED <<dead, job, workload>>
    BY <1>4, CallsCancel
  <2>3. \A r \in Run : status[r] \in Settled => status'[r] \in Settled
    BY <2>1, CancelledRows DEF Settled
  <2>. QED
    BY <2>1, <2>2, <2>3, <1>i, CancelledRows
<1>n. ASSUME NEW s \in Run, Inserted(s)
      PROVE  /\ UNCHANGED <<holder, lapsed>>
             /\ \A r \in Run : status[r] \in Settled => status'[r] = status[r]
  BY <1>n, InsertedRow DEF Settled, WorkloadTypeOK
<1>e. ASSUME NEW p, InsertExtra(p)
      PROVE  /\ UNCHANGED <<holder, lapsed>>
             /\ \A r \in Run : status[r] \in Settled => status'[r] = status[r]
  BY <1>e DEF InsertExtra, Spare, Settled, WorkloadTypeOK
<1>5. ASSUME NEW c \in Client, Ensures(c) PROVE Goal
  <2>1. NextSlot(now) \in Run
    BY SlotsOfRuns, Numbers
  <2>. QED
    BY <1>5, <1>i, <1>n, <2>1 DEF Ensures, rows
<1>6. ASSUME NEW c \in Client, DeleteRow(c) PROVE Goal
  BY <1>6, <1>i DEF DeleteRow
<1>7. CASE RunNow
  BY <1>7, <1>i, <1>e DEF RunNow
<1>8. ASSUME NEW r \in Run, Lapse(r) PROVE Goal
  <2>1. /\ ~Renews(r) /\ lapsed' = lapsed \cup {r}
        /\ UNCHANGED <<holder, dead, job, status, workload>>
    BY <1>0, <1>8 DEF Lapse
  <2>2. \A q \in Run : Renews(q)' <=> Renews(q)
    BY <2>1 DEF Renews
  <2>. QED
    BY <1>0, <1>r, <2>1, <2>2 DEF Working
<1>9. ASSUME NEW w \in Worker, Tick(w) PROVE Goal
  <2>1. /\ workload = "enabled" /\ w \notin dead /\ UNCHANGED <<workload, dead>>
        /\ \A v \in Worker \ {w} : job'[v] = job[v]
    BY <1>9, TickClaims
  <2>2. PICK S \in SUBSET Run :
           /\ \A r \in S : Claimable(r)
           /\ \A r \in Run :
                 /\ status'[r] = IF r \in S THEN "running" ELSE status[r]
                 /\ holder'[r] = IF r \in S THEN w ELSE holder[r]
                 /\ job'[w][r] = IF r \in S /\ ~Working(w, r)
                                 THEN [NoJob EXCEPT !.step = "working"]
                                 ELSE job[w][r]
           /\ lapsed' = lapsed \ S
    BY <1>9, TickClaims
  <2>3. \A r \in S, v \in Worker : ~Working(v, r)
    BY <1>0, <2>1, <2>2, ClaimedIsFree
  <2>4. /\ \A v \in Worker, r \in Run : v # w \/ r \notin S => job'[v][r] = job[v][r]
        /\ \A r \in S : job'[w][r].step = "working"
    BY <2>1, <2>2, <2>3 DEF NoJob
  <2>5. Claims1'
    BY <1>0, <2>2, <2>3, <2>4 DEF Working
  <2>6. Claims2'
    <3>. SUFFICES ASSUME NEW r \in lapsed' PROVE ~Renews(r)'
      OBVIOUS
    <3>1. r \in lapsed /\ r \in Run /\ r \notin S
      BY <1>r, <2>2
    <3>. QED
      BY <1>0, <1>h, <2>1, <2>2, <2>4, <3>1 DEF Renews
  <2>7. Claims3'
    <3>. SUFFICES ASSUME NEW v \in Worker, NEW r \in Run, job'[v][r].step \in After
                  PROVE  status'[r] \in Settled
      OBVIOUS
    <3>1. r \notin S
      <4>. SUFFICES ASSUME r \in S PROVE FALSE
        OBVIOUS
      <4>1. v # w
        BY <2>4 DEF After
      <4>2. job[v][r].step \in After
        BY <2>4, <4>1
      <4>. QED
        BY <2>3, <4>2 DEF Working, NoJob, After
    <3>. QED
      BY <1>0, <2>1, <2>2, <2>4, <3>1
  <2>. QED
    BY <2>5, <2>6, <2>7
<1>10. ASSUME NEW w \in Worker, Crash(w) PROVE Goal
  <2>1. /\ UNCHANGED <<holder, lapsed, status, workload>> /\ dead \subseteq dead'
        /\ job' = [job EXCEPT ![w] = [r \in Run |-> NoJob]]
    BY <1>10 DEF Crash, rows
  <2>2. \A v \in Worker, r \in Run :
           job'[v][r] = NoJob \/ job'[v][r] = job[v][r]
    BY <2>1 DEF WorkloadTypeOK
  <2>3. \A v \in Worker, r \in Run : Working(v, r)' => Working(v, r)
    BY <2>2 DEF Working
  <2>4. NoJob.step \notin After
    BY DEF NoJob, After
  <2>5. Claims3'
    BY <1>0, <2>1, <2>2, <2>4
  <2>. QED
    BY <1>f, <2>1, <2>3, <2>5
<1>11. ASSUME NEW w \in Worker, NEW r \in Run, Heartbeat(w, r) PROVE Goal
  BY <1>11, <1>i DEF Heartbeat
<1>12. ASSUME NEW w \in Worker, NEW r \in Run, JobStep(w, r) \/ Throws(w, r)
       PROVE  Goal
  <2>1. /\ UNCHANGED dead /\ w \notin dead /\ Working(w, r)
        /\ \A v \in Worker, q \in Run : v # w \/ q # r => job'[v][q] = job[v][q]
        /\ \A v \in Worker, q \in Run : Working(v, q)' => Working(v, q)
    BY <1>12, JobMoves DEF Working
  <2>2. job[w][r] \in Job /\ holder[r] = w
    BY <1>0, <2>1 DEF WorkloadTypeOK
  <2>3. ASSUME UNCHANGED holder, lapsed' \subseteq lapsed,
               \A q \in Run : status[q] \in Settled => status'[q] \in Settled,
               workload = "deleted" => workload' = "deleted",
               job'[w][r].step \in After =>
                  status'[r] \in Settled \/ workload' = "deleted"
        PROVE  Goal
    <3>1. Claims3'
      BY <1>0, <2>1, <2>3
    <3>. QED
      BY <1>f, <2>1, <2>3, <3>1
  <2>4. CASE Answered(w, r)
    <3>1. job'[w][r].step = "settling"
      BY <2>4, JobAfter
    <3>. QED
      BY <2>3, <2>4, <3>1 DEF Answered, After, rows
  <2>5. CASE Throws(w, r)
    <3>1. job'[w][r].step \in {"settling", "none"}
      BY <2>5, JobAfter DEF NoJob
    <3>. QED
      BY <2>3, <2>5, <3>1 DEF Throws, After, rows
  <2>6. CASE Settle(w, r)
    <3>1. status[r] = "absent" => workload = "deleted"
      BY <2>1 DEF Rows
    <3>2. /\ UNCHANGED <<holder, workload>> /\ lapsed' \subseteq lapsed
          /\ \A q \in Run : q # r => status'[q] = status[q]
          /\ status'[r] \in Settled \/ (status' = status /\ status[r] = "absent")
      BY <2>2, <2>6 DEF Settle, Settles, Settled, WorkloadTypeOK
    <3>3. \A q \in Run : status[q] \in Settled => status'[q] \in Settled
      BY <3>2
    <3>. QED
      BY <2>3, <3>1, <3>2, <3>3
  <2>7. CASE ReviewReads(w, r) \/ ReviewWrites(w, r)
    <3>1. job[w][r].step \in After
      BY <2>7 DEF ReviewReads, ReviewWrites, At, After
    <3>2. /\ UNCHANGED <<holder, lapsed, status>>
          /\ workload = "deleted" => workload' = "deleted"
      BY <2>7 DEF ReviewReads, ReviewWrites, Writes, rows
    <3>. QED
      BY <1>0, <2>3, <3>1, <3>2
  <2>8. CASE Followup(w, r) \/ EnsureNext(w, r)
    <3>1. job[w][r].step \in After
      BY <2>8 DEF Followup, EnsureNext, At, After
    <3>2. workload' = workload
      BY <2>8 DEF Followup, EnsureNext
    <3>3. InsertExtra(r) \/ Inserted(NextSlot(at[r])) \/ UNCHANGED rows
      BY <2>8 DEF Followup, EnsureNext
    <3>4. NextSlot(at[r]) \in Run
      BY <2>1, SlotsOfRuns, Numbers
    <3>5. UNCHANGED <<holder, lapsed>>
      BY <3>3, <3>4, <1>n, <1>e DEF rows
    <3>6. \A q \in Run : status[q] \in Settled => status'[q] = status[q]
      BY <3>3, <3>4, <1>n, <1>e DEF rows
    <3>. QED
      BY <1>0, <2>3, <3>1, <3>2, <3>5, <3>6
  <2>. QED
    BY <1>12, <2>4, <2>5, <2>6, <2>7, <2>8 DEF JobStep
<1>. QED
  BY <1>1, <1>2, <1>3, <1>4, <1>5, <1>6, <1>7, <1>8, <1>9, <1>10, <1>11, <1>12
     DEF Next, OwnerStep, CallWrites, CallCancels

LEMMA StagesStep ==
    /\ WorkloadTypeOK /\ WorkloadTypeOK' /\ Rows /\ Claims /\ StageAfterRun
    /\ [Next]_vars
    => StageAfterRun'
<1>a. WorkloadTypeOK' => (stalls \in Nat)'
  BY StallsCounted, PTL
<1>. SUFFICES ASSUME WorkloadTypeOK, WorkloadTypeOK', Rows, Claims, StageAfterRun,
                     [Next]_vars, stalls' = 0,
                     NEW q \in Run, status'[q] # "absent", parent'[q] # None
              PROVE  status'[parent'[q]] \in Settled
  <2>1. WorkloadTypeOK' => stalls' = 0 \/ stalls' > 0
    BY <1>a
  <2>. QED
    BY <2>1 DEF StageAfterRun
<1>0. stalls = 0 /\ ~(stalls > 0)
  BY StallsOnlyByLapse
<1>p. ASSUME parent[q] # None, status[q] # "absent"
      PROVE  parent[q] \in Run /\ status[parent[q]] \in Settled
  BY <1>0, <1>p DEF StageAfterRun, WorkloadTypeOK
<1>q. parent'[q] \in Run
  BY DEF WorkloadTypeOK
\* Steps that insert nothing, and leave alone what is settled.
<1>f. ASSUME UNCHANGED parent,
             \A r \in Run : status'[r] # "absent" => status[r] # "absent",
             \A r \in Run : status[r] \in Settled => status'[r] \in Settled
      PROVE  status'[parent'[q]] \in Settled
  BY <1>f, <1>p
<1>n. ASSUME NEW s \in Slot, Inserted(s) PROVE status'[parent'[q]] \in Settled
  <2>1. s \in Run /\ UNCHANGED parent /\ parent[s] = None
    BY <1>n, Numbers, InsertedRow DEF Rows
  <2>2. q # s
    BY <2>1
  <2>3. status[q] # "absent" /\ \A r \in Run : status[r] \in Settled => status'[r] = status[r]
    BY <1>n, <2>1, <2>2, InsertedRow DEF Settled, WorkloadTypeOK
  <2>. QED
    BY <1>p, <2>1, <2>3
<1>e. ASSUME NEW p \in Run \cup {None}, InsertExtra(p), p # None => status[p] \in Settled
      PROVE  status'[parent'[q]] \in Settled
  <2>1. PICK s \in Spare :
           /\ status' = [status EXCEPT ![s] = "queued"]
           /\ parent' = [parent EXCEPT ![s] = p]
    BY <1>e DEF InsertExtra
  <2>2. s \in Run /\ status[s] = "absent"
    BY DEF Spare
  <2>3. \A r \in Run : status[r] \in Settled => status'[r] = status[r]
    BY <2>1, <2>2 DEF Settled, WorkloadTypeOK
  <2>4. CASE q = s
    <3>1. parent'[q] = p
      BY <2>1, <2>2, <2>4 DEF WorkloadTypeOK
    <3>. QED
      BY <1>e, <1>q, <2>3, <3>1
  <2>5. CASE q # s
    <3>1. parent'[q] = parent[q] /\ status[q] # "absent"
      BY <2>1, <2>2, <2>5 DEF WorkloadTypeOK
    <3>. QED
      BY <1>p, <2>3, <3>1
  <2>. QED
    BY <2>4, <2>5
<1>1. CASE UNCHANGED vars
  BY <1>1, <1>f DEF vars, rows
<1>2. CASE Ticks
  BY <1>2, <1>f DEF Ticks, rows
<1>3. ASSUME NEW c \in Client, CallWrites(c) PROVE status'[parent'[q]] \in Settled
  BY <1>3, <1>f, CallsWrite DEF rows
<1>4. ASSUME NEW c \in Client, CallCancels(c) PROVE status'[parent'[q]] \in Settled
  <2>1. PICK S \in SUBSET {"queued", "running"} : Cancels(S)
    BY <1>4, CallsCancel
  <2>2. \A r \in Run : status[r] \in Settled => status'[r] \in Settled
    BY <2>1, CancelledRows DEF Settled
  <2>. QED
    BY <2>1, <2>2, <1>f, CancelledRows
<1>5. ASSUME NEW c \in Client, Ensures(c) PROVE status'[parent'[q]] \in Settled
  BY <1>5, <1>f, <1>n, SlotsOfRuns DEF Ensures, rows
<1>6. ASSUME NEW c \in Client, DeleteRow(c) PROVE status'[parent'[q]] \in Settled
  BY <1>6 DEF DeleteRow
<1>7. CASE RunNow
  <2>1. InsertExtra(None)
    BY <1>7 DEF RunNow
  <2>. QED
    BY <2>1, <1>e
<1>8. ASSUME NEW r \in Run, Lapse(r) PROVE status'[parent'[q]] \in Settled
  BY <1>8, <1>f DEF Lapse
<1>9. ASSUME NEW w \in Worker, Tick(w) PROVE status'[parent'[q]] \in Settled
  <2>1. PICK S \in SUBSET Run :
           /\ \A r \in S : Claimable(r)
           /\ \A r \in Run : status'[r] = IF r \in S THEN "running" ELSE status[r]
    BY <1>9, TickClaims
  <2>2. UNCHANGED parent
    BY <1>9, TickClaims
  <2>3. \A r \in S : status[r] \in {"queued", "running"}
    BY <2>1 DEF Claimable
  <2>4. \A r \in Run : status[r] \in Settled => status'[r] \in Settled
    BY <2>1, <2>3 DEF Settled
  <2>. QED
    BY <1>f, <2>1, <2>2, <2>3, <2>4
<1>10. ASSUME NEW w \in Worker, Crash(w) PROVE status'[parent'[q]] \in Settled
  BY <1>10, <1>f DEF Crash, rows
<1>11. ASSUME NEW w \in Worker, NEW r \in Run, Heartbeat(w, r)
       PROVE  status'[parent'[q]] \in Settled
  BY <1>11, <1>f DEF Heartbeat
<1>12. ASSUME NEW w \in Worker, NEW r \in Run, JobStep(w, r) \/ Throws(w, r)
       PROVE  status'[parent'[q]] \in Settled
  <2>1. Working(w, r)
    BY <1>12, JobMoves
  <2>2. CASE Answered(w, r) \/ ReviewReads(w, r)
    BY <2>2, <1>f DEF Answered, ReviewReads, rows
  <2>3. CASE ReviewWrites(w, r) \/ Throws(w, r)
    BY <2>3, <1>f DEF ReviewWrites, Throws, rows
  <2>4. CASE Settle(w, r)
    <3>1. /\ UNCHANGED parent
          /\ \A k \in Run : /\ status'[k] # "absent" => status[k] # "absent"
                            /\ status[k] \in Settled => status'[k] \in Settled
      BY <2>4 DEF Settle, Settles, Settled, WorkloadTypeOK
    <3>. QED
      BY <1>f, <3>1
  <2>5. CASE Followup(w, r)
    <3>1. (workload # "deleted" /\ InsertExtra(r)) \/ UNCHANGED rows
      BY <2>5 DEF Followup
    <3>2. status[r] \in Settled \/ workload = "deleted"
      BY <1>0, <2>5 DEF Followup, At, After, Claims
    <3>3. r # None
      BY Numbers DEF None
    <3>. QED
      BY <1>e, <1>f, <3>1, <3>2, <3>3 DEF rows
  <2>6. CASE EnsureNext(w, r)
    <3>1. Inserted(NextSlot(at[r])) \/ UNCHANGED rows
      BY <2>6 DEF EnsureNext
    <3>2. NextSlot(at[r]) \in Slot
      BY <2>1, SlotsOfRuns
    <3>. QED
      BY <1>f, <1>n, <3>1, <3>2 DEF rows
  <2>. QED
    BY <1>12, <2>2, <2>3, <2>4, <2>5, <2>6 DEF JobStep
<1>. QED
  BY <1>1, <1>2, <1>3, <1>4, <1>5, <1>6, <1>7, <1>8, <1>9, <1>10, <1>11, <1>12
     DEF Next, OwnerStep, CallWrites, CallCancels

-----------------------------------------------------------------------------
(* A run is continued once.                                                *)

LEMMA FaultsOnlyGrow ==
    ASSUME WorkloadTypeOK, Rows, [Next]_vars, faults' = 0
    PROVE  faults = 0
<1>1. faults \in Nat
  BY Numbers DEF WorkloadTypeOK
<1>2. CASE UNCHANGED vars \/ Ticks \/ RunNow
  BY <1>2 DEF vars, bounds, Ticks, RunNow
<1>3. ASSUME NEW c \in Client, CallWrites(c) PROVE faults = 0
  BY <1>1, <1>3, CallsWrite
<1>4. ASSUME NEW c \in Client, CallCancels(c) \/ Ensures(c) \/ DeleteRow(c)
      PROVE  faults = 0
  BY <1>4, CallsCancel DEF bounds, Ensures, DeleteRow
<1>5. ASSUME NEW r \in Run, Lapse(r) PROVE faults = 0
  BY <1>5 DEF Lapse
<1>6. ASSUME NEW w \in Worker, Tick(w) \/ Crash(w) PROVE faults = 0
  BY <1>6 DEF Tick, Crash, bounds
<1>7. ASSUME NEW w \in Worker, NEW r \in Run, Heartbeat(w, r) \/ JobStep(w, r)
      PROVE  faults = 0
  <2>1. CASE Heartbeat(w, r) \/ Answered(w, r) \/ Settle(w, r)
    BY <2>1 DEF Heartbeat, Answered, Settle, bounds
  <2>2. CASE ReviewReads(w, r) \/ ReviewWrites(w, r)
    BY <2>2 DEF ReviewReads, ReviewWrites, bounds
  <2>3. CASE Followup(w, r) \/ EnsureNext(w, r)
    BY <2>3 DEF Followup, EnsureNext, bounds
  <2>. QED
    BY <1>7, <2>1, <2>2, <2>3 DEF JobStep
<1>8. ASSUME NEW w \in Worker, NEW r \in Run, Throws(w, r) PROVE faults = 0
  BY <1>1, <1>8 DEF Throws
<1>. QED
  BY <1>2, <1>3, <1>4, <1>5, <1>6, <1>7, <1>8
     DEF Next, OwnerStep, CallWrites, CallCancels

\* What an execution past the stage of its run may still do: nothing that
\* queues another one.
LEMMA PastStays ==
    ASSUME WorkloadTypeOK, NEW w \in Worker, NEW r \in Run,
           JobStep(w, r) \/ Throws(w, r), Past(w, r),
           Stage = "always" => ~Throws(w, r)
    PROVE  /\ ~HasStage(w, r) \/ ~At(w, r, "staging")
           /\ Working(w, r)' => Past(w, r)'
<1>. USE DEF WorkloadTypeOK
<1>0. job[w][r] \in Job
  OBVIOUS
<1>1. ~HasStage(w, r) \/ ~At(w, r, "staging")
  BY DEF Past, HasStage, At
<1>2. \A j : Goes(w, r, j) => job'[w][r] = j
  BY DEF Goes
<1>3. Stage \in {"none", "always", "on_success", "on_failure"}
  BY WorkloadAssumption
<1>4. CASE job[w][r].step = "ensuring" /\ ~Throws(w, r)
  <2>1. EnsureNext(w, r)
    BY <1>4 DEF JobStep, Answered, Settle, ReviewReads, ReviewWrites, Followup, At
  <2>. QED
    BY <1>1, <1>2, <2>1 DEF EnsureNext, Working
<1>5. CASE Throws(w, r)
  <2>1. CASE Goes(w, r, NoJob)
    BY <1>1, <1>2, <2>1 DEF Working
  <2>2. CASE /\ job[w][r].good /\ job[w][r].step # "working"
             /\ Goes(w, r, [job[w][r] EXCEPT !.step = "settling", !.good = FALSE])
    <3>1. job'[w][r].step = "settling" /\ ~job'[w][r].good
      BY <1>0, <1>2, <2>2 DEF Job
    <3>. QED
      BY <1>1, <1>3, <2>2, <3>1, <1>5 DEF Past
  <2>. QED
    BY <1>5, <2>1, <2>2 DEF Throws
<1>6. CASE /\ Stage = "on_success" /\ ~job[w][r].good /\ job[w][r].step # "working"
           /\ ~Throws(w, r)
  <2>1. ~Answered(w, r)
    BY <1>6 DEF Answered, At
  <2>2. \A s \in {"reviewing", "staging", "ensuring"} :
           Moves(w, r, s) => job'[w][r].step = s /\ job'[w][r].good = job[w][r].good
    BY <1>0, <1>2 DEF Moves, Job
  <2>3. CASE Settle(w, r) \/ Followup(w, r)
    BY <1>1, <1>6, <2>2, <2>3 DEF Settle, Followup, Past
  <2>4. CASE ReviewReads(w, r)
    <3>1. \A b \in BOOLEAN :
             LET j == [job[w][r] EXCEPT !.step = "writing", !.seen = b]
             IN  j.step = "writing" /\ j.good = job[w][r].good
      BY <1>0 DEF Job
    <3>2. job'[w][r].step # "working" /\ ~job'[w][r].good
      BY <1>2, <1>6, <2>2, <2>4, <3>1 DEF ReviewReads
    <3>. QED
      BY <1>1, <1>6, <3>2 DEF Past
  <2>5. CASE ReviewWrites(w, r)
    <3>. DEFINE b == job[w][r].seen \/ workload = "deleted"
    <3>1. Goes(w, r, [job[w][r] EXCEPT !.step = "staging", !.seen = b])
      BY <2>5 DEF ReviewWrites
    <3>2. LET j == [job[w][r] EXCEPT !.step = "staging", !.seen = b]
          IN  j.step = "staging" /\ j.good = job[w][r].good
      BY <1>0 DEF Job
    <3>3. job'[w][r].step # "working" /\ ~job'[w][r].good
      BY <1>2, <1>6, <3>1, <3>2
    <3>. QED
      BY <1>1, <1>6, <3>3 DEF Past
  <2>6. CASE EnsureNext(w, r)
    BY <1>1, <1>2, <2>6 DEF EnsureNext, Working
  <2>. QED
    BY <1>6, <2>1, <2>3, <2>4, <2>5, <2>6 DEF JobStep
<1>7. CASE Stage = "none"
  BY <1>1, <1>7 DEF Past
<1>. QED
  BY <1>4, <1>5, <1>6, <1>7 DEF Past

LEMMA OnceStep ==
    WorkloadTypeOK /\ Rows /\ Claims /\ StageAfterRun /\ Once /\ [Next]_vars => Once'
<1>. SUFFICES ASSUME WorkloadTypeOK, Rows, Claims, StageAfterRun, Once, [Next]_vars,
                     Guarded', NEW p \in Run, Staged(p)'
              PROVE  Single(p)' /\ \A w \in Worker : Working(w, p)' => Past(w, p)'
  BY DEF Once
<1>. DEFINE Done == Single(p)' /\ \A w \in Worker : Working(w, p)' => Past(w, p)'
<1>0. stalls = 0 /\ ~(stalls > 0) /\ (Stage = "always" => faults = 0) /\ Guarded
  BY StallsOnlyByLapse, FaultsOnlyGrow DEF Guarded
<1>1. p # None /\ p \in Nat
  BY Numbers DEF None
<1>2. Staged(p) =>
         /\ workload # "deleted" /\ status[p] \in Settled /\ Single(p)
         /\ \A w \in Worker : Working(w, p) => Past(w, p)
  BY <1>0, <1>1 DEF Once, Staged, Rows, StageAfterRun
\* Steps that queue no stage of p.
<1>f. ASSUME \A q \in Run : status'[q] # "absent" /\ parent'[q] = p
                               => status[q] # "absent" /\ parent[q] = p,
             Staged(p) => \A w \in Worker : Working(w, p)' => Past(w, p)'
      PROVE  Done
  <2>1. Staged(p)
    BY <1>f DEF Staged
  <2>2. Single(p)'
    BY <1>2, <1>f, <2>1 DEF Single
  <2>. QED
    BY <1>f, <2>1, <2>2
<1>j. ASSUME job' = job PROVE Staged(p) => \A w \in Worker : Working(w, p)' => Past(w, p)'
  BY <1>2, <1>j DEF Working, Past
<1>n. ASSUME NEW s \in Slot, Inserted(s)
      PROVE  \A q \in Run : status'[q] # "absent" /\ parent'[q] = p
                               => status[q] # "absent" /\ parent[q] = p
  <2>1. s \in Run /\ UNCHANGED parent /\ parent[s] = None
    BY <1>n, Numbers, InsertedRow DEF Rows
  <2>. QED
    BY <1>1, <1>n, <2>1, InsertedRow DEF WorkloadTypeOK
<1>e. ASSUME NEW o \in Run \cup {None}, InsertExtra(o), o # p
      PROVE  \A q \in Run : status'[q] # "absent" /\ parent'[q] = p
                               => status[q] # "absent" /\ parent[q] = p
  <2>1. PICK s \in Spare :
           /\ status' = [status EXCEPT ![s] = "queued"]
           /\ parent' = [parent EXCEPT ![s] = o]
    BY <1>e DEF InsertExtra
  <2>. QED
    BY <1>e, <2>1 DEF WorkloadTypeOK, Spare
<1>3. CASE UNCHANGED vars
  BY <1>3, <1>f, <1>j DEF vars, rows
<1>4. CASE Ticks
  BY <1>4, <1>f, <1>j DEF Ticks, rows
<1>w. ASSUME NEW c \in Client, CallWrites(c) PROVE Done
  BY <1>w, <1>f, <1>j, CallsWrite DEF rows
<1>5. ASSUME NEW c \in Client, CallCancels(c) PROVE Done
  <2>1. PICK S \in SUBSET {"queued", "running"} : Cancels(S)
    BY <1>5, CallsCancel
  <2>2. job' = job
    BY <1>5, CallsCancel
  <2>. QED
    BY <1>f, <1>j, <2>1, <2>2, CancelledRows
<1>6. ASSUME NEW c \in Client, Ensures(c) PROVE Done
  <2>1. job' = job
    BY <1>6 DEF Ensures
  <2>. QED
    BY <1>6, <1>f, <1>j, <1>n, <2>1, SlotsOfRuns DEF Ensures, rows
<1>7. ASSUME NEW c \in Client, DeleteRow(c) PROVE Done
  BY <1>7 DEF DeleteRow, Staged
<1>8. CASE RunNow
  <2>1. InsertExtra(None) /\ job' = job
    BY <1>8 DEF RunNow
  <2>. QED
    BY <1>1, <1>e, <1>f, <1>j, <2>1
<1>9. ASSUME NEW r \in Run, Lapse(r) PROVE Done
  BY <1>9, <1>f, <1>j DEF Lapse
<1>10. ASSUME NEW w \in Worker, Tick(w) PROVE Done
  <2>1. PICK S \in SUBSET Run :
           /\ \A r \in S : Claimable(r)
           /\ \A r \in Run :
                 /\ status'[r] = IF r \in S THEN "running" ELSE status[r]
                 /\ job'[w][r] = IF r \in S /\ ~Working(w, r)
                                 THEN [NoJob EXCEPT !.step = "working"] ELSE job[w][r]
    BY <1>10, TickClaims
  <2>2. UNCHANGED parent /\ \A v \in Worker \ {w} : job'[v] = job[v]
    BY <1>10, TickClaims
  <2>3. \A r \in S : status[r] \in {"queued", "running"}
    BY <2>1 DEF Claimable
  <2>4. Staged(p) => \A v \in Worker : job'[v][p] = job[v][p]
    BY <1>2, <2>1, <2>2, <2>3 DEF Settled
  <2>5. Staged(p) => \A v \in Worker : Working(v, p)' => Past(v, p)'
    BY <1>2, <2>4 DEF Working, Past
  <2>6. \A q \in Run : status'[q] # "absent" => status[q] # "absent"
    BY <2>1, <2>3
  <2>. QED
    BY <1>f, <2>2, <2>5, <2>6
<1>11. ASSUME NEW w \in Worker, Crash(w) PROVE Done
  <2>1. \A v \in Worker : Working(v, p)' => job'[v][p] = job[v][p]
    BY <1>11 DEF Crash, Working, WorkloadTypeOK
  <2>2. Staged(p) => \A v \in Worker : Working(v, p)' => Past(v, p)'
    BY <1>2, <2>1 DEF Working, Past
  <2>. QED
    BY <1>11, <1>f, <2>2 DEF Crash, rows
<1>12. ASSUME NEW w \in Worker, NEW r \in Run, Heartbeat(w, r) PROVE Done
  BY <1>12, <1>f, <1>j DEF Heartbeat
<1>13. ASSUME NEW w \in Worker, NEW r \in Run, JobStep(w, r) \/ Throws(w, r) PROVE Done
  <2>1. /\ Working(w, r)
        /\ \A v \in Worker, q \in Run : v # w \/ q # r => job'[v][q] = job[v][q]
    BY <1>13, JobMoves
  \* An exception without a fault comes from a workload that is gone.
  <2>2. Stage = "always" /\ Throws(w, r) => workload = "deleted"
    BY <1>0 DEF Guarded, Throws, WorkloadTypeOK
  <2>3. Staged(p) => \A v \in Worker : Working(v, p)' => Past(v, p)'
    <3>. SUFFICES ASSUME Staged(p), NEW v \in Worker, Working(v, p)' PROVE Past(v, p)'
      OBVIOUS
    <3>1. CASE v # w \/ p # r
      <4>1. job'[v][p] = job[v][p]
        BY <2>1, <3>1
      <4>. QED
        BY <1>2, <4>1 DEF Working, Past
    <3>2. CASE v = w /\ p = r
      BY <1>2, <1>13, <2>1, <2>2, <3>2, PastStays
    <3>. QED
      BY <3>1, <3>2
  <2>4. CASE Answered(w, r) \/ ReviewReads(w, r) \/ ReviewWrites(w, r) \/ Throws(w, r)
    <3>1. UNCHANGED <<status, parent>>
      BY <2>4 DEF Answered, ReviewReads, ReviewWrites, Throws, rows
    <3>. QED
      BY <1>f, <2>3, <3>1
  <2>5. CASE Settle(w, r)
    <3>1. UNCHANGED parent /\ \A k \in Run : status'[k] # "absent" => status[k] # "absent"
      BY <2>5 DEF Settle, Settles, WorkloadTypeOK
    <3>. QED
      BY <1>f, <2>3, <3>1
  <2>6. CASE EnsureNext(w, r)
    <3>1. Inserted(NextSlot(at[r])) \/ UNCHANGED rows
      BY <2>6 DEF EnsureNext
    <3>2. NextSlot(at[r]) \in Slot
      BY <2>1, SlotsOfRuns
    <3>. QED
      BY <1>f, <1>n, <2>3, <3>1, <3>2 DEF rows
  <2>7. CASE Followup(w, r)
    <3>1. CASE UNCHANGED rows
      BY <1>f, <2>3, <3>1 DEF rows
    <3>2. CASE InsertExtra(r) /\ r # p
      BY <1>e, <1>f, <2>3, <3>2
    <3>3. CASE HasStage(w, r) /\ InsertExtra(r) /\ r = p
      \* The first stage of p: nobody else executes p any more.
      <4>1. ~Staged(p)
        BY <1>2, <2>1, <2>2, <2>7, <3>3, PastStays DEF Followup, JobStep, Past, HasStage, At
      <4>2. PICK s \in Spare :
               /\ status' = [status EXCEPT ![s] = "queued"]
               /\ parent' = [parent EXCEPT ![s] = p]
        BY <3>3 DEF InsertExtra
      <4>3. \A q \in Run : status'[q] # "absent" /\ parent'[q] = p => q = s
        BY <4>1, <4>2 DEF Staged, WorkloadTypeOK
      <4>4. Single(p)'
        BY <4>3 DEF Single
      <4>5. ASSUME NEW v \in Worker, Working(v, p)' PROVE Past(v, p)'
        <5>1. v = w
          <6>1. v # w => Working(v, p)
            BY <2>1, <4>5 DEF Working
          <6>. QED
            BY <1>0, <2>1, <3>3, <6>1 DEF Claims
        <5>2. job'[w][p] = [job[w][p] EXCEPT !.step = "ensuring"] /\ job[w][p] \in Job
          BY <2>7, <3>3 DEF Followup, Moves, Goes, WorkloadTypeOK
        <5>3. job'[w][p].step = "ensuring" /\ job'[w][p].good = job[w][p].good
          BY <5>2 DEF Job
        <5>. QED
          BY <3>3, <5>1, <5>3 DEF Past, HasStage
      <4>. QED
        BY <4>4, <4>5
    <3>. QED
      BY <2>7, <3>1, <3>2, <3>3 DEF Followup, rows
  <2>. QED
    BY <1>13, <2>4, <2>5, <2>6, <2>7 DEF JobStep
<1>. QED
  BY <1>3, <1>4, <1>w, <1>5, <1>6, <1>7, <1>8, <1>9, <1>10, <1>11, <1>12, <1>13
     DEF Next, OwnerStep, CallWrites, CallCancels

-----------------------------------------------------------------------------
(* The schedule.                                                           *)

\* Steps that insert no row of the schedule: the owner and the workers know of
\* it what they knew, and who owes the next row still does.
LEMMA KeptFrame ==
    ASSUME WorkloadTypeOK, Kept, Unattended' => Unattended, trigger' = trigger,
           \A m \in Slot : status'[m] = "absent" <=> status[m] = "absent",
           Unattended' =>
              \/ Deleting'
              \/ /\ ~Deleting
                 /\ \A m \in Slot : status'[m] = "cancelled" => status[m] = "cancelled",
           Unattended' =>
              \A w \in Worker, r \in Run : Working(w, r)' /\ ~job'[w][r].seen =>
                 Working(w, r) /\ ~job[w][r].seen /\ at'[r] = at[r],
           Unattended' =>
              \A m \in Slot : Top(m) /\ status'[m] \in Settled =>
                 \/ \E w \in Worker : Obliged(w, m)'
                 \/ /\ status[m] \in Settled
                    /\ \A w \in Worker : Obliged(w, m) => Obliged(w, m)'
    PROVE  Kept'
<1>. SUFFICES ASSUME Unattended'
              PROVE  (Deleting' \/ Lasts') /\ (trigger' = "cron" => Outrun' /\ Owed')
  BY DEF Kept
<1>1. Unattended
  OBVIOUS
<1>2. \A m \in Slot : Top(m)' => Top(m)
  BY DEF Top
<1>3. ASSUME ~Deleting', NEW m \in Slot, Top(m)' PROVE status'[m] # "cancelled"
  BY <1>1, <1>2, <1>3 DEF Kept, Lasts
<1>4. ASSUME trigger' = "cron", NEW w \in Worker, NEW r \in Run, Working(w, r)',
             ~job'[w][r].seen
      PROVE  \E s \in Slot : s > at'[r] /\ status'[s] # "absent"
  <2>1. Working(w, r) /\ ~job[w][r].seen /\ at'[r] = at[r]
    BY <1>4
  <2>2. PICK s \in Slot : s > at[r] /\ status[s] # "absent"
    BY <1>1, <1>4, <2>1 DEF Kept, Outrun
  <2>. QED
    BY <2>1, <2>2
<1>5. ASSUME trigger' = "cron", NEW m \in Slot, Top(m)', status'[m] \in Settled
      PROVE  \E w \in Worker : Obliged(w, m)'
  <2>1. Top(m)
    BY <1>2, <1>5
  <2>2. CASE status[m] \in Settled /\ \A w \in Worker : Obliged(w, m) => Obliged(w, m)'
    <3>1. \E w \in Worker : Obliged(w, m)
      BY <1>1, <1>5, <2>1, <2>2 DEF Kept, Owed
    <3>. QED
      BY <2>2, <3>1
  <2>. QED
    BY <1>5, <2>1, <2>2
<1>. QED
  BY <1>3, <1>4, <1>5 DEF Lasts, Outrun, Owed

\* The owner's call queues the row after now, unless its key was used before.
LEMMA KeptEnsures ==
    ASSUME WorkloadTypeOK, WorkloadTypeOK', Rows, Rows', NEW c \in Client, Ensures(c)
    PROVE  Kept'
<1>. SUFFICES ASSUME ~lost', workload' = "enabled"
              PROVE  Lasts' /\ (trigger' = "cron" => Outrun' /\ Owed')
  BY DEF Kept, Unattended
<1>. DEFINE s == NextSlot(now)
<1>1. s \in Slot /\ s \in Run /\ Inserted(s)
  BY SlotsOfRuns, Numbers DEF Ensures
<1>2. UNCHANGED <<now, trigger, workload, job>>
  BY DEF Ensures
<1>3. UNCHANGED at
  BY <1>1, InsertedRow
<1>4. s = IF trigger = "once" THEN 1 ELSE now + 1
  BY DEF NextSlot
<1>5. /\ \A m \in Slot : m \in Int
      /\ now \in Int /\ \A r \in Run : at[r] \in Int
  BY Numbers DEF Slot, WorkloadTypeOK
<1>. HIDE DEF s
<1>6. status'[s] \notin {"absent", "cancelled"}
  BY <1>1, InsertedRow DEF WorkloadTypeOK
<1>7. ASSUME NEW m \in Slot, Top(m)' PROVE m = s
  <2>1. m > s => status'[m] = "absent"
    BY <1>2, <1>4, <1>5 DEF Rows
  <2>2. ~(s > m)
    BY <1>1, <1>6, <1>7 DEF Top
  <2>. QED
    BY <1>1, <1>5, <1>7, <2>1, <2>2 DEF Top
<1>8. ASSUME trigger' = "cron", NEW w \in Worker, NEW r \in Run, Working(w, r)'
      PROVE  \E k \in Slot : k > at'[r] /\ status'[k] # "absent"
  <2>1. at[r] <= now
    BY <1>2, <1>8 DEF Rows, Working
  <2>2. s > at'[r]
    BY <1>2, <1>3, <1>4, <1>5, <1>8, <2>1
  <2>. QED
    BY <1>1, <1>6, <2>2
<1>9. ASSUME trigger' = "cron", NEW m \in Slot, Top(m)', status'[m] \in Settled
      PROVE  FALSE
  <2>1. m = s /\ s \in Run /\ at'[s] = s
    BY <1>1, <1>7, <1>9 DEF Rows
  <2>2. at'[s] <= now'
    BY <1>9, <2>1 DEF Rows
  <2>. QED
    BY <1>2, <1>4, <1>5, <1>9, <2>1, <2>2
<1>. QED
  BY <1>6, <1>7, <1>8, <1>9 DEF Lasts, Outrun, Owed

\* The worker that settled the last row of the schedule queues the next one, and
\* does not pass over it for an old belief: there would be a later row.
LEMMA KeptEnsureNext ==
    ASSUME WorkloadTypeOK, WorkloadTypeOK', Rows, Kept,
           NEW w \in Worker, NEW r \in Run, EnsureNext(w, r)
    PROVE  Kept'
<1>. DEFINE s == NextSlot(at[r])
<1>1. /\ Working(w, r)
      /\ \A v \in Worker, q \in Run : v # w \/ q # r => job'[v][q] = job[v][q]
      /\ UNCHANGED <<now, trigger, call>> /\ job'[w][r] = NoJob
  BY JobMoves, JobAfter DEF JobStep
<1>2. UNCHANGED workload /\ ((job[w][r].seen /\ Inserted(s)) \/ UNCHANGED <<rows, lost>>)
  BY DEF EnsureNext, Continues
<1>3. ~job[w][r].seen => UNCHANGED <<rows, lost>>
  BY DEF EnsureNext, Continues
<1>s. job[w][r].seen => Inserted(s)
  BY DEF EnsureNext, Continues
<1>4. s \in Slot /\ s \in Run
  BY <1>1, SlotsOfRuns, Numbers
<1>5. \A m \in Slot : m \in Int /\ m \in Run
  BY Numbers DEF Slot
<1>6. trigger = "cron" => s = at[r] + 1
  BY DEF NextSlot, WorkloadTypeOK
<1>. HIDE DEF s
<1>7. /\ UNCHANGED at
      /\ \A m \in Slot : status'[m] = status[m]
                         \/ (m = s /\ status[m] = "absent" /\ status'[m] = "queued")
      /\ lost => lost'
      /\ job[w][r].seen => status'[s] # "absent"
  BY <1>2, <1>3, <1>s, <1>4, <1>5, InsertedRow DEF rows, WorkloadTypeOK
<1>. SUFFICES ASSUME Unattended'
              PROVE  (Deleting' \/ Lasts') /\ (trigger' = "cron" => Outrun' /\ Owed')
  BY DEF Kept
<1>8. Unattended /\ (Deleting' <=> Deleting)
  BY <1>1, <1>2, <1>7 DEF Unattended, Ensuring, Deleting
<1>9. ASSUME NEW m \in Slot, Top(m)', status'[m] # "queued"
      PROVE  Top(m) /\ status'[m] = status[m]
  <2>1. status'[m] = status[m]
    BY <1>7, <1>9
  <2>2. \A k \in Slot : k > m => status[k] = "absent"
    BY <1>7, <1>9 DEF Top
  <2>. QED
    BY <1>9, <2>1, <2>2 DEF Top
<1>10. ASSUME ~Deleting', NEW m \in Slot, Top(m)' PROVE status'[m] # "cancelled"
  BY <1>8, <1>9, <1>10 DEF Kept, Lasts
<1>11. ASSUME trigger' = "cron", NEW v \in Worker, NEW q \in Run,
              Working(v, q)', ~job'[v][q].seen
       PROVE  \E k \in Slot : k > at'[q] /\ status'[k] # "absent"
  <2>1. Working(v, q) /\ ~job[v][q].seen
    BY <1>1, <1>11 DEF Working
  <2>2. PICK k \in Slot : k > at[q] /\ status[k] # "absent"
    BY <1>1, <1>8, <1>11, <2>1 DEF Kept, Outrun
  <2>. QED
    BY <1>7, <2>2
<1>12. ASSUME trigger' = "cron", NEW m \in Slot, Top(m)',
              status'[m] \in Settled
       PROVE  \E v \in Worker : Obliged(v, m)'
  <2>1. Top(m) /\ status[m] \in Settled /\ m \in Run
    BY <1>5, <1>9, <1>12 DEF Settled
  <2>2. PICK v \in Worker : Obliged(v, m)
    BY <1>1, <1>8, <1>12, <2>1 DEF Kept, Owed
  <2>3. v # w \/ m # r
    <3>. SUFFICES ASSUME m = r PROVE FALSE
      OBVIOUS
    <3>1. at[r] = m
      BY DEF Rows
    <3>2. CASE job[w][r].seen
      <4>1. s > m /\ status'[s] # "absent"
        BY <1>1, <1>5, <1>6, <1>7, <1>12, <3>1, <3>2
      <4>. QED
        BY <1>4, <1>12, <4>1 DEF Top
    <3>3. CASE ~job[w][r].seen
      <4>1. PICK k \in Slot : k > at[r] /\ status[k] # "absent"
        BY <1>1, <1>8, <1>12, <3>3 DEF Kept, Outrun
      <4>. QED
        BY <2>1, <3>1, <4>1 DEF Top
    <3>. QED
      BY <3>2, <3>3
  <2>4. job'[v][m] = job[v][m] /\ status'[m] = status[m]
    BY <1>1, <1>9, <1>12, <2>1, <2>3 DEF Settled
  <2>. QED
    BY <2>2, <2>4 DEF Obliged
<1>. QED
  BY <1>10, <1>11, <1>12 DEF Lasts, Outrun, Owed

LEMMA KeptStep ==
    WorkloadTypeOK /\ WorkloadTypeOK' /\ Rows /\ Rows' /\ Kept /\ [Next]_vars => Kept'
<1>. SUFFICES ASSUME WorkloadTypeOK, WorkloadTypeOK', Rows, Rows', Kept, [Next]_vars
              PROVE  Kept'
  OBVIOUS
<1>s. \A m \in Slot : m \in Run
  BY Numbers
<1>w. \A w \in Worker, r \in Run : Working(w, r) =>
         (status[r] \in {"absent", "queued"} => workload = "deleted")
  BY DEF Rows
\* Steps that leave the jobs and the schedule's rows alone.
<1>i. ASSUME UNCHANGED <<job, trigger>>, Unattended' => Unattended,
             Unattended' => (Deleting' <=> Deleting),
             \A m \in Slot : status'[m] = status[m],
             \A w \in Worker, r \in Run : Working(w, r) /\ workload' = "enabled" =>
                 at'[r] = at[r]
      PROVE  Kept'
  <2>1. \A m \in Slot, w \in Worker : status'[m] \in Settled /\ Obliged(w, m) =>
           Obliged(w, m)'
    BY <1>i DEF Obliged
  <2>2. Unattended' =>
           \A w \in Worker, r \in Run : Working(w, r)' /\ ~job'[w][r].seen =>
              Working(w, r) /\ ~job[w][r].seen /\ at'[r] = at[r]
    BY <1>i DEF Working, Unattended
  <2>3. Unattended' =>
           \A m \in Slot : Top(m) /\ status'[m] \in Settled =>
              status[m] \in Settled /\ \A w \in Worker : Obliged(w, m) => Obliged(w, m)'
    BY <1>i, <2>1
  <2>. QED
    BY <1>i, <2>2, <2>3, KeptFrame
\* Those that leave the calls alone as well.
<1>u. ASSUME UNCHANGED call, workload' = "enabled" /\ ~lost' => workload = "enabled" /\ ~lost
      PROVE  (Unattended' => Unattended) /\ (Deleting' <=> Deleting)
  BY <1>u DEF Unattended, Ensuring, Deleting
<1>1. CASE UNCHANGED vars
  BY <1>1, <1>i, <1>u DEF vars, rows
<1>2. CASE Ticks
  BY <1>2, <1>i, <1>u DEF Ticks, rows
<1>3. ASSUME NEW c \in Client, CallWrites(c) PROVE Kept'
  <2>1. CASE Pause(c) \/ Resume(c) \/ Edit(c)
    <3>1. call \in [Client -> {"none", "closed", "cancel", "edit", "ensure", "delete",
                              "planOn", "planOff"}]
      BY DEF WorkloadTypeOK
    <3>2. Resume(c) \/ Edit(c) => Ensuring'
      BY <3>1 DEF Resume, Edit, Begins, Ensuring
    <3>. QED
      BY <2>1, <3>2 DEF Kept, Unattended, Pause
  <2>2. CASE PlanReads(c) \/ PlanWrites(c) \/ CallFails(c)
    <3>1. UNCHANGED <<job, trigger, at, status>> /\ (lost => lost')
      BY <1>3, CallsWrite DEF rows
    <3>2. workload' = "enabled" /\ ~lost' => workload = "enabled" /\ ~lost
      <4>1. CASE PlanWrites(c)
        BY <3>1, <4>1 DEF PlanWrites, Writes, WorkloadTypeOK
      <4>. QED
        BY <2>2, <3>1, <4>1 DEF PlanReads, CallFails
    <3>3. ASSUME ~lost'
          PROVE  /\ call[c] \notin {"edit", "ensure", "delete"}
                 /\ call'[c] \notin {"edit", "ensure", "delete"}
                 /\ \A d \in Client : d # c => call'[d] = call[d]
      <4>1. call'[c] \notin {"edit", "ensure", "delete"}
        BY <2>2 DEF PlanReads, PlanWrites, CallFails, Begins, Continuing, WorkloadTypeOK
      <4>2. call[c] \notin {"edit", "ensure", "delete"}
        BY <2>2, <3>3 DEF PlanReads, PlanWrites, CallFails, Begins, Continuing
      <4>. QED
        BY <1>3, <4>1, <4>2, CallMoves
    <3>4. ~lost' => (Ensuring' <=> Ensuring) /\ (Deleting' <=> Deleting)
      BY <3>3 DEF Ensuring, Deleting
    <3>5. (Unattended' => Unattended) /\ (Unattended' => (Deleting' <=> Deleting))
      BY <3>2, <3>4 DEF Unattended
    <3>. QED
      BY <3>1, <3>5, <1>i
  <2>. QED
    BY <1>3, <2>1, <2>2 DEF CallWrites
\* What a pause cancels of an enabled workload counts as lost.
<1>4. ASSUME NEW c \in Client, PauseCancels(c) PROVE Kept'
  <2>1. UNCHANGED <<job, trigger, workload, at>> /\ (lost => lost')
    BY <1>4 DEF PauseCancels, Cancels, WorkloadTypeOK
  <2>2. CASE workload = "enabled" /\ ~lost'
    <3>1. status' = status
      BY <1>4, <2>2 DEF PauseCancels, WorkloadTypeOK
    <3>2. /\ call[c] = "cancel" /\ call'[c] = "none"
          /\ \A d \in Client : d # c => call'[d] = call[d]
      BY <1>4 DEF PauseCancels, Continuing, WorkloadTypeOK
    <3>3. (Ensuring' <=> Ensuring) /\ (Deleting' <=> Deleting)
      BY <3>2 DEF Ensuring, Deleting
    <3>4. Unattended' => Unattended
      BY <2>1, <3>3 DEF Unattended
    <3>. QED
      BY <2>1, <3>1, <3>3, <3>4, <1>i
  <2>3. CASE workload # "enabled" \/ lost'
    BY <2>1, <2>3 DEF Kept, Unattended
  <2>. QED
    BY <2>2, <2>3 DEF WorkloadTypeOK
<1>5. ASSUME NEW c \in Client, EditCancels(c) PROVE Kept'
  <2>1. call'[c] = "ensure"
    BY <1>5 DEF EditCancels, Continuing, WorkloadTypeOK
  <2>. QED
    BY <2>1 DEF Kept, Unattended, Ensuring
<1>6. ASSUME NEW c \in Client, Delete(c) PROVE Kept'
  <2>1. PICK S \in SUBSET {"queued", "running"} : Cancels(S)
    BY <1>6 DEF Delete
  <2>2. UNCHANGED <<at, job, trigger, workload, lost>>
    BY <1>6 DEF Delete, Cancels
  <2>3. /\ call[c] = "none" /\ call'[c] = "delete"
        /\ \A d \in Client : d # c => call'[d] = call[d]
    BY <1>6 DEF Delete, Begins, WorkloadTypeOK
  <2>4. Deleting' /\ (Unattended' => Unattended)
    BY <2>2, <2>3 DEF Deleting, Unattended, Ensuring
  <2>5. \A m \in Slot : /\ status'[m] = "absent" <=> status[m] = "absent"
                        /\ status'[m] \in Settled => status[m] = status'[m]
    BY <1>s, <2>1, CancelledRows DEF Settled
  <2>6. \A m \in Slot : status'[m] \in Settled =>
           status[m] \in Settled /\ \A w \in Worker : Obliged(w, m) => Obliged(w, m)'
    BY <2>2, <2>5 DEF Obliged
  <2>. QED
    BY <2>2, <2>4, <2>5, <2>6, KeptFrame DEF Working
<1>7. ASSUME NEW c \in Client, Ensures(c) PROVE Kept'
  <2>1. CASE workload = "deleted"
    BY <1>7, <2>1 DEF Ensures, Kept, Unattended
  <2>. QED
    BY <1>7, <2>1, KeptEnsures
<1>8. ASSUME NEW c \in Client, DeleteRow(c) PROVE Kept'
  BY <1>8 DEF DeleteRow, Kept, Unattended
<1>e. ASSUME NEW p, InsertExtra(p), workload # "deleted"
      PROVE  /\ \A m \in Slot : status'[m] = status[m]
             /\ \A w \in Worker, r \in Run : Working(w, r) => at'[r] = at[r]
             /\ lost' = lost
  <2>1. PICK x \in Spare : /\ status' = [status EXCEPT ![x] = "queued"]
                           /\ at' = [at EXCEPT ![x] = now]
                           /\ lost' = lost
    BY <1>e DEF InsertExtra
  <2>2. x \in Run /\ x \notin Slot /\ status[x] = "absent"
    BY DEF Spare
  <2>3. \A w \in Worker : ~Working(w, x)
    BY <1>e, <1>w, <2>2
  <2>4. \A r \in Run : r # x => at'[r] = at[r] /\ status'[r] = status[r]
    BY <2>1 DEF WorkloadTypeOK
  <2>. QED
    BY <1>s, <2>1, <2>2, <2>3, <2>4
<1>9. CASE RunNow
  BY <1>9, <1>e, <1>i, <1>u DEF RunNow
<1>10. ASSUME NEW r \in Run, Lapse(r) PROVE Kept'
  BY <1>10, <1>i, <1>u DEF Lapse
<1>11. ASSUME NEW w \in Worker, NEW r \in Run, Heartbeat(w, r) PROVE Kept'
  BY <1>11, <1>i, <1>u DEF Heartbeat
<1>12. ASSUME NEW w \in Worker, Tick(w) PROVE Kept'
  <2>1. /\ UNCHANGED <<now, trigger, workload, call, at, lost>>
        /\ \A v \in Worker \ {w} : job'[v] = job[v]
    BY <1>12, TickClaims
  <2>2. PICK S \in SUBSET Run :
           /\ \A r \in S : Claimable(r)
           /\ \A r \in Run :
                 /\ status'[r] = IF r \in S THEN "running" ELSE status[r]
                 /\ job'[w][r] = IF r \in S /\ ~Working(w, r)
                                 THEN [NoJob EXCEPT !.step = "working"]
                                 ELSE job[w][r]
    BY <1>12, TickClaims
  <2>3. \A r \in S : status[r] \in {"queued", "running"}
    BY <2>2 DEF Claimable
  <2>4. \A v \in Worker, r \in Run :
           \/ job'[v][r] = job[v][r]
           \/ r \in S /\ job'[v][r].seen = TRUE
    BY <2>1, <2>2 DEF NoJob
  <2>5. \A m \in Slot : /\ status'[m] = "absent" <=> status[m] = "absent"
                        /\ status'[m] = "cancelled" => status[m] = "cancelled"
                        /\ status'[m] \in Settled => m \notin S /\ status'[m] = status[m]
    BY <1>s, <2>2, <2>3 DEF Settled
  <2>6. \A m \in Slot : status'[m] \in Settled =>
           status[m] \in Settled /\ \A v \in Worker : Obliged(v, m) => Obliged(v, m)'
    BY <1>s, <2>4, <2>5 DEF Obliged
  <2>7. \A v \in Worker, r \in Run : Working(v, r)' /\ ~job'[v][r].seen =>
           Working(v, r) /\ ~job[v][r].seen /\ at'[r] = at[r]
    BY <2>1, <2>4 DEF Working
  <2>. QED
    BY <2>1, <2>5, <2>6, <2>7, <1>u, KeptFrame
<1>13. ASSUME NEW w \in Worker, Crash(w) PROVE Kept'
  <2>1. /\ UNCHANGED <<now, trigger, workload, call, at, status>>
        /\ lost' = (lost \/ \E r \in Run : Obliged(w, r))
        /\ job' = [job EXCEPT ![w] = [r \in Run |-> NoJob]]
    BY <1>13 DEF Crash, Interrupts, rows
  <2>2. /\ \A v \in Worker, r \in Run : job'[v][r] = NoJob \/ job'[v][r] = job[v][r]
        /\ \A v \in Worker \ {w} : job'[v] = job[v]
    BY <2>1 DEF WorkloadTypeOK
  <2>3. ~lost' => \A m \in Slot, v \in Worker : Obliged(v, m) => Obliged(v, m)'
    BY <1>s, <2>1, <2>2 DEF Obliged
  <2>4. \A v \in Worker, r \in Run : Working(v, r)' /\ ~job'[v][r].seen =>
           Working(v, r) /\ ~job[v][r].seen
    BY <2>2 DEF Working
  <2>. QED
    BY <2>1, <2>3, <2>4, <1>u, KeptFrame DEF Unattended
<1>14. ASSUME NEW w \in Worker, NEW r \in Run, JobStep(w, r) \/ Throws(w, r)
       PROVE  Kept'
  <2>1. /\ UNCHANGED <<now, trigger, call>> /\ Working(w, r)
        /\ \A v \in Worker, q \in Run : v # w \/ q # r => job'[v][q] = job[v][q]
    BY <1>14, JobMoves
  \* What is left to show of a step of this worker.
  <2>. DEFINE Believes == workload' = "enabled" /\ ~lost' =>
                 job'[w][r] = NoJob \/ job'[w][r].seen \/ ~job[w][r].seen
              Owes == workload' = "enabled" /\ ~lost' /\ status'[r] \in Settled =>
                 Obliged(w, r)' \/ (~Obliged(w, r) /\ status' = status)
  <2>2. ASSUME workload' = "enabled" /\ ~lost' => workload = "enabled" /\ ~lost,
               \A m \in Slot : m # r => status'[m] = status[m],
               r \in Slot => /\ status'[r] = "absent" <=> status[r] = "absent"
                             /\ status'[r] = "cancelled" => status[r] = "cancelled",
               workload' = "enabled" =>
                  \A v \in Worker, q \in Run : Working(v, q) => at'[q] = at[q],
               Believes, Owes
        PROVE  Kept'
    <3>1. workload' = "enabled" /\ ~lost' =>
             \A v \in Worker, q \in Run : Working(v, q)' /\ ~job'[v][q].seen =>
                Working(v, q) /\ ~job[v][q].seen /\ at'[q] = at[q]
      BY <2>1, <2>2 DEF Working
    <3>2. workload' = "enabled" /\ ~lost' =>
             \A m \in Slot : Top(m) /\ status'[m] \in Settled =>
                \/ \E v \in Worker : Obliged(v, m)'
                \/ /\ status[m] \in Settled
                   /\ \A v \in Worker : Obliged(v, m) => Obliged(v, m)'
      <4>. SUFFICES ASSUME workload' = "enabled", ~lost', NEW m \in Slot, Top(m),
                           status'[m] \in Settled, ~Obliged(w, m)'
                    PROVE  /\ status[m] \in Settled
                           /\ \A v \in Worker : Obliged(v, m) => Obliged(v, m)'
        OBVIOUS
      <4>1. status'[m] = status[m] /\ (m = r => ~Obliged(w, m))
        BY <2>2
      <4>2. \A v \in Worker : v # w \/ m # r => job'[v][m] = job[v][m]
        BY <1>s, <2>1
      <4>. QED
        BY <4>1, <4>2 DEF Obliged
    <3>3. \A m \in Slot : /\ status'[m] = "absent" <=> status[m] = "absent"
                          /\ status'[m] = "cancelled" => status[m] = "cancelled"
      BY <2>2
    <3>. QED
      BY <2>1, <2>2, <3>1, <3>2, <3>3, <1>u, KeptFrame DEF Unattended
  <2>3. CASE Answered(w, r)
    <3>1. UNCHANGED <<workload, status, at, lost>>
      BY <2>3 DEF Answered, rows
    <3>2. Believes /\ Owes
      BY <2>3, <3>1, JobAfter DEF Obliged
    <3>. QED
      BY <2>2, <3>1, <3>2
  <2>4. CASE Settle(w, r)
    <3>1. /\ UNCHANGED <<workload, at, lost>>
          /\ \A m \in Run : m # r => status'[m] = status[m]
          /\ status'[r] = status[r] \/ (status[r] # "absent" /\ status'[r] \in Settled)
      BY <2>4 DEF Settle, Settles, Settled, WorkloadTypeOK
    <3>2. Believes /\ Owes
      BY <2>4, <3>1, JobAfter DEF Obliged
    <3>. QED
      BY <1>s, <2>2, <3>1, <3>2 DEF Settled
  <2>5. CASE ReviewReads(w, r)
    <3>1. UNCHANGED <<workload, status, at, lost>>
      BY <2>5 DEF ReviewReads, rows
    <3>2. Believes /\ Owes
      BY <2>5, <3>1, JobAfter DEF Obliged
    <3>. QED
      BY <2>2, <3>1, <3>2
  <2>6. CASE ReviewWrites(w, r)
    <3>1. /\ UNCHANGED <<status, at>>
          /\ workload' = "enabled" /\ ~lost' => workload = "enabled" /\ ~lost
                                                /\ job[w][r].seen
      BY <2>6 DEF ReviewWrites, Writes, rows, WorkloadTypeOK
    <3>2. Believes /\ Owes
      BY <2>6, <3>1, JobAfter DEF Obliged
    <3>. QED
      BY <2>2, <3>1, <3>2
  <2>7. CASE Followup(w, r)
    <3>1. /\ workload' = workload
          /\ (workload # "deleted" /\ InsertExtra(r)) \/ UNCHANGED <<rows, lost>>
      BY <2>7 DEF Followup
    <3>2. /\ \A m \in Slot : status'[m] = status[m]
          /\ \A v \in Worker, q \in Run : Working(v, q) => at'[q] = at[q]
          /\ lost' = lost
      BY <3>1, <1>e DEF rows
    <3>3. Believes /\ Owes
      BY <2>7, JobAfter DEF Obliged
    <3>. QED
      BY <2>2, <3>1, <3>2, <3>3
  <2>8. CASE EnsureNext(w, r)
    BY <2>8, KeptEnsureNext
  <2>9. CASE Throws(w, r)
    <3>1. /\ UNCHANGED <<workload, status, at>>
          /\ lost => lost'
      BY <2>9, JobAfter DEF Throws, rows
    <3>2. Believes
      BY <2>9, JobAfter
    <3>3. Owes
      BY <2>9, <3>1, JobAfter DEF Obliged
    <3>. QED
      BY <2>2, <3>1, <3>2, <3>3
  <2>. QED
    BY <1>14, <2>3, <2>4, <2>5, <2>6, <2>7, <2>8, <2>9 DEF JobStep
<1>. QED
  BY <1>1, <1>2, <1>3, <1>4, <1>5, <1>6, <1>7, <1>8, <1>9, <1>10, <1>11, <1>12,
     <1>13, <1>14
     DEF Next, OwnerStep, CallWrites, CallCancels

-----------------------------------------------------------------------------
(* The theorems.                                                           *)

\* All the layers hold together, whatever the owner does between two statements
\* of his calls, and however workers die, throw and lose their claims
\* (service.js, runner.js, store.js).
THEOREM SchedulerInvariant == Spec => []IInv
<1>1. Init => IInv
  <2>. SUFFICES ASSUME Init PROVE IInv
    OBVIOUS
  <2>1. PICK s \in Scenario :
          /\ call = [c \in Client |-> IF c \in s.calls THEN "none" ELSE "closed"]
          /\ status = [r \in Run |-> IF r = 1 THEN "queued"
                                     ELSE IF r \in s.past THEN "completed" ELSE "absent"]
          /\ faults = s.faults
    BY DEF Init
  <2>2. s.past \subseteq Run \ Slot /\ s.faults \in 0..MaxFaults
    BY ScenarioAssumption
  <2>3. /\ now = 0 /\ trigger \in {"once", "cron"} /\ workload = "enabled"
        /\ at = [r \in Run |-> IF r \in Slot THEN r ELSE 0]
        /\ parent = [r \in Run |-> None]
        /\ holder = [r \in Run |-> Nobody]
        /\ lapsed = {} /\ dead = {} /\ stalls = 0 /\ lost = FALSE
        /\ job = [w \in Worker |-> [r \in Run |-> NoJob]]
    BY DEF Init
  <2>. USE Numbers
  <2>4. WorkloadTypeOK
    <3>1. /\ at \in [Run -> 0..(MaxTime + 1)]
          /\ parent \in [Run -> Run \cup {None}]
          /\ holder \in [Run -> Worker \cup {Nobody}]
      BY <2>3 DEF Slot
    <3>2. job \in [Worker -> [Run -> Job]]
      BY <2>3 DEF NoJob, Job
    <3>3. status \in [Run -> {"absent", "queued", "running", "completed", "failed",
                             "cancelled"}]
      BY <2>1
    <3>4. call \in [Client -> {"none", "closed", "cancel", "edit", "ensure", "delete",
                              "planOn", "planOff"}]
      BY <2>1
    <3>5. now \in 0..MaxTime /\ {faults, stalls} \subseteq 0..MaxFaults
      BY <2>1, <2>2, <2>3
    <3>. QED
      BY <2>3, <3>1, <3>2, <3>3, <3>4, <3>5 DEF WorkloadTypeOK
  <2>5. \A w \in Worker, r \in Run : job[w][r] = NoJob
    BY <2>3
  <2>6. /\ status[1] = "queued" /\ \A m \in Slot : m # 1 => status[m] = "absent"
        /\ \A r \in Run : status[r] \in Settled => r \notin Slot
    BY <2>1, <2>2 DEF Settled
  <2>7. 1 \in Slot /\ Top(1) /\ \A m \in Slot : Top(m) => m = 1
    BY <2>6 DEF Slot, Top
  <2>8. Rows
    <3>1. \A r \in Run : status[r] \in {"running"} \cup Settled => at[r] <= now
      BY <2>1, <2>3, <2>6 DEF Settled
    <3>2. \A r \in Slot : r \in Run /\ at[r] = r /\ parent[r] = None
      BY <2>3
    <3>3. \A r \in Slot : r > 1 => status[r] = "absent"
      BY <2>6
    <3>. QED
      BY <2>3, <2>5, <2>7, <3>1, <3>2, <3>3 DEF Rows, Working
  <2>9. Claims
    BY <2>3, <2>5 DEF Claims, Working, NoJob, After
  <2>10. Kept
    BY <2>3, <2>5, <2>6, <2>7 DEF Kept, Unattended, Lasts, Outrun, Owed, Working, Settled
  <2>11. StageAfterRun
    BY <2>3 DEF StageAfterRun
  <2>12. Once
    BY <2>3 DEF Once, Staged, None
  <2>. QED
    BY <2>4, <2>8, <2>9, <2>10, <2>11, <2>12 DEF IInv
<1>2. IInv /\ [Next]_vars => IInv'
  BY TypedStep, RowsStep, ClaimsStep, StagesStep, OnceStep, KeptStep DEF IInv
<1>. QED
  BY <1>1, <1>2, PTL DEF Spec

\* ensureNextScheduledRun (service.js:1344): an enabled workload has a next run
\* or somebody who is about to queue it, unless one of the ways in which it is
\* known to get lost was taken.
THEOREM ScheduleGoesOn == Spec => []ScheduleKept
<1>1. IInv => ScheduleKept
  <2>. SUFFICES ASSUME IInv, Unattended, ~Deleting PROVE Pending \/ Exhausted
    BY DEF ScheduleKept, Pending, Unattended, Ensuring, Deleting
  <2>1. PICK m \in Slot : Top(m)
    BY DEF IInv, Rows, Unattended
  <2>2. /\ m \in Run /\ status[m] # "cancelled" /\ status[m] # "absent"
        /\ status[m] \in {"absent", "queued", "running", "completed", "failed", "cancelled"}
    BY <2>1, Numbers DEF IInv, Kept, Lasts, Top, WorkloadTypeOK
  <2>3. CASE status[m] \in {"queued", "running"}
    BY <2>2, <2>3 DEF Pending
  <2>4. CASE status[m] \in Settled /\ trigger = "cron"
    BY <2>1, <2>2, <2>4 DEF IInv, Kept, Owed, Pending
  <2>5. CASE status[m] \in Settled /\ trigger = "once"
    <3>1. ~(m > 1)
      BY <2>1, <2>2, <2>5 DEF IInv, Rows
    <3>2. m = 1
      BY <3>1, Numbers DEF Slot
    <3>. QED
      BY <2>5, <3>2 DEF Exhausted
  <2>. QED
    BY <2>2, <2>3, <2>4, <2>5 DEF IInv, WorkloadTypeOK, Settled
<1>. QED
  BY <1>1, SchedulerInvariant, PTL

\* claimDueRuns and enqueueRun (store.js:401, 458): one worker executes a run at
\* a time, as long as no living worker is late with a heartbeat.
THEOREM ExecutedByOne == Spec => []OneExecutor
<1>1. IInv => OneExecutor
  <2>. SUFFICES ASSUME IInv, stalls = 0, NEW r \in Run
                PROVE  Cardinality({w \in Worker : Working(w, r)}) <= 1
    <3>1. stalls \in Nat \/ ~IInv
      BY StallsCounted DEF IInv
    <3>. QED
      BY <3>1 DEF OneExecutor, Working
  <2>1. {w \in Worker : Working(w, r)} \in {{}, {holder[r]}}
    BY DEF IInv, Claims
  <2>2. Cardinality({}) = 0
    BY FS_EmptySet
  <2>3. Cardinality({holder[r]}) = 1
    BY FS_Singleton
  <2>. QED
    BY <2>1, <2>2, <2>3
<1>. QED
  BY <1>1, SchedulerInvariant, PTL

\* completeRun and scheduleFollowupStage (store.js:529, service.js:1150): a stage
\* comes after the end of its run.
THEOREM StagesFollow == Spec => []StageAfterRun
<1>1. IInv => StageAfterRun
  BY DEF IInv
<1>. QED
  BY <1>1, SchedulerInvariant, PTL

\* executeClaimedRun (service.js:1138, 1215): a run is continued by one stage,
\* whatever its owner and other workers do, if no heartbeat is late and either
\* nothing throws or the stage does not follow successes and failures alike.
THEOREM ContinuedOnce == Spec => []StageOnce
<1>1. IInv => StageOnce
  <2>. SUFFICES ASSUME IInv, NEW q \in Run, NEW s \in Run,
                       "absent" \notin {status[q], status[s]},
                       parent[q] = parent[s], parent[q] # None, ~(stalls > 0),
                       ~(Stage = "always" /\ faults > 0)
                PROVE  q = s
    BY DEF StageOnce
  <2>1. parent[q] \in Run /\ stalls \in Nat /\ faults \in Nat
    BY Numbers DEF IInv, WorkloadTypeOK
  <2>2. Guarded
    BY <2>1 DEF Guarded
  <2>3. Staged(parent[q])
    BY DEF Staged
  <2>. QED
    BY <2>1, <2>2, <2>3 DEF IInv, Once, Single
<1>. QED
  BY <1>1, SchedulerInvariant, PTL

=============================================================================
