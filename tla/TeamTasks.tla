----------------------------- MODULE TeamTasks -----------------------------
(***************************************************************************)
(* The durable record of one agent team (agent-teams/domain.js and         *)
(* service.js), as the row that TeamStore.mutate locks, edits and commits. *)
(*                                                                         *)
(* Every action is one committed transaction of store.mutate: it reads the *)
(* whole row under SELECT ... FOR UPDATE, and a thrown error rolls back,   *)
(* so a step either happens completely or not at all.  Interleaving of     *)
(* owners, workers and recovery controllers is the interleaving of these   *)
(* transactions.                                                           *)
(*                                                                         *)
(* Tasks are numbered in the order they were pushed on team.tasks, which   *)
(* is the order claimTasks visits them.  The clock appears only as what it *)
(* decides: a rest period or a recovery lease that may run out at any      *)
(* moment.                                                                 *)
(*                                                                         *)
(* An operator X_Y states a bug one could plausibly write in X.  It is     *)
(* never part of Next: it is put in place of X to see a property fail.     *)
(***************************************************************************)
EXTENDS Integers, FiniteSets, Sequences

CONSTANTS
    Agent,          \* teammates of the team
    Reviewer,       \* those whose role is 'reviewer'
    Worker,         \* runner identities (workerId) that claim tasks
    Assignment,     \* task requests the owner or a teammate may submit
    Call,           \* callIds a worker may journal within one task
    Effect,         \* Effect[c]: the request (kind, fingerprint, toolId) of c
    MaxTasks,       \* limits.maxTasks
    Concurrency,    \* limits.concurrency
    RestSeconds,    \* limits.restSeconds
    BrowserUser,    \* teammates that ever open their private browser
    Stoppable,      \* teammates the owner ever stops
    Outcome,        \* terminal statuses workers report
    MaxLeases,      \* bound on recovery leases granted per task
    None            \* no reviewer, no worker, no verdict

TaskId == 1..MaxTasks
NoTask == 0
Owner == "owner"

\* A write target is the sequence of its path segments, already normalised.
Assignments == [agent : Agent, targets : SUBSET Seq(STRING),
                reviewer : Agent \cup {None}, required : BOOLEAN]

ASSUME TeamAssumption ==
    /\ Reviewer \subseteq Agent
    /\ BrowserUser \subseteq Agent /\ Stoppable \subseteq Agent
    /\ Outcome \subseteq {"succeeded", "failed", "cancelled"}
    /\ Assignment \subseteq Assignments
    /\ None \notin Agent \cup Worker \cup {Owner}
    /\ Owner \notin Agent
    /\ MaxTasks \in Nat /\ Concurrency \in Nat \ {0} /\ MaxLeases \in Nat
    /\ RestSeconds \in Nat

VARIABLES
    executionEnabled,   \* team.execution.enabled
    enabled,            \* agents whose 'enabled' flag is set
    resting,            \* agents whose restUntil lies in the future
    created,            \* team.tasks.length
    spec,               \* what was asked for: assignment, dependencies, reviewOf
    status,             \* task.status
    worker,             \* task.worker.id of the one claim of the task
    cancelRequested,    \* tasks with cancelRequestedAt set
    journal,            \* task.operations: the status of each journalled call
    computer,           \* task.computerLease: none, open or closed
    lease,              \* task.worker.reconciliation.status, and its lapse
    leaseId,            \* number of recovery leases granted, the last is current
    output,             \* task.result.artifacts is nonempty
    review              \* who gave the verdict: the owner or an agent

vars == <<executionEnabled, enabled, resting, created, spec, status, worker,
          cancelRequested, journal, computer, lease, leaseId, output, review>>

roster   == <<executionEnabled, enabled, resting>>
intake   == <<created, spec>>
effects  == <<journal, computer>>
recovery == <<lease, leaseId>>
verdict  == <<output, review>>

Activity == {"running", "reconciling"}
Terminal == {"completed", "changes_requested", "failed", "cancelled"}
Released == Terminal \cup {"needs_review"}
Status == {"absent", "queued"} \cup Activity \cup Released
OperationStatus == {"none", "started", "settled", "unknown"}

NoSpec == [agent |-> None, targets |-> {}, reviewer |-> None,
           required |-> FALSE, dependencies |-> {}, reviewOf |-> NoTask]
Specs == [agent : Agent, targets : SUBSET Seq(STRING),
          reviewer : Agent \cup {None}, required : BOOLEAN,
          dependencies : SUBSET TaskId, reviewOf : TaskId \cup {NoTask}]

\* Types of the team row; nothing about how its parts relate.
TypeOK ==
    /\ executionEnabled \in BOOLEAN
    /\ enabled \subseteq Agent
    /\ resting \subseteq Agent
    /\ created \in 0..MaxTasks
    /\ spec \in [TaskId -> Specs \cup {NoSpec}]
    /\ status \in [TaskId -> Status]
    /\ worker \in [TaskId -> Worker \cup {None}]
    /\ cancelRequested \subseteq TaskId
    /\ journal \in [TaskId -> [Call -> OperationStatus]]
    /\ computer \in [TaskId -> {"none", "open", "closed"}]
    /\ lease \in [TaskId -> {"none", "live", "lapsed", "complete"}]
    /\ leaseId \in [TaskId -> 0..MaxLeases]
    /\ output \in [TaskId -> BOOLEAN]
    /\ review \in [TaskId -> Agent \cup {Owner, None}]

Init ==
    /\ executionEnabled = FALSE
    /\ enabled = Agent
    /\ resting = {}
    /\ created = 0
    /\ spec = [t \in TaskId |-> NoSpec]
    /\ status = [t \in TaskId |-> "absent"]
    /\ worker = [t \in TaskId |-> None]
    /\ cancelRequested = {}
    /\ journal = [t \in TaskId |-> [c \in Call |-> "none"]]
    /\ computer = [t \in TaskId |-> "none"]
    /\ lease = [t \in TaskId |-> "none"]
    /\ leaseId = [t \in TaskId |-> 0]
    /\ output = [t \in TaskId |-> FALSE]
    /\ review = [t \in TaskId |-> None]

-----------------------------------------------------------------------------
(* What the handlers ask of the row.                                       *)

Active == {t \in TaskId : status[t] \in Activity}

Within(a, b) == Len(a) <= Len(b) /\ SubSeq(b, 1, Len(a)) = a
Overlaps(a, b) == Within(a, b) \/ Within(b, a)
TargetsOverlap(t, u) ==
    \E a \in spec[t].targets, b \in spec[u].targets : Overlaps(a, b)

\* requireSettledOperations and requireClosedComputer.
Settled_UnknownIsDone(t) == \A c \in Call : journal[t][c] # "started"
Settled(t) == \A c \in Call : journal[t][c] \in {"none", "settled"}
ComputerClosed(t) == computer[t] # "open"
BrowserBusy(a) == \E t \in TaskId : spec[t].agent = a /\ ~ComputerClosed(t)

\* operationTask and engineTask: a live claim that may begin something new.
MayAct_ForgetsStop(t) ==
    /\ status[t] = "running"
    /\ executionEnabled
    /\ spec[t].agent \in enabled
MayAct(t) ==
    /\ status[t] = "running"
    /\ t \notin cancelRequested
    /\ executionEnabled
    /\ spec[t].agent \in enabled
\* ... and one that may only report how something ended (cleanup = true).
MayReport(t) == status[t] \in Activity
\* ... and one whose worker may still report the outcome (validClaim).
MayRecord(t) == status[t] = "running"

-----------------------------------------------------------------------------
(* Owner commands.                                                         *)

ConfigureExecution(on) ==
    /\ executionEnabled' = on
    /\ UNCHANGED <<enabled, resting, intake, status, worker, cancelRequested,
                   effects, recovery, verdict>>

StopAgent(a) ==
    /\ enabled' = enabled \ {a}
    /\ cancelRequested' = cancelRequested \cup
            {t \in TaskId : spec[t].agent = a /\ status[t] = "running"}
    /\ UNCHANGED <<executionEnabled, resting, intake, status, worker, effects,
                   recovery, verdict>>

ResumeAgent(a) ==
    /\ enabled' = enabled \cup {a}
    /\ UNCHANGED <<executionEnabled, resting, intake, status, worker,
                   cancelRequested, effects, recovery, verdict>>

\* enqueue's checks on a request s, given that dependencies already exist.
Assignable(s) ==
    /\ created < MaxTasks
    /\ s.dependencies \subseteq 1..created
    /\ s.reviewer # None => s.reviewer \in Reviewer \ {s.agent}
    /\ s.reviewOf # NoTask =>
            /\ s.reviewOf \in 1..created
            /\ status[s.reviewOf] = "needs_review"
            /\ spec[s.reviewOf].agent # s.agent
            /\ s.agent \in Reviewer

Request(a, deps, target) ==
    [agent |-> a.agent, targets |-> a.targets, reviewer |-> a.reviewer,
     required |-> a.required, dependencies |-> deps, reviewOf |-> target]

\* assign_task, or one recipient of a send_message request.
Enqueue(s) ==
    /\ Assignable(s)
    /\ created' = created + 1
    /\ spec' = [spec EXCEPT ![created + 1] = s]
    /\ status' = [status EXCEPT ![created + 1] = "queued"]
    /\ UNCHANGED <<roster, worker, cancelRequested, effects, recovery,
                   verdict>>

\* A reviewing agent speaks through the claim of a task that reviews t.
ReviewsAs_AnyReviewer(a, t) ==
    \E r \in TaskId : MayAct(r) /\ spec[r].agent = a /\ a \in Reviewer
ReviewsAs(a, t) ==
    /\ a \in Reviewer
    /\ a # spec[t].agent
    /\ \E r \in TaskId : MayAct(r) /\ spec[r].agent = a /\ spec[r].reviewOf = t

ReviewTask(t, by, approved) ==
    /\ by = Owner \/ ReviewsAs(by, t)
    /\ status[t] = "needs_review"
    /\ approved => output[t]
    /\ status' = [status EXCEPT ![t] =
                    IF approved THEN "completed" ELSE "changes_requested"]
    /\ review' = [review EXCEPT ![t] = by]
    /\ UNCHANGED <<roster, intake, worker, cancelRequested, effects, recovery,
                   output>>

-----------------------------------------------------------------------------
(* Admission.                                                              *)

RestEnds(a) ==
    /\ a \in resting
    /\ resting' = resting \ {a}
    /\ UNCHANGED <<executionEnabled, enabled, intake, status, worker,
                   cancelRequested, effects, recovery, verdict>>

Claimable_Beside(t, busy) ==
    /\ status[t] = "queued"
    /\ spec[t].agent \in enabled \ resting
    /\ \A d \in spec[t].dependencies : status[d] = "completed"
    /\ \A b \in busy : ~TargetsOverlap(b, t)
Claimable_ExactPaths(t, busy) ==
    /\ Claimable_Beside(t, {})
    /\ \A b \in busy : /\ spec[b].agent # spec[t].agent
                       /\ spec[b].targets \cap spec[t].targets = {}
Claimable_DependencyReported(t, busy) ==
    /\ status[t] = "queued"
    /\ spec[t].agent \in enabled \ resting
    /\ \A b \in busy : /\ spec[b].agent # spec[t].agent
                       /\ ~TargetsOverlap(b, t)
    /\ \A d \in spec[t].dependencies : status[d] \in {"needs_review", "completed"}
Claimable(t, busy) ==
    /\ status[t] = "queued"
    /\ spec[t].agent \in enabled \ resting
    /\ \A b \in busy : spec[b].agent # spec[t].agent
    /\ ~BrowserBusy(spec[t].agent)
    /\ \A d \in spec[t].dependencies : status[d] = "completed"
    /\ \A b \in busy : ~TargetsOverlap(b, t)

\* claimTasks visits the tasks in order and takes every one that fits beside
\* the active ones and those it has already taken.  C is the set it takes.
Greedy_CountsRunning(C, limit) ==
    \A t \in TaskId :
        LET before == {c \in C : c < t}
            busy   == {u \in Active : status[u] = "running"} \cup before
        IN  t \in C <=> /\ Cardinality(before) < limit
                        /\ Cardinality(busy) < Concurrency
                        /\ Claimable(t, Active \cup before)
Greedy(C, limit) ==
    \A t \in TaskId :
        LET before == {c \in C : c < t}
            busy   == Active \cup before
        IN  t \in C <=> /\ Cardinality(before) < limit
                        /\ Cardinality(busy) < Concurrency
                        /\ Claimable(t, busy)

ClaimEnabled(w, limit) ==
    \E C \in SUBSET TaskId :
        /\ executionEnabled
        /\ Greedy(C, limit)
        /\ status' = [t \in TaskId |-> IF t \in C THEN "running" ELSE status[t]]
        /\ worker' = [t \in TaskId |-> IF t \in C THEN w ELSE worker[t]]
        /\ UNCHANGED <<roster, intake, cancelRequested, effects, recovery,
                       verdict>>

-----------------------------------------------------------------------------
(* The claim's own worker: journal, private browser, outcome.              *)

\* Distinct effects may be in flight together; an unknown one stops all.
Fenced(t, c) ==
    \E d \in Call : \/ journal[t][d] = "unknown"
                    \/ journal[t][d] = "started" /\ Effect[d] = Effect[c]

BeginOperation(t, c) ==
    /\ MayAct(t)
    /\ journal[t][c] = "none"
    /\ ~Fenced(t, c)
    /\ journal' = [journal EXCEPT ![t][c] = "started"]
    /\ UNCHANGED <<roster, intake, status, worker, cancelRequested, computer,
                   recovery, verdict>>

SettleOperation(t, c, outcome) ==
    /\ MayReport(t)
    /\ \/ journal[t][c] = "started"
       \/ journal[t][c] = "unknown" /\ outcome = "settled"
    /\ journal' = [journal EXCEPT ![t][c] = outcome]
    /\ UNCHANGED <<roster, intake, status, worker, cancelRequested, computer,
                   recovery, verdict>>

ReserveComputer(t) ==
    /\ MayAct(t)
    /\ spec[t].agent \in BrowserUser
    /\ computer[t] = "none"
    /\ ~BrowserBusy(spec[t].agent)
    /\ computer' = [computer EXCEPT ![t] = "open"]
    /\ UNCHANGED <<roster, intake, status, worker, cancelRequested, journal,
                   recovery, verdict>>

CloseComputer(t) ==
    /\ MayReport(t)
    /\ computer[t] = "open"
    /\ computer' = [computer EXCEPT ![t] = "closed"]
    /\ UNCHANGED <<roster, intake, status, worker, cancelRequested, journal,
                   recovery, verdict>>

\* recordResult.  verified: at least one artifact was read back.  A result to
\* be reviewed queues the review in the same transaction when the budget allows.
ReviewRequest(t) ==
    [agent |-> spec[t].reviewer, targets |-> {}, reviewer |-> None,
     required |-> FALSE, dependencies |-> {}, reviewOf |-> t]

ResultStatus_Raw(outcome) == outcome
ResultStatus(outcome) ==
    IF outcome = "succeeded" THEN "needs_review" ELSE outcome

RecordResult(t, outcome, verified) ==
    LET reviewed == /\ outcome = "succeeded" /\ spec[t].reviewer # None
                    /\ verified /\ created < MaxTasks
    IN  /\ MayRecord(t)
        /\ Settled(t)
        /\ ComputerClosed(t)
        /\ verified => outcome = "succeeded"
        /\ outcome = "succeeded" /\ spec[t].required => verified
        /\ output' = [output EXCEPT ![t] = verified]
        /\ resting' = IF RestSeconds > 0 THEN resting \cup {spec[t].agent}
                                         ELSE resting
        /\ IF reviewed
           THEN /\ created' = created + 1
                /\ spec' = [spec EXCEPT ![created + 1] = ReviewRequest(t)]
                /\ status' = [status EXCEPT ![t] = ResultStatus(outcome),
                                            ![created + 1] = "queued"]
           ELSE /\ status' = [status EXCEPT ![t] = ResultStatus(outcome)]
                /\ UNCHANGED <<intake>>
        /\ UNCHANGED <<executionEnabled, enabled, worker, cancelRequested,
                       effects, recovery, review>>

Unobserved_Retries(t) ==
    /\ status[t] = "running"
    /\ status' = [status EXCEPT ![t] = "queued"]
    /\ UNCHANGED <<roster, intake, worker, cancelRequested, effects, recovery,
                   verdict>>
Unobserved(t) ==
    /\ status[t] = "running"
    /\ status' = [status EXCEPT ![t] = "reconciling"]
    /\ UNCHANGED <<roster, intake, worker, cancelRequested, effects, recovery,
                   verdict>>

-----------------------------------------------------------------------------
(* Recovery.                                                               *)

BeginReconciliation(t) ==
    /\ MayReport(t)
    /\ lease[t] # "live"
    /\ leaseId[t] < MaxLeases
    /\ status' = [status EXCEPT ![t] = "reconciling"]
    /\ lease' = [lease EXCEPT ![t] = "live"]
    /\ leaseId' = [leaseId EXCEPT ![t] = @ + 1]
    /\ UNCHANGED <<roster, intake, worker, cancelRequested, effects, verdict>>

LeaseLapses(t) ==
    /\ lease[t] = "live"
    /\ lease' = [lease EXCEPT ![t] = "lapsed"]
    /\ UNCHANGED <<roster, intake, status, worker, cancelRequested, effects,
                   leaseId, verdict>>

\* saved: the journal holds a settled artifact write to be retained.
FinishReconciliation(t, l, saved) ==
    /\ MayReport(t)
    /\ l = leaseId[t]
    /\ lease[t] = "live"
    /\ Settled(t)
    /\ ComputerClosed(t)
    /\ saved => \E c \in Call : journal[t][c] = "settled"
    /\ status' = [status EXCEPT ![t] =
                    IF t \in cancelRequested THEN "cancelled" ELSE "failed"]
    /\ output' = [output EXCEPT ![t] = saved]
    /\ lease' = [lease EXCEPT ![t] = "complete"]
    /\ UNCHANGED <<roster, intake, worker, cancelRequested, effects, leaseId,
                   review>>

-----------------------------------------------------------------------------
Next ==
    \/ \E on \in BOOLEAN : ConfigureExecution(on)
    \/ \E a \in Stoppable : StopAgent(a) \/ ResumeAgent(a)
    \/ \E a \in Agent : RestEnds(a)
    \/ \E a \in Assignment, deps \in SUBSET (1..created),
          target \in 0..created : Enqueue(Request(a, deps, target))
    \/ \E w \in Worker, limit \in 1..MaxTasks : ClaimEnabled(w, limit)
    \/ \E t \in TaskId :
          \/ \E by \in Agent \cup {Owner}, approved \in BOOLEAN :
                ReviewTask(t, by, approved)
          \/ \E c \in Call : BeginOperation(t, c)
          \/ \E c \in Call, outcome \in {"settled", "unknown"} :
                SettleOperation(t, c, outcome)
          \/ ReserveComputer(t) \/ CloseComputer(t)
          \/ \E outcome \in Outcome, verified \in BOOLEAN :
                RecordResult(t, outcome, verified)
          \/ Unobserved(t) \/ BeginReconciliation(t) \/ LeaseLapses(t)
          \/ \E l \in 1..leaseId[t], saved \in BOOLEAN :
                FinishReconciliation(t, l, saved)

Spec == Init /\ [][Next]_vars

-----------------------------------------------------------------------------
(* Safety.                                                                 *)

\* claimTasks (domain.js:357): however claims, lost observations and
\* recoveries interleave, the tasks that hold a slot, running or reconciling,
\* never outnumber limits.concurrency.
ConcurrencyBound == Cardinality(Active) <= Concurrency

\* claimTasks (domain.js:360): a teammate never has two tasks in progress,
\* even when the outcome of the first is unknown.
OneTaskPerAgent ==
    \A t, u \in Active : spec[t].agent = spec[u].agent => t = u

\* claimTasks (domain.js:364): two tasks in progress never write the same
\* path, nor one a path inside the other's.
DisjointWrites ==
    \A t, u \in Active : t # u => ~TargetsOverlap(t, u)

\* claimTasks (domain.js:363): work that was ever admitted rests on
\* dependencies whose results were accepted, and acceptance is final.
DependenciesAccepted ==
    \A t \in TaskId : status[t] \notin {"absent", "queued"} =>
        \A d \in spec[t].dependencies : status[d] = "completed"

\* recordResult and finishReconciliation (service.js:581, 442): a task leaves
\* its slot only when no journalled effect is unsettled and its browser is
\* closed, and neither can become open again afterwards.
QuietWhenReleased ==
    \A t \in TaskId : status[t] \in Released =>
        /\ \A c \in Call : journal[t][c] \notin {"started", "unknown"}
        /\ computer[t] # "open"

\* review_task (domain.js:308): a verdict given by a teammate comes from a
\* reviewer that was assigned this very task and did not do the work.
IndependentReview ==
    \A t \in TaskId : review[t] \in Agent =>
        /\ review[t] \in Reviewer
        /\ review[t] # spec[t].agent
        /\ \E r \in TaskId : /\ spec[r].reviewOf = t
                             /\ spec[r].agent = review[t]
                             /\ status[r] \notin {"absent", "queued"}

\* control_agent (domain.js:184): once a stop has reached a running task, no
\* later resume lets that task start another effect or open a browser.
StopSticks ==
    [][\A t \in cancelRequested :
        /\ t \in cancelRequested'
        /\ \A c \in Call : journal[t][c] = "none" => journal'[t][c] = "none"
        /\ computer[t] = "none" => computer'[t] = "none"]_vars

\* claimTasks and recordResult: an assignment is executed at most once.  Once
\* claimed it is never queued again nor handed to another worker, and once
\* its slot is released only a verdict may follow.
ExecutedAtMostOnce ==
    [][\A t \in TaskId :
        /\ status[t] \notin {"absent", "queued"} =>
              status'[t] \notin {"absent", "queued"} /\ worker'[t] = worker[t]
        /\ status[t] \in Released => /\ status'[t] \in Released
                                     /\ output'[t] = output[t]
        /\ status[t] \in Terminal => status'[t] = status[t]]_vars

Of(a) == {t \in TaskId : spec[t].agent = a}

Turn(a) == INSTANCE BrowserTurn WITH
    Task    <- TaskId,
    turn    <- Of(a) \cap Active,
    past    <- {t \in Of(a) : status[t] \in Released},
    browser <- [t \in TaskId |-> IF t \in Of(a) THEN computer[t] ELSE "none"],
    stopped <- Of(a) \cap cancelRequested

\* claimTasks, reserveComputer, recordResult (domain.js:360, computer-lease.js:31,
\* service.js:581): every teammate takes its turns as BrowserTurn says, although
\* one transaction may begin those of several.
TurnsHonored ==
    /\ \A a \in Agent : Turn(a)!Init
    /\ [][\A a \in Agent : [Turn(a)!Next]_(Turn(a)!turnVars)]_vars

-----------------------------------------------------------------------------
(* What strengthens the above into an inductive invariant.                 *)

\* Tasks are numbered without gaps, and a task exists with its request.
Numbering ==
    \A t \in TaskId :
        IF t <= created THEN status[t] # "absent" /\ spec[t] \in Specs
                        ELSE status[t] = "absent" /\ spec[t] = NoSpec

\* Nothing has been done, opened, investigated or stopped for an unclaimed task.
IdleUntilClaimed ==
    \A t \in TaskId : status[t] \in {"absent", "queued"} =>
        /\ \A c \in Call : journal[t][c] = "none"
        /\ computer[t] = "none"
        /\ leaseId[t] = 0
        /\ t \notin cancelRequested
=============================================================================
