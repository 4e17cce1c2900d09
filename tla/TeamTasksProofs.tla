-------------------------- MODULE TeamTasksProofs --------------------------
(***************************************************************************)
(* What TeamTasks promises for every number of teammates, tasks, calls and *)
(* every limit.  The argument has three layers:                            *)
(*                                                                         *)
(*   Row        types and numbering, inductive by themselves;              *)
(*   Lifecycle  how one transaction can change the status of a task, read  *)
(*              off the actions once and cited by everything below;        *)
(*   the safety properties, each from Lifecycle and, where slots are       *)
(*              granted, from what Greedy says of a batch of claims.       *)
(***************************************************************************)
EXTENDS TeamTasks, TLAPS, FiniteSetTheorems

Row == TypeOK /\ Numbering

Claiming == \E w \in Worker, limit \in 1..MaxTasks : ClaimEnabled(w, limit)

-----------------------------------------------------------------------------
(* Types.                                                                  *)

LEMMA ResultStatusType ==
    ASSUME NEW o \in Outcome
    PROVE  /\ ResultStatus(o) \in {"needs_review", "failed", "cancelled"}
           /\ ResultStatus(o) \in Status
BY TeamAssumption DEF ResultStatus, Status, Released, Terminal

LEMMA RequestType ==
    ASSUME TypeOK, NEW a \in Assignment, NEW deps \in SUBSET (1..created),
           NEW target \in 0..created
    PROVE  Request(a, deps, target) \in Specs
BY TeamAssumption DEF TypeOK, Request, Specs, Assignments, TaskId, NoTask

LEMMA ReviewRequestType ==
    ASSUME TypeOK, NEW t \in TaskId, spec[t].reviewer # None
    PROVE  ReviewRequest(t) \in Specs
<1>1. spec[t] \in Specs
  BY DEF TypeOK, NoSpec
<1>2. spec[t].reviewer \in Agent
  BY <1>1 DEF Specs
<1>3. {} \in SUBSET Seq(STRING) /\ {} \in SUBSET TaskId
  OBVIOUS
<1>. QED
  BY <1>2, <1>3 DEF ReviewRequest, Specs

\* The inductive step.
LEMMA RowStep ==
    ASSUME Row, [Next]_vars PROVE Row'
<1>. USE DEF roster, intake, effects, recovery, verdict, Row, TypeOK, Numbering
<1>1. ASSUME NEW on \in BOOLEAN, ConfigureExecution(on) PROVE Row'
  BY <1>1 DEF ConfigureExecution
<1>2. ASSUME NEW a \in Stoppable, StopAgent(a) PROVE Row'
  BY <1>2 DEF StopAgent
<1>3. ASSUME NEW a \in Stoppable, ResumeAgent(a) PROVE Row'
  BY <1>3, TeamAssumption DEF ResumeAgent
<1>4. ASSUME NEW a \in Agent, RestEnds(a) PROVE Row'
  BY <1>4 DEF RestEnds
<1>5. ASSUME NEW a \in Assignment, NEW deps \in SUBSET (1..created),
             NEW target \in 0..created, Enqueue(Request(a, deps, target))
      PROVE  Row'
  <2>1. Request(a, deps, target) \in Specs
    BY RequestType
  <2>2. created + 1 \in TaskId /\ created + 1 \in 0..MaxTasks
    BY <1>5, TeamAssumption DEF Enqueue, Assignable, TaskId
  <2>3. TypeOK'
    BY <1>5, <2>1, <2>2 DEF Enqueue, Status
  <2>4. Numbering'
    BY <1>5, <2>1, <2>2, TeamAssumption DEF Enqueue, TaskId
  <2>. QED
    BY <2>3, <2>4
<1>6. ASSUME NEW w \in Worker, NEW limit \in 1..MaxTasks, ClaimEnabled(w, limit)
      PROVE  Row'
  <2>1. PICK C \in SUBSET TaskId : /\ Greedy(C, limit)
                                   /\ ClaimEnabled(w, limit)!(C)
    BY <1>6 DEF ClaimEnabled
  <2>2. \A t \in C : status[t] = "queued"
    BY <2>1 DEF Greedy, Claimable
  <2>3. TypeOK'
    BY <2>1 DEF Status, Activity
  <2>4. Numbering'
    BY <2>1, <2>2
  <2>. QED
    BY <2>3, <2>4
<1>7. ASSUME NEW t \in TaskId, NEW by \in Agent \cup {Owner},
             NEW approved \in BOOLEAN, ReviewTask(t, by, approved)
      PROVE  Row'
  BY <1>7 DEF ReviewTask, Status, Released, Terminal
<1>8. ASSUME NEW t \in TaskId, NEW c \in Call, BeginOperation(t, c)
      PROVE  Row'
  BY <1>8 DEF BeginOperation, OperationStatus
<1>9. ASSUME NEW t \in TaskId, NEW c \in Call,
             NEW outcome \in {"settled", "unknown"}, SettleOperation(t, c, outcome)
      PROVE  Row'
  BY <1>9 DEF SettleOperation, OperationStatus
<1>10. ASSUME NEW t \in TaskId, ReserveComputer(t) \/ CloseComputer(t)
       PROVE  Row'
  BY <1>10 DEF ReserveComputer, CloseComputer
<1>11. ASSUME NEW t \in TaskId, NEW outcome \in Outcome,
              NEW verified \in BOOLEAN, RecordResult(t, outcome, verified)
       PROVE  Row'
  <2>1. /\ ResultStatus(outcome) \in Status \ {"absent"}
        /\ "queued" \in Status
    BY ResultStatusType DEF Status
  <2>2. t <= created /\ spec[t] \in Specs /\ spec[t].agent \in Agent
    BY <1>11 DEF RecordResult, MayRecord, Specs
  <2>3. resting' \subseteq Agent
    BY <1>11, <2>2 DEF RecordResult
  <2>4. CASE created' = created
    <3>1. TypeOK' /\ status' = [status EXCEPT ![t] = ResultStatus(outcome)]
      BY <1>11, <2>1, <2>3, <2>4 DEF RecordResult
    <3>2. spec' = spec
      BY <1>11, <2>4 DEF RecordResult
    <3>. QED
      BY <3>1, <3>2, <2>1, <2>2, <2>4 DEF RecordResult
  <2>5. CASE created' # created
    <3>1. /\ created < MaxTasks /\ created' = created + 1
          /\ spec[t].reviewer # None
          /\ spec' = [spec EXCEPT ![created + 1] = ReviewRequest(t)]
          /\ status' = [status EXCEPT ![t] = ResultStatus(outcome),
                                      ![created + 1] = "queued"]
      BY <1>11, <2>5 DEF RecordResult
    <3>2. created + 1 \in TaskId /\ created + 1 \in 0..MaxTasks
      BY <3>1, TeamAssumption DEF TaskId
    <3>3. ReviewRequest(t) \in Specs
      BY <3>1, ReviewRequestType
    <3>4. TypeOK'
      BY <1>11, <2>1, <2>3, <3>1, <3>2, <3>3 DEF RecordResult
    <3>5. Numbering'
      BY <2>1, <2>2, <3>1, <3>2, <3>3 DEF TaskId
    <3>. QED
      BY <3>4, <3>5
  <2>. QED
    BY <2>4, <2>5
<1>12. ASSUME NEW t \in TaskId, Unobserved(t) PROVE Row'
  BY <1>12 DEF Unobserved, Status, Activity
<1>13. ASSUME NEW t \in TaskId, BeginReconciliation(t) PROVE Row'
  BY <1>13, TeamAssumption DEF BeginReconciliation, MayReport, Status, Activity
<1>14. ASSUME NEW t \in TaskId, LeaseLapses(t) PROVE Row'
  BY <1>14 DEF LeaseLapses
<1>15. ASSUME NEW t \in TaskId, NEW l \in 1..leaseId[t],
              NEW saved \in BOOLEAN, FinishReconciliation(t, l, saved)
       PROVE  Row'
  BY <1>15 DEF FinishReconciliation, MayReport, Status, Activity, Released,
               Terminal
<1>16. CASE UNCHANGED vars
  BY <1>16 DEF vars
<1>. QED
  BY <1>1, <1>2, <1>3, <1>4, <1>5, <1>6, <1>7, <1>8, <1>9, <1>10, <1>11,
     <1>12, <1>13, <1>14, <1>15, <1>16 DEF Next

LEMMA RowInit == ASSUME Init PROVE Row
<1>1. TypeOK
  <2>1. journal \in [TaskId -> [Call -> OperationStatus]]
    BY DEF Init, OperationStatus
  <2>2. created \in 0..MaxTasks /\ leaseId \in [TaskId -> 0..MaxLeases]
    BY TeamAssumption DEF Init
  <2>3. spec \in [TaskId -> Specs \cup {NoSpec}]
    BY DEF Init
  <2>4. status \in [TaskId -> Status] /\ review \in [TaskId -> Agent \cup {Owner, None}]
    BY DEF Init, Status
  <2>. QED
    BY <2>1, <2>2, <2>3, <2>4 DEF Init, TypeOK
<1>2. Numbering
  BY TeamAssumption DEF Init, Numbering, TaskId
<1>. QED
  BY <1>1, <1>2 DEF Row

\* Every committed transaction leaves a well-typed row whose tasks are
\* numbered without gaps.  The type alone is not inductive: a result makes the
\* task's teammate rest, so it must be known that the task has one.
THEOREM RowInvariant == Spec => []Row
<1>1. Init => Row
  BY RowInit
<1>2. Row /\ [Next]_vars => Row'
  BY RowStep
<1>. QED
  BY <1>1, <1>2, PTL DEF Spec

\* Every committed transaction leaves a well-typed row.
THEOREM TypeCorrect == Spec => []TypeOK
<1>1. Row => TypeOK
  BY DEF Row
<1>. QED
  BY <1>1, RowInvariant, PTL

-----------------------------------------------------------------------------
(* What one transaction does to a task.                                    *)

Moves(t) ==
    \/ status'[t] = status[t]
    \/ status[t] = "absent" /\ status'[t] = "queued"
    \/ status[t] = "queued" /\ status'[t] = "running" /\ Claiming
    \/ /\ status[t] = "running"
       /\ status'[t] \in {"reconciling", "needs_review", "failed", "cancelled"}
    \/ status[t] = "reconciling" /\ status'[t] \in {"failed", "cancelled"}
    \/ status[t] = "needs_review" /\ status'[t] \in {"completed", "changes_requested"}

Keeps(t) == status[t] # "absent" => spec'[t] = spec[t]

LEMMA Lifecycle ==
    ASSUME Row, [Next]_vars, NEW u \in TaskId
    PROVE  Moves(u) /\ Keeps(u)
<1>. USE DEF roster, intake, effects, recovery, verdict, Row, TypeOK, Numbering,
             Moves, Keeps
<1>1. ASSUME NEW on \in BOOLEAN, ConfigureExecution(on) PROVE Moves(u) /\ Keeps(u)
  BY <1>1 DEF ConfigureExecution
<1>2. ASSUME NEW a \in Stoppable, StopAgent(a) \/ ResumeAgent(a)
      PROVE  Moves(u) /\ Keeps(u)
  BY <1>2 DEF StopAgent, ResumeAgent
<1>3. ASSUME NEW a \in Agent, RestEnds(a) PROVE Moves(u) /\ Keeps(u)
  BY <1>3 DEF RestEnds
<1>4. ASSUME NEW a \in Assignment, NEW deps \in SUBSET (1..created),
             NEW target \in 0..created, Enqueue(Request(a, deps, target))
      PROVE  Moves(u) /\ Keeps(u)
  BY <1>4, TeamAssumption DEF Enqueue, Assignable, TaskId
<1>5. ASSUME NEW w \in Worker, NEW limit \in 1..MaxTasks, ClaimEnabled(w, limit)
      PROVE  Moves(u) /\ Keeps(u)
  <2>1. PICK C \in SUBSET TaskId : ClaimEnabled(w, limit)!(C)
    BY <1>5 DEF ClaimEnabled
  <2>2. \A t \in C : status[t] = "queued"
    BY <2>1 DEF Greedy, Claimable
  <2>. QED
    BY <1>5, <2>1, <2>2 DEF Claiming
<1>6. ASSUME NEW t \in TaskId, NEW by \in Agent \cup {Owner},
             NEW approved \in BOOLEAN, ReviewTask(t, by, approved)
      PROVE  Moves(u) /\ Keeps(u)
  BY <1>6 DEF ReviewTask
<1>7. ASSUME NEW t \in TaskId, NEW c \in Call, BeginOperation(t, c)
      PROVE  Moves(u) /\ Keeps(u)
  BY <1>7 DEF BeginOperation
<1>8. ASSUME NEW t \in TaskId, NEW c \in Call,
             NEW outcome \in {"settled", "unknown"}, SettleOperation(t, c, outcome)
      PROVE  Moves(u) /\ Keeps(u)
  BY <1>8 DEF SettleOperation
<1>9. ASSUME NEW t \in TaskId, ReserveComputer(t) \/ CloseComputer(t)
      PROVE  Moves(u) /\ Keeps(u)
  BY <1>9 DEF ReserveComputer, CloseComputer
<1>10. ASSUME NEW t \in TaskId, NEW outcome \in Outcome,
              NEW verified \in BOOLEAN, RecordResult(t, outcome, verified)
       PROVE  Moves(u) /\ Keeps(u)
  <2>1. status[t] = "running"
    BY <1>10 DEF RecordResult, MayRecord
  <2>2. ResultStatus(outcome) \in {"needs_review", "failed", "cancelled"}
    BY ResultStatusType
  <2>3. CASE created' = created
    BY <1>10, <2>1, <2>2, <2>3 DEF RecordResult
  <2>4. CASE created' # created
    <3>1. /\ created < MaxTasks
          /\ spec' = [spec EXCEPT ![created + 1] = ReviewRequest(t)]
          /\ status' = [status EXCEPT ![t] = ResultStatus(outcome),
                                      ![created + 1] = "queued"]
      BY <1>10, <2>4 DEF RecordResult
    <3>2. created + 1 \in TaskId /\ status[created + 1] = "absent"
      BY <3>1, TeamAssumption DEF TaskId
    <3>. QED
      BY <2>1, <2>2, <3>1, <3>2
  <2>. QED
    BY <2>3, <2>4
<1>11. ASSUME NEW t \in TaskId, Unobserved(t) \/ BeginReconciliation(t) \/ LeaseLapses(t)
       PROVE  Moves(u) /\ Keeps(u)
  BY <1>11 DEF Unobserved, BeginReconciliation, LeaseLapses, MayReport, Activity
<1>12. ASSUME NEW t \in TaskId, NEW l \in 1..leaseId[t],
              NEW saved \in BOOLEAN, FinishReconciliation(t, l, saved)
       PROVE  Moves(u) /\ Keeps(u)
  BY <1>12 DEF FinishReconciliation, MayReport, Activity
<1>13. CASE UNCHANGED vars
  BY <1>13 DEF vars
<1>. QED
  BY <1>1, <1>2, <1>3, <1>4, <1>5, <1>6, <1>7, <1>8, <1>9, <1>10, <1>11,
     <1>12, <1>13 DEF Next

\* Only a claim occupies a slot, and an occupied slot keeps its request.
LEMMA SlotsOnlyByClaim ==
    ASSUME Row, [Next]_vars, ~Claiming
    PROVE  Active' \subseteq Active /\ \A t \in Active : spec'[t] = spec[t]
BY Lifecycle DEF Active, Activity, Moves, Keeps

\* A batch of claims adds to the slots a set C that Greedy describes.
LEMMA ClaimedBatch ==
    ASSUME Row, Claiming
    PROVE  \E C \in SUBSET TaskId, limit \in 1..MaxTasks :
              Greedy(C, limit) /\ Active' = Active \cup C /\ spec' = spec
<1>1. PICK w \in Worker, limit \in 1..MaxTasks : ClaimEnabled(w, limit)
  BY DEF Claiming
<1>2. PICK C \in SUBSET TaskId : ClaimEnabled(w, limit)!(C)
  BY <1>1 DEF ClaimEnabled
<1>3. Active' = Active \cup C
  BY <1>2 DEF Active, Activity, Row, TypeOK
<1>. QED
  BY <1>2, <1>3 DEF intake

LEMMA OverlapSymmetric ==
    ASSUME NEW t, NEW u PROVE TargetsOverlap(t, u) <=> TargetsOverlap(u, t)
BY DEF TargetsOverlap, Overlaps

\* Two tasks in progress belong to different teammates and write apart: within
\* a batch because each is claimed beside those before it.
Apart(t, u) == spec[t].agent # spec[u].agent /\ ~TargetsOverlap(t, u)

THEOREM ActiveTasksApart == Spec => [](OneTaskPerAgent /\ DisjointWrites)
<1>. DEFINE Inv == \A t, u \in Active : t # u => Apart(t, u)
<1>1. Init => Inv
  BY DEF Init, Active, Activity
<1>2. Row /\ Inv /\ [Next]_vars => Inv'
  <2>. SUFFICES ASSUME Row, Inv, [Next]_vars PROVE Inv'
    OBVIOUS
  <2>1. CASE ~Claiming
    BY <2>1, SlotsOnlyByClaim DEF Apart, TargetsOverlap
  <2>2. CASE Claiming
    <3>1. PICK C \in SUBSET TaskId, limit \in 1..MaxTasks :
              Greedy(C, limit) /\ Active' = Active \cup C /\ spec' = spec
      BY <2>2, ClaimedBatch
    <3>2. ASSUME NEW t \in Active', NEW u \in C,
                 t \in Active \/ (t \in C /\ t < u)
          PROVE  Apart(t, u)
      <4>1. Claimable(u, Active \cup {c \in C : c < u})
        BY <3>1 DEF Greedy
      <4>. QED
        BY <3>2, <4>1 DEF Claimable, Apart
    <3>3. ASSUME NEW t \in Active', NEW u \in Active', t # u PROVE Apart(t, u)
      <4>1. Apart(t, u) <=> Apart(u, t)
        BY OverlapSymmetric DEF Apart
      <4>2. CASE t \in Active /\ u \in Active
        BY <3>3, <4>2
      <4>3. CASE t \in C /\ u \in C
        <5>1. t \in Int /\ u \in Int
          BY <4>3, TeamAssumption DEF TaskId
        <5>. QED
          BY <3>2, <3>3, <4>1, <4>3, <5>1
      <4>. QED
        BY <3>1, <3>2, <3>3, <4>1, <4>2, <4>3
    <3>. QED
      BY <3>1, <3>3 DEF Apart, TargetsOverlap
  <2>. QED
    BY <2>1, <2>2
<1>3. Inv => OneTaskPerAgent /\ DisjointWrites
  BY DEF Apart, OneTaskPerAgent, DisjointWrites
<1>. QED
  BY <1>1, <1>2, <1>3, RowInvariant, PTL DEF Spec

\* Tasks in progress never write inside one another's paths: the half of the
\* theorem above that claimTasks checks with targetsOverlap (domain.js:364).
THEOREM WritesApart == Spec => []DisjointWrites
<1>1. OneTaskPerAgent /\ DisjointWrites => DisjointWrites
  OBVIOUS
<1>. QED
  BY <1>1, ActiveTasksApart, PTL

-----------------------------------------------------------------------------
(* Dependencies.                                                           *)

\* A claim is granted behind accepted dependencies, and since "completed" has
\* no way out and a request is never rewritten, they stay accepted.
THEOREM AcceptedBeforeUse == Spec => []DependenciesAccepted
<1>1. Init => DependenciesAccepted
  BY DEF Init, DependenciesAccepted
<1>2. Row /\ DependenciesAccepted /\ [Next]_vars => DependenciesAccepted'
  <2>. SUFFICES ASSUME Row, DependenciesAccepted, [Next]_vars,
                       NEW t \in TaskId, status'[t] \notin {"absent", "queued"},
                       NEW d \in spec'[t].dependencies
                PROVE  status'[d] = "completed"
    BY DEF DependenciesAccepted
  <2>1. Moves(t) /\ Keeps(t)
    BY Lifecycle
  <2>2. spec'[t] = spec[t] /\ d \in TaskId
    <3>1. status[t] # "absent"
      BY <2>1 DEF Moves
    <3>2. spec[t] \in Specs
      BY <3>1 DEF Row, Numbering
    <3>. QED
      BY <2>1, <3>1, <3>2 DEF Keeps, Specs
  <2>3. status[d] = "completed"
    <3>1. CASE status[t] \notin {"absent", "queued"}
      BY <2>2, <3>1 DEF DependenciesAccepted
    <3>2. CASE status[t] \in {"absent", "queued"}
      <4>1. status[t] = "queued" /\ status'[t] = "running" /\ Claiming
        BY <2>1, <3>2 DEF Moves
      <4>2. PICK w \in Worker, limit \in 1..MaxTasks : ClaimEnabled(w, limit)
        BY <4>1 DEF Claiming
      <4>3. PICK C \in SUBSET TaskId : ClaimEnabled(w, limit)!(C)
        BY <4>2 DEF ClaimEnabled
      <4>4. t \in C
        BY <4>1, <4>3
      <4>. QED
        BY <2>2, <4>3, <4>4 DEF Greedy, Claimable
    <3>. QED
      BY <3>1, <3>2
  <2>4. Moves(d)
    BY <2>2, Lifecycle
  <2>. QED
    BY <2>3, <2>4 DEF Moves
<1>. QED
  BY <1>1, <1>2, RowInvariant, PTL DEF Spec

-----------------------------------------------------------------------------
(* Effects and the private browser.                                        *)

\* Effects and browser belong to the slot: they are touched only while their
\* task holds one, and the transaction that ends the slot found them at rest.
Rested(t) == Settled(t) /\ ComputerClosed(t)
Untouched(t) == journal'[t] = journal[t] /\ computer'[t] = computer[t]

EffectsKept(t) ==
    \/ /\ Untouched(t)
       /\ status'[t] \in Released => status[t] \in Released \/ Rested(t)
    \/ status[t] \in Activity /\ status'[t] = status[t]

LEMMA EffectsInSlot ==
    ASSUME Row, [Next]_vars, NEW u \in TaskId
    PROVE  EffectsKept(u)
<1>. USE DEF roster, intake, effects, recovery, verdict, EffectsKept, Untouched,
             Activity, Released, Terminal
<1>1. ASSUME NEW on \in BOOLEAN, ConfigureExecution(on) PROVE EffectsKept(u)
  BY <1>1 DEF ConfigureExecution
<1>2. ASSUME NEW a \in Stoppable, StopAgent(a) \/ ResumeAgent(a)
      PROVE  EffectsKept(u)
  BY <1>2 DEF StopAgent, ResumeAgent
<1>3. ASSUME NEW a \in Agent, RestEnds(a) PROVE EffectsKept(u)
  BY <1>3 DEF RestEnds
<1>4. ASSUME NEW a \in Assignment, NEW deps \in SUBSET (1..created),
             NEW target \in 0..created, Enqueue(Request(a, deps, target))
      PROVE  EffectsKept(u)
  BY <1>4 DEF Enqueue, Row, TypeOK
<1>5. ASSUME NEW w \in Worker, NEW limit \in 1..MaxTasks, ClaimEnabled(w, limit)
      PROVE  EffectsKept(u)
  BY <1>5 DEF ClaimEnabled
<1>6. ASSUME NEW t \in TaskId, NEW by \in Agent \cup {Owner},
             NEW approved \in BOOLEAN, ReviewTask(t, by, approved)
      PROVE  EffectsKept(u)
  BY <1>6 DEF ReviewTask, Row, TypeOK
<1>7. ASSUME NEW t \in TaskId,
             \/ \E c \in Call : BeginOperation(t, c)
             \/ \E c \in Call, outcome \in {"settled", "unknown"} :
                   SettleOperation(t, c, outcome)
             \/ ReserveComputer(t) \/ CloseComputer(t)
      PROVE  EffectsKept(u)
  BY <1>7 DEF BeginOperation, SettleOperation, ReserveComputer, CloseComputer,
              MayAct, MayReport, Row, TypeOK
<1>8. ASSUME NEW t \in TaskId, NEW outcome \in Outcome,
             NEW verified \in BOOLEAN, RecordResult(t, outcome, verified)
      PROVE  EffectsKept(u)
  <2>1. Untouched(u) /\ Rested(t)
    BY <1>8 DEF RecordResult, Rested
  <2>2. CASE u = t
    BY <2>1, <2>2
  <2>3. CASE u # t
    BY <1>8, <2>1, <2>3 DEF RecordResult, Row, TypeOK
  <2>. QED
    BY <2>2, <2>3
<1>9. ASSUME NEW t \in TaskId, Unobserved(t) \/ BeginReconciliation(t) \/ LeaseLapses(t)
      PROVE  EffectsKept(u)
  BY <1>9 DEF Unobserved, BeginReconciliation, LeaseLapses, Row, TypeOK
<1>10. ASSUME NEW t \in TaskId, NEW l \in 1..leaseId[t],
              NEW saved \in BOOLEAN, FinishReconciliation(t, l, saved)
       PROVE  EffectsKept(u)
  BY <1>10 DEF FinishReconciliation, Rested, Row, TypeOK
<1>11. CASE UNCHANGED vars
  BY <1>11 DEF vars
<1>. HIDE DEF EffectsKept
<1>. QED
  BY <1>1, <1>2, <1>3, <1>4, <1>5, <1>6, <1>7, <1>8, <1>9, <1>10, <1>11 DEF Next

\* A slot is given up only with every effect settled and the browser closed,
\* and neither opens again behind it.
THEOREM RestedWhenReleased == Spec => []QuietWhenReleased
<1>. DEFINE Inv == \A t \in TaskId : status[t] \in Released => Rested(t)
<1>1. Init => Inv
  BY DEF Init, Released, Terminal
<1>2. Row /\ Inv /\ [Next]_vars => Inv'
  <2>. SUFFICES ASSUME Row, Inv, [Next]_vars,
                       NEW t \in TaskId, status'[t] \in Released
                PROVE  Rested(t)'
    OBVIOUS
  <2>1. Untouched(t) /\ (status[t] \in Released \/ Rested(t))
    BY EffectsInSlot DEF EffectsKept, Activity, Released, Terminal
  <2>2. Rested(t)
    BY <2>1
  <2>. QED
    BY <2>1, <2>2 DEF Rested, Settled, ComputerClosed, Untouched
<1>3. Inv => QuietWhenReleased
  BY DEF Rested, Settled, ComputerClosed, QuietWhenReleased
<1>. QED
  BY <1>1, <1>2, <1>3, RowInvariant, PTL DEF Spec

-----------------------------------------------------------------------------
(* Verdicts.                                                               *)

LEMMA VerdictsOnlyByReview ==
    ASSUME [Next]_vars, NEW u \in TaskId, review'[u] # review[u]
    PROVE  \E by \in Agent \cup {Owner}, approved \in BOOLEAN :
              ReviewTask(u, by, approved) /\ review'[u] = by
<1>. USE DEF verdict
<1>1. ASSUME NEW t \in TaskId, NEW by \in Agent \cup {Owner},
             NEW approved \in BOOLEAN, ReviewTask(t, by, approved), review # review'
      PROVE  t = u /\ review'[u] = by
  BY <1>1 DEF ReviewTask
<1>. QED
  BY <1>1 DEF Next, vars, ConfigureExecution, StopAgent, ResumeAgent, RestEnds,
     Enqueue, ClaimEnabled, BeginOperation, SettleOperation, ReserveComputer,
     CloseComputer, RecordResult, Unobserved, BeginReconciliation, LeaseLapses,
     FinishReconciliation

\* A teammate's verdict comes from a reviewer assigned to this very task.  The
\* invariant adds that a verdict is given on a finished task: one given on a
\* task yet to be created could see the task's author arrive after it.
THEOREM VerdictsIndependent == Spec => []IndependentReview
<1>. DEFINE Judged(t) ==
              /\ status[t] \in Terminal
              /\ review[t] \in Reviewer
              /\ review[t] # spec[t].agent
              /\ \E r \in TaskId : /\ spec[r].reviewOf = t
                                   /\ spec[r].agent = review[t]
                                   /\ status[r] \notin {"absent", "queued"}
            Inv == \A t \in TaskId : review[t] \in Agent => Judged(t)
<1>1. Init => Inv
  BY TeamAssumption DEF Init
<1>2. Row /\ Inv /\ [Next]_vars => Inv'
  <2>. SUFFICES ASSUME Row, Inv, [Next]_vars,
                       NEW t \in TaskId, review'[t] \in Agent
                PROVE  Judged(t)'
    OBVIOUS
  <2>1. \A u \in TaskId : Moves(u) /\ Keeps(u)
    BY Lifecycle
  <2>2. \A r \in TaskId : status[r] \notin {"absent", "queued"} =>
            status'[r] \notin {"absent", "queued"} /\ spec'[r] = spec[r]
    BY <2>1 DEF Moves, Keeps
  <2>3. CASE review'[t] = review[t]
    <3>1. Judged(t)
      BY <2>3
    <3>2. status'[t] \in Terminal /\ spec'[t] = spec[t]
      BY <2>1, <2>2, <3>1 DEF Moves, Terminal
    <3>. QED
      BY <2>2, <2>3, <3>1, <3>2
  <2>4. CASE review'[t] # review[t]
    <3>1. PICK by \in Agent \cup {Owner}, approved \in BOOLEAN :
              ReviewTask(t, by, approved) /\ review'[t] = by
      BY <2>4, VerdictsOnlyByReview
    <3>2. ReviewsAs(by, t) /\ by \in Agent
      BY <3>1, TeamAssumption DEF ReviewTask
    <3>3. status'[t] \in Terminal /\ spec' = spec
      BY <3>1 DEF ReviewTask, Terminal, intake, Row, TypeOK
    <3>4. PICK r \in TaskId : MayAct(r) /\ spec[r].agent = by /\ spec[r].reviewOf = t
      BY <3>2 DEF ReviewsAs
    <3>5. status'[r] \notin {"absent", "queued"}
      BY <2>2, <3>4 DEF MayAct
    <3>. QED
      BY <3>1, <3>2, <3>3, <3>4, <3>5 DEF ReviewsAs
  <2>. QED
    BY <2>3, <2>4
<1>3. Inv => IndependentReview
  BY DEF IndependentReview
<1>. QED
  BY <1>1, <1>2, <1>3, RowInvariant, PTL DEF Spec

-----------------------------------------------------------------------------
(* The concurrency limit.                                                  *)

LEMMA GreatestOf ==
    ASSUME NEW C \in SUBSET TaskId, C # {}
    PROVE  \E m \in C : \A c \in C : c <= m
<1>. DEFINE above(c) == {d \in C : d > c}
            tails == {above(c) : c \in C}
<1>1. IsFiniteSet(TaskId) /\ \A c \in C : c \in Int
  BY FS_Interval, TeamAssumption DEF TaskId
<1>2. tails \subseteq FiniteSubsetsOf(TaskId)
  BY <1>1, FS_FiniteSubsetsOfFinite
<1>3. IsWellFoundedOn(StrictSubsetOrdering(TaskId), FiniteSubsetsOf(TaskId))
  BY FS_StrictSubsetOrderingWellFounded
<1>4. PICK x \in tails : \A y \in tails : ~(<<y, x>> \in StrictSubsetOrdering(TaskId))
  <2>1. tails # {}
    OBVIOUS
  <2>. QED
    BY <1>2, <1>3, <2>1, WFMin
<1>5. PICK m \in C : x = above(m)
  OBVIOUS
<1>6. ASSUME NEW c \in C, c > m PROVE FALSE
  <2>1. above(c) \subseteq above(m) /\ c \in above(m) /\ c \notin above(c)
    BY <1>1, <1>6
  <2>2. <<above(c), above(m)>> \in StrictSubsetOrdering(TaskId)
    BY <2>1 DEF StrictSubsetOrdering
  <2>. QED
    BY <1>4, <1>5, <2>2
<1>. QED
  BY <1>1, <1>6

\* Claims, lost observations and recoveries never occupy more slots than
\* limits.concurrency: the last task of a batch was taken below the limit.
THEOREM ConcurrencyRespected == Spec => []ConcurrencyBound
<1>1. Init => ConcurrencyBound
  <2>. SUFFICES ASSUME Init PROVE ConcurrencyBound
    OBVIOUS
  <2>1. Active = {}
    BY DEF Init, Active, Activity
  <2>. QED
    BY <2>1, FS_EmptySet, TeamAssumption DEF ConcurrencyBound
<1>2. Row /\ ConcurrencyBound /\ [Next]_vars => ConcurrencyBound'
  <2>. SUFFICES ASSUME Row, ConcurrencyBound, [Next]_vars PROVE ConcurrencyBound'
    OBVIOUS
  <2>1. IsFiniteSet(Active) /\ \A S \in SUBSET TaskId : IsFiniteSet(S)
    <3>1. IsFiniteSet(TaskId)
      BY FS_Interval, TeamAssumption DEF TaskId
    <3>2. \A S \in SUBSET TaskId : IsFiniteSet(S)
      BY <3>1, FS_Subset
    <3>. QED
      BY <3>2 DEF Active
  <2>2. CASE ~Claiming
    <3>1. Active' \subseteq Active
      BY <2>2, SlotsOnlyByClaim
    <3>2. Cardinality(Active') <= Cardinality(Active)
      BY <2>1, <3>1, FS_Subset
    <3>3. Cardinality(Active) \in Int /\ Cardinality(Active') \in Int
      BY <2>1, <3>1, FS_CardinalityType, FS_Subset
    <3>. QED
      BY <3>2, <3>3, TeamAssumption DEF ConcurrencyBound
  <2>3. CASE Claiming
    <3>1. PICK C \in SUBSET TaskId, limit \in 1..MaxTasks :
              Greedy(C, limit) /\ Active' = Active \cup C
      BY <2>3, ClaimedBatch
    <3>2. CASE C = {}
      BY <3>1, <3>2 DEF ConcurrencyBound
    <3>3. CASE C # {}
      <4>1. PICK m \in C : \A c \in C : c <= m
        BY <3>3, GreatestOf
      <4>. DEFINE busy == Active \cup {c \in C : c < m}
      <4>2. Cardinality(busy) < Concurrency
        BY <3>1, <4>1 DEF Greedy
      <4>3. Active' = busy \cup {m}
        <5>1. \A c \in C : c \in Int
          BY TeamAssumption DEF TaskId
        <5>. QED
          BY <3>1, <4>1, <5>1
      <4>4. IsFiniteSet(busy)
        BY <2>1 DEF Active
      <4>5. Cardinality(busy) \in Int /\ Cardinality(Active') <= Cardinality(busy) + 1
        <5>1. Cardinality(busy) \in Int
          BY <4>4, FS_CardinalityType
        <5>2. Cardinality(busy \cup {m}) =
                IF m \in busy THEN Cardinality(busy) ELSE Cardinality(busy) + 1
          BY <4>4, FS_AddElement
        <5>. QED
          BY <4>3, <5>1, <5>2
      <4>6. Cardinality(Active') \in Int
        BY <4>3, <4>4, FS_AddElement, FS_CardinalityType
      <4>. QED
        BY <4>2, <4>5, <4>6, TeamAssumption DEF ConcurrencyBound
    <3>. QED
      BY <3>2, <3>3
  <2>. QED
    BY <2>2, <2>3
<1>. QED
  BY <1>1, <1>2, RowInvariant, PTL DEF Spec

-----------------------------------------------------------------------------
(* What a transaction may never do to a task it finds stopped or done.     *)

\* A stopped task gains nothing new; a claimed one keeps its worker; and a
\* released one keeps its output.
Stopped(t) == t \in cancelRequested =>
    /\ t \in cancelRequested'
    /\ \A c \in Call : journal[t][c] = "none" => journal'[t][c] = "none"
    /\ computer[t] = "none" => computer'[t] = "none"
Done(t) ==
    /\ status[t] \notin {"absent", "queued"} => worker'[t] = worker[t]
    /\ status[t] \in Released => output'[t] = output[t]

LEMMA StoppedAndDone ==
    ASSUME Row, [Next]_vars, NEW u \in TaskId
    PROVE  Stopped(u) /\ Done(u)
<1>. USE DEF roster, intake, effects, recovery, verdict, Stopped, Done,
             Activity, Released, Terminal
<1>1. ASSUME NEW on \in BOOLEAN, ConfigureExecution(on) PROVE Stopped(u) /\ Done(u)
  BY <1>1 DEF ConfigureExecution
<1>2. ASSUME NEW a \in Stoppable, StopAgent(a) \/ ResumeAgent(a)
      PROVE  Stopped(u) /\ Done(u)
  BY <1>2 DEF StopAgent, ResumeAgent
<1>3. ASSUME NEW a \in Agent, RestEnds(a) PROVE Stopped(u) /\ Done(u)
  BY <1>3 DEF RestEnds
<1>4. ASSUME NEW a \in Assignment, NEW deps \in SUBSET (1..created),
             NEW target \in 0..created, Enqueue(Request(a, deps, target))
      PROVE  Stopped(u) /\ Done(u)
  BY <1>4 DEF Enqueue
<1>5. ASSUME NEW w \in Worker, NEW limit \in 1..MaxTasks, ClaimEnabled(w, limit)
      PROVE  Stopped(u) /\ Done(u)
  <2>1. PICK C \in SUBSET TaskId : ClaimEnabled(w, limit)!(C)
    BY <1>5 DEF ClaimEnabled
  <2>2. \A t \in C : status[t] = "queued"
    BY <2>1 DEF Greedy, Claimable
  <2>. QED
    BY <2>1, <2>2
<1>6. ASSUME NEW t \in TaskId, NEW by \in Agent \cup {Owner},
             NEW approved \in BOOLEAN, ReviewTask(t, by, approved)
      PROVE  Stopped(u) /\ Done(u)
  BY <1>6 DEF ReviewTask
<1>7. ASSUME NEW t \in TaskId,
             (\E c \in Call : BeginOperation(t, c)) \/ ReserveComputer(t)
      PROVE  Stopped(u) /\ Done(u)
  BY <1>7 DEF BeginOperation, ReserveComputer, MayAct, Row, TypeOK
<1>8. ASSUME NEW t \in TaskId, NEW c \in Call,
             NEW outcome \in {"settled", "unknown"}, SettleOperation(t, c, outcome)
      PROVE  Stopped(u) /\ Done(u)
  BY <1>8 DEF SettleOperation, Row, TypeOK
<1>9. ASSUME NEW t \in TaskId, CloseComputer(t) PROVE Stopped(u) /\ Done(u)
  BY <1>9 DEF CloseComputer, Row, TypeOK
<1>10. ASSUME NEW t \in TaskId, NEW outcome \in Outcome,
              NEW verified \in BOOLEAN, RecordResult(t, outcome, verified)
       PROVE  Stopped(u) /\ Done(u)
  BY <1>10 DEF RecordResult, MayRecord
<1>11. ASSUME NEW t \in TaskId, Unobserved(t) \/ BeginReconciliation(t) \/ LeaseLapses(t)
       PROVE  Stopped(u) /\ Done(u)
  BY <1>11 DEF Unobserved, BeginReconciliation, LeaseLapses
<1>12. ASSUME NEW t \in TaskId, NEW l \in 1..leaseId[t],
              NEW saved \in BOOLEAN, FinishReconciliation(t, l, saved)
       PROVE  Stopped(u) /\ Done(u)
  BY <1>12 DEF FinishReconciliation, MayReport
<1>13. CASE UNCHANGED vars
  BY <1>13 DEF vars
<1>. HIDE DEF Stopped, Done
<1>. QED
  BY <1>1, <1>2, <1>3, <1>4, <1>5, <1>6, <1>7, <1>8, <1>9, <1>10, <1>11,
     <1>12, <1>13 DEF Next

\* control_agent (domain.js:184): no transaction, and no later resume, lets a
\* stopped task begin another effect or open a browser.
THEOREM StopsLast == Spec => StopSticks
<1>. DEFINE Step == \A t \in cancelRequested :
              /\ t \in cancelRequested'
              /\ \A c \in Call : journal[t][c] = "none" => journal'[t][c] = "none"
              /\ computer[t] = "none" => computer'[t] = "none"
<1>1. Row /\ [Next]_vars => [Step]_vars
  BY StoppedAndDone DEF Stopped, Row, TypeOK
<1>. QED
  BY <1>1, RowInvariant, PTL DEF Spec, StopSticks

\* claimTasks and recordResult (domain.js:357, service.js:581): an assignment
\* is claimed once, by one worker, and its outcome recorded once.
THEOREM ClaimedOnce == Spec => ExecutedAtMostOnce
<1>. DEFINE Step == \A t \in TaskId :
              /\ status[t] \notin {"absent", "queued"} =>
                    status'[t] \notin {"absent", "queued"} /\ worker'[t] = worker[t]
              /\ status[t] \in Released => /\ status'[t] \in Released
                                           /\ output'[t] = output[t]
              /\ status[t] \in Terminal => status'[t] = status[t]
<1>1. ASSUME Row, [Next]_vars, NEW t \in TaskId PROVE Step!(t)
  BY <1>1, Lifecycle, StoppedAndDone DEF Moves, Done, Released, Terminal
<1>2. Row /\ [Next]_vars => [Step]_vars
  BY <1>1
<1>. QED
  BY <1>2, RowInvariant, PTL DEF Spec, ExecutedAtMostOnce

-----------------------------------------------------------------------------
(* Every teammate takes its turns as BrowserTurn says.                     *)

\* Stops and recoveries find only tasks that were claimed.
LEMMA ClaimedOnly ==
    ASSUME Row, [Next]_vars, NEW u \in TaskId
    PROVE  /\ u \in cancelRequested' => u \in cancelRequested \/ status[u] = "running"
           /\ leaseId'[u] # leaseId[u] => status[u] \in Activity
<1>. DEFINE Goal ==
         /\ u \in cancelRequested' => u \in cancelRequested \/ status[u] = "running"
         /\ leaseId'[u] # leaseId[u] => status[u] \in Activity
<1>1. ASSUME NEW t \in TaskId, BeginReconciliation(t) PROVE Goal
  BY <1>1 DEF BeginReconciliation, MayReport, Row, TypeOK
<1>2. ASSUME NEW a \in Stoppable, StopAgent(a) PROVE Goal
  BY <1>2 DEF StopAgent, recovery
<1>3. CASE UNCHANGED <<cancelRequested, leaseId>>
  BY <1>3
<1>4. \/ \E a \in Stoppable : StopAgent(a)
      \/ \E t \in TaskId : BeginReconciliation(t)
      \/ UNCHANGED <<cancelRequested, leaseId>>
  BY DEF Next, vars, recovery, ConfigureExecution, ResumeAgent, RestEnds,
         Enqueue, ClaimEnabled, ReviewTask, BeginOperation, SettleOperation,
         ReserveComputer, CloseComputer, RecordResult, Unobserved, LeaseLapses,
         FinishReconciliation
<1>. QED
  BY <1>1, <1>2, <1>3, <1>4

\* claimTasks (domain.js:357): a task that was never claimed has no journal, no
\* browser, no recovery lease and no stop.
THEOREM NothingBeforeClaim == Spec => []IdleUntilClaimed
<1>1. Init => IdleUntilClaimed
  BY DEF Init, IdleUntilClaimed
<1>2. Row /\ IdleUntilClaimed /\ [Next]_vars => IdleUntilClaimed'
  <2>. SUFFICES ASSUME Row, IdleUntilClaimed, [Next]_vars,
                       NEW t \in TaskId, status'[t] \in {"absent", "queued"}
                PROVE  /\ \A c \in Call : journal'[t][c] = "none"
                       /\ computer'[t] = "none" /\ leaseId'[t] = 0
                       /\ t \notin cancelRequested'
    BY DEF IdleUntilClaimed
  <2>1. status[t] \in {"absent", "queued"}
    BY Lifecycle DEF Moves
  <2>2. Untouched(t)
    BY <2>1, EffectsInSlot DEF EffectsKept, Activity
  <2>3. t \notin cancelRequested' /\ leaseId'[t] = leaseId[t]
    BY <2>1, ClaimedOnly DEF IdleUntilClaimed, Activity
  <2>. QED
    BY <2>1, <2>2, <2>3 DEF IdleUntilClaimed, Untouched
<1>. QED
  BY <1>1, <1>2, RowInvariant, PTL DEF Spec

TurnInv == Row /\ IdleUntilClaimed /\ OneTaskPerAgent

TurnOf(a) == Of(a) \cap Active
PastOf(a) == {t \in Of(a) : status[t] \in Released}
BrowserOf(a) == [t \in TaskId |-> IF t \in Of(a) THEN computer[t] ELSE "none"]
StoppedOf(a) == Of(a) \cap cancelRequested

\* Tasks that a transaction adds for a teammate do not count yet.
LEMMA TurnsOfOld ==
    ASSUME TurnInv, TurnInv', [Next]_vars, NEW a \in Agent
    PROVE  /\ TurnOf(a)' = {t \in Of(a) : status'[t] \in Activity}
           /\ PastOf(a)' = {t \in Of(a) : status'[t] \in Released}
           /\ BrowserOf(a)' =
                 [t \in TaskId |-> IF t \in Of(a) THEN computer'[t] ELSE "none"]
           /\ StoppedOf(a)' = Of(a) \cap cancelRequested'
<1>1. ASSUME NEW t \in TaskId, status[t] # "absent"
      PROVE  t \in Of(a) <=> t \in Of(a)'
  BY <1>1, Lifecycle DEF TurnInv, Keeps, Of
<1>2. ASSUME NEW t \in TaskId, status[t] = "absent"
      PROVE  /\ status'[t] \notin Activity \cup Released
             /\ computer'[t] = "none" /\ t \notin cancelRequested'
  <2>1. status'[t] \in {"absent", "queued"}
    BY <1>2, Lifecycle DEF TurnInv, Moves
  <2>. QED
    BY <2>1 DEF TurnInv, IdleUntilClaimed, Activity, Released, Terminal
<1>3. Of(a) \subseteq TaskId /\ Of(a)' \subseteq TaskId
  BY DEF Of
<1>4. \A t \in TaskId : (IF t \in Of(a)' THEN computer'[t] ELSE "none")
                      = (IF t \in Of(a) THEN computer'[t] ELSE "none")
  BY <1>1, <1>2
<1>. QED
  BY <1>1, <1>2, <1>3, <1>4 DEF TurnOf, PastOf, BrowserOf, StoppedOf, Active

TurnStep(a) == [Turn(a)!Next]_(Turn(a)!turnVars)

\* A transaction that leaves the teammate's tasks as they are is no step of its turn.
LEMMA OthersTurn ==
    ASSUME TurnInv, TurnInv', [Next]_vars, NEW a \in Agent,
           \A t \in Of(a) :
               /\ status'[t] \in Activity <=> status[t] \in Activity
               /\ status'[t] \in Released <=> status[t] \in Released
               /\ computer'[t] = computer[t]
               /\ t \in cancelRequested' <=> t \in cancelRequested
    PROVE  TurnStep(a)
<1>1. Of(a) \subseteq TaskId
  BY DEF Of
<1>2. /\ TurnOf(a)' = TurnOf(a) /\ PastOf(a)' = PastOf(a)
      /\ StoppedOf(a)' = StoppedOf(a) /\ BrowserOf(a)' = BrowserOf(a)
  BY <1>1, TurnsOfOld DEF TurnOf, PastOf, StoppedOf, BrowserOf, Active
<1>. QED
  BY <1>2 DEF TurnStep, Turn!turnVars, TurnOf, PastOf, StoppedOf, BrowserOf

LEMMA AloneInTurn ==
    ASSUME TurnInv, NEW a \in Agent, NEW t \in TurnOf(a)
    PROVE  TurnOf(a) = {t}
  BY DEF TurnInv, OneTaskPerAgent, TurnOf, Of

\* A slot is given up by a task whose browser is closed, and by nothing else.
LEMMA ReleaseTurn ==
    ASSUME TurnInv, TurnInv', [Next]_vars, NEW a \in Agent, NEW t \in TaskId,
           status[t] \in Activity, status'[t] \in Released, computer[t] # "open",
           \A u \in TaskId : u # t =>
               /\ status'[u] \in Activity <=> status[u] \in Activity
               /\ status'[u] \in Released <=> status[u] \in Released,
           UNCHANGED <<computer, cancelRequested>>
    PROVE  TurnStep(a)
<1>1. CASE t \notin Of(a)
  BY <1>1, OthersTurn DEF Of
<1>2. CASE t \in Of(a)
  <2>1. Of(a) \subseteq TaskId /\ Activity \cap Released = {}
    BY DEF Of, Activity, Released, Terminal
  <2>2. t \in TurnOf(a)
    BY <1>2 DEF TurnOf, Active
  <2>3. TurnOf(a) = {t}
    BY <2>2, AloneInTurn
  <2>4. TurnOf(a)' = {}
    BY <2>1, <2>3, TurnsOfOld DEF TurnOf, Active
  <2>5. PastOf(a)' = PastOf(a) \cup {t}
    BY <1>2, <2>1, TurnsOfOld DEF PastOf
  <2>6. BrowserOf(a)' = BrowserOf(a) /\ StoppedOf(a)' = StoppedOf(a)
    BY TurnsOfOld DEF BrowserOf, StoppedOf
  <2>7. BrowserOf(a)[t] # "open"
    BY <1>2 DEF BrowserOf
  <2>8. Turn(a)!Pass(t)
    BY <2>3, <2>4, <2>5, <2>6, <2>7
    DEF Turn!Pass, TurnOf, PastOf, BrowserOf, StoppedOf
  <2>. QED
    BY <2>8 DEF TurnStep, Turn!Next
<1>. QED
  BY <1>1, <1>2

\* A batch of claims begins at most one turn of each teammate.
LEMMA ClaimTurn ==
    ASSUME TurnInv, TurnInv', [Next]_vars, NEW a \in Agent,
           NEW w \in Worker, NEW limit \in 1..MaxTasks, ClaimEnabled(w, limit)
    PROVE  TurnStep(a)
<1>1. PICK C \in SUBSET TaskId : Greedy(C, limit) /\ ClaimEnabled(w, limit)!(C)
  BY DEF ClaimEnabled
<1>2. \A t \in TaskId : status'[t] = IF t \in C THEN "running" ELSE status[t]
  BY <1>1
<1>3. UNCHANGED <<spec, computer, cancelRequested>>
  BY <1>1 DEF intake, effects
<1>4. \A t \in C : /\ status[t] = "queued"
                  /\ \A b \in Active : spec[b].agent # spec[t].agent
  BY <1>1 DEF Greedy, Claimable
<1>5. CASE C \cap Of(a) = {}
  BY <1>2, <1>3, <1>5, OthersTurn DEF Of
<1>6. ASSUME NEW t \in C, t \in Of(a) PROVE TurnStep(a)
  <2>1. TurnOf(a) = {} /\ t \notin PastOf(a)
    BY <1>4, <1>6 DEF TurnOf, PastOf, Of, Released, Terminal
  <2>2. Of(a)' = Of(a) /\ Of(a) \subseteq TaskId
    BY <1>3 DEF Of
  <2>3. t \in TurnOf(a)'
    BY <1>2, <1>6, <2>2, TurnsOfOld DEF Activity
  <2>4. TurnOf(a)' = {t}
    BY <2>3 DEF TurnInv, OneTaskPerAgent, TurnOf, Of
  <2>5. PastOf(a)' = PastOf(a)
    BY <1>2, <1>4, <2>2, TurnsOfOld DEF PastOf, Released, Terminal
  <2>6. BrowserOf(a)' = BrowserOf(a) /\ StoppedOf(a)' = StoppedOf(a)
    BY <1>3, TurnsOfOld DEF BrowserOf, StoppedOf
  <2>7. Turn(a)!Take(t)
    BY <2>1, <2>4, <2>5, <2>6
    DEF Turn!Take, TurnOf, PastOf, BrowserOf, StoppedOf
  <2>. QED
    BY <2>7 DEF TurnStep, Turn!Next
<1>. QED
  BY <1>5, <1>6

\* reserveComputer and the closure of the lease (computer-lease.js:31, 62).
LEMMA BrowserTurns ==
    ASSUME TurnInv, TurnInv', [Next]_vars, NEW a \in Agent, NEW t \in TaskId,
           ReserveComputer(t) \/ CloseComputer(t)
    PROVE  TurnStep(a)
<1>. DEFINE next == IF computer[t] = "none" THEN "open" ELSE "closed"
<1>1. /\ status[t] \in Activity /\ UNCHANGED <<status, cancelRequested>>
      /\ computer' = [computer EXCEPT ![t] = next]
      /\ computer[t] = "none" => t \notin cancelRequested
      /\ computer[t] \in {"none", "open"}
  BY DEF ReserveComputer, CloseComputer, MayAct, MayReport, Activity
<1>2. computer \in [TaskId -> {"none", "open", "closed"}]
  BY DEF TurnInv, Row, TypeOK
<1>3. CASE t \notin Of(a)
  BY <1>1, <1>2, <1>3, OthersTurn DEF Of
<1>4. CASE t \in Of(a)
  <2>1. TurnOf(a) = {t}
    BY <1>1, <1>4, AloneInTurn DEF TurnOf, Active
  <2>2. UNCHANGED <<TurnOf(a), PastOf(a), StoppedOf(a)>>
    BY <1>1, TurnsOfOld DEF TurnOf, PastOf, StoppedOf, Active, Of
  <2>3. BrowserOf(a)[t] = computer[t]
    BY <1>4 DEF BrowserOf
  <2>4. BrowserOf(a)' = [BrowserOf(a) EXCEPT ![t] = next]
    <3>1. ASSUME NEW u \in TaskId
          PROVE  (IF u \in Of(a) THEN computer'[u] ELSE "none")
                    = IF u = t THEN next ELSE BrowserOf(a)[u]
      BY <1>1, <1>2, <1>4 DEF BrowserOf
    <3>2. BrowserOf(a)' = [u \in TaskId |-> IF u = t THEN next ELSE BrowserOf(a)[u]]
      BY <3>1, TurnsOfOld
    <3>. QED
      BY <3>2 DEF BrowserOf
  <2>5. Turn(a)!Open(t) \/ Turn(a)!Close(t)
    BY <1>1, <2>1, <2>2, <2>3, <2>4
    DEF Turn!Open, Turn!Close, TurnOf, PastOf, BrowserOf, StoppedOf
  <2>. QED
    BY <2>5 DEF TurnStep, Turn!Next
<1>. QED
  BY <1>3, <1>4

LEMMA TurnsStep ==
    ASSUME TurnInv, TurnInv', [Next]_vars, NEW a \in Agent
    PROVE  TurnStep(a)
<1>. USE DEF roster, intake, effects, recovery, verdict
<1>0. TurnInv => Row /\ Of(a) \subseteq TaskId
  BY DEF TurnInv, Of
<1>1. ASSUME NEW b \in Stoppable, StopAgent(b) PROVE TurnStep(a)
  <2>1. /\ UNCHANGED <<spec, status, computer>>
        /\ cancelRequested' = cancelRequested \cup
                {t \in TaskId : spec[t].agent = b /\ status[t] = "running"}
    BY <1>1 DEF StopAgent
  <2>2. CASE a # b
    BY <2>1, <2>2, OthersTurn DEF Of
  <2>3. CASE a = b
    <3>1. UNCHANGED <<TurnOf(a), PastOf(a), BrowserOf(a)>>
      BY <2>1 DEF TurnOf, PastOf, BrowserOf, Of, Active
    <3>2. PICK stops \in SUBSET TurnOf(a) : StoppedOf(a)' = StoppedOf(a) \cup stops
      BY <2>1, <2>3 DEF StoppedOf, TurnOf, Of, Active, Activity
    <3>3. stops = {} \/ stops = TurnOf(a)
      BY AloneInTurn
    <3>4. CASE stops = {}
      BY <3>1, <3>2, <3>4
      DEF TurnStep, Turn!turnVars, TurnOf, PastOf, BrowserOf, StoppedOf
    <3>5. CASE stops = TurnOf(a)
      <4>1. Turn(a)!Stop
        BY <3>1, <3>2, <3>5
        DEF Turn!Stop, TurnOf, PastOf, BrowserOf, StoppedOf
      <4>. QED
        BY <4>1 DEF TurnStep, Turn!Next
    <3>. QED
      BY <3>3, <3>4, <3>5
  <2>. QED
    BY <2>2, <2>3
<1>2. ASSUME NEW t \in TaskId, NEW outcome \in Outcome,
             NEW verified \in BOOLEAN, RecordResult(t, outcome, verified)
      PROVE  TurnStep(a)
  <2>1. /\ status[t] \in Activity /\ computer[t] # "open"
        /\ UNCHANGED <<computer, cancelRequested>>
    BY <1>2 DEF RecordResult, MayRecord, ComputerClosed, Activity
  <2>2. ResultStatus(outcome) \in Released /\ ResultStatus(outcome) # "queued"
    BY ResultStatusType DEF Released, Terminal
  <2>3. \/ status' = [status EXCEPT ![t] = ResultStatus(outcome)]
        \/ status' = [status EXCEPT ![t] = ResultStatus(outcome),
                                    ![created + 1] = "queued"]
           /\ status[created + 1] = "absent" /\ created + 1 \in TaskId
    BY <1>2, <1>0, TeamAssumption
    DEF RecordResult, Row, TypeOK, Numbering, TaskId
  <2>4. status'[t] \in Released
    BY <1>0, <2>1, <2>2, <2>3 DEF Row, TypeOK, Activity
  <2>5. ASSUME NEW u \in TaskId, u # t
        PROVE  /\ status'[u] \in Activity <=> status[u] \in Activity
               /\ status'[u] \in Released <=> status[u] \in Released
    BY <1>0, <2>3, <2>5 DEF Row, TypeOK, Activity, Released, Terminal
  <2>. QED
    BY <2>1, <2>4, <2>5, ReleaseTurn
<1>3. ASSUME NEW t \in TaskId, NEW l \in 1..leaseId[t],
             NEW saved \in BOOLEAN, FinishReconciliation(t, l, saved)
      PROVE  TurnStep(a)
  <2>1. /\ status[t] \in Activity /\ computer[t] # "open"
        /\ UNCHANGED <<computer, cancelRequested>>
        /\ \A u \in TaskId : u # t => status'[u] = status[u]
        /\ status'[t] \in Released
    BY <1>0, <1>3 DEF FinishReconciliation, MayReport, ComputerClosed, Row, TypeOK,
                     Activity, Released, Terminal
  <2>. QED
    BY <2>1, ReleaseTurn
<1>4. ASSUME UNCHANGED <<computer, cancelRequested>>,
             \A t \in TaskId :
                \/ status'[t] = status[t]
                \/ {status[t], status'[t]} \subseteq {"absent", "queued"}
                \/ {status[t], status'[t]} \subseteq Activity
                \/ {status[t], status'[t]} \subseteq Released
      PROVE  TurnStep(a)
  <2>1. \A t \in Of(a) :
               /\ status'[t] \in Activity <=> status[t] \in Activity
               /\ status'[t] \in Released <=> status[t] \in Released
    BY <1>0, <1>4 DEF Activity, Released, Terminal
  <2>. QED
    BY <1>4, <2>1, OthersTurn
<1>5. ASSUME \/ \E on \in BOOLEAN : ConfigureExecution(on)
             \/ \E b \in Stoppable : ResumeAgent(b)
             \/ \E b \in Agent : RestEnds(b)
             \/ \E t \in TaskId :
                   \/ \E c \in Call : BeginOperation(t, c)
                   \/ \E c \in Call, outcome \in {"settled", "unknown"} :
                         SettleOperation(t, c, outcome)
                   \/ LeaseLapses(t)
             \/ UNCHANGED vars
      PROVE  TurnStep(a)
  <2>1. UNCHANGED <<status, computer, cancelRequested>>
    BY <1>5 DEF ConfigureExecution, ResumeAgent, RestEnds, BeginOperation,
                SettleOperation, LeaseLapses, vars
  <2>. QED
    BY <2>1, <1>4
<1>6. ASSUME NEW s \in Specs, Enqueue(s) PROVE TurnStep(a)
  <2>1. created + 1 \in TaskId /\ status[created + 1] = "absent"
    BY <1>0, <1>6, TeamAssumption
    DEF Enqueue, Assignable, Row, TypeOK, Numbering, TaskId
  <2>2. \A t \in TaskId : status'[t] = IF t = created + 1 THEN "queued" ELSE status[t]
    BY <1>0, <1>6, <2>1 DEF Enqueue, Row, TypeOK
  <2>3. UNCHANGED <<computer, cancelRequested>>
    BY <1>6 DEF Enqueue
  <2>. QED
    BY <2>1, <2>2, <2>3, <1>4
<1>7. ASSUME NEW t \in TaskId,
             \/ \E by \in Agent \cup {Owner}, approved \in BOOLEAN :
                   ReviewTask(t, by, approved)
             \/ Unobserved(t) \/ BeginReconciliation(t)
      PROVE  TurnStep(a)
  <2>1. UNCHANGED <<computer, cancelRequested>>
    BY <1>7 DEF ReviewTask, Unobserved, BeginReconciliation
  <2>2. \A u \in TaskId : u # t => status'[u] = status[u]
    BY <1>0, <1>7 DEF ReviewTask, Unobserved, BeginReconciliation, Row, TypeOK
  <2>3. \/ {status[t], status'[t]} \subseteq Activity
        \/ {status[t], status'[t]} \subseteq Released
    BY <1>0, <1>7 DEF ReviewTask, Unobserved, BeginReconciliation, MayReport, Row,
                     TypeOK, Activity, Released, Terminal
  <2>. QED
    BY <2>1, <2>2, <2>3, <1>4
<1>8. ASSUME NEW r \in Assignment, NEW deps \in SUBSET (1..created),
             NEW target \in 0..created
      PROVE  Request(r, deps, target) \in Specs
  BY <1>0, RequestType DEF Row
<1>. HIDE DEF roster, intake, effects, recovery, verdict
<1>. QED
  BY <1>1, <1>2, <1>3, <1>5, <1>6, <1>7, <1>8, ClaimTurn, BrowserTurns DEF Next

\* For any roster and any limits, each teammate works at one task at a time, opens
\* its browser in that task's turn only, once and before a stop, and gives up the
\* turn with the browser closed; a batch of claims, which is one step of the row,
\* is at most one step of every teammate's turns.
THEOREM TurnsAreHonored == Spec => TurnsHonored
<1>1. Init => \A a \in Agent : Turn(a)!Init
  BY DEF Init, Turn!Init, Of, Active, Activity, Released, Terminal
<1>2. TurnInv /\ TurnInv' /\ [Next]_vars =>
            [\A a \in Agent : [Turn(a)!Next]_(Turn(a)!turnVars)]_vars
  BY TurnsStep DEF TurnStep
<1>3. Spec => []TurnInv
  <2>1. Row /\ IdleUntilClaimed /\ OneTaskPerAgent /\ DisjointWrites => TurnInv
    BY DEF TurnInv
  <2>. QED
    BY <2>1, RowInvariant, NothingBeforeClaim, ActiveTasksApart, PTL
<1>. QED
  BY <1>1, <1>2, <1>3, PTL DEF Spec, TurnsHonored
=============================================================================
