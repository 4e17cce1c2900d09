------------------------------ MODULE AsyncLab ------------------------------
(***************************************************************************)
(* The async lab's queue of runs (src/async-lab): rows in Postgres, hints, *)
(* locks and idempotency keys in Valkey, API handlers that submit and      *)
(* cancel, and one serial worker in every process that drains the queue.   *)
(*                                                                         *)
(* The store has atomic statements (claimRun, refreshClaim, releaseClaim)  *)
(* and updateRun, which reads a row and later writes all of it back: a     *)
(* copy.  Between the two, everybody else may act.                         *)
(*                                                                         *)
(* While Valkey cannot be reached each process falls back to a memory of   *)
(* its own.  Its locks exclude nobody else, its queue holds what the sweep *)
(* of the table finds as well, and its keys are those of one process: the  *)
(* requests that share a key are taken to reach different processes.       *)
(* A statement of the store that throws has not been committed.            *)
(*                                                                         *)
(* Events, and the switch that stops the timer, are not modelled.  An      *)
(* operator X_Y states a bug one could plausibly write in X.               *)
(***************************************************************************)
EXTENDS Integers, FiniteSets

CONSTANTS
    Worker,         \* processes (instanceId), each of one life
    Crashable,      \* those that may die
    Request,        \* calls of createRun
    Key,            \* Key[q]: the idempotency key of request q, or None
    Target,         \* Target[q]: its targetKey
    Live,           \* requests whose adapter is executed
    Step,           \* keyed steps of the plan before the adapter, 1..n
    Scenario,       \* what is bounded together: the requests that are made,
                    \* the runs somebody cancels, once, and how many crashes,
                    \* failures and leases that run out there may be
    None

\* Every request draws an id of its own for the run it may create.
Run == Request
Last == Cardinality(Step) + 1

ASSUME AsyncAssumption ==
    /\ Crashable \subseteq Worker /\ Live \subseteq Request
    /\ None \notin Worker \cup Request \cup (Worker \X Request)
    /\ IsFiniteSet(Step) /\ Step = 1..Cardinality(Step)
    /\ Scenario \subseteq [made : SUBSET Request, cancelled : SUBSET Request,
                           faults : Nat]
    /\ \A q, s \in Request : Key[q] # None /\ Key[q] = Key[s] =>
          Target[q] = Target[s] /\ (q \in Live <=> s \in Live)

VARIABLES
    row,            \* async_runtime_runs
    reachable,      \* Valkey answers
    queue,          \* ids in the Valkey list: hints
    runLock,        \* Valkey: the worker that holds run:<id>
    targetLock,     \* Valkey: worker and run that hold target:<key>
    keyOwner,       \* Valkey: the id that claimed an idempotency key
    sub, id, reply, \* createRun: its progress, the id it uses, its answer
    cancel, wish,   \* cancelRun: its progress, and the copy it writes
    pc, job,        \* processRun: its progress and its run
    todo,           \* rows the sweep has listed and not yet visited
    at, done,       \* step of the plan, and the keys to be recorded with it
    held,           \* targetLocked
    copy,           \* the copy that updateRun writes
    faults,         \* faults that may still happen
    launched,       \* history: how often the adapter of a run was launched
    excuse          \* history: what went wrong with the guards of a run

valkey   == <<reachable, queue, runLock, targetLock, keyOwner>>
api      == <<sub, id, reply, cancel, wish>>
worker   == <<pc, job, todo, at, done, held, copy>>
history  == <<launched, excuse>>
vars == <<row, valkey, api, worker, faults, history>>

Ended == {"completed", "failed", "cancelled"}
Open(x) == x.status \in {"queued", "running"}
NoRow == [status |-> "absent", cancel |-> FALSE, owner |-> None,
          live |-> FALSE, steps |-> {}]
Row == [status : {"absent", "queued", "running"} \cup Ended, cancel : BOOLEAN,
        owner : Worker \cup {None}, live : BOOLEAN, steps : SUBSET Step]

Saving == {"starting", "stepping", "completing", "failing", "cancelling"}
Executing == Saving \cup {"target", "plan", "tool"}
Busy(w) == pc[w] \notin {"idle", "dead"}
Executes(w, r) == pc[w] \in Executing /\ job[w] = r

AsyncTypeOK ==
    /\ row \in [Run -> Row]
    /\ reachable \in BOOLEAN
    /\ queue \subseteq Run
    /\ runLock \in [Run -> Worker \cup {None}]
    /\ targetLock \in [{Target[q] : q \in Request} -> (Worker \X Run) \cup {None}]
    /\ keyOwner \in [{Key[q] : q \in Request} -> Run \cup {None}]
    /\ sub \in [Request -> {"new", "admitted", "inserted", "closed"}]
    /\ id \in [Request -> Run]
    /\ reply \in [Request -> Run \cup {None}]
    /\ cancel \in [Run -> {"new", "queued", "running", "read", "cancelled",
                         "requested", "late"}]
    /\ wish \in [Run -> Row]
    /\ pc \in [Worker -> {"idle", "locked", "release", "dead"} \cup Executing]
    /\ job \in [Worker -> Run \cup {None}]
    /\ todo \in [Worker -> SUBSET Run]
    /\ at \in [Worker -> 1..Last]
    /\ done \in [Worker -> SUBSET Step]
    /\ held \in [Worker -> BOOLEAN]
    /\ copy \in [Worker -> Row]
    /\ faults \in Nat
    /\ launched \in [Run -> 0..2]
    /\ excuse \in [Run -> SUBSET {"lock", "claim", "target", "crash"}]

Init ==
    /\ row = [r \in Run |-> NoRow]
    /\ reachable = TRUE /\ queue = {}
    /\ runLock = [r \in Run |-> None]
    /\ targetLock = [t \in {Target[q] : q \in Request} |-> None]
    /\ keyOwner = [k \in {Key[q] : q \in Request} |-> None]
    /\ \E s \in Scenario :
          /\ sub = [q \in Request |-> IF q \in s.made THEN "new" ELSE "closed"]
          /\ cancel = [r \in Run |-> IF r \in s.cancelled THEN "new" ELSE "late"]
          /\ faults = s.faults
    /\ id = [q \in Request |-> q]
    /\ reply = [q \in Request |-> None]
    /\ wish = [r \in Run |-> NoRow]
    /\ pc = [w \in Worker |-> "idle"]
    /\ job = [w \in Worker |-> None]
    /\ todo = [w \in Worker |-> {}]
    /\ at = [w \in Worker |-> 1]
    /\ done = [w \in Worker |-> {}]
    /\ held = [w \in Worker |-> FALSE]
    /\ copy = [w \in Worker |-> NoRow]
    /\ launched = [r \in Run |-> 0]
    /\ excuse = [r \in Run |-> {}]

Fault == faults > 0 /\ faults' = faults - 1
Excused(r, what) == [excuse EXCEPT ![r] = @ \cup what]

-----------------------------------------------------------------------------
(* createRun.                                                              *)

\* getRunByIdempotency: the run that bears the key of q, if any.
Bearer(q) == {r \in Run : Key[q] # None /\ Key[r] = Key[q]
                          /\ row[r].status # "absent"}

Answer(q, r) ==
    /\ reply' = [reply EXCEPT ![q] = r]
    /\ sub' = [sub EXCEPT ![q] = "closed"]

\* The key is looked up in the table and claimed in Valkey (SET NX); who
\* comes second and finds no row yet goes on with the id of the first.
Admit(q) ==
    /\ sub[q] = "new" /\ Key[q] # None
    /\ \/ \E r \in Bearer(q) : Answer(q, r) /\ UNCHANGED <<id, keyOwner>>
       \/ /\ Bearer(q) = {}
          /\ sub' = [sub EXCEPT ![q] = "admitted"]
          /\ LET k == Key[q] IN
             IF ~reachable THEN UNCHANGED <<id, keyOwner>>
             ELSE IF keyOwner[k] = None
             THEN keyOwner' = [keyOwner EXCEPT ![k] = q] /\ UNCHANGED id
             ELSE id' = [id EXCEPT ![q] = keyOwner[k]] /\ UNCHANGED keyOwner
          /\ UNCHANGED reply
    /\ UNCHANGED <<row, reachable, queue, runLock, targetLock, cancel, wish,
                   worker, faults, history>>

\* INSERT.  The primary key and the unique index on the key of a run refuse a
\* second row (23505); the request is then answered with the row that exists.
Refused_ByIdOnly(q) == row[id[q]].status # "absent"
Refused(q) == row[id[q]].status # "absent" \/ Bearer(q) # {}

Insert(q) ==
    /\ sub[q] = "admitted" \/ (sub[q] = "new" /\ Key[q] = None)
    /\ IF Refused(q)
       THEN (\E r \in Bearer(q) : Answer(q, r)) /\ UNCHANGED row
       ELSE /\ row' = [row EXCEPT ![id[q]].status = "queued"]
            /\ sub' = [sub EXCEPT ![q] = "inserted"] /\ UNCHANGED reply
    /\ UNCHANGED <<valkey, id, cancel, wish, worker, faults, history>>

Enqueue(q) ==
    /\ sub[q] = "inserted"
    /\ queue' = IF reachable THEN queue \cup {id[q]} ELSE queue
    /\ Answer(q, id[q])
    /\ UNCHANGED <<row, reachable, runLock, targetLock, keyOwner, id, cancel,
                   wish, worker, faults, history>>

\* The handler's process ends, or its event cannot be written.
Abandon(q) ==
    /\ sub[q] \in {"admitted", "inserted"} /\ Fault
    /\ sub' = [sub EXCEPT ![q] = "closed"]
    /\ UNCHANGED <<row, valkey, id, reply, cancel, wish, worker, history>>

-----------------------------------------------------------------------------
(* updateRun writes back the copy x of row r: the claim goes with it, and  *)
(* whoever executes r under another claim loses it.                        *)

Overwrites(r, x) ==
    \E w \in Worker : /\ Executes(w, r) /\ row[r].owner = w
                      /\ x.owner # w \/ (row[r].live /\ ~x.live)

WritesBack(r, x) ==
    /\ row' = [row EXCEPT ![r] = x]
    /\ excuse' = IF Overwrites(r, x) THEN Excused(r, {"claim"}) ELSE excuse

(* cancelRun: a queued run is cancelled at once, a running one at the      *)
(* worker's next checkpoint.                                               *)

CancelLooks(r) ==
    /\ cancel[r] = "new" /\ row[r].status # "absent"
    /\ cancel' = [cancel EXCEPT ![r] = IF Open(row[r]) THEN row[r].status
                                                      ELSE "late"]
    /\ UNCHANGED <<row, valkey, sub, id, reply, wish, worker, faults, history>>

\* What it writes follows from the status it saw, and the rest of the row from
\* a second look.
CancelRead(r) ==
    /\ cancel[r] \in {"queued", "running"}
    /\ wish' = [wish EXCEPT ![r] = [row[r] EXCEPT !.cancel = TRUE,
          !.status = IF cancel[r] = "queued" THEN "cancelled" ELSE "running"]]
    /\ cancel' = [cancel EXCEPT ![r] = "read"]
    /\ UNCHANGED <<row, valkey, sub, id, reply, worker, faults, history>>

CancelWrite(r) ==
    /\ cancel[r] = "read"
    /\ WritesBack(r, wish[r])
    /\ cancel' = [cancel EXCEPT ![r] = IF wish[r].status = "cancelled"
                                       THEN "cancelled" ELSE "requested"]
    /\ wish' = [wish EXCEPT ![r] = NoRow]
    /\ UNCHANGED <<valkey, sub, id, reply, worker, faults, launched>>

-----------------------------------------------------------------------------
(* drainQueue: the hints first, then the rows the sweep lists.             *)

Runnable_Queued == {r \in Run : row[r].status = "queued"}
Runnable == {r \in Run : /\ Open(row[r])
                         /\ \/ row[r].status = "queued"
                            \/ row[r].owner = None
                            \/ ~row[r].live}

\* processRun begins with the lock of the run, or gives the run up.
Lock(w, r) ==
    LET granted == ~reachable \/ runLock[r] = None IN
    /\ pc' = [pc EXCEPT ![w] = IF granted THEN "locked" ELSE "idle"]
    /\ job' = [job EXCEPT ![w] = IF granted THEN r ELSE None]
    /\ runLock' = IF reachable /\ granted THEN [runLock EXCEPT ![r] = w]
                                          ELSE runLock
    /\ excuse' = IF reachable THEN excuse ELSE Excused(r, {"lock"})

Pop(w, r) ==
    /\ pc[w] = "idle" /\ todo[w] = {} /\ reachable
    /\ r \in queue /\ queue' = queue \ {r}
    /\ Lock(w, r)
    /\ UNCHANGED <<row, reachable, targetLock, keyOwner, api, todo, at, done,
                   held, copy, faults, launched>>

Sweep(w) ==
    /\ pc[w] = "idle" /\ todo[w] = {} /\ (reachable => queue = {})
    /\ Runnable # {} /\ todo' = [todo EXCEPT ![w] = Runnable]
    /\ UNCHANGED <<row, valkey, api, pc, job, at, done, held, copy, faults,
                   history>>

Visit(w, r) ==
    /\ pc[w] = "idle" /\ r \in todo[w]
    /\ todo' = [todo EXCEPT ![w] = @ \ {r}]
    /\ Lock(w, r)
    /\ UNCHANGED <<row, reachable, queue, targetLock, keyOwner, api, at, done,
                   held, copy, faults, launched>>

Goes(w, to) == pc' = [pc EXCEPT ![w] = to]

\* claimRun.
Claimable_AnyOwner(w, r) == Open(row[r])
Claimable_Ended(w, r) ==
    /\ row[r].status # "absent"
    /\ row[r].owner \in {None, w} \/ ~row[r].live
Claimable(w, r) ==
    /\ Open(row[r])
    /\ row[r].owner \in {None, w} \/ ~row[r].live

Claim(w) ==
    LET r == job[w] IN
    /\ pc[w] = "locked"
    /\ IF Claimable(w, r)
       THEN /\ row' = [row EXCEPT ![r].owner = w, ![r].live = TRUE]
            /\ Goes(w, IF row[r].cancel THEN "cancelling" ELSE "starting")
       ELSE Goes(w, "release") /\ UNCHANGED row
    /\ UNCHANGED <<valkey, api, job, todo, at, done, held, copy, faults,
                   history>>

-----------------------------------------------------------------------------
(* What the worker's updateRun makes of the row, and where it goes then.   *)

Patched(w, x) ==
    CASE pc[w] = "starting"   -> [x EXCEPT !.status = "running"]
      [] pc[w] = "stepping"   -> [x EXCEPT !.status = "running",
                                           !.steps = done[w]]
      [] pc[w] = "completing" -> [x EXCEPT !.status = "completed"]
      [] pc[w] = "failing"    -> [x EXCEPT !.status = "failed"]
      [] pc[w] = "cancelling" -> [x EXCEPT !.status = "cancelled",
                                           !.cancel = TRUE]

Reads(w) ==
    /\ pc[w] \in Saving /\ copy[w] = NoRow
    /\ copy' = [copy EXCEPT ![w] = Patched(w, row[job[w]])]
    /\ UNCHANGED <<row, valkey, api, pc, job, todo, at, done, held, faults,
                   history>>

Writes(w) ==
    /\ pc[w] \in Saving /\ copy[w] # NoRow
    /\ WritesBack(job[w], copy[w])
    /\ copy' = [copy EXCEPT ![w] = NoRow]
    /\ Goes(w, CASE pc[w] = "starting" -> "target"
                 [] pc[w] = "stepping" -> "plan"
                 [] OTHER -> "release")
    /\ at' = IF pc[w] = "stepping" THEN [at EXCEPT ![w] = @ + 1] ELSE at
    /\ UNCHANGED <<valkey, api, job, todo, done, held, faults, launched>>

-----------------------------------------------------------------------------
(* acquireTargetLock: until maxLockWaitMs have passed.                     *)

AcquireTarget(w) ==
    LET r == job[w] IN
    /\ pc[w] = "target"
    /\ reachable => targetLock[Target[r]] = None
    /\ targetLock' = IF reachable
                     THEN [targetLock EXCEPT ![Target[r]] = <<w, r>>]
                     ELSE targetLock
    /\ excuse' = IF reachable THEN excuse ELSE Excused(r, {"target"})
    /\ held' = [held EXCEPT ![w] = TRUE]
    /\ Goes(w, "plan")
    /\ UNCHANGED <<row, reachable, queue, runLock, keyOwner, api, job, todo,
                   at, done, copy, faults, launched>>

AfterWait_Anyway == "plan"
AfterWait == "failing"

GivesUp(w) ==
    /\ pc[w] = "target" /\ reachable
    /\ targetLock[Target[job[w]]] # None
    /\ Goes(w, AfterWait)
    /\ UNCHANGED <<row, valkey, api, job, todo, at, done, held, copy, faults,
                   history>>

(* executeLabRun: a checkpoint before every step, none before the adapter. *)

Checkpoint(w) ==
    LET x == row[job[w]] IN
    /\ pc[w] = "plan" /\ at[w] < Last
    /\ \/ ~Open(x) /\ Goes(w, "release") /\ UNCHANGED <<row, at, done>>
       \/ Open(x) /\ x.cancel /\ Goes(w, "cancelling")
          /\ UNCHANGED <<row, at, done>>
       \/ /\ Open(x) /\ ~x.cancel /\ at[w] \in x.steps
          /\ at' = [at EXCEPT ![w] = @ + 1] /\ UNCHANGED <<row, pc, done>>
       \/ /\ Open(x) /\ ~x.cancel /\ at[w] \notin x.steps
          /\ row' = IF x.owner = w THEN [row EXCEPT ![job[w]].live = TRUE]
                                   ELSE row
          /\ done' = [done EXCEPT ![w] = x.steps \cup {at[w]}]
          /\ Goes(w, "stepping") /\ UNCHANGED at
    /\ UNCHANGED <<valkey, api, job, todo, held, copy, faults, history>>

\* maybeExecuteAdapter.
Launch(w) ==
    LET r == job[w] IN
    /\ pc[w] = "plan" /\ at[w] = Last
    /\ IF Open(row[r]) /\ r \in Live
       THEN /\ Goes(w, "tool")
            /\ launched' = [launched EXCEPT ![r] = IF @ < 2 THEN @ + 1 ELSE @]
       ELSE Goes(w, "completing") /\ UNCHANGED launched
    /\ UNCHANGED <<row, valkey, api, job, todo, at, done, held, copy, faults,
                   excuse>>

ToolEnds(w) ==
    /\ pc[w] = "tool"
    /\ Goes(w, "completing") \/ Goes(w, "failing")
    /\ UNCHANGED <<row, valkey, api, job, todo, at, done, held, copy, faults,
                   history>>

-----------------------------------------------------------------------------
(* processRun's finally: the locks are deleted only by their owner, and    *)
(* stay until they run out when Valkey cannot be asked.                    *)

FreeTarget(w) ==
    targetLock' = IF /\ held[w] /\ reachable
                     /\ targetLock[Target[job[w]]] = <<w, job[w]>>
                  THEN [targetLock EXCEPT ![Target[job[w]]] = None]
                  ELSE targetLock

Finished(w) ==
    /\ Goes(w, "idle")
    /\ job' = [job EXCEPT ![w] = None]
    /\ at' = [at EXCEPT ![w] = 1]
    /\ done' = [done EXCEPT ![w] = {}]
    /\ held' = [held EXCEPT ![w] = FALSE]

Release(w) ==
    LET r == job[w] IN
    /\ pc[w] = "release"
    /\ FreeTarget(w)
    /\ row' = IF row[r].owner = w
              THEN [row EXCEPT ![r].owner = None, ![r].live = FALSE] ELSE row
    /\ runLock' = IF reachable /\ runLock[r] = w
                  THEN [runLock EXCEPT ![r] = None] ELSE runLock
    /\ Finished(w)
    /\ UNCHANGED <<reachable, queue, keyOwner, api, todo, copy, faults,
                   history>>

\* releaseClaim throws: the run keeps its lock and its claim, and the drain
\* ends.
ReleaseThrows(w) ==
    /\ pc[w] = "release" /\ Fault
    /\ FreeTarget(w) /\ Finished(w)
    /\ todo' = [todo EXCEPT ![w] = {}]
    /\ excuse' = Excused(job[w], {"crash"})
    /\ UNCHANGED <<row, reachable, queue, runLock, keyOwner, api, copy,
                   launched>>

\* A statement of the store throws.  The handler fails the run even if it was
\* claimRun that threw; if it throws as well, the drain ends.  A target lock
\* whose event cannot be written is not known to be held.
Throws(w) ==
    LET r == job[w] IN
    /\ pc[w] \in Executing \cup {"locked"} /\ Fault
    /\ \/ Open(row[r]) /\ Goes(w, "failing") /\ UNCHANGED todo
       \/ ~Open(row[r]) /\ Goes(w, "release") /\ UNCHANGED todo
       \/ Goes(w, "release") /\ todo' = [todo EXCEPT ![w] = {}]
    /\ \/ UNCHANGED targetLock
       \/ /\ pc[w] = "target" /\ reachable /\ targetLock[Target[r]] = None
          /\ targetLock' = [targetLock EXCEPT ![Target[r]] = <<w, r>>]
    /\ copy' = [copy EXCEPT ![w] = NoRow]
    /\ excuse' = Excused(r, IF pc[w] = "locked" THEN {"crash", "claim"}
                                               ELSE {"crash"})
    /\ UNCHANGED <<row, reachable, queue, runLock, keyOwner, api, job, at,
                   done, held, launched>>

Crash(w) ==
    /\ w \in Crashable /\ pc[w] # "dead" /\ Fault
    /\ pc' = [pc EXCEPT ![w] = "dead"]
    /\ job' = [job EXCEPT ![w] = None]
    /\ todo' = [todo EXCEPT ![w] = {}]
    /\ at' = [at EXCEPT ![w] = 1]
    /\ done' = [done EXCEPT ![w] = {}]
    /\ held' = [held EXCEPT ![w] = FALSE]
    /\ copy' = [copy EXCEPT ![w] = NoRow]
    /\ excuse' = IF Busy(w) THEN Excused(job[w], {"crash"}) ELSE excuse
    /\ UNCHANGED <<row, valkey, api, launched>>

-----------------------------------------------------------------------------
(* leaseTtlMs pass, and Valkey comes and goes.  What nobody works under    *)
(* any more runs out for free; a lease in use counts as a fault.           *)

InUse(lost, r, what) ==
    IF lost THEN Fault /\ excuse' = Excused(r, {what})
            ELSE UNCHANGED <<faults, excuse>>

ClaimLapses(r) ==
    LET o == row[r].owner
        Lapsed(x) == IF x.live /\ x.owner = o
                     THEN [x EXCEPT !.live = FALSE] ELSE x
    IN  /\ row[r].live
        /\ row' = [row EXCEPT ![r].live = FALSE]
        /\ copy' = [w \in Worker |-> IF job[w] = r THEN Lapsed(copy[w])
                                                   ELSE copy[w]]
        /\ wish' = [wish EXCEPT ![r] = Lapsed(@)]
        /\ InUse(\E w \in Worker : w = o /\ Executes(w, r), r, "claim")
        /\ UNCHANGED <<valkey, sub, id, reply, cancel, pc, job, todo, at,
                       done, held, launched>>

RunLockLapses(r) ==
    /\ runLock[r] # None
    /\ runLock' = [runLock EXCEPT ![r] = None]
    /\ InUse(\E w \in Worker : w = runLock[r] /\ Busy(w) /\ job[w] = r,
             r, "lock")
    /\ UNCHANGED <<row, reachable, queue, targetLock, keyOwner, api, worker,
                   launched>>

TargetLockLapses(t) ==
    /\ targetLock[t] # None
    /\ targetLock' = [targetLock EXCEPT ![t] = None]
    /\ LET w == targetLock[t][1]
           r == targetLock[t][2]
       IN  InUse(held[w] /\ job[w] = r, r, "target")
    /\ UNCHANGED <<row, reachable, queue, runLock, keyOwner, api, worker,
                   launched>>

\* idempotencyTtlSeconds pass.
KeyLapses(k) ==
    /\ keyOwner[k] # None /\ Fault
    /\ keyOwner' = [keyOwner EXCEPT ![k] = None]
    /\ UNCHANGED <<row, reachable, queue, runLock, targetLock, api, worker,
                   history>>

Unreachable ==
    /\ reachable /\ Fault
    /\ reachable' = FALSE
    /\ excuse' = [r \in Run |-> excuse[r] \cup
                    IF \E w \in Worker : job[w] = r THEN {"lock", "target"}
                                                    ELSE {}]
    /\ UNCHANGED <<row, queue, runLock, targetLock, keyOwner, api, worker,
                   launched>>

Reachable ==
    /\ ~reachable /\ reachable' = TRUE
    /\ UNCHANGED <<row, queue, runLock, targetLock, keyOwner, api, worker,
                   faults, history>>

-----------------------------------------------------------------------------
WorkerStep(w) ==
    \/ \E r \in Run : Pop(w, r) \/ Visit(w, r)
    \/ Sweep(w) \/ Claim(w) \/ Reads(w) \/ Writes(w)
    \/ AcquireTarget(w) \/ GivesUp(w) \/ Checkpoint(w)
    \/ Launch(w) \/ ToolEnds(w) \/ Release(w)

Next ==
    \/ \E q \in Request : Admit(q) \/ Insert(q) \/ Enqueue(q) \/ Abandon(q)
    \/ \E r \in Run : CancelLooks(r) \/ CancelRead(r) \/ CancelWrite(r)
    \/ \E w \in Worker : \/ WorkerStep(w) \/ ReleaseThrows(w) \/ Throws(w)
                         \/ Crash(w)
    \/ \E r \in Run : ClaimLapses(r) \/ RunLockLapses(r)
    \/ \E t \in {Target[q] : q \in Request} : TargetLockLapses(t)
    \/ \E k \in {Key[q] : q \in Request} : KeyLapses(k)
    \/ Unreachable \/ Reachable

Spec == Init /\ [][Next]_vars

\* A process goes on until it dies and drains again at every tick of its
\* timer; an outage ends, and a lease that nobody renews runs out.
Fairness ==
    /\ \A w \in Worker : WF_vars(WorkerStep(w))
    /\ \A r \in Run : WF_vars(ClaimLapses(r)) /\ WF_vars(RunLockLapses(r))
    /\ \A t \in {Target[q] : q \in Request} : WF_vars(TargetLockLapses(t))
    /\ WF_vars(Reachable)

LiveSpec == Spec /\ Fairness

-----------------------------------------------------------------------------
\* createRun (service.js:772, 843): however requests with one idempotency key
\* overlap, and whether or not Valkey is there to tell them apart, all that
\* are answered are answered with one and the same run, and it exists.
AnsweredAlike ==
    \A q, s \in Request : reply[q] # None =>
        /\ row[reply[q]].status # "absent"
        /\ (Key[q] # None /\ Key[q] = Key[s]) =>
              /\ reply[s] \in {None, reply[q]}
              /\ s # reply[q] => row[s].status = "absent"

\* processRun (service.js:970, 979): the run's lock in Valkey and the claim in
\* its row guard a run independently.  Two workers execute it at a time only
\* if both have been broken.
OneExecutor ==
    \A r \in Run, u, v \in Worker :
        Executes(u, r) /\ Executes(v, r) /\ u # v =>
            {"lock", "claim"} \subseteq excuse[r]

\* acquireTargetLock (service.js:1039): two runs work on one target at a time
\* only if the lock of one of them ran out or Valkey was lost meanwhile.
TargetExclusive ==
    \A u, v \in Worker :
        /\ u # v /\ {pc[u], pc[v]} \subseteq {"plan", "stepping", "tool"}
        /\ Target[job[u]] = Target[job[v]]
        => "target" \in excuse[job[u]] \cup excuse[job[v]]

\* executeLabRun (service.js:1118): a run's adapter is launched a second time
\* only after a crash or a failure of its worker, or under broken guards.
LaunchedOnce ==
    \A r \in Run : launched[r] > 1 =>
        "crash" \in excuse[r] \/ {"lock", "claim"} \subseteq excuse[r]

\* cancelRun, updateRun (service.js:905, store.js:263): no write-back of an older
\* copy changes the outcome of a run, unless its claim was broken.  Two races of
\* cancelRun with a worker are left open here, as the code leaves them: its own
\* late write, and what a worker writes over the cancellation of a run that it
\* holds.  The second contradicts what the code and its test say of it: see
\* CancelledUnexecuted.
OutcomeLasts ==
    [][\A r \in Run :
          row[r].status \in Ended /\ row'[r].status # row[r].status =>
              \/ "claim" \in excuse[r]
              \/ cancel[r] = "read" /\ cancel'[r] # "read"
              \/ /\ row[r].status = "cancelled" /\ cancel[r] = "cancelled"
                 /\ row[r].owner # None]_vars

\* "Queued run cancelled before execution." (service.js:917), and the test that
\* queued runs are cancelled without executing them (service.test.js:980).  The
\* code does not keep this promise: TLC refutes it without a fault, on the
\* instance CancelScenario of MCAsyncLab.
CancelledUnexecuted == \A r \in Run : cancel[r] = "cancelled" => launched[r] = 0

\* listRunnableRuns (store.js:449): when the faults are over, every run that
\* was ever inserted ends and stays ended: crashes, outages, lost hints and
\* stale write-backs leave none running or queued for ever.
RunsEnd == <>[](\A r \in Run : ~Open(row[r]))
=============================================================================
