--------------------------- MODULE AsyncLabProofs ---------------------------
(***************************************************************************)
(* What the async lab promises for any number of processes, requests and   *)
(* faults.                                                                 *)
(*                                                                         *)
(* Copies says what a row that is about to be written back can be; Claimed *)
(* and Locked are the two guards of a run, each of which stands alone;     *)
(* Held is the lock on a target; Keyed is the way from a key to its one    *)
(* row; Launches says that a run whose adapter was launched is over,       *)
(* cancelled, or still in the hands of the worker that launched it;        *)
(* Working says that what is executed under a good claim is open, or was   *)
(* cancelled over the head of its worker.                                  *)
(***************************************************************************)
EXTENDS AsyncLab, FiniteSetTheorems, TLAPS

Jobs ==
    \A w \in Worker : /\ Busy(w) => job[w] \in Run
                      /\ pc[w] = "stepping" => at[w] < Last

TypeInv == AsyncTypeOK /\ Jobs

Present(r) == row[r].status # "absent"

Copies ==
    /\ \A w \in Worker :
          /\ pc[w] \in Executing => Present(job[w])
          /\ copy[w] # NoRow =>
                /\ pc[w] \in Saving /\ copy[w].status # "absent"
                /\ pc[w] \notin {"starting", "stepping"} =>
                      copy[w].status \in Ended
                /\ pc[w] \in {"starting", "stepping"} =>
                      copy[w].status = "running"
    /\ \A r \in Run :
          /\ cancel[r] \in {"queued", "running", "read"} => Present(r)
          /\ cancel[r] = "read" =>
                wish[r].status \in {"cancelled", "running"} /\ wish[r].cancel

Claimed ==
    \A w \in Worker, r \in Run : Executes(w, r) =>
        (row[r].owner = w /\ row[r].live) \/ "claim" \in excuse[r]

Locked ==
    \A w \in Worker, r \in Run : Busy(w) /\ job[w] = r =>
        runLock[r] = w \/ "lock" \in excuse[r]

Held ==
    \A w \in Worker :
        /\ pc[w] \in {"plan", "stepping", "tool"} => held[w]
        /\ held[w] => Busy(w)
        /\ held[w] => \/ targetLock[Target[job[w]]] = <<w, job[w]>>
                      \/ "target" \in excuse[job[w]]

Keyed ==
    /\ \A q, s \in Run :
          Present(q) /\ Present(s) /\ Key[q] = Key[s] /\ Key[q] # None => q = s
    /\ \A q \in Request :
          /\ Key[id[q]] = Key[q]
          /\ sub[q] = "inserted" => Present(id[q])
          /\ reply[q] # None => Present(reply[q]) /\ Key[reply[q]] = Key[q]
    /\ \A k \in {Key[q] : q \in Request} :
          keyOwner[k] # None => Key[keyOwner[k]] = k

Broken(r) == "crash" \in excuse[r] \/ {"lock", "claim"} \subseteq excuse[r]

Launches ==
    \A r \in Run : launched[r] > 0 /\ ~Broken(r) =>
        /\ launched[r] = 1
        /\ \/ row[r].status \in Ended \/ row[r].cancel
           \/ \E w \in Worker : Executes(w, r)
        /\ \A w \in Worker : Executes(w, r) =>
              pc[w] \in {"tool", "completing", "failing", "cancelling"}

CancelledUnderWay(r) == row[r].status = "cancelled" /\ cancel[r] = "cancelled"

Working ==
    \A w \in Worker, r \in Run : Executes(w, r) =>
        Open(row[r]) \/ CancelledUnderWay(r) \/ "claim" \in excuse[r]
-----------------------------------------------------------------------------
LEMMA LastIsNat == Cardinality(Step) \in Nat
  BY FS_CardinalityType, AsyncAssumption

\* Fields of a row are set one at a time.
LEMMA RowPatches ==
    ASSUME NEW x \in Row
    PROVE  /\ \A s \in {"queued", "running"} \cup Ended :
                 [x EXCEPT !.status = s] \in Row
           /\ [x EXCEPT !.cancel = TRUE] \in Row
           /\ \A o \in Worker \cup {None}, b \in BOOLEAN :
                 [x EXCEPT !.owner = o, !.live = b] \in Row
           /\ \A b \in BOOLEAN : [x EXCEPT !.live = b] \in Row
  BY DEF Row

LEMMA ClaimPatch ==
    ASSUME NEW x \in Row, NEW o \in Worker \cup {None}, NEW b \in BOOLEAN
    PROVE  LET y == [x EXCEPT !.owner = o, !.live = b] IN
           /\ y.status = x.status /\ (y.cancel <=> x.cancel)
           /\ y.owner = o /\ (y.live <=> b)
  BY DEF Row

\* What a worker writes back is a row of one of the statuses of its state.
LEMMA PatchedIsRow ==
    ASSUME NEW w \in Worker, TypeInv, pc[w] \in Saving
    PROVE  /\ Patched(w, row[job[w]]) \in Row
           /\ Patched(w, row[job[w]]).status # "absent"
           /\ pc[w] \notin {"starting", "stepping"} =>
                 Patched(w, row[job[w]]).status \in Ended
           /\ pc[w] \in {"starting", "stepping"} =>
                 Patched(w, row[job[w]]).status = "running"
<1>1. row[job[w]] \in Row
  BY DEF TypeInv, AsyncTypeOK, Jobs, Busy, Saving
<1>2. done[w] \subseteq Step
  BY DEF TypeInv, AsyncTypeOK
<1> QED
  BY <1>1, <1>2 DEF Patched, Row, Saving, Ended

\* Every step keeps the types.
LEMMA TypedStep ==
    TypeInv /\ [Next]_vars => TypeInv'
<1> SUFFICES ASSUME TypeInv, [Next]_vars PROVE TypeInv'
  OBVIOUS
<1> USE DEF TypeInv, AsyncTypeOK, Jobs, Busy, Run
<1> DEFINE Rows == [Run -> Row]
<1>0. NoRow \in Row
  BY DEF NoRow, Row
<1>e. \A r \in Run, what \in SUBSET {"lock", "claim", "target", "crash"} :
         Excused(r, what) \in [Run -> SUBSET {"lock", "claim", "target", "crash"}]
  BY DEF Excused
<1>1. ASSUME NEW q \in Request, Admit(q) PROVE TypeInv'
  <2>1. \A r \in Bearer(q) : r \in Run
    BY DEF Bearer
  <2>2. sub' \in [Request -> {"new", "admitted", "inserted", "closed"}]
    BY <1>1 DEF Admit, Answer
  <2>3. reply' \in [Request -> Run \cup {None}]
    BY <1>1, <2>1 DEF Admit, Answer
  <2>4. /\ id' \in [Request -> Run]
        /\ keyOwner' \in [{Key[s] : s \in Request} -> Run \cup {None}]
    <3>1. /\ id \in [Request -> Run]
          /\ keyOwner \in [{Key[s] : s \in Request} -> Run \cup {None}]
      OBVIOUS
    <3>2. \/ UNCHANGED <<id, keyOwner>>
          \/ /\ keyOwner[Key[q]] = None
             /\ keyOwner' = [keyOwner EXCEPT ![Key[q]] = q] /\ UNCHANGED id
          \/ /\ keyOwner[Key[q]] # None
             /\ id' = [id EXCEPT ![q] = keyOwner[Key[q]]] /\ UNCHANGED keyOwner
      BY <1>1 DEF Admit
    <3> HIDE DEF TypeInv, AsyncTypeOK, Jobs, Busy
    <3>3. keyOwner[Key[q]] # None => keyOwner[Key[q]] \in Run
      BY <3>1
    <3> QED
      BY <3>1, <3>2, <3>3
  <2> QED
    BY <1>1, <2>2, <2>3, <2>4 DEF Admit, worker, history
<1>2. ASSUME NEW q \in Request, Insert(q) PROVE TypeInv'
  <2>1. \A r \in Bearer(q) : r \in Run
    BY DEF Bearer
  <2>2. row' \in Rows
    <3>1. row[id[q]] \in Row
      OBVIOUS
    <3>2. [row[id[q]] EXCEPT !.status = "queued"] \in Row
      BY <3>1, RowPatches
    <3>3. \/ row' = row
          \/ row' = [row EXCEPT ![id[q]] = [row[id[q]] EXCEPT !.status = "queued"]]
      BY <1>2 DEF Insert
    <3> QED
      BY <3>2, <3>3
  <2>3. /\ sub' \in [Request -> {"new", "admitted", "inserted", "closed"}]
        /\ reply' \in [Request -> Run \cup {None}]
    <3>1. /\ sub \in [Request -> {"new", "admitted", "inserted", "closed"}]
          /\ reply \in [Request -> Run \cup {None}]
      OBVIOUS
    <3>2. \/ \E r \in Run : /\ reply' = [reply EXCEPT ![q] = r]
                           /\ sub' = [sub EXCEPT ![q] = "closed"]
          \/ reply' = reply /\ sub' = [sub EXCEPT ![q] = "inserted"]
      BY <1>2, <2>1 DEF Insert, Answer
    <3> HIDE DEF TypeInv, AsyncTypeOK, Jobs, Busy
    <3> QED
      BY <3>1, <3>2
  <2> QED
    BY <1>2, <2>2, <2>3 DEF Insert, valkey, worker, history
<1>3. ASSUME NEW q \in Request, Enqueue(q) PROVE TypeInv'
  BY <1>3 DEF Enqueue, Answer, worker, history
<1>4. ASSUME NEW q \in Request, Abandon(q) PROVE TypeInv'
  BY <1>4 DEF Abandon, Fault, valkey, worker, history
<1>5. ASSUME NEW r \in Run, CancelLooks(r) PROVE TypeInv'
  BY <1>5 DEF CancelLooks, Open, valkey, worker, history
<1>5a. ASSUME NEW r \in Run, CancelRead(r) PROVE TypeInv'
  <2>1. wish' \in [Run -> Row]
    <3>1. row[r] \in Row
      OBVIOUS
    <3>2. [row[r] EXCEPT !.cancel = TRUE, !.status =
             IF cancel[r] = "queued" THEN "cancelled" ELSE "running"] \in Row
      BY <3>1 DEF Row, Ended
    <3> QED
      BY <1>5a, <3>2 DEF CancelRead
  <2> QED
    BY <1>5a, <2>1 DEF CancelRead, valkey, worker, history
<1>6. ASSUME NEW r \in Run, CancelWrite(r) PROVE TypeInv'
  <2>1. row' \in Rows /\ excuse' \in [Run -> SUBSET {"lock", "claim", "target", "crash"}]
    BY <1>6 DEF CancelWrite, WritesBack, Excused
  <2> QED
    BY <1>0, <1>6, <2>1 DEF CancelWrite, valkey, worker
<1>7. ASSUME NEW w \in Worker, NEW r \in Run, Pop(w, r) \/ Visit(w, r)
      PROVE TypeInv'
  <2>1. /\ pc' \in [Worker -> {"idle", "locked", "release", "dead"} \cup Executing]
        /\ job' \in [Worker -> Run \cup {None}]
        /\ runLock' \in [Run -> Worker \cup {None}]
        /\ excuse' \in [Run -> SUBSET {"lock", "claim", "target", "crash"}]
        /\ \A u \in Worker : u # w => pc'[u] = pc[u] /\ job'[u] = job[u]
        /\ pc'[w] \in {"locked", "idle"} /\ (pc'[w] = "locked" => job'[w] = r)
    <3>1. /\ pc \in [Worker -> {"idle", "locked", "release", "dead"} \cup Executing]
          /\ job \in [Worker -> Run \cup {None}]
          /\ runLock \in [Run -> Worker \cup {None}]
          /\ excuse \in [Run -> SUBSET {"lock", "claim", "target", "crash"}]
      OBVIOUS
    <3>2. Lock(w, r)
      BY <1>7 DEF Pop, Visit
    <3> HIDE DEF TypeInv, AsyncTypeOK, Jobs, Busy
    <3> QED
      BY <1>e, <3>1, <3>2 DEF Lock
  <2>2. /\ queue' \subseteq Run /\ todo' \in [Worker -> SUBSET Run]
        /\ UNCHANGED <<row, reachable, targetLock, keyOwner, api, at, done,
                       held, copy, faults, launched>>
    BY <1>7 DEF Pop, Visit
  <2> QED
    BY <2>1, <2>2 DEF api
<1>8. ASSUME NEW w \in Worker, Sweep(w) PROVE TypeInv'
  BY <1>8 DEF Sweep, Runnable, valkey, api, history
<1>9. ASSUME NEW w \in Worker, Claim(w) PROVE TypeInv'
  <2>1. job[w] \in Run
    BY <1>9 DEF Claim
  <2>2. row' \in Rows
    <3>1. row[job[w]] \in Row
      BY <2>1
    <3>2. [row[job[w]] EXCEPT !.owner = w, !.live = TRUE] \in Row
      BY <3>1, RowPatches
    <3>3. \/ row' = row
          \/ row' = [row EXCEPT ![job[w]] =
                        [row[job[w]] EXCEPT !.owner = w, !.live = TRUE]]
      BY <1>9, <2>1 DEF Claim
    <3> QED
      BY <3>2, <3>3
  <2>3. /\ pc' \in [Worker -> {"idle", "locked", "release", "dead"} \cup Executing]
        /\ \A u \in Worker : u # w => pc'[u] = pc[u]
        /\ pc'[w] \in {"cancelling", "starting", "release"}
    BY <1>9 DEF Claim, Goes, Executing, Saving
  <2>4. UNCHANGED <<valkey, api, job, todo, at, done, held, copy, faults,
                    history>>
    BY <1>9 DEF Claim
  <2> QED
    BY <2>1, <2>2, <2>3, <2>4 DEF valkey, api, history
<1>10. ASSUME NEW w \in Worker, Reads(w) PROVE TypeInv'
  <2>1. Patched(w, row[job[w]]) \in Row
    BY <1>10, PatchedIsRow DEF Reads
  <2> QED
    BY <1>10, <2>1 DEF Reads, valkey, api, history
<1>11. ASSUME NEW w \in Worker, Writes(w) PROVE TypeInv'
  <2>1. job[w] \in Run
    BY <1>11 DEF Writes, Saving
  <2>2. row' \in Rows /\ excuse' \in [Run -> SUBSET {"lock", "claim", "target", "crash"}]
    BY <1>11, <2>1 DEF Writes, WritesBack, Excused
  <2>3. /\ pc' \in [Worker -> {"idle", "locked", "release", "dead"} \cup Executing]
        /\ \A u \in Worker : u # w => pc'[u] = pc[u]
        /\ pc'[w] \in {"target", "plan", "release"}
    BY <1>11 DEF Writes, Goes, Executing, Saving
  <2>4. /\ at' \in [Worker -> 1..Last]
        /\ \A u \in Worker : u # w => at'[u] = at[u]
    BY <1>11, LastIsNat DEF Writes, Last
  <2>5. copy' \in [Worker -> Row]
    BY <1>0, <1>11 DEF Writes
  <2>6. UNCHANGED <<valkey, api, job, todo, done, held, faults, launched>>
    BY <1>11 DEF Writes
  <2> QED
    BY <2>1, <2>2, <2>3, <2>4, <2>5, <2>6 DEF valkey, api
<1>12. ASSUME NEW w \in Worker, AcquireTarget(w) PROVE TypeInv'
  <2>1. job[w] \in Run
    BY <1>12 DEF AcquireTarget
  <2> QED
    BY <1>12, <2>1 DEF AcquireTarget, Goes, Excused, Executing, Saving, api
<1>13. ASSUME NEW w \in Worker, GivesUp(w) PROVE TypeInv'
  BY <1>13 DEF GivesUp, AfterWait, Goes, Executing, Saving, valkey, api, history
<1>14. ASSUME NEW w \in Worker, Checkpoint(w) PROVE TypeInv'
  <2>1. job[w] \in Run /\ at[w] \in 1..Last /\ at[w] < Last
    BY <1>14 DEF Checkpoint
  <2>2. at[w] + 1 \in 1..Last /\ at[w] \in Step
    BY <2>1, LastIsNat, AsyncAssumption DEF Last
  <2>3. row' \in Rows
    <3>1. row[job[w]] \in Row
      BY <2>1
    <3> QED
      BY <1>14, <2>1, <3>1, RowPatches DEF Checkpoint
  <2>4. /\ at' \in [Worker -> 1..Last]
        /\ \A u \in Worker : u # w => at'[u] = at[u]
        /\ pc'[w] = "stepping" => at'[w] = at[w]
    BY <1>14, <2>2 DEF Checkpoint, Goes
  <2>5. done' \in [Worker -> SUBSET Step]
    <3>1. row[job[w]].steps \cup {at[w]} \subseteq Step
      BY <2>1, <2>2 DEF Row
    <3> QED
      BY <1>14, <3>1 DEF Checkpoint
  <2>6. /\ pc' \in [Worker -> {"idle", "locked", "release", "dead"} \cup Executing]
        /\ \A u \in Worker : u # w => pc'[u] = pc[u]
        /\ pc'[w] \in {"release", "cancelling", "plan", "stepping"}
    BY <1>14 DEF Checkpoint, Goes, Executing, Saving
  <2>7. UNCHANGED <<valkey, api, job, todo, held, copy, faults, history>>
    BY <1>14 DEF Checkpoint
  <2> QED
    BY <2>1, <2>3, <2>4, <2>5, <2>6, <2>7 DEF valkey, api, history
<1>15. ASSUME NEW w \in Worker, Launch(w) PROVE TypeInv'
  <2>1. job[w] \in Run
    BY <1>15 DEF Launch
  <2> QED
    BY <1>15, <2>1 DEF Launch, Goes, Executing, Saving, valkey, api
<1>16. ASSUME NEW w \in Worker, ToolEnds(w) PROVE TypeInv'
  BY <1>16 DEF ToolEnds, Goes, Executing, Saving, valkey, api, history
<1>17. ASSUME NEW w \in Worker, Release(w) \/ ReleaseThrows(w) PROVE TypeInv'
  <2>1. job[w] \in Run /\ pc[w] = "release"
    BY <1>17 DEF Release, ReleaseThrows
  <2>2. targetLock' \in [{Target[q] : q \in Request} -> (Worker \X Run) \cup {None}]
    BY <1>17 DEF Release, ReleaseThrows, FreeTarget
  <2>3. /\ row' \in Rows /\ runLock' \in [Run -> Worker \cup {None}]
        /\ excuse' \in [Run -> SUBSET {"lock", "claim", "target", "crash"}]
        /\ faults' \in Nat /\ todo' \in [Worker -> SUBSET Run]
    <3>1. row[job[w]] \in Row
      BY <2>1
    <3>2. CASE Release(w)
      BY <2>1, <3>1, <3>2, RowPatches DEF Release, history
    <3>3. CASE ReleaseThrows(w)
      BY <1>e, <2>1, <3>3 DEF ReleaseThrows, Fault
    <3> QED
      BY <1>17, <3>2, <3>3
  <2>4. 1 \in 1..Last
    BY LastIsNat DEF Last
  <2>5. Finished(w) /\ UNCHANGED <<reachable, queue, keyOwner, api, copy, launched>>
    BY <1>17 DEF Release, ReleaseThrows, history
  <2> QED
    BY <2>2, <2>3, <2>4, <2>5 DEF Finished, Goes, api
<1>18. ASSUME NEW w \in Worker, Throws(w) PROVE TypeInv'
  <2>1. job[w] \in Run
    BY <1>18 DEF Throws, Executing, Saving
  <2>2. /\ targetLock' \in [{Target[q] : q \in Request} -> (Worker \X Run) \cup {None}]
        /\ excuse' \in [Run -> SUBSET {"lock", "claim", "target", "crash"}]
        /\ todo' \in [Worker -> SUBSET Run] /\ faults' \in Nat
    <3>1. targetLock' \in [{Target[q] : q \in Request} -> (Worker \X Run) \cup {None}]
      <4>1. \/ targetLock' = targetLock
            \/ targetLock' = [targetLock EXCEPT ![Target[job[w]]] = <<w, job[w]>>]
        BY <1>18 DEF Throws
      <4>2. <<w, job[w]>> \in (Worker \X Run) \cup {None}
        BY <2>1
      <4>3. targetLock \in [{Target[q] : q \in Request} -> (Worker \X Run) \cup {None}]
        OBVIOUS
      <4> HIDE DEF TypeInv, AsyncTypeOK, Jobs, Busy
      <4> QED
        BY <4>1, <4>2, <4>3
    <3>2. excuse' \in [Run -> SUBSET {"lock", "claim", "target", "crash"}]
      BY <1>18, <1>e, <2>1 DEF Throws
    <3> QED
      BY <1>18, <3>1, <3>2 DEF Throws, Fault
  <2>3. /\ pc' \in [Worker -> {"idle", "locked", "release", "dead"} \cup Executing]
        /\ pc[w] \notin {"idle", "dead"}
        /\ \A v \in Worker : pc'[v] = "stepping" => pc[v] = "stepping"
        /\ \A v \in Worker : v # w => pc'[v] = pc[v]
    <3>1. pc \in [Worker -> {"idle", "locked", "release", "dead"} \cup Executing]
      OBVIOUS
    <3>2. /\ pc[w] \in Executing \cup {"locked"}
          /\ \E to \in {"failing", "release"} : pc' = [pc EXCEPT ![w] = to]
      BY <1>18 DEF Throws, Goes
    <3> HIDE DEF TypeInv, AsyncTypeOK, Jobs, Busy
    <3> QED
      BY <3>1, <3>2 DEF Executing, Saving
  <2>4. Jobs'
    BY <1>18, <2>3 DEF Throws
  <2>5. copy' \in [Worker -> Row]
    BY <1>0, <1>18 DEF Throws
  <2>6. UNCHANGED <<row, reachable, queue, runLock, keyOwner, api, job, at,
                    done, held, launched>>
    BY <1>18 DEF Throws
  <2> QED
    BY <2>2, <2>3, <2>4, <2>5, <2>6 DEF api
<1>19. ASSUME NEW w \in Worker, Crash(w) PROVE TypeInv'
  <2>1. 1 \in 1..Last
    BY LastIsNat DEF Last
  <2>2. excuse' \in [Run -> SUBSET {"lock", "claim", "target", "crash"}]
    BY <1>19 DEF Crash, Excused
  <2>3. /\ pc' \in [Worker -> {"idle", "locked", "release", "dead"} \cup Executing]
        /\ job' \in [Worker -> Run \cup {None}]
        /\ todo' \in [Worker -> SUBSET Run] /\ at' \in [Worker -> 1..Last]
    <3>1. /\ pc \in [Worker -> {"idle", "locked", "release", "dead"} \cup Executing]
          /\ job \in [Worker -> Run \cup {None}]
          /\ todo \in [Worker -> SUBSET Run] /\ at \in [Worker -> 1..Last]
      OBVIOUS
    <3> HIDE DEF TypeInv, AsyncTypeOK, Jobs, Busy
    <3> QED
      BY <1>19, <2>1, <3>1 DEF Crash
  <2>4. /\ done' \in [Worker -> SUBSET Step] /\ held' \in [Worker -> BOOLEAN]
        /\ copy' \in [Worker -> Row] /\ faults' \in Nat
    <3>1. /\ done \in [Worker -> SUBSET Step] /\ held \in [Worker -> BOOLEAN]
          /\ copy \in [Worker -> Row] /\ faults \in Nat
      OBVIOUS
    <3> HIDE DEF TypeInv, AsyncTypeOK, Jobs, Busy
    <3> QED
      BY <1>0, <1>19, <3>1 DEF Crash, Fault
  <2>5. Jobs'
    BY <1>19 DEF Crash
  <2>6. UNCHANGED <<row, valkey, api, launched>>
    BY <1>19 DEF Crash
  <2> QED
    BY <2>2, <2>3, <2>4, <2>5, <2>6 DEF valkey, api
<1>20. ASSUME NEW r \in Run, ClaimLapses(r) PROVE TypeInv'
  <2> DEFINE Lapsed(x) == IF x.live /\ x.owner = row[r].owner
                          THEN [x EXCEPT !.live = FALSE] ELSE x
  <2>1. \A x \in Row : Lapsed(x) \in Row
    BY DEF Row
  <2>2. copy' \in [Worker -> Row] /\ wish' \in Rows
    BY <1>20, <2>1 DEF ClaimLapses
  <2>3. row' \in Rows
    <3>1. row[r] \in Row
      OBVIOUS
    <3> QED
      BY <1>20, <3>1, RowPatches DEF ClaimLapses
  <2>4. /\ faults' \in Nat
        /\ excuse' \in [Run -> SUBSET {"lock", "claim", "target", "crash"}]
    BY <1>e, <1>20 DEF ClaimLapses, InUse, Fault
  <2> QED
    BY <1>20, <2>2, <2>3, <2>4 DEF ClaimLapses, valkey
<1>21. ASSUME NEW r \in Run, RunLockLapses(r) PROVE TypeInv'
  BY <1>21 DEF RunLockLapses, InUse, Fault, Excused, api, worker
<1>22. ASSUME NEW t \in {Target[q] : q \in Request}, TargetLockLapses(t)
       PROVE TypeInv'
  <2>1. targetLock[t][2] \in Run
    BY <1>22 DEF TargetLockLapses
  <2>2. /\ faults' \in Nat
        /\ excuse' \in [Run -> SUBSET {"lock", "claim", "target", "crash"}]
    BY <1>22, <2>1 DEF TargetLockLapses, InUse, Fault, Excused
  <2> QED
    BY <1>22, <2>2 DEF TargetLockLapses, api, worker
<1>23. ASSUME NEW k \in {Key[q] : q \in Request}, KeyLapses(k) PROVE TypeInv'
  BY <1>23 DEF KeyLapses, Fault, api, worker, history
<1>24. CASE Unreachable
  <2>1. excuse' \in [Run -> SUBSET {"lock", "claim", "target", "crash"}]
    BY <1>24 DEF Unreachable
  <2>2. faults' \in Nat
    BY <1>24 DEF Unreachable, Fault
  <2> QED
    BY <1>24, <2>1, <2>2 DEF Unreachable, api, worker
<1>25. CASE Reachable
  BY <1>25 DEF Reachable, api, worker, history
<1>26. CASE UNCHANGED vars
  BY <1>26 DEF vars, valkey, api, worker, history
<1> QED
  BY <1>1, <1>2, <1>3, <1>4, <1>5, <1>5a, <1>6, <1>7, <1>8, <1>9, <1>10,
     <1>11, <1>12, <1>13, <1>14, <1>15, <1>16, <1>17, <1>18, <1>19, <1>20,
     <1>21, <1>22, <1>23, <1>24, <1>25, <1>26 DEF Next, WorkerStep
-----------------------------------------------------------------------------
(* Which copies of rows are about to be written.                           *)

LEMMA CopiesStep ==
    TypeInv /\ Copies /\ [Next]_vars => Copies'
<1> SUFFICES ASSUME TypeInv, Copies, [Next]_vars PROVE Copies'
  OBVIOUS
<1> USE DEF Copies, Present, Run
<1>t. /\ row \in [Run -> Row] /\ copy \in [Worker -> Row] /\ wish \in [Run -> Row]
      /\ pc \in [Worker -> {"idle", "locked", "release", "dead"} \cup Executing]
      /\ job \in [Worker -> Run \cup {None}]
      /\ cancel \in [Run -> {"new", "queued", "running", "read", "cancelled",
                            "requested", "late"}]
      /\ \A w \in Worker : pc[w] \notin {"idle", "dead"} => job[w] \in Run
  BY DEF TypeInv, AsyncTypeOK, Jobs, Busy
<1>0. NoRow.owner = None /\ NoRow.live = FALSE /\ NoRow \in Row
  BY DEF NoRow, Row
<1>1. ASSUME NEW q \in Request, Admit(q) \/ Enqueue(q) \/ Abandon(q) PROVE Copies'
  BY <1>1 DEF Admit, Enqueue, Abandon, worker, valkey
<1>2. ASSUME NEW q \in Request, Insert(q) PROVE Copies'
  <2>1. \A r \in Run : row[r].status # "absent" => row'[r].status # "absent"
    <3>1. \/ row' = row
          \/ row' = [row EXCEPT ![id[q]].status = "queued"]
      BY <1>2 DEF Insert
    <3> QED
      BY <1>t, <3>1 DEF Row
  <2>2. UNCHANGED <<worker, cancel, wish>>
    BY <1>2 DEF Insert
  <2> QED
    BY <1>t, <2>1, <2>2 DEF worker, Executing, Saving
<1>5. ASSUME NEW r \in Run, CancelLooks(r) PROVE Copies'
  BY <1>5, <1>t DEF CancelLooks, worker, Open
<1>5a. ASSUME NEW r \in Run, CancelRead(r) PROVE Copies'
  <2>1. LET y == [row[r] EXCEPT !.cancel = TRUE, !.status =
                     IF cancel[r] = "queued" THEN "cancelled" ELSE "running"]
        IN  y.cancel /\ y.status \in {"cancelled", "running"}
    BY <1>t DEF Row
  <2> QED
    BY <1>5a, <1>t, <2>1 DEF CancelRead, worker
<1>6. ASSUME NEW r \in Run, CancelWrite(r) PROVE Copies'
  <2>1. row' = [row EXCEPT ![r] = wish[r]] /\ wish[r].status # "absent"
    BY <1>6 DEF CancelWrite, WritesBack
  <2>2. \A s \in Run : row[s].status # "absent" => row'[s].status # "absent"
    BY <1>t, <2>1
  <2>3. /\ UNCHANGED worker
        /\ \A s \in Run : s # r => cancel'[s] = cancel[s]
        /\ cancel'[r] \in {"cancelled", "requested"}
        /\ \A s \in Run : s # r => wish'[s] = wish[s]
    BY <1>6, <1>t DEF CancelWrite
  <2> QED
    BY <1>t, <2>2, <2>3 DEF worker, Executing, Saving
<1>7. ASSUME NEW w \in Worker, NEW r \in Run, Pop(w, r) \/ Visit(w, r)
      PROVE Copies'
  <2>1. /\ UNCHANGED <<row, copy, cancel, wish>>
        /\ pc[w] = "idle" /\ pc'[w] \in {"locked", "idle"}
        /\ \A u \in Worker : u # w => pc'[u] = pc[u] /\ job'[u] = job[u]
    BY <1>7, <1>t DEF Pop, Visit, Lock, api
  <2> QED
    BY <1>t, <2>1 DEF Executing, Saving
<1>8. ASSUME NEW w \in Worker, Sweep(w) PROVE Copies'
  BY <1>8 DEF Sweep, api
<1>9. ASSUME NEW w \in Worker, Claim(w) PROVE Copies'
  <2>1. /\ UNCHANGED <<job, copy, cancel, wish>>
        /\ pc[w] = "locked"
        /\ \A u \in Worker : u # w => pc'[u] = pc[u]
        /\ pc'[w] \in {"starting", "cancelling", "release"}
        /\ pc'[w] # "release" => row[job[w]].status # "absent"
    BY <1>9, <1>t DEF Claim, api, Goes, Claimable, Open
  <2>2. \A s \in Run : row'[s].status = row[s].status
    <3>1. \/ row' = row
          \/ row' = [row EXCEPT ![job[w]] =
                        [row[job[w]] EXCEPT !.owner = w, !.live = TRUE]]
      BY <1>9, <1>t DEF Claim
    <3>2. [row[job[w]] EXCEPT !.owner = w, !.live = TRUE].status = row[job[w]].status
      BY <1>t, <2>1, ClaimPatch
    <3> QED
      BY <1>t, <3>1, <3>2
  <2> QED
    BY <1>t, <2>1, <2>2 DEF Executing, Saving
<1>10. ASSUME NEW w \in Worker, Reads(w) PROVE Copies'
  <2>1. /\ Patched(w, row[job[w]]).status # "absent"
        /\ pc[w] \notin {"starting", "stepping"} =>
              Patched(w, row[job[w]]).status \in Ended
        /\ pc[w] \in {"starting", "stepping"} =>
              Patched(w, row[job[w]]).status = "running"
    BY <1>10, PatchedIsRow DEF Reads
  <2> QED
    BY <1>10, <1>t, <2>1 DEF Reads, api
<1>11. ASSUME NEW w \in Worker, Writes(w) PROVE Copies'
  <2>1. /\ row' = [row EXCEPT ![job[w]] = copy[w]] /\ copy[w].status # "absent"
        /\ UNCHANGED <<job, cancel, wish>> /\ copy' = [copy EXCEPT ![w] = NoRow]
        /\ pc[w] \in Saving
        /\ \A u \in Worker : u # w => pc'[u] = pc[u]
    BY <1>11, <1>t DEF Writes, WritesBack, Goes, api
  <2>2. \A s \in Run : row[s].status # "absent" => row'[s].status # "absent"
    BY <1>t, <2>1
  <2> QED
    BY <1>t, <2>1, <2>2 DEF Executing, Saving
<1>12. ASSUME NEW w \in Worker,
              \/ AcquireTarget(w) \/ GivesUp(w) \/ Launch(w) \/ ToolEnds(w)
       PROVE Copies'
  <2>1. /\ UNCHANGED <<row, job, copy, cancel, wish>>
        /\ pc[w] \in {"target", "plan", "tool"}
        /\ \A u \in Worker : u # w => pc'[u] = pc[u]
    BY <1>12, <1>t DEF AcquireTarget, GivesUp, Launch, ToolEnds, Goes, api
  <2> QED
    BY <1>t, <2>1 DEF Executing, Saving
<1>14. ASSUME NEW w \in Worker, Checkpoint(w) PROVE Copies'
  <2>1. /\ UNCHANGED <<job, copy, cancel, wish>>
        /\ pc[w] = "plan"
        /\ \A u \in Worker : u # w => pc'[u] = pc[u]
    BY <1>14, <1>t DEF Checkpoint, Goes, api
  <2>2. \A s \in Run : row'[s].status = row[s].status
    <3>1. \/ row' = row
          \/ row' = [row EXCEPT ![job[w]] = [row[job[w]] EXCEPT !.live = TRUE]]
      BY <1>14 DEF Checkpoint
    <3> QED
      BY <1>t, <3>1 DEF Row
  <2> QED
    BY <1>t, <2>1, <2>2 DEF Executing, Saving
<1>17. ASSUME NEW w \in Worker, Release(w) \/ ReleaseThrows(w) PROVE Copies'
  <2>1. /\ UNCHANGED <<copy, cancel, wish>>
        /\ pc[w] = "release" /\ pc'[w] = "idle"
        /\ \A u \in Worker : u # w => pc'[u] = pc[u] /\ job'[u] = job[u]
    BY <1>17, <1>t DEF Release, ReleaseThrows, Finished, Goes, api
  <2>2. \A s \in Run : row'[s].status = row[s].status
    <3>1. \/ row' = row
          \/ row' = [row EXCEPT ![job[w]] =
                        [row[job[w]] EXCEPT !.owner = None, !.live = FALSE]]
      BY <1>17, <1>t DEF Release, ReleaseThrows
    <3>2. [row[job[w]] EXCEPT !.owner = None, !.live = FALSE].status = row[job[w]].status
      BY <1>t, <2>1, ClaimPatch
    <3> QED
      BY <1>t, <3>1, <3>2
  <2> QED
    BY <1>t, <2>1, <2>2 DEF Executing, Saving
<1>18. ASSUME NEW w \in Worker, Throws(w) PROVE Copies'
  <2>1. /\ UNCHANGED <<row, job, cancel, wish>>
        /\ copy' = [copy EXCEPT ![w] = NoRow]
        /\ \A u \in Worker : u # w => pc'[u] = pc[u]
        /\ pc'[w] \in {"failing", "release"}
        /\ pc'[w] # "release" => row[job[w]].status # "absent"
    BY <1>18, <1>t DEF Throws, Goes, api, Open
  <2> QED
    BY <1>t, <2>1 DEF Executing, Saving
<1>19. ASSUME NEW w \in Worker, Crash(w) PROVE Copies'
  <2>1. /\ UNCHANGED <<row, cancel, wish>>
        /\ copy' = [copy EXCEPT ![w] = NoRow]
        /\ \A u \in Worker : u # w => pc'[u] = pc[u] /\ job'[u] = job[u]
        /\ pc'[w] = "dead"
    BY <1>19, <1>t DEF Crash, api
  <2> QED
    BY <1>t, <2>1 DEF Executing, Saving
<1>20. ASSUME NEW r \in Run, ClaimLapses(r) PROVE Copies'
  <2> DEFINE Lapsed(x) == IF x.live /\ x.owner = row[r].owner
                          THEN [x EXCEPT !.live = FALSE] ELSE x
  <2>1. \A x \in Row : /\ Lapsed(x).status = x.status /\ (x.cancel => Lapsed(x).cancel)
                       /\ x = NoRow => Lapsed(x) = NoRow
    BY <1>0 DEF Row
  <2>2. /\ copy' = [w \in Worker |-> IF job[w] = r THEN Lapsed(copy[w]) ELSE copy[w]]
        /\ wish' = [wish EXCEPT ![r] = Lapsed(@)]
        /\ row' = [row EXCEPT ![r] = [row[r] EXCEPT !.live = FALSE]]
        /\ UNCHANGED <<pc, job, cancel>>
    BY <1>20 DEF ClaimLapses
  <2> HIDE DEF Lapsed
  <2>3. \A w \in Worker : /\ copy'[w].status = copy[w].status
                          /\ copy[w] = NoRow => copy'[w] = NoRow
    BY <1>t, <2>1, <2>2
  <2>4. \A s \in Run : wish'[s].status = wish[s].status /\ (wish[s].cancel => wish'[s].cancel)
    BY <1>t, <2>1, <2>2
  <2>5. \A s \in Run : row'[s].status = row[s].status
    BY <1>t, <2>2 DEF Row
  <2>6. \A w \in Worker : pc'[w] \in Executing => row'[job'[w]].status # "absent"
    BY <1>t, <2>2, <2>5 DEF Executing, Saving
  <2>7. \A w \in Worker : copy'[w] # NoRow =>
           /\ pc'[w] \in Saving /\ copy'[w].status # "absent"
           /\ pc'[w] \notin {"starting", "stepping"} => copy'[w].status \in Ended
           /\ pc'[w] \in {"starting", "stepping"} => copy'[w].status = "running"
    <3> SUFFICES ASSUME NEW w \in Worker, copy'[w] # NoRow
                 PROVE  /\ pc'[w] \in Saving /\ copy'[w].status # "absent"
                        /\ pc'[w] \notin {"starting", "stepping"} =>
                              copy'[w].status \in Ended
                        /\ pc'[w] \in {"starting", "stepping"} =>
                              copy'[w].status = "running"
      OBVIOUS
    <3>1. copy[w] # NoRow /\ copy'[w].status = copy[w].status /\ pc' = pc
      BY <2>2, <2>3
    <3>2. /\ pc[w] \in Saving /\ copy[w].status # "absent"
          /\ pc[w] \notin {"starting", "stepping"} => copy[w].status \in Ended
          /\ pc[w] \in {"starting", "stepping"} => copy[w].status = "running"
      BY <3>1
    <3> QED
      BY <3>1, <3>2
  <2>8. \A s \in Run :
           /\ cancel'[s] \in {"queued", "running", "read"} => row'[s].status # "absent"
           /\ cancel'[s] = "read" =>
                 wish'[s].status \in {"cancelled", "running"} /\ wish'[s].cancel
    <3> UNCHANGED cancel
      BY <2>2
    <3> QED
      BY <2>4, <2>5
  <2> QED
    BY <2>6, <2>7, <2>8
<1>21. ASSUME \/ \E r \in Run : RunLockLapses(r)
              \/ \E t \in {Target[q] : q \in Request} : TargetLockLapses(t)
              \/ \E k \in {Key[q] : q \in Request} : KeyLapses(k)
              \/ Unreachable \/ Reachable \/ UNCHANGED vars
       PROVE Copies'
  <2>1. UNCHANGED <<row, pc, job, copy, cancel, wish>>
    BY <1>21 DEF RunLockLapses, TargetLockLapses, KeyLapses, Unreachable,
       Reachable, vars, api, worker
  <2> QED
    BY <2>1
<1> QED
  BY <1>1, <1>2, <1>5, <1>5a, <1>6, <1>7, <1>8, <1>9, <1>10, <1>11, <1>12,
     <1>14, <1>17, <1>18, <1>19, <1>20, <1>21 DEF Next, WorkerStep
-----------------------------------------------------------------------------
(* The claim in the row guards a run: who executes it has it, or it has    *)
(* been broken.                                                            *)

LEMMA ClaimedStep ==
    TypeInv /\ Claimed /\ [Next]_vars => Claimed'
<1> SUFFICES ASSUME TypeInv, Claimed, [Next]_vars PROVE Claimed'
  OBVIOUS
<1> USE DEF Run, Executes
<1> DEFINE Has(w, r) == (row[r].owner = w /\ row[r].live) \/ "claim" \in excuse[r]
<1>t. /\ row \in [Run -> Row] /\ copy \in [Worker -> Row] /\ wish \in [Run -> Row]
      /\ pc \in [Worker -> {"idle", "locked", "release", "dead"} \cup Executing]
      /\ job \in [Worker -> Run \cup {None}]
      /\ excuse \in [Run -> SUBSET {"lock", "claim", "target", "crash"}]
      /\ \A w \in Worker : pc[w] \notin {"idle", "dead"} => job[w] \in Run
      /\ None \notin Worker
  BY AsyncAssumption DEF TypeInv, AsyncTypeOK, Jobs, Busy
<1>h. \A w \in Worker, r \in Run : pc[w] \in Executing /\ job[w] = r => Has(w, r)
  BY DEF Claimed
<1>k. ASSUME \A r \in Run : excuse[r] \subseteq excuse'[r],
             \A w \in Worker, r \in Run : pc'[w] \in Executing /\ job'[w] = r =>
                 /\ pc[w] \in Executing /\ job[w] = r
                 /\ row[r].owner = w /\ row[r].live =>
                       (row'[r].owner = w /\ row'[r].live) \/ "claim" \in excuse'[r]
      PROVE  Claimed'
  BY <1>h, <1>k DEF Claimed
<1>w. ASSUME NEW r \in Run, NEW x \in Row, WritesBack(r, x)
      PROVE  /\ \A s \in Run : excuse[s] \subseteq excuse'[s]
             /\ \A w \in Worker, s \in Run : pc[w] \in Executing /\ job[w] = s
                    /\ row[s].owner = w /\ row[s].live =>
                    (row'[s].owner = w /\ row'[s].live) \/ "claim" \in excuse'[s]
  <2>1. row' = [row EXCEPT ![r] = x]
    BY <1>w DEF WritesBack
  <2>2. \A s \in Run : excuse[s] \subseteq excuse'[s]
    BY <1>w, <1>t DEF WritesBack, Excused
  <2>3. Overwrites(r, x) => "claim" \in excuse'[r]
    BY <1>w, <1>t DEF WritesBack, Excused
  <2>4. ASSUME NEW w \in Worker, NEW s \in Run, pc[w] \in Executing, job[w] = s,
               row[s].owner = w, row[s].live
        PROVE  (row'[s].owner = w /\ row'[s].live) \/ "claim" \in excuse'[s]
    <3>1. CASE s # r
      BY <1>t, <2>1, <2>4, <3>1
    <3>2. CASE s = r /\ (x.owner # w \/ ~x.live)
      BY <2>3, <2>4, <3>2 DEF Overwrites
    <3>3. CASE s = r /\ x.owner = w /\ x.live
      BY <1>t, <2>1, <3>3
    <3> QED
      BY <3>1, <3>2, <3>3
  <2> QED
    BY <2>2, <2>4
<1>1. ASSUME NEW q \in Request, Admit(q) \/ Enqueue(q) \/ Abandon(q) \/ Insert(q)
      PROVE Claimed'
  <2>1. UNCHANGED <<worker, history>>
    BY <1>1 DEF Admit, Enqueue, Abandon, Insert
  <2>2. \A r \in Run : row'[r].owner = row[r].owner /\ (row[r].live => row'[r].live)
    <3>1. \/ row' = row
          \/ row' = [row EXCEPT ![id[q]] = [row[id[q]] EXCEPT !.status = "queued"]]
      BY <1>1 DEF Admit, Enqueue, Abandon, Insert
    <3> QED
      BY <1>t, <3>1 DEF Row
  <2> QED
    BY <1>k, <2>1, <2>2 DEF worker, history
<1>5. ASSUME NEW r \in Run, CancelLooks(r) \/ CancelRead(r) PROVE Claimed'
  BY <1>k, <1>5 DEF CancelLooks, CancelRead, worker, history
<1>6. ASSUME NEW r \in Run, CancelWrite(r) PROVE Claimed'
  <2>1. WritesBack(r, wish[r]) /\ UNCHANGED worker
    BY <1>6 DEF CancelWrite
  <2> QED
    BY <1>k, <1>w, <1>t, <2>1 DEF worker
<1>7. ASSUME NEW w \in Worker, NEW r \in Run, Pop(w, r) \/ Visit(w, r)
      PROVE Claimed'
  <2>1. /\ UNCHANGED row
        /\ pc'[w] \in {"locked", "idle"}
        /\ \A u \in Worker : u # w => pc'[u] = pc[u] /\ job'[u] = job[u]
        /\ \A s \in Run : excuse[s] \subseteq excuse'[s]
    BY <1>7, <1>t DEF Pop, Visit, Lock, Excused
  <2> QED
    BY <1>k, <2>1 DEF Executing, Saving
<1>8. ASSUME NEW w \in Worker, Sweep(w) PROVE Claimed'
  BY <1>k, <1>8 DEF Sweep, history
<1>9. ASSUME NEW w \in Worker, Claim(w) PROVE Claimed'
  <2>1. /\ UNCHANGED <<job, excuse>>
        /\ pc[w] = "locked" /\ job[w] \in Run
        /\ \A u \in Worker : u # w => pc'[u] = pc[u]
    BY <1>9, <1>t DEF Claim, Goes, history
  <2>2. CASE Claimable(w, job[w])
    <3>1. row' = [row EXCEPT ![job[w]] =
                    [row[job[w]] EXCEPT !.owner = w, !.live = TRUE]]
      BY <1>9, <2>2 DEF Claim
    <3>2. LET y == [row[job[w]] EXCEPT !.owner = w, !.live = TRUE] IN
          y.owner = w /\ y.live
      BY <1>t, <2>1, ClaimPatch
    <3>3. row'[job[w]].owner = w /\ row'[job[w]].live
      BY <1>t, <2>1, <3>1, <3>2
    <3>4. \A s \in Run : s # job[w] => row'[s] = row[s]
      BY <1>t, <3>1
    <3>5. row[job[w]].owner \in {None, w} \/ ~row[job[w]].live
      BY <2>2 DEF Claimable
    <3>6. ASSUME NEW u \in Worker, NEW s \in Run, pc'[u] \in Executing, job'[u] = s
          PROVE  (row'[s].owner = u /\ row'[s].live) \/ "claim" \in excuse'[s]
      <4>1. CASE u = w
        BY <2>1, <3>3, <3>6, <4>1
      <4>2. CASE u # w /\ s # job[w]
        BY <1>h, <2>1, <3>4, <3>6, <4>2
      <4>3. CASE u # w /\ s = job[w]
        BY <1>h, <1>t, <2>1, <3>5, <3>6, <4>3
      <4> QED
        BY <4>1, <4>2, <4>3
    <3> QED
      BY <3>6 DEF Claimed
  <2>3. CASE ~Claimable(w, job[w])
    <3>1. UNCHANGED row /\ pc'[w] = "release"
      BY <1>9, <1>t, <2>3 DEF Claim, Goes
    <3> QED
      BY <1>k, <2>1, <3>1 DEF Executing, Saving
  <2> QED
    BY <2>2, <2>3
<1>10. ASSUME NEW w \in Worker, Reads(w) PROVE Claimed'
  BY <1>k, <1>10 DEF Reads, history
<1>11. ASSUME NEW w \in Worker, Writes(w) PROVE Claimed'
  <2>1. /\ WritesBack(job[w], copy[w]) /\ UNCHANGED job /\ job[w] \in Run
        /\ pc[w] \in Executing
        /\ \A u \in Worker : u # w => pc'[u] = pc[u]
    BY <1>11, <1>t DEF Writes, Goes, Executing, Saving
  <2> QED
    BY <1>k, <1>w, <1>t, <2>1
<1>12. ASSUME NEW w \in Worker,
              AcquireTarget(w) \/ GivesUp(w) \/ Launch(w) \/ ToolEnds(w)
       PROVE Claimed'
  <2>1. /\ UNCHANGED <<row, job>>
        /\ pc[w] \in {"target", "plan", "tool"}
        /\ \A u \in Worker : u # w => pc'[u] = pc[u]
        /\ \A s \in Run : excuse[s] \subseteq excuse'[s]
    BY <1>12, <1>t DEF AcquireTarget, GivesUp, Launch, ToolEnds, Goes, history,
       Excused
  <2> QED
    BY <1>k, <2>1 DEF Executing, Saving
<1>14. ASSUME NEW w \in Worker, Checkpoint(w) PROVE Claimed'
  <2>1. /\ UNCHANGED <<job, excuse>>
        /\ pc[w] = "plan"
        /\ \A u \in Worker : u # w => pc'[u] = pc[u]
    BY <1>14, <1>t DEF Checkpoint, Goes, history
  <2>2. \A s \in Run : row'[s].owner = row[s].owner /\ (row[s].live => row'[s].live)
    <3>1. \/ row' = row
          \/ row' = [row EXCEPT ![job[w]] = [row[job[w]] EXCEPT !.live = TRUE]]
      BY <1>14 DEF Checkpoint
    <3> QED
      BY <1>t, <3>1 DEF Row
  <2> QED
    BY <1>k, <2>1, <2>2 DEF Executing, Saving
<1>17. ASSUME NEW w \in Worker, Release(w) \/ ReleaseThrows(w) PROVE Claimed'
  <2>1. /\ pc[w] = "release" /\ pc'[w] = "idle" /\ job[w] \in Run
        /\ \A u \in Worker : u # w => pc'[u] = pc[u] /\ job'[u] = job[u]
        /\ \A s \in Run : excuse[s] \subseteq excuse'[s]
    BY <1>17, <1>t DEF Release, ReleaseThrows, Finished, Goes, history, Excused
  <2>2. \A s \in Run : row[s].owner # w => row'[s] = row[s]
    BY <1>17, <1>t DEF Release, ReleaseThrows
  <2> QED
    BY <1>k, <2>1, <2>2 DEF Executing, Saving
<1>18. ASSUME NEW w \in Worker, Throws(w) PROVE Claimed'
  <2>1. /\ UNCHANGED <<row, job>> /\ job[w] \in Run
        /\ \A u \in Worker : u # w => pc'[u] = pc[u]
        /\ pc[w] \in Executing \/ "claim" \in excuse'[job[w]]
        /\ \A s \in Run : excuse[s] \subseteq excuse'[s]
    BY <1>18, <1>t DEF Throws, Goes, Excused, Executing, Saving
  <2>2. ASSUME NEW u \in Worker, NEW s \in Run, pc'[u] \in Executing, job'[u] = s
        PROVE  (row'[s].owner = u /\ row'[s].live) \/ "claim" \in excuse'[s]
    BY <1>h, <2>1, <2>2
  <2> QED
    BY <2>2 DEF Claimed
<1>19. ASSUME NEW w \in Worker, Crash(w) PROVE Claimed'
  <2>1. /\ UNCHANGED row /\ pc'[w] = "dead"
        /\ \A u \in Worker : u # w => pc'[u] = pc[u] /\ job'[u] = job[u]
        /\ \A s \in Run : excuse[s] \subseteq excuse'[s]
    BY <1>19, <1>t DEF Crash, Excused
  <2> QED
    BY <1>k, <2>1 DEF Executing, Saving
<1>20. ASSUME NEW r \in Run, ClaimLapses(r) PROVE Claimed'
  <2>1. /\ row' = [row EXCEPT ![r] = [row[r] EXCEPT !.live = FALSE]]
        /\ UNCHANGED <<pc, job>>
    BY <1>20 DEF ClaimLapses
  <2>2. \A s \in Run : s # r => row'[s] = row[s]
    BY <1>t, <2>1
  <2>3. \A s \in Run : excuse[s] \subseteq excuse'[s]
    BY <1>20, <1>t DEF ClaimLapses, InUse, Excused
  <2>4. \A w \in Worker : row[r].owner = w /\ pc[w] \in Executing /\ job[w] = r =>
            "claim" \in excuse'[r]
    BY <1>20, <1>t DEF ClaimLapses, InUse, Excused
  <2> QED
    BY <1>k, <2>1, <2>2, <2>3, <2>4
<1>21. ASSUME \/ \E r \in Run : RunLockLapses(r)
              \/ \E t \in {Target[q] : q \in Request} : TargetLockLapses(t)
              \/ \E k \in {Key[q] : q \in Request} : KeyLapses(k)
              \/ Unreachable \/ Reachable \/ UNCHANGED vars
       PROVE Claimed'
  <2>1. UNCHANGED <<row, pc, job>>
    BY <1>21 DEF RunLockLapses, TargetLockLapses, KeyLapses, Unreachable,
       Reachable, vars, worker
  <2>2. \A s \in Run : excuse[s] \subseteq excuse'[s]
    BY <1>21, <1>t DEF RunLockLapses, TargetLockLapses, KeyLapses, Unreachable,
       Reachable, vars, history, InUse, Excused
  <2> QED
    BY <1>k, <2>1, <2>2
<1> QED
  BY <1>1, <1>5, <1>6, <1>7, <1>8, <1>9, <1>10, <1>11, <1>12, <1>14,
     <1>17, <1>18, <1>19, <1>20, <1>21 DEF Next, WorkerStep
-----------------------------------------------------------------------------
(* The lock in Valkey guards a run as well.                                *)

LEMMA LockedStep ==
    TypeInv /\ Locked /\ [Next]_vars => Locked'
<1> SUFFICES ASSUME TypeInv, Locked, [Next]_vars PROVE Locked'
  OBVIOUS
<1> USE DEF Run, Busy
<1>t. /\ runLock \in [Run -> Worker \cup {None}]
      /\ pc \in [Worker -> {"idle", "locked", "release", "dead"} \cup Executing]
      /\ job \in [Worker -> Run \cup {None}]
      /\ excuse \in [Run -> SUBSET {"lock", "claim", "target", "crash"}]
      /\ \A w \in Worker : pc[w] \notin {"idle", "dead"} => job[w] \in Run
      /\ None \notin Worker /\ None \notin Run
  BY AsyncAssumption DEF TypeInv, AsyncTypeOK, Jobs
\* Most steps leave the lock alone, and make nobody busy.
<1>k. ASSUME UNCHANGED runLock,
             \A r \in Run : excuse[r] \subseteq excuse'[r],
             \A w \in Worker : pc'[w] \notin {"idle", "dead"} =>
                 pc[w] \notin {"idle", "dead"} /\ job'[w] = job[w]
      PROVE  Locked'
  BY <1>k DEF Locked
<1>1. ASSUME NEW q \in Request, Admit(q) \/ Enqueue(q) \/ Abandon(q) \/ Insert(q)
      PROVE Locked'
  BY <1>k, <1>1 DEF Admit, Enqueue, Abandon, Insert, worker, history, valkey
<1>5. ASSUME NEW r \in Run, CancelLooks(r) \/ CancelRead(r) PROVE Locked'
  BY <1>k, <1>5 DEF CancelLooks, CancelRead, worker, history, valkey
<1>6. ASSUME NEW r \in Run, CancelWrite(r) PROVE Locked'
  BY <1>k, <1>t, <1>6 DEF CancelWrite, WritesBack, Excused, worker, valkey
<1>7. ASSUME NEW w \in Worker, NEW r \in Run, Pop(w, r) \/ Visit(w, r)
      PROVE Locked'
  <2>1. /\ pc[w] = "idle"
        /\ pc'[w] = "locked" => /\ ~reachable \/ runLock[r] = None
                                /\ job'[w] = r
                                /\ reachable => runLock'[r] = w
        /\ pc'[w] \in {"idle", "locked"}
        /\ ~reachable => "lock" \in excuse'[r]
        /\ runLock' # runLock => runLock[r] = None
        /\ \A s \in Run : s # r => runLock'[s] = runLock[s]
        /\ \A u \in Worker : u # w => pc'[u] = pc[u] /\ job'[u] = job[u]
        /\ \A s \in Run : excuse[s] \subseteq excuse'[s]
    BY <1>7, <1>t DEF Pop, Visit, Lock, Excused
  <2>2. ASSUME NEW u \in Worker, NEW s \in Run,
               pc'[u] \notin {"idle", "dead"}, job'[u] = s
        PROVE  runLock'[s] = u \/ "lock" \in excuse'[s]
    <3>1. CASE u = w
      BY <2>1, <2>2, <3>1
    <3>2. CASE u # w
      BY <1>t, <2>1, <2>2, <3>2 DEF Locked
    <3> QED
      BY <3>1, <3>2
  <2> QED
    BY <2>2 DEF Locked
<1>8. ASSUME NEW w \in Worker,
             \/ Sweep(w) \/ Claim(w) \/ Reads(w) \/ Writes(w) \/ AcquireTarget(w)
             \/ GivesUp(w) \/ Checkpoint(w) \/ Launch(w) \/ ToolEnds(w)
             \/ Throws(w)
      PROVE Locked'
  <2>1. /\ UNCHANGED <<runLock, job>>
        /\ \A u \in Worker : u # w => pc'[u] = pc[u]
        /\ pc[w] \notin {"idle", "dead"} \/ pc' = pc
    BY <1>8, <1>t DEF Sweep, Claim, Reads, Writes, AcquireTarget, GivesUp,
       Checkpoint, Launch, ToolEnds, Throws, Goes, valkey, Executing, Saving
  <2>2. \A s \in Run : excuse[s] \subseteq excuse'[s]
    BY <1>8, <1>t DEF Sweep, Claim, Reads, Writes, AcquireTarget, GivesUp,
       Checkpoint, Launch, ToolEnds, Throws, history, Excused, WritesBack
  <2> QED
    BY <1>k, <2>1, <2>2
<1>17. ASSUME NEW w \in Worker, Release(w) \/ ReleaseThrows(w) PROVE Locked'
  <2>1. /\ pc'[w] = "idle"
        /\ \A u \in Worker : u # w => pc'[u] = pc[u] /\ job'[u] = job[u]
        /\ \A s \in Run : excuse[s] \subseteq excuse'[s]
        /\ \A s \in Run : runLock[s] # w => runLock'[s] = runLock[s]
    BY <1>17, <1>t DEF Release, ReleaseThrows, Finished, Goes, history, Excused
  <2> QED
    BY <2>1 DEF Locked
<1>19. ASSUME NEW w \in Worker, Crash(w) PROVE Locked'
  <2>1. /\ UNCHANGED runLock /\ pc'[w] = "dead"
        /\ \A u \in Worker : u # w => pc'[u] = pc[u] /\ job'[u] = job[u]
        /\ \A s \in Run : excuse[s] \subseteq excuse'[s]
    BY <1>19, <1>t DEF Crash, Excused, valkey
  <2> QED
    BY <1>k, <2>1
<1>20. ASSUME NEW r \in Run, RunLockLapses(r) PROVE Locked'
  <2>1. /\ UNCHANGED <<pc, job>>
        /\ \A s \in Run : s # r => runLock'[s] = runLock[s]
        /\ \A s \in Run : excuse[s] \subseteq excuse'[s]
        /\ \A u \in Worker : u = runLock[r] /\ pc[u] \notin {"idle", "dead"}
                            /\ job[u] = r => "lock" \in excuse'[r]
    BY <1>20, <1>t DEF RunLockLapses, InUse, Excused, worker
  <2> QED
    BY <2>1 DEF Locked
<1>21. ASSUME \/ \E r \in Run : ClaimLapses(r)
              \/ \E t \in {Target[q] : q \in Request} : TargetLockLapses(t)
              \/ \E k \in {Key[q] : q \in Request} : KeyLapses(k)
              \/ Unreachable \/ Reachable \/ UNCHANGED vars
       PROVE Locked'
  <2>1. UNCHANGED <<runLock, pc, job>>
    BY <1>21 DEF ClaimLapses, TargetLockLapses, KeyLapses, Unreachable,
       Reachable, vars, worker, valkey
  <2>2. \A s \in Run : excuse[s] \subseteq excuse'[s]
    BY <1>21, <1>t DEF ClaimLapses, TargetLockLapses, KeyLapses, Unreachable,
       Reachable, vars, history, InUse, Excused
  <2> QED
    BY <1>k, <2>1, <2>2
<1> QED
  BY <1>1, <1>5, <1>6, <1>7, <1>8, <1>17, <1>19, <1>20, <1>21
     DEF Next, WorkerStep

\* Both guards at once are lost only if both have been broken.
LEMMA GuardsExclude ==
    TypeInv /\ Claimed /\ Locked => OneExecutor
<1> SUFFICES ASSUME TypeInv, Claimed, Locked,
                    NEW r \in Run, NEW u \in Worker, NEW v \in Worker,
                    Executes(u, r), Executes(v, r), u # v
             PROVE  {"lock", "claim"} \subseteq excuse[r]
  BY DEF OneExecutor
<1>1. Busy(u) /\ Busy(v) /\ job[u] = r /\ job[v] = r
  BY DEF Executes, Executing, Saving, Busy
<1>2. "lock" \in excuse[r]
  BY <1>1 DEF Locked
<1>3. "claim" \in excuse[r]
  BY DEF Claimed
<1> QED
  BY <1>2, <1>3
-----------------------------------------------------------------------------
(* The lock on a target.                                                   *)

LEMMA HeldStep ==
    TypeInv /\ Held /\ [Next]_vars => Held'
<1> SUFFICES ASSUME TypeInv, Held, [Next]_vars PROVE Held'
  OBVIOUS
<1> USE DEF Run, Busy
<1>t. /\ targetLock \in [{Target[q] : q \in Request} -> (Worker \X Run) \cup {None}]
      /\ pc \in [Worker -> {"idle", "locked", "release", "dead"} \cup Executing]
      /\ job \in [Worker -> Run \cup {None}]
      /\ held \in [Worker -> BOOLEAN]
      /\ excuse \in [Run -> SUBSET {"lock", "claim", "target", "crash"}]
      /\ \A w \in Worker : pc[w] \notin {"idle", "dead"} => job[w] \in Run
  BY DEF TypeInv, AsyncTypeOK, Jobs
<1>h. \A w \in Worker : held[w] =>
         \/ targetLock[Target[job[w]]] = <<w, job[w]>>
         \/ "target" \in excuse[job[w]]
  BY DEF Held
<1>n. \A u \in Worker : held[u] =>
         /\ Target[job[u]] \in {Target[q] : q \in Request}
         /\ None # <<u, job[u]>>
  <2>1. \A u \in Worker : held[u] => <<u, job[u]>> \in Worker \X Request
    BY <1>t DEF Held
  <2> QED
    BY <1>t, <2>1, AsyncAssumption DEF Held
\* Who holds the lock keeps it when nobody else deletes or takes it.
<1>k. ASSUME \A r \in Run : excuse[r] \subseteq excuse'[r],
             \A w \in Worker :
                 /\ pc'[w] \in {"plan", "stepping", "tool"} => held'[w]
                 /\ held'[w] => /\ held[w] /\ pc'[w] \notin {"idle", "dead"}
                                /\ job'[w] = job[w]
                 /\ held'[w] /\ targetLock[Target[job[w]]] = <<w, job[w]>> =>
                       \/ targetLock'[Target[job[w]]] = <<w, job[w]>>
                       \/ "target" \in excuse'[job[w]]
      PROVE  Held'
  <2> SUFFICES ASSUME NEW w \in Worker, held'[w]
               PROVE  \/ targetLock'[Target[job'[w]]] = <<w, job'[w]>>
                      \/ "target" \in excuse'[job'[w]]
    BY <1>k DEF Held
  <2>1. held[w] /\ job'[w] = job[w] /\ job[w] \in Run
    BY <1>k, <1>t DEF Held
  <2> QED
    BY <1>h, <1>k, <2>1
<1>1. ASSUME \/ \E q \in Request : Admit(q) \/ Enqueue(q) \/ Abandon(q) \/ Insert(q)
             \/ \E r \in Run : \/ CancelLooks(r) \/ CancelRead(r) \/ CancelWrite(r)
                               \/ ClaimLapses(r) \/ RunLockLapses(r)
             \/ \E w \in Worker : Sweep(w) \/ Reads(w)
             \/ \E k \in {Key[q] : q \in Request} : KeyLapses(k)
             \/ Unreachable \/ Reachable \/ UNCHANGED vars
      PROVE Held'
  <2>1. UNCHANGED <<targetLock, pc, job, held>>
    BY <1>1 DEF Admit, Enqueue, Abandon, Insert, CancelLooks, CancelRead,
       CancelWrite, ClaimLapses, RunLockLapses, Sweep, Reads, KeyLapses,
       Unreachable, Reachable, vars, worker, valkey
  <2>2. \A s \in Run : excuse[s] \subseteq excuse'[s]
    <3>1. CASE \E r \in Run : CancelWrite(r) \/ ClaimLapses(r) \/ RunLockLapses(r)
      BY <1>t, <3>1 DEF CancelWrite, WritesBack, ClaimLapses, RunLockLapses,
         InUse, Excused
    <3>2. CASE Unreachable
      BY <1>t, <3>2 DEF Unreachable
    <3>3. CASE UNCHANGED excuse
      BY <3>3
    <3> QED
      BY <1>1, <3>1, <3>2, <3>3 DEF Admit, Enqueue, Abandon, Insert, CancelLooks,
         CancelRead, Sweep, Reads, KeyLapses, Reachable, vars, history
  <2> QED
    BY <1>k, <2>1, <2>2 DEF Held
<1>7. ASSUME NEW w \in Worker, NEW r \in Run, Pop(w, r) \/ Visit(w, r)
      PROVE Held'
  <2>1. /\ UNCHANGED <<targetLock, held>>
        /\ pc[w] = "idle" /\ pc'[w] \in {"idle", "locked"}
        /\ \A u \in Worker : u # w => pc'[u] = pc[u] /\ job'[u] = job[u]
        /\ \A s \in Run : excuse[s] \subseteq excuse'[s]
    BY <1>7, <1>t DEF Pop, Visit, Lock, Excused
  <2> QED
    BY <1>k, <2>1 DEF Held
<1>8. ASSUME NEW w \in Worker,
             \/ Claim(w) \/ Writes(w) \/ GivesUp(w) \/ Checkpoint(w)
             \/ Launch(w) \/ ToolEnds(w)
      PROVE Held'
  <2>1. /\ UNCHANGED <<targetLock, held, job>>
        /\ pc[w] \notin {"idle", "dead"} /\ pc'[w] \notin {"idle", "dead"}
        /\ pc'[w] \in {"plan", "stepping", "tool"} =>
              pc[w] \in {"plan", "stepping", "tool"}
        /\ \A u \in Worker : u # w => pc'[u] = pc[u]
    BY <1>8, <1>t DEF Claim, Writes, GivesUp, AfterWait, Checkpoint, Launch,
       ToolEnds, Goes, valkey, Executing, Saving
  <2>2. \A s \in Run : excuse[s] \subseteq excuse'[s]
    BY <1>8, <1>t DEF Claim, Writes, GivesUp, Checkpoint, Launch, ToolEnds,
       history, Excused, WritesBack
  <2> QED
    BY <1>k, <2>1, <2>2 DEF Held
<1>12. ASSUME NEW w \in Worker, AcquireTarget(w) PROVE Held'
  <2>1. /\ UNCHANGED job /\ job[w] \in Run /\ pc'[w] = "plan"
        /\ held' = [held EXCEPT ![w] = TRUE]
        /\ \A u \in Worker : u # w => pc'[u] = pc[u]
        /\ \A s \in Run : excuse[s] \subseteq excuse'[s]
    BY <1>12, <1>t DEF AcquireTarget, Goes, Excused
  <2>2. \/ targetLock'[Target[job[w]]] = <<w, job[w]>>
        \/ "target" \in excuse'[job[w]]
    BY <1>12, <1>t, <2>1 DEF AcquireTarget, Excused
  <2>3. \A u \in Worker : held[u] /\ targetLock[Target[job[u]]] = <<u, job[u]>> =>
           targetLock'[Target[job[u]]] = <<u, job[u]>>
    <3>1. \/ targetLock' = targetLock
          \/ /\ targetLock[Target[job[w]]] = None
             /\ targetLock' = [targetLock EXCEPT ![Target[job[w]]] = <<w, job[w]>>]
      BY <1>12 DEF AcquireTarget
    <3> QED
      BY <1>t, <1>n, <3>1
  <2>4. ASSUME NEW u \in Worker, held'[u]
        PROVE  /\ pc'[u] \notin {"idle", "dead"}
               /\ \/ targetLock'[Target[job[u]]] = <<u, job[u]>>
                  \/ "target" \in excuse'[job[u]]
    <3>1. CASE u = w
      BY <2>1, <2>2, <3>1
    <3>2. CASE u # w
      <4>1. held[u] /\ job[u] \in Run /\ pc'[u] = pc[u] /\ pc[u] \notin {"idle", "dead"}
        BY <1>t, <2>1, <2>4, <3>2 DEF Held
      <4> QED
        BY <1>h, <2>1, <2>3, <3>2, <4>1
    <3> QED
      BY <3>1, <3>2
  <2>5. \A u \in Worker : pc'[u] \in {"plan", "stepping", "tool"} => held'[u]
    BY <1>t, <2>1 DEF Held
  <2> QED
    BY <2>1, <2>4, <2>5 DEF Held
<1>17. ASSUME NEW w \in Worker, Release(w) \/ ReleaseThrows(w) PROVE Held'
  <2>1. /\ pc'[w] = "idle" /\ ~held'[w]
        /\ \A u \in Worker : u # w =>
              pc'[u] = pc[u] /\ job'[u] = job[u] /\ held'[u] = held[u]
        /\ \A s \in Run : excuse[s] \subseteq excuse'[s]
        /\ FreeTarget(w)
    BY <1>17, <1>t DEF Release, ReleaseThrows, Finished, Goes, history, Excused
  <2>2. \A u \in Worker : u # w /\ held[u]
           /\ targetLock[Target[job[u]]] = <<u, job[u]>> =>
               targetLock'[Target[job[u]]] = <<u, job[u]>>
    <3>1. \A u \in Worker : u # w => <<u, job[u]>> # <<w, job[w]>>
      OBVIOUS
    <3>2. \A u \in Worker : held[u] => Target[job[u]] \in {Target[q] : q \in Request}
      BY <1>t DEF Held
    <3> QED
      BY <1>t, <2>1, <3>1, <3>2 DEF FreeTarget
  <2> QED
    BY <1>k, <2>1, <2>2 DEF Held
<1>18. ASSUME NEW w \in Worker, Throws(w) PROVE Held'
  <2>1. /\ UNCHANGED <<job, held>> /\ job[w] \in Run
        /\ pc'[w] \in {"failing", "release"}
        /\ pc[w] \notin {"idle", "dead"}
        /\ \A u \in Worker : u # w => pc'[u] = pc[u]
        /\ \A s \in Run : excuse[s] \subseteq excuse'[s]
    BY <1>18, <1>t DEF Throws, Goes, Excused, Executing, Saving
  <2>2. \/ targetLock' = targetLock
        \/ /\ targetLock[Target[job[w]]] = None
           /\ targetLock' = [targetLock EXCEPT ![Target[job[w]]] = <<w, job[w]>>]
    BY <1>18 DEF Throws
  <2>3. \A u \in Worker : held[u] /\ targetLock[Target[job[u]]] = <<u, job[u]>> =>
           targetLock'[Target[job[u]]] = <<u, job[u]>>
    BY <1>t, <1>n, <2>2
  <2>4. \A u \in Worker : held[u] => pc'[u] \notin {"idle", "dead"}
    BY <2>1 DEF Held
  <2>5. \A u \in Worker : pc'[u] \in {"plan", "stepping", "tool"} => held[u]
    BY <2>1 DEF Held
  <2> QED
    BY <1>k, <2>1, <2>3, <2>4, <2>5
<1>19. ASSUME NEW w \in Worker, Crash(w) PROVE Held'
  <2>1. /\ UNCHANGED targetLock /\ pc'[w] = "dead" /\ ~held'[w]
        /\ \A u \in Worker : u # w =>
              pc'[u] = pc[u] /\ job'[u] = job[u] /\ held'[u] = held[u]
        /\ \A s \in Run : excuse[s] \subseteq excuse'[s]
    BY <1>19, <1>t DEF Crash, Excused, valkey
  <2> QED
    BY <1>k, <2>1 DEF Held
<1>20. ASSUME NEW t \in {Target[q] : q \in Request}, TargetLockLapses(t)
       PROVE Held'
  <2>1. /\ UNCHANGED <<pc, job, held>>
        /\ targetLock' = [targetLock EXCEPT ![t] = None]
        /\ \A s \in Run : excuse[s] \subseteq excuse'[s]
    BY <1>20, <1>t DEF TargetLockLapses, InUse, Excused, worker
  <2>2. ASSUME NEW u \in Worker, held[u],
               targetLock[Target[job[u]]] = <<u, job[u]>>
        PROVE  \/ targetLock'[Target[job[u]]] = <<u, job[u]>>
               \/ "target" \in excuse'[job[u]]
    <3>1. job[u] \in Run
      BY <1>t, <2>2 DEF Held
    <3>2. CASE Target[job[u]] = t
      <4>1. targetLock[t][1] = u /\ targetLock[t][2] = job[u]
        BY <2>2, <3>2
      <4>2. excuse' = Excused(job[u], {"target"})
        BY <1>20, <2>2, <4>1 DEF TargetLockLapses, InUse
      <4> QED
        BY <1>t, <3>1, <4>2 DEF Excused
    <3>3. CASE Target[job[u]] # t
      BY <1>t, <2>1, <2>2, <3>1, <3>3
    <3> QED
      BY <3>2, <3>3
  <2> QED
    BY <1>k, <2>1, <2>2 DEF Held
<1> QED
  BY <1>1, <1>7, <1>8, <1>12, <1>17, <1>18, <1>19, <1>20 DEF Next, WorkerStep
-----------------------------------------------------------------------------
(* A key has one row, and everybody finds it.                              *)

\* The status of a run is set by an INSERT that is not refused, or by a copy
\* that is written back.
LEMMA StatusStep ==
    ASSUME TypeInv, [Next]_vars, NEW r \in Run
    PROVE  \/ row'[r].status = row[r].status
           \/ /\ row[r].status = "absent" /\ row'[r].status = "queued"
              /\ \E q \in Request : Insert(q) /\ ~Refused(q) /\ id[q] = r
           \/ CancelWrite(r) /\ row'[r] = wish[r]
           \/ \E w \in Worker : Writes(w) /\ job[w] = r /\ row'[r] = copy[w]
<1> USE DEF Run
<1>t. /\ row \in [Run -> Row] /\ copy \in [Worker -> Row] /\ wish \in [Run -> Row]
      /\ \A w \in Worker : pc[w] \notin {"idle", "dead"} => job[w] \in Run
  BY DEF TypeInv, AsyncTypeOK, Jobs, Busy
<1>1. ASSUME NEW q \in Request, Insert(q)
      PROVE  \/ row'[r].status = row[r].status
             \/ /\ row[r].status = "absent" /\ row'[r].status = "queued"
                /\ ~Refused(q) /\ id[q] = r
  BY <1>t, <1>1 DEF Insert, Refused, Row
<1>2. ASSUME NEW s \in Run, CancelWrite(s)
      PROVE  row'[r] = row[r] \/ (s = r /\ row'[r] = wish[r])
  BY <1>t, <1>2 DEF CancelWrite, WritesBack
<1>3. ASSUME NEW w \in Worker, Writes(w)
      PROVE  row'[r] = row[r] \/ (job[w] = r /\ row'[r] = copy[w])
  BY <1>t, <1>3 DEF Writes, WritesBack
<1>4. ASSUME NEW w \in Worker, Claim(w) PROVE row'[r].status = row[r].status
  <2>1. job[w] \in Run
    BY <1>4, <1>t DEF Claim
  <2>2. \/ row' = row
        \/ row' = [row EXCEPT ![job[w]] =
                      [row[job[w]] EXCEPT !.owner = w, !.live = TRUE]]
    BY <1>4 DEF Claim
  <2>3. [row[job[w]] EXCEPT !.owner = w, !.live = TRUE].status = row[job[w]].status
    BY <1>t, <2>1, ClaimPatch
  <2> QED
    BY <1>t, <2>2, <2>3
<1>5. ASSUME NEW w \in Worker, Release(w) PROVE row'[r].status = row[r].status
  <2>1. job[w] \in Run
    BY <1>5, <1>t DEF Release
  <2>2. \/ row' = row
        \/ row' = [row EXCEPT ![job[w]] =
                      [row[job[w]] EXCEPT !.owner = None, !.live = FALSE]]
    BY <1>5 DEF Release
  <2>3. [row[job[w]] EXCEPT !.owner = None, !.live = FALSE].status
           = row[job[w]].status
    BY <1>t, <2>1, ClaimPatch
  <2> QED
    BY <1>t, <2>2, <2>3
<1>6. ASSUME NEW w \in Worker, Checkpoint(w) PROVE row'[r].status = row[r].status
  <2>1. \/ row' = row
        \/ row' = [row EXCEPT ![job[w]] = [row[job[w]] EXCEPT !.live = TRUE]]
    BY <1>6 DEF Checkpoint
  <2> QED
    BY <1>t, <2>1 DEF Row
<1>7. ASSUME NEW s \in Run, ClaimLapses(s) PROVE row'[r].status = row[r].status
  <2>1. row' = [row EXCEPT ![s] = [row[s] EXCEPT !.live = FALSE]]
    BY <1>7 DEF ClaimLapses
  <2> QED
    BY <1>t, <2>1 DEF Row
<1> QED
  <2>1. \/ \E q \in Request : Insert(q)
        \/ \E s \in Run : CancelWrite(s) \/ ClaimLapses(s)
        \/ \E w \in Worker : Writes(w) \/ Claim(w) \/ Release(w) \/ Checkpoint(w)
        \/ UNCHANGED row
    BY DEF Next, WorkerStep, Admit, Enqueue, Abandon, CancelLooks, CancelRead,
       Pop, Visit, Sweep, Reads, AcquireTarget, GivesUp, Launch, ToolEnds,
       ReleaseThrows, Throws, Crash, RunLockLapses, TargetLockLapses, KeyLapses,
       Unreachable, Reachable, vars
  <2>2. CASE \E q \in Request : Insert(q)
    BY <1>1, <2>2
  <2>3. CASE \E s \in Run : CancelWrite(s) \/ ClaimLapses(s)
    BY <1>2, <1>7, <2>3
  <2>4. CASE \E w \in Worker : Writes(w) \/ Claim(w) \/ Release(w) \/ Checkpoint(w)
    BY <1>3, <1>4, <1>5, <1>6, <2>4
  <2> QED
    BY <2>1, <2>2, <2>3, <2>4

\* A row stays once it is there.
LEMMA PresenceStep ==
    ASSUME TypeInv, Copies, [Next]_vars, NEW r \in Run
    PROVE  /\ row[r].status # "absent" => row'[r].status # "absent"
           /\ row'[r].status # "absent" =>
                 \/ row[r].status # "absent"
                 \/ \E q \in Request : Insert(q) /\ ~Refused(q) /\ id[q] = r
<1>1. CancelWrite(r) => row[r].status # "absent" /\ wish[r].status # "absent"
  BY DEF CancelWrite, Copies, Present
<1>2. ASSUME NEW w \in Worker, Writes(w), job[w] = r
      PROVE  row[r].status # "absent" /\ copy[w].status # "absent"
  BY <1>2 DEF Writes, Copies, Present, Executing
<1> QED
  BY <1>1, <1>2, StatusStep

LEMMA KeyedStep ==
    TypeInv /\ Copies /\ Keyed /\ [Next]_vars => Keyed'
<1> SUFFICES ASSUME TypeInv, Copies, Keyed, [Next]_vars PROVE Keyed'
  OBVIOUS
<1> USE DEF Run, Present
<1>t. /\ sub \in [Request -> {"new", "admitted", "inserted", "closed"}]
      /\ id \in [Request -> Run] /\ reply \in [Request -> Run \cup {None}]
      /\ keyOwner \in [{Key[q] : q \in Request} -> Run \cup {None}]
  BY DEF TypeInv, AsyncTypeOK
<1>p. \A r \in Run : row[r].status # "absent" => row'[r].status # "absent"
  BY PresenceStep
<1>u. \A q, s \in Run :
         row'[q].status # "absent" /\ row'[s].status # "absent"
         /\ Key[q] = Key[s] /\ Key[q] # None => q = s
  <2> SUFFICES ASSUME NEW q \in Run, NEW s \in Run, q # s,
                      row'[q].status # "absent", row'[s].status # "absent",
                      Key[q] = Key[s], Key[q] # None
               PROVE  FALSE
    OBVIOUS
  <2>1. \A r \in Run : row'[r].status # "absent" =>
           \/ row[r].status # "absent"
           \/ \E a \in Request : Insert(a) /\ ~Refused(a) /\ id[a] = r
    BY PresenceStep
  <2>2. ~(row[q].status # "absent" /\ row[s].status # "absent")
    BY DEF Keyed
  <2>3. ASSUME NEW a \in Request, Insert(a), ~Refused(a)
        PROVE  \A r \in Run : Key[r] = Key[id[a]] /\ Key[r] # None =>
                  row[r].status = "absent"
    BY <1>t, <2>3 DEF Refused, Bearer, Keyed
  <2>4. \A a \in Request, r \in Run : Insert(a) /\ r # id[a] => row'[r] = row[r]
    BY DEF Insert, TypeInv, AsyncTypeOK
  <2>5. ASSUME NEW a \in Request, Insert(a), ~Refused(a), id[a] \in {q, s}
        PROVE  FALSE
    BY <2>2, <2>3, <2>4, <2>5
  <2> QED
    BY <2>1, <2>2, <2>5
<1>1. ASSUME NEW q \in Request, Admit(q) PROVE Keyed'
  <2>1. \A r \in Bearer(q) : r \in Run /\ row[r].status # "absent" /\ Key[r] = Key[q]
    BY DEF Bearer
  <2>2. \A s \in Request : Key[id'[s]] = Key[s]
    BY <1>1, <1>t DEF Admit, Answer, Keyed
  <2>3. \A s \in Request : sub'[s] = "inserted" =>
           sub[s] = "inserted" /\ id'[s] = id[s]
    BY <1>1, <1>t DEF Admit, Answer
  <2>4. \A s \in Request : reply'[s] # None =>
           row[reply'[s]].status # "absent" /\ Key[reply'[s]] = Key[s]
    <3>1. \/ reply' = reply
          \/ \E r \in Bearer(q) : reply' = [reply EXCEPT ![q] = r]
      BY <1>1 DEF Admit, Answer
    <3>2. \A s \in Request : reply[s] # None =>
             row[reply[s]].status # "absent" /\ Key[reply[s]] = Key[s]
      BY DEF Keyed
    <3> QED
      BY <1>t, <2>1, <3>1, <3>2
  <2>5. \A k \in {Key[s] : s \in Request} : keyOwner'[k] # None => Key[keyOwner'[k]] = k
    <3>1. \/ keyOwner' = keyOwner
          \/ keyOwner' = [keyOwner EXCEPT ![Key[q]] = q]
      BY <1>1 DEF Admit
    <3>2. \A k \in {Key[s] : s \in Request} :
             keyOwner[k] # None => Key[keyOwner[k]] = k
      BY DEF Keyed
    <3> QED
      BY <1>t, <3>1, <3>2
  <2>6. UNCHANGED row
    BY <1>1 DEF Admit
  <2> QED
    BY <1>u, <2>2, <2>3, <2>4, <2>5, <2>6 DEF Keyed
<1>2. ASSUME NEW q \in Request, Insert(q) PROVE Keyed'
  <2>1. \A r \in Bearer(q) : r \in Run /\ row[r].status # "absent" /\ Key[r] = Key[q]
    BY DEF Bearer
  <2>2. UNCHANGED <<id, keyOwner>>
    BY <1>2 DEF Insert, valkey
  <2>3. \A s \in Request : reply'[s] # None =>
           row'[reply'[s]].status # "absent" /\ Key[reply'[s]] = Key[s]
    <3>1. \A s \in Request : reply'[s] # None =>
             row[reply'[s]].status # "absent" /\ Key[reply'[s]] = Key[s]
      BY <1>2, <1>t, <2>1 DEF Insert, Answer, Keyed
    <3>2. \A s \in Request : reply'[s] # None => reply'[s] \in Run
      BY <1>2, <1>t, <2>1 DEF Insert, Answer
    <3> QED
      BY <1>p, <3>1, <3>2
  <2>4. \A s \in Request : sub'[s] = "inserted" => row'[id[s]].status # "absent"
    <3>1. \A s \in Request : sub'[s] = "inserted" /\ sub[s] # "inserted" =>
             row' = [row EXCEPT ![id[q]].status = "queued"] /\ s = q
      BY <1>2, <1>t DEF Insert, Answer
    <3>2. row' = [row EXCEPT ![id[q]].status = "queued"] =>
             row'[id[q]].status # "absent"
      BY <1>t DEF TypeInv, AsyncTypeOK, Row
    <3> QED
      BY <1>p, <1>t, <3>1, <3>2 DEF Keyed
  <2> QED
    BY <1>u, <2>2, <2>3, <2>4 DEF Keyed
<1>3. ASSUME NEW q \in Request, Enqueue(q) PROVE Keyed'
  <2>1. /\ UNCHANGED <<row, id, keyOwner>>
        /\ row[id[q]].status # "absent" /\ Key[id[q]] = Key[q] /\ id[q] \in Run
        /\ reply' = [reply EXCEPT ![q] = id[q]]
        /\ sub' = [sub EXCEPT ![q] = "closed"]
    BY <1>3, <1>t DEF Enqueue, Answer, Keyed
  <2> QED
    BY <1>t, <1>u, <2>1 DEF Keyed
<1>4. ASSUME NEW q \in Request, Abandon(q) PROVE Keyed'
  <2>1. /\ UNCHANGED <<row, id, reply, keyOwner>>
        /\ sub' = [sub EXCEPT ![q] = "closed"]
    BY <1>4 DEF Abandon, valkey
  <2> QED
    BY <1>t, <1>u, <2>1 DEF Keyed
<1>5. ASSUME NEW k \in {Key[q] : q \in Request}, KeyLapses(k) PROVE Keyed'
  <2>1. /\ UNCHANGED <<row, sub, id, reply>>
        /\ keyOwner' = [keyOwner EXCEPT ![k] = None]
    BY <1>5 DEF KeyLapses, api
  <2> QED
    BY <1>t, <1>u, <2>1 DEF Keyed
<1>6. CASE UNCHANGED <<sub, id, reply, keyOwner>>
  <2>1. \A q \in Request : /\ sub'[q] = "inserted" => row'[id[q]].status # "absent"
                           /\ reply[q] # None => row'[reply[q]].status # "absent"
    BY <1>6, <1>p, <1>t DEF Keyed
  <2>2. /\ \A q \in Request : /\ Key[id[q]] = Key[q]
                              /\ reply[q] # None => Key[reply[q]] = Key[q]
        /\ \A k \in {Key[q] : q \in Request} : keyOwner[k] # None => Key[keyOwner[k]] = k
    BY DEF Keyed
  <2>3. sub' = sub /\ id' = id /\ reply' = reply /\ keyOwner' = keyOwner
    BY <1>6
  <2>4. \A q \in Request :
           /\ Key[id'[q]] = Key[q]
           /\ sub'[q] = "inserted" => row'[id'[q]].status # "absent"
           /\ reply'[q] # None =>
                 row'[reply'[q]].status # "absent" /\ Key[reply'[q]] = Key[q]
    BY <2>1, <2>2, <2>3
  <2>5. \A k \in {Key[q] : q \in Request} : keyOwner'[k] # None => Key[keyOwner'[k]] = k
    BY <2>2, <2>3
  <2> QED
    BY <1>u, <2>4, <2>5 DEF Keyed
<1>7. \/ \E q \in Request : Admit(q) \/ Insert(q) \/ Enqueue(q) \/ Abandon(q)
      \/ \E k \in {Key[q] : q \in Request} : KeyLapses(k)
      \/ UNCHANGED <<sub, id, reply, keyOwner>>
  <2>1. ASSUME NEW w \in Worker, WorkerStep(w) \/ ReleaseThrows(w) \/ Throws(w) \/ Crash(w)
        PROVE  UNCHANGED <<sub, id, reply, keyOwner>>
    BY <2>1 DEF WorkerStep, Pop, Visit, Sweep, Claim, Reads, Writes,
       AcquireTarget, GivesUp, Checkpoint, Launch, ToolEnds, Release,
       ReleaseThrows, Throws, Crash, api, valkey
  <2>2. ASSUME NEW r \in Run, \/ CancelLooks(r) \/ CancelRead(r) \/ CancelWrite(r)
                              \/ ClaimLapses(r) \/ RunLockLapses(r)
        PROVE  UNCHANGED <<sub, id, reply, keyOwner>>
    BY <2>2 DEF CancelLooks, CancelRead, CancelWrite, ClaimLapses,
       RunLockLapses, api, valkey
  <2>3. ASSUME \/ \E t \in {Target[q] : q \in Request} : TargetLockLapses(t)
               \/ Unreachable \/ Reachable \/ UNCHANGED vars
        PROVE  UNCHANGED <<sub, id, reply, keyOwner>>
    BY <2>3 DEF TargetLockLapses, Unreachable, Reachable, vars, api, valkey
  <2> QED
    BY <2>1, <2>2, <2>3 DEF Next
<1> QED
  BY <1>1, <1>2, <1>3, <1>4, <1>5, <1>6, <1>7
-----------------------------------------------------------------------------
(* The adapter of a run is launched by one executor.                       *)

\* An unbroken run whose adapter has not been launched before has no other
\* executor when it is, and gets none before it is over or cancelled.
LEMMA LaunchesStep ==
    /\ TypeInv /\ Copies /\ Claimed /\ Locked /\ Launches
    /\ TypeInv' /\ Claimed' /\ Locked' /\ [Next]_vars
    => Launches'
<1> SUFFICES ASSUME TypeInv, Copies, Claimed, Locked, Launches,
                    TypeInv', Claimed', Locked', [Next]_vars,
                    NEW r \in Run, launched'[r] > 0, ~Broken(r)'
             PROVE  /\ launched'[r] = 1
                    /\ \/ row'[r].status \in Ended \/ row'[r].cancel
                       \/ \E w \in Worker : Executes(w, r)'
                    /\ \A w \in Worker : Executes(w, r)' =>
                          pc'[w] \in {"tool", "completing", "failing", "cancelling"}
  BY DEF Launches
<1> USE DEF Run, Executes
<1> DEFINE Over(x) == x.status \in Ended \/ x.cancel
           Late == {"tool", "completing", "failing", "cancelling"}
<1>t. /\ row \in [Run -> Row] /\ copy \in [Worker -> Row] /\ wish \in [Run -> Row]
      /\ pc \in [Worker -> {"idle", "locked", "release", "dead"} \cup Executing]
      /\ job \in [Worker -> Run \cup {None}]
      /\ launched \in [Run -> 0..2]
      /\ excuse \in [Run -> SUBSET {"lock", "claim", "target", "crash"}]
      /\ \A w \in Worker : pc[w] \notin {"idle", "dead"} => job[w] \in Run
  BY DEF TypeInv, AsyncTypeOK, Jobs, Busy
<1>o. \A u, v \in Worker : Executes(u, r) /\ Executes(v, r) =>
         u = v \/ {"lock", "claim"} \subseteq excuse[r]
  BY GuardsExclude DEF OneExecutor
<1>p. \A u, v \in Worker : Executes(u, r)' /\ Executes(v, r)' => u = v
  <2>1. OneExecutor'
    BY GuardsExclude, PTL
  <2> QED
    BY <2>1 DEF OneExecutor, Broken
<1>l. launched[r] > 0 /\ ~Broken(r) =>
         /\ launched[r] = 1
         /\ Over(row[r]) \/ \E w \in Worker : pc[w] \in Late /\ job[w] = r
         /\ \A w \in Worker : pc[w] \in Executing /\ job[w] = r => pc[w] \in Late
  BY DEF Launches
\* Steps that leave the run, and who executes it, alone.
<1>k. ASSUME excuse[r] \subseteq excuse'[r], launched'[r] = launched[r],
             Over(row[r]) => Over(row'[r]),
             \A w \in Worker : pc[w] \in Late /\ job[w] = r =>
                 Over(row'[r]) \/ (pc'[w] \in Late /\ job'[w] = r),
             \A w \in Worker : pc'[w] \in Executing /\ job'[w] = r =>
                 \/ pc'[w] \in Late
                 \/ pc[w] \in Executing \ Late /\ job[w] = r
      PROVE  /\ launched'[r] = 1
             /\ Over(row'[r]) \/ \E w \in Worker : Executes(w, r)'
             /\ \A w \in Worker : Executes(w, r)' => pc'[w] \in Late
  <2>1. ~Broken(r) /\ launched[r] > 0
    BY <1>k DEF Broken
  <2>2. ASSUME NEW w \in Worker, pc[w] \in Late, job[w] = r, ~Over(row'[r])
        PROVE  Executes(w, r)'
    BY <1>k, <2>2 DEF Executing, Saving
  <2> QED
    BY <1>k, <1>l, <2>1, <2>2
<1>1. ASSUME NEW q \in Request, Insert(q)
      PROVE  /\ UNCHANGED <<worker, history>>
             /\ Over(row[r]) => Over(row'[r])
  <2>1. UNCHANGED <<worker, history>>
    BY <1>1 DEF Insert
  <2>2. \/ row' = row
        \/ /\ row[id[q]].status = "absent"
           /\ row' = [row EXCEPT ![id[q]].status = "queued"]
    BY <1>1 DEF Insert, Refused
  <2>3. Over(row[r]) => Over(row'[r])
    <3>1. CASE row'[r] = row[r]
      BY <3>1
    <3>2. CASE row[r].status = "absent" /\ row'[r] = [row[r] EXCEPT !.status = "queued"]
      BY <1>t, <3>2 DEF Row, Ended
    <3> QED
      BY <1>t, <2>2, <3>1, <3>2
  <2> QED
    BY <2>1, <2>3
<1>2. ASSUME NEW s \in Run, CancelWrite(s)
      PROVE  /\ UNCHANGED <<worker, launched>> /\ excuse[r] \subseteq excuse'[r]
             /\ Over(row[r]) => Over(row'[r])
  <2>1. wish[s].cancel
    BY <1>2 DEF CancelWrite, Copies
  <2> QED
    BY <1>2, <1>t, <2>1 DEF CancelWrite, WritesBack, Excused
<1>3. ASSUME NEW s \in Run, ClaimLapses(s)
      PROVE  /\ UNCHANGED <<pc, job, launched>> /\ excuse[r] \subseteq excuse'[r]
             /\ Over(row[r]) => Over(row'[r])
  <2>1. row' = [row EXCEPT ![s] = [row[s] EXCEPT !.live = FALSE]]
    BY <1>3 DEF ClaimLapses
  <2>2. Over(row[r]) => Over(row'[r])
    BY <1>t, <2>1 DEF Row
  <2> QED
    BY <1>3, <1>t, <2>2 DEF ClaimLapses, InUse, Excused
<1>4. ASSUME NEW w \in Worker, Claim(w)
      PROVE  /\ UNCHANGED <<job, launched, excuse>>
             /\ Over(row[r]) => Over(row'[r])
             /\ \A u \in Worker : u # w => pc'[u] = pc[u]
             /\ pc[w] = "locked"
             /\ job[w] # r \/ pc'[w] \notin Executing \/ pc'[w] \in Late
  <2>1. /\ UNCHANGED <<job, launched, excuse>>
        /\ \A u \in Worker : u # w => pc'[u] = pc[u]
        /\ pc[w] = "locked" /\ job[w] \in Run
        /\ pc'[w] \in {"starting", "cancelling", "release"}
        /\ pc'[w] = "starting" => ~Over(row[job[w]])
    BY <1>4, <1>t DEF Claim, Goes, history, Claimable, Open, Ended
  <2>2. \/ row' = row
        \/ row' = [row EXCEPT ![job[w]] =
                      [row[job[w]] EXCEPT !.owner = w, !.live = TRUE]]
    BY <1>4 DEF Claim
  <2>3. LET y == [row[job[w]] EXCEPT !.owner = w, !.live = TRUE] IN
        y.status = row[job[w]].status /\ (y.cancel <=> row[job[w]].cancel)
    BY <1>t, <2>1, ClaimPatch
  <2>4. Over(row[r]) => Over(row'[r])
    BY <1>t, <2>2, <2>3
  <2>5. ASSUME job[w] = r, pc'[w] = "starting" PROVE FALSE
    <3>1. PICK v \in Worker : pc[v] \in Late /\ job[v] = r
      BY <1>l, <2>1, <2>5 DEF Broken
    <3>2. v # w /\ pc'[v] \in Executing /\ job'[v] = r
      BY <2>1, <3>1 DEF Executing, Saving
    <3>3. pc'[w] \in Executing /\ job'[w] = r
      BY <2>1, <2>5 DEF Executing, Saving
    <3> QED
      BY <1>p, <3>2, <3>3
  <2> QED
    BY <2>1, <2>4, <2>5 DEF Executing, Saving
<1>5. ASSUME NEW w \in Worker, Writes(w)
      PROVE  /\ UNCHANGED <<job, launched>> /\ excuse[r] \subseteq excuse'[r]
             /\ Over(row[r]) => Over(row'[r])
             /\ \A u \in Worker : u # w => pc'[u] = pc[u]
             /\ pc[w] \in Late /\ job[w] = r => Over(row'[r])
             /\ pc'[w] \in Executing => pc[w] \in Executing \ Late
  <2>1. /\ UNCHANGED <<job, launched>> /\ excuse[r] \subseteq excuse'[r]
        /\ \A u \in Worker : u # w => pc'[u] = pc[u]
        /\ row' = [row EXCEPT ![job[w]] = copy[w]]
        /\ pc[w] \in Saving /\ copy[w] # NoRow
        /\ pc[w] \notin {"starting", "stepping"} => pc'[w] = "release"
    BY <1>5, <1>t DEF Writes, WritesBack, Goes, Excused
  <2>2. job[w] = r => pc[w] \notin {"starting", "stepping"}
    BY <1>l, <2>1 DEF Broken, Executing, Saving
  <2>3. job[w] = r => Over(row'[r])
    BY <1>t, <2>1, <2>2 DEF Copies
  <2>4. Over(row[r]) => Over(row'[r])
    BY <1>t, <2>1, <2>3
  <2> QED
    BY <2>1, <2>3, <2>4 DEF Executing, Saving
<1>6. ASSUME NEW w \in Worker, Checkpoint(w)
      PROVE  /\ UNCHANGED <<job, launched, excuse>>
             /\ Over(row[r]) => Over(row'[r])
             /\ \A u \in Worker : u # w => pc'[u] = pc[u]
             /\ pc[w] = "plan"
  <2>1. \/ row' = row
        \/ row' = [row EXCEPT ![job[w]] = [row[job[w]] EXCEPT !.live = TRUE]]
    BY <1>6 DEF Checkpoint
  <2>2. Over(row[r]) => Over(row'[r])
    <3>1. CASE row'[r] = row[r]
      BY <3>1
    <3>2. CASE row'[r] = [row[r] EXCEPT !.live = TRUE]
      BY <1>t, <3>2 DEF Row
    <3> QED
      BY <1>t, <2>1, <3>1, <3>2
  <2> QED
    BY <1>6, <1>t, <2>2 DEF Checkpoint, Goes, history
<1>7. ASSUME NEW w \in Worker, Release(w) \/ ReleaseThrows(w)
      PROVE  /\ UNCHANGED launched /\ excuse[r] \subseteq excuse'[r]
             /\ Over(row[r]) => Over(row'[r])
             /\ \A u \in Worker : u # w => pc'[u] = pc[u] /\ job'[u] = job[u]
             /\ pc[w] = "release" /\ pc'[w] = "idle"
  <2>1. /\ pc[w] = "release" /\ job[w] \in Run
        /\ \/ row' = row
           \/ row' = [row EXCEPT ![job[w]] =
                         [row[job[w]] EXCEPT !.owner = None, !.live = FALSE]]
    BY <1>7, <1>t DEF Release, ReleaseThrows
  <2>2. LET y == [row[job[w]] EXCEPT !.owner = None, !.live = FALSE] IN
        y.status = row[job[w]].status /\ (y.cancel <=> row[job[w]].cancel)
    BY <1>t, <2>1, ClaimPatch
  <2>3. Over(row[r]) => Over(row'[r])
    <3>1. CASE row'[r] = row[r]
      BY <3>1
    <3>2. CASE /\ job[w] = r
               /\ row'[r] = [row[job[w]] EXCEPT !.owner = None, !.live = FALSE]
      BY <2>2, <3>2
    <3> QED
      BY <1>t, <2>1, <3>1, <3>2
  <2> QED
    BY <1>7, <1>t, <2>1, <2>3 DEF Release, ReleaseThrows, Finished, Goes,
       history, Excused
<1>8. ASSUME NEW w \in Worker, Launch(w)
      PROVE  /\ UNCHANGED <<job, row, excuse>>
             /\ \A u \in Worker : u # w => pc'[u] = pc[u]
             /\ pc[w] = "plan" /\ pc'[w] \in Late
             /\ launched'[r] = launched[r] \/
                   (job[w] = r /\ launched'[r] = launched[r] + 1)
  BY <1>8, <1>t DEF Launch, Goes, Executing, Saving
<1>9. ASSUME NEW w \in Worker, Throws(w) \/ Crash(w)
      PROVE  /\ UNCHANGED <<row, launched>> /\ excuse[r] \subseteq excuse'[r]
             /\ \A u \in Worker : u # w => pc'[u] = pc[u] /\ job'[u] = job[u]
             /\ pc[w] \in {"idle", "dead"} \/ job[w] # r
             /\ pc'[w] \in {"dead", "failing", "release"}
  BY <1>9, <1>t DEF Throws, Crash, Goes, Excused, Broken, Busy, Executing, Saving
<1>10. ASSUME NEW w \in Worker,
              \/ \E s \in Run : Pop(w, s) \/ Visit(w, s)
              \/ Sweep(w) \/ Reads(w) \/ AcquireTarget(w) \/ GivesUp(w)
              \/ ToolEnds(w)
       PROVE  /\ UNCHANGED <<row, launched>> /\ excuse[r] \subseteq excuse'[r]
              /\ \A u \in Worker : u # w => pc'[u] = pc[u] /\ job'[u] = job[u]
              /\ pc[w] \in Late => pc'[w] \in Late /\ job'[w] = job[w]
              /\ pc'[w] \in Executing =>
                    \/ pc'[w] \in Late
                    \/ pc[w] \in Executing \ Late /\ job'[w] = job[w]
  <2>1. CASE \E s \in Run : Pop(w, s) \/ Visit(w, s)
    BY <1>t, <2>1 DEF Pop, Visit, Lock, Excused, Executing, Saving
  <2>2. CASE Sweep(w) \/ Reads(w)
    BY <1>t, <2>2 DEF Sweep, Reads, history, Executing, Saving
  <2>3. CASE AcquireTarget(w) \/ GivesUp(w) \/ ToolEnds(w)
    BY <1>t, <2>3 DEF AcquireTarget, GivesUp, AfterWait, ToolEnds, Goes,
       history, Excused, Executing, Saving
  <2> QED
    BY <1>10, <2>1, <2>2, <2>3
<1>11. ASSUME \/ \E q \in Request : Admit(q) \/ Enqueue(q) \/ Abandon(q)
              \/ \E s \in Run : CancelLooks(s) \/ CancelRead(s) \/ RunLockLapses(s)
              \/ \E t \in {Target[q] : q \in Request} : TargetLockLapses(t)
              \/ \E k \in {Key[q] : q \in Request} : KeyLapses(k)
              \/ Unreachable \/ Reachable \/ UNCHANGED vars
       PROVE  /\ UNCHANGED <<row, pc, job, launched>>
              /\ excuse[r] \subseteq excuse'[r]
  <2>1. CASE \/ \E q \in Request : Admit(q) \/ Enqueue(q) \/ Abandon(q)
             \/ \E s \in Run : CancelLooks(s) \/ CancelRead(s)
             \/ \E k \in {Key[q] : q \in Request} : KeyLapses(k)
             \/ Reachable \/ UNCHANGED vars
    BY <2>1 DEF Admit, Enqueue, Abandon, CancelLooks, CancelRead, KeyLapses,
       Reachable,
       vars, worker, history
  <2>2. CASE \/ \E s \in Run : RunLockLapses(s)
             \/ \E t \in {Target[q] : q \in Request} : TargetLockLapses(t)
             \/ Unreachable
    BY <1>t, <2>2 DEF RunLockLapses, TargetLockLapses, Unreachable, InUse,
       Excused, worker
  <2> QED
    BY <1>11, <2>1, <2>2
<1> QED
  <2>1. ASSUME NEW w \in Worker, Launch(w), job[w] = r, launched'[r] # launched[r]
        PROVE  /\ launched'[r] = 1
               /\ Over(row'[r]) \/ \E u \in Worker : Executes(u, r)'
               /\ \A u \in Worker : Executes(u, r)' => pc'[u] \in Late
    <3>1. pc[w] \in Executing \ Late
      BY <1>8, <2>1 DEF Executing, Saving
    <3>2. ~Broken(r)
      BY <1>8, <2>1 DEF Broken
    <3>3. launched[r] = 0
      BY <1>l, <1>t, <2>1, <3>1, <3>2
    <3>4. Executes(w, r)' /\ pc'[w] \in Late
      BY <1>8, <2>1 DEF Executing, Saving
    <3> QED
      BY <1>8, <1>p, <2>1, <3>3, <3>4
  <2>2. ASSUME NEW w \in Worker, WorkerStep(w) \/ ReleaseThrows(w) \/ Throws(w) \/ Crash(w)
        PROVE  /\ launched'[r] = 1
               /\ Over(row'[r]) \/ \E u \in Worker : Executes(u, r)'
               /\ \A u \in Worker : Executes(u, r)' => pc'[u] \in Late
    <3>1. CASE Claim(w)
      BY <1>4, <1>k, <3>1 DEF Executing, Saving
    <3>2. CASE Writes(w)
      BY <1>5, <1>k, <3>2
    <3>3. CASE Checkpoint(w)
      BY <1>6, <1>k, <3>3 DEF Executing, Saving
    <3>4. CASE Release(w) \/ ReleaseThrows(w)
      BY <1>7, <1>k, <3>4 DEF Executing, Saving
    <3>5. CASE Launch(w) /\ launched'[r] = launched[r]
      BY <1>8, <1>k, <3>5 DEF Executing, Saving
    <3>6. CASE Launch(w) /\ launched'[r] # launched[r]
      BY <1>8, <2>1, <3>6
    <3>7. CASE Throws(w) \/ Crash(w)
      BY <1>9, <1>k, <3>7 DEF Executing, Saving
    <3>8. CASE \/ \E s \in Run : Pop(w, s) \/ Visit(w, s)
               \/ Sweep(w) \/ Reads(w) \/ AcquireTarget(w) \/ GivesUp(w)
               \/ ToolEnds(w)
      BY <1>10, <1>k, <3>8
    <3> QED
      BY <2>2, <3>1, <3>2, <3>3, <3>4, <3>5, <3>6, <3>7, <3>8 DEF WorkerStep
  <2>3. CASE \E q \in Request : Insert(q)
    BY <1>1, <1>k, <2>3 DEF worker, history
  <2>4. CASE \E s \in Run : CancelWrite(s) \/ ClaimLapses(s)
    BY <1>2, <1>3, <1>k, <2>4 DEF worker
  <2>5. CASE \/ \E q \in Request : Admit(q) \/ Enqueue(q) \/ Abandon(q)
             \/ \E s \in Run : CancelLooks(s) \/ CancelRead(s) \/ RunLockLapses(s)
             \/ \E t \in {Target[q] : q \in Request} : TargetLockLapses(t)
             \/ \E k \in {Key[q] : q \in Request} : KeyLapses(k)
             \/ Unreachable \/ Reachable \/ UNCHANGED vars
    BY <1>11, <1>k, <2>5
  <2> QED
    BY <2>2, <2>3, <2>4, <2>5 DEF Next
-----------------------------------------------------------------------------
(* Nobody works on what has ended, unless it was cancelled meanwhile.      *)

\* Nothing that went wrong is forgotten.
LEMMA ExcusesGrow ==
    ASSUME TypeInv, [Next]_vars, NEW r \in Run
    PROVE  excuse[r] \subseteq excuse'[r]
<1>t. /\ excuse \in [Run -> SUBSET {"lock", "claim", "target", "crash"}]
      /\ \A w \in Worker : pc[w] \notin {"idle", "dead"} => job[w] \in Run
  BY DEF TypeInv, AsyncTypeOK, Jobs, Busy
<1>1. CASE UNCHANGED excuse
  BY <1>1
<1>2. ASSUME NEW s \in Run, CancelWrite(s) \/ ClaimLapses(s) \/ RunLockLapses(s)
      PROVE  excuse[r] \subseteq excuse'[r]
  BY <1>t, <1>2 DEF CancelWrite, WritesBack, ClaimLapses, RunLockLapses, InUse,
     Excused
<1>3. ASSUME NEW w \in Worker,
             \/ \E s \in Run : Pop(w, s) \/ Visit(w, s)
             \/ Writes(w) \/ AcquireTarget(w) \/ ReleaseThrows(w) \/ Throws(w)
             \/ Crash(w)
      PROVE  excuse[r] \subseteq excuse'[r]
  BY <1>t, <1>3 DEF Pop, Visit, Lock, Writes, WritesBack, AcquireTarget,
     ReleaseThrows, Throws, Crash, Excused
<1>4. CASE Unreachable \/ \E t \in {Target[q] : q \in Request} : TargetLockLapses(t)
  BY <1>t, <1>4 DEF Unreachable, TargetLockLapses, InUse, Excused
<1> QED
  BY <1>1, <1>2, <1>3, <1>4 DEF Next, WorkerStep, Admit, Insert, Enqueue,
     Abandon, CancelLooks, CancelRead, Sweep, Claim, Reads, GivesUp, Checkpoint,
     Launch, ToolEnds, Release, KeyLapses, Reachable, vars, history

\* A worker goes to work by claiming an open run, or by failing one whose claim
\* could not be asked for.
LEMMA WorkBegins ==
    ASSUME TypeInv, [Next]_vars, NEW w \in Worker, NEW r \in Run,
           Executes(w, r)', ~Executes(w, r)
    PROVE  \/ Open(row[r]) /\ row'[r].status = row[r].status
           \/ "claim" \in excuse'[r]
<1> USE DEF Executes
<1>t. /\ pc \in [Worker -> {"idle", "locked", "release", "dead"} \cup Executing]
      /\ job \in [Worker -> Run \cup {None}] /\ row \in [Run -> Row]
      /\ excuse \in [Run -> SUBSET {"lock", "claim", "target", "crash"}]
      /\ \A u \in Worker : pc[u] \notin {"idle", "dead"} => job[u] \in Run
  BY DEF TypeInv, AsyncTypeOK, Jobs, Busy
<1>1. ASSUME NEW u \in Worker, Claim(u)
      PROVE  Open(row[r]) /\ row'[r].status = row[r].status
  <2>1. /\ UNCHANGED job /\ pc[u] = "locked" /\ job[u] \in Run
        /\ \A v \in Worker : v # u => pc'[v] = pc[v]
        /\ pc'[u] \in Executing => Claimable(u, job[u])
    BY <1>1, <1>t DEF Claim, Goes, Executing, Saving
  <2>2. u = w /\ job[w] = r /\ Claimable(w, r)
    BY <2>1
  <2>3. row'[r] = [row[r] EXCEPT !.owner = w, !.live = TRUE]
    BY <1>1, <1>t, <2>2 DEF Claim
  <2> QED
    BY <1>t, <2>2, <2>3, ClaimPatch DEF Claimable
<1>2. ASSUME NEW u \in Worker, Throws(u) PROVE "claim" \in excuse'[r]
  <2>1. /\ UNCHANGED job /\ job[u] \in Run
        /\ \A v \in Worker : v # u => pc'[v] = pc[v]
        /\ pc[u] \in Executing \/ "claim" \in excuse'[job[u]]
    BY <1>2, <1>t DEF Throws, Goes, Excused, Executing, Saving
  <2> QED
    BY <2>1
<1>3. ASSUME NEW u \in Worker,
             \/ \E s \in Run : Pop(u, s) \/ Visit(u, s)
             \/ Sweep(u) \/ Reads(u) \/ Writes(u) \/ AcquireTarget(u)
             \/ GivesUp(u) \/ Checkpoint(u) \/ Launch(u) \/ ToolEnds(u)
             \/ Release(u) \/ ReleaseThrows(u) \/ Crash(u)
      PROVE  FALSE
  <2>1. CASE \E s \in Run : Pop(u, s) \/ Visit(u, s)
    BY <1>t, <2>1 DEF Pop, Visit, Lock, Executing, Saving
  <2>2. CASE \/ Sweep(u) \/ Reads(u) \/ Writes(u) \/ AcquireTarget(u) \/ GivesUp(u)
             \/ Checkpoint(u) \/ Launch(u) \/ ToolEnds(u)
    BY <1>t, <2>2 DEF Sweep, Reads, Writes, AcquireTarget, GivesUp, Checkpoint,
       Launch, ToolEnds, Goes, Executing, Saving
  <2>3. CASE Release(u) \/ ReleaseThrows(u) \/ Crash(u)
    BY <1>t, <2>3 DEF Release, ReleaseThrows, Crash, Finished, Goes, Executing,
       Saving
  <2> QED
    BY <1>3, <2>1, <2>2, <2>3
<1>4. CASE UNCHANGED <<pc, job>>
  BY <1>4
<1> QED
  BY <1>1, <1>2, <1>3, <1>4 DEF Next, WorkerStep, Admit, Insert, Enqueue,
     Abandon, CancelLooks, CancelRead, CancelWrite, ClaimLapses, RunLockLapses,
     TargetLockLapses, KeyLapses, Unreachable, Reachable, vars, worker

LEMMA WorkingStep ==
    TypeInv /\ Copies /\ Claimed /\ Working /\ [Next]_vars => Working'
<1> SUFFICES ASSUME TypeInv, Copies, Claimed, Working, [Next]_vars,
                    NEW w \in Worker, NEW r \in Run, Executes(w, r)',
                    "claim" \notin excuse'[r]
             PROVE  Open(row[r])' \/ CancelledUnderWay(r)'
  BY DEF Working
<1>1. "claim" \notin excuse[r]
  BY ExcusesGrow
<1>2. CASE ~Executes(w, r)
  BY <1>2, WorkBegins DEF Open
<1>3. CASE Executes(w, r)
  <2>1. Open(row[r]) \/ CancelledUnderWay(r)
    BY <1>1, <1>3 DEF Working
  <2>2. cancel[r] = "cancelled" => cancel'[r] = "cancelled"
    <3>1. ASSUME NEW u \in Worker,
                 WorkerStep(u) \/ ReleaseThrows(u) \/ Throws(u) \/ Crash(u)
          PROVE  UNCHANGED cancel
      BY <3>1 DEF WorkerStep, Pop, Visit, Sweep, Claim, Reads, Writes,
         AcquireTarget, GivesUp, Checkpoint, Launch, ToolEnds, Release,
         ReleaseThrows, Throws, Crash, api
    <3>2. ASSUME NEW s \in Run, CancelLooks(s) \/ CancelRead(s) \/ CancelWrite(s)
          PROVE  cancel[r] = "cancelled" => cancel'[r] = "cancelled"
      BY <3>2 DEF CancelLooks, CancelRead, CancelWrite, TypeInv, AsyncTypeOK
    <3>3. CASE UNCHANGED cancel
      BY <3>3
    <3> QED
      BY <3>1, <3>2, <3>3 DEF Next, Admit, Insert, Enqueue, Abandon,
         ClaimLapses, RunLockLapses, TargetLockLapses, KeyLapses, Unreachable,
         Reachable, vars, api
  <2>3. CASE row'[r].status = row[r].status
    BY <2>1, <2>2, <2>3 DEF Open, CancelledUnderWay
  <2>4. CASE CancelWrite(r) /\ row'[r] = wish[r]
    <3>1. wish[r].status \in {"cancelled", "running"}
      BY <2>4 DEF CancelWrite, Copies
    <3>2. wish[r].status = "cancelled" => cancel'[r] = "cancelled"
      BY <2>4 DEF CancelWrite, TypeInv, AsyncTypeOK
    <3> QED
      BY <2>4, <3>1, <3>2 DEF Open, CancelledUnderWay
  <2>5. ASSUME NEW u \in Worker, Writes(u), job[u] = r, row'[r] = copy[u]
        PROVE  row'[r].status = "running"
    <3>1. u = w
      BY <1>1, <1>3, <2>5 DEF Claimed, Writes, Executes, Executing
    <3>2. pc[u] \in {"starting", "stepping"}
      BY <2>5, <3>1 DEF Writes, Goes, Executes, Executing, Saving, TypeInv,
         AsyncTypeOK
    <3> QED
      BY <2>5, <3>2 DEF Writes, Copies
  <2> QED
    BY <2>1, <2>3, <2>4, <2>5, StatusStep DEF Open, CancelledUnderWay
<1> QED
  BY <1>2, <1>3

\* What a worker writes, and what cancelRun writes, over an outcome.
LEMMA OutcomeStep ==
    ASSUME TypeInv, Copies, Claimed, Working, [Next]_vars, NEW r \in Run,
           row[r].status \in Ended, row'[r].status # row[r].status
    PROVE  \/ "claim" \in excuse[r]
           \/ cancel[r] = "read" /\ cancel'[r] # "read"
           \/ {row[r].status, cancel[r]} = {"cancelled"} /\ row[r].owner # None
<1>1. \/ CancelWrite(r)
      \/ \E w \in Worker : Writes(w) /\ job[w] = r
  BY StatusStep DEF Ended
<1>2. ASSUME NEW w \in Worker, Writes(w), job[w] = r, "claim" \notin excuse[r]
      PROVE  {row[r].status, cancel[r]} = {"cancelled"} /\ row[r].owner # None
  <2>1. Executes(w, r)
    BY <1>2 DEF Writes, Executes, Executing
  <2>2. CancelledUnderWay(r)
    BY <1>2, <2>1 DEF Working, Open, Ended
  <2>3. row[r].owner # None
    BY <1>2, <2>1, AsyncAssumption DEF Claimed
  <2> QED
    BY <2>2, <2>3 DEF CancelledUnderWay
<1>3. CancelWrite(r) => cancel[r] = "read" /\ cancel'[r] # "read"
  BY DEF CancelWrite, TypeInv, AsyncTypeOK
<1> QED
  BY <1>1, <1>2, <1>3
-----------------------------------------------------------------------------
IInv ==
    /\ TypeInv /\ Copies /\ Claimed /\ Locked /\ Held /\ Keyed /\ Launches
    /\ Working

LEMMA Initially == Init => IInv
<1> SUFFICES ASSUME Init PROVE IInv
  OBVIOUS
<1> USE DEF Init, Run
<1>1. NoRow \in Row /\ 1 \in 1..Last
  BY LastIsNat DEF NoRow, Row, Last
<1>2. PICK s \in Scenario :
         /\ sub = [q \in Request |-> IF q \in s.made THEN "new" ELSE "closed"]
         /\ cancel = [r \in Run |-> IF r \in s.cancelled THEN "new" ELSE "late"]
         /\ faults = s.faults
  OBVIOUS
<1>3. faults \in Nat
  BY <1>2, AsyncAssumption
<1>4. AsyncTypeOK
  BY <1>1, <1>2, <1>3 DEF AsyncTypeOK
<1>5. Jobs /\ Claimed /\ Locked /\ Held /\ Working
  BY DEF Jobs, Busy, Claimed, Executes, Executing, Saving, Locked, Held, Working
<1>6. Copies
  BY <1>2 DEF Copies, Executing, Saving
<1>7. \A r \in Run : row[r].status = "absent"
  BY DEF NoRow
<1>8. Keyed
  BY <1>2, <1>7 DEF Keyed, Present
<1>9. Launches
  BY DEF Launches
<1> QED
  BY <1>4, <1>5, <1>6, <1>8, <1>9 DEF IInv, TypeInv

\* The async lab's state is well typed, and every part of the invariant holds
\* after every step of any number of processes.
THEOREM LabInvariant == Spec => []IInv
<1>1. IInv /\ [Next]_vars => IInv'
  BY TypedStep, CopiesStep, ClaimedStep, LockedStep, HeldStep, KeyedStep,
     LaunchesStep, WorkingStep DEF IInv
<1> QED
  BY Initially, <1>1, PTL DEF Spec

\* processRun's two guards (service.js:970, 979): two workers execute a run at
\* a time only if its lock and its claim have both been broken.
THEOREM ExecutedByOne == Spec => []OneExecutor
<1>1. IInv => OneExecutor
  BY GuardsExclude DEF IInv
<1> QED
  BY LabInvariant, <1>1, PTL

\* acquireTargetLock (service.js:1039): runs work on one target one at a time
\* unless the lock of one of them ran out or Valkey was lost meanwhile.
THEOREM TargetsApart == Spec => []TargetExclusive
<1>1. IInv => TargetExclusive
  <2> SUFFICES ASSUME IInv, NEW u \in Worker, NEW v \in Worker, u # v,
                      pc[u] \in {"plan", "stepping", "tool"},
                      pc[v] \in {"plan", "stepping", "tool"},
                      Target[job[u]] = Target[job[v]],
                      "target" \notin excuse[job[u]], "target" \notin excuse[job[v]]
               PROVE  FALSE
    BY DEF TargetExclusive
  <2>1. held[u] /\ held[v]
    BY DEF IInv, Held
  <2>2. <<u, job[u]>> = <<v, job[v]>>
    BY <2>1 DEF IInv, Held
  <2> QED
    BY <2>2
<1> QED
  BY LabInvariant, <1>1, PTL

\* createRun (service.js:772, 843): requests with one idempotency key are
\* answered with one run, which exists, however they overlap.
THEOREM OneAnswer == Spec => []AnsweredAlike
<1>1. IInv => AnsweredAlike
  <2> SUFFICES ASSUME IInv, NEW q \in Request, NEW s \in Request, reply[q] # None
               PROVE  /\ row[reply[q]].status # "absent"
                      /\ Key[q] # None /\ Key[q] = Key[s] =>
                            /\ reply[s] \in {None, reply[q]}
                            /\ s # reply[q] => row[s].status = "absent"
    BY DEF AnsweredAlike
  <2>1. reply[q] \in Run /\ (reply[s] # None => reply[s] \in Run) /\ s \in Run
    BY DEF IInv, TypeInv, AsyncTypeOK, Run
  <2>2. Present(reply[q]) /\ Key[reply[q]] = Key[q]
    BY DEF IInv, Keyed
  <2>3. reply[s] # None => Present(reply[s]) /\ Key[reply[s]] = Key[s]
    BY DEF IInv, Keyed
  <2>4. \A a, b \in Run :
           Present(a) /\ Present(b) /\ Key[a] = Key[b] /\ Key[a] # None => a = b
    BY DEF IInv, Keyed
  <2> QED
    BY <2>1, <2>2, <2>3, <2>4 DEF Present
<1> QED
  BY LabInvariant, <1>1, PTL

\* executeLabRun (service.js:1118): an adapter is launched again only after a
\* crash or a failure of its worker, or when both guards were broken.
THEOREM LaunchedOncePerRun == Spec => []LaunchedOnce
<1>1. IInv => LaunchedOnce
  BY DEF IInv, Launches, Broken, LaunchedOnce, TypeInv, AsyncTypeOK
<1> QED
  BY LabInvariant, <1>1, PTL

\* cancelRun, updateRun (service.js:905, store.js:263): a run that has ended
\* keeps its outcome unless its claim was broken, by no other step than the late
\* write of its cancellation, and what a worker that holds it writes after that.
THEOREM OutcomesLast == Spec => OutcomeLasts
<1>1. IInv /\ [Next]_vars =>
        [\A r \in Run :
            row[r].status \in Ended /\ row'[r].status # row[r].status =>
                \/ "claim" \in excuse[r]
                \/ cancel[r] = "read" /\ cancel'[r] # "read"
                \/ /\ row[r].status = "cancelled" /\ cancel[r] = "cancelled"
                   /\ row[r].owner # None]_vars
  BY OutcomeStep DEF IInv
<1> QED
  BY LabInvariant, <1>1, PTL DEF Spec, OutcomeLasts
=============================================================================
